---------------------------- MODULE StreamState -----------------------------
(***************************************************************************)
(* A ByteStream as its users see it (src/src/byte_stream.hh): counters and *)
(* flags.  A byte is its index in the stream, so the bytes in the buffer   *)
(* are popped .. pushed - 1 and need no variable of their own.  ByteStream *)
(* keeps the queue of strings and is shown to implement this view.         *)
(***************************************************************************)
EXTENDS Integers

One(flag) == IF flag THEN 1 ELSE 0

\* Mutant: the larger of the two.
AtLeast(n, limit) == IF n <= limit THEN limit ELSE n

\* std::min
AtMost(n, limit) == IF n <= limit THEN n ELSE limit

EmptyStream(capacity) ==
    [capacity |-> capacity, pushed |-> 0, popped |-> 0,
     closed |-> FALSE, error |-> FALSE]

Buffered(s)  == s.pushed - s.popped
Available(s) == s.capacity - Buffered(s)
Finished(s)  == s.closed /\ Buffered(s) = 0

\* What push keeps of n bytes: the tail beyond the capacity is dropped.
Fitting(s, n) == AtMost(n, Available(s))

PushTo(s, n)    == [s EXCEPT !.pushed = @ + Fitting(s, n)]
CloseStream(s)  == [s EXCEPT !.closed = TRUE]
FailStream(s)   == [s EXCEPT !.error = TRUE]
PopFrom(s, n)   == [s EXCEPT !.popped = @ + n]

StreamType ==
    [capacity : Nat, pushed : Nat, popped : Nat,
     closed : BOOLEAN, error : BOOLEAN]

\* The counters of a stream never cross, and never differ by more than the
\* capacity.
StreamOK(s) ==
    /\ s \in StreamType
    /\ s.popped <= s.pushed
    /\ s.pushed <= s.popped + s.capacity
=============================================================================
