----------------------------- MODULE ByteStream -----------------------------
(***************************************************************************)
(* The ByteStream of src/src/byte_stream.cc: a queue of strings with       *)
(* counters beside it, a Writer that truncates what does not fit, and a    *)
(* Reader that pops whole strings and erases the front of the last one.    *)
(* A string is a chunk [lo, hi): the bytes lo .. hi - 1 of the stream.     *)
(***************************************************************************)
EXTENDS Integers, Sequences

CONSTANTS
    Capacity,    \* capacity_
    MaxString,   \* the longest string handed to push, the longest read
    MaxBytes     \* bound: no push starts once this many bytes are in

VARIABLES
    buffer_,         \* the queue of strings
    bytes_pushed_, bytes_popped_, bytes_buffered_,
    is_closed_, has_error_,
    out              \* what the last read() returned, string by string

vars == <<buffer_, bytes_pushed_, bytes_popped_, bytes_buffered_,
          is_closed_, has_error_, out>>

ASSUME ByteStreamAssumption ==
    /\ Capacity \in Nat
    /\ MaxString \in Nat
    /\ MaxBytes \in Nat

Chunk == [lo : Nat, hi : Nat]

available_capacity == Capacity - bytes_buffered_

Init ==
    /\ buffer_ = <<>>
    /\ bytes_pushed_ = 0 /\ bytes_popped_ = 0 /\ bytes_buffered_ = 0
    /\ is_closed_ = FALSE /\ has_error_ = FALSE
    /\ out = <<>>

-----------------------------------------------------------------------------
\* Writer

\* How many bytes of a string of n push keeps.
Kept(n) == IF available_capacity < n THEN available_capacity ELSE n

push(n) ==
    /\ n > 0 /\ available_capacity > 0
    /\ bytes_pushed_ < MaxBytes
    /\ bytes_pushed_' = bytes_pushed_ + Kept(n)
    /\ bytes_buffered_' = bytes_buffered_ + Kept(n)
    /\ buffer_' = Append(buffer_, [lo |-> bytes_pushed_,
                                   hi |-> bytes_pushed_ + Kept(n)])
    /\ UNCHANGED <<bytes_popped_, is_closed_, has_error_, out>>

close ==
    /\ is_closed_' = TRUE
    /\ UNCHANGED <<buffer_, bytes_pushed_, bytes_popped_, bytes_buffered_,
                   has_error_, out>>

set_error ==
    /\ has_error_' = TRUE
    /\ UNCHANGED <<buffer_, bytes_pushed_, bytes_popped_, bytes_buffered_,
                   is_closed_, out>>

-----------------------------------------------------------------------------
\* Reader

is_finished == is_closed_ /\ bytes_buffered_ = 0

\* The size of the first i strings together.  The chunks in the queue follow
\* each other without a gap, so it is a difference of two ends.
Prefix(i) == IF i = 0 THEN 0 ELSE buffer_[i].hi - buffer_[1].lo

\* The while loop of pop(len) leaves the queue after k whole strings.
PopsWhole(k, len) ==
    /\ \A i \in 1 .. k : Prefix(i) <= len
    /\ k < Len(buffer_) => Prefix(k + 1) > len

\* pop without the erase of a partly read front string.
SuffixUncut(k, cut) ==
    [i \in 1 .. (Len(buffer_) - k) |-> buffer_[k + i]]

\* pop where the erase removes one byte too many.
SuffixOvercut(k, cut) ==
    [i \in 1 .. (Len(buffer_) - k) |->
        [lo |-> buffer_[k + i].lo + (IF i = 1 /\ cut > 0 THEN cut + 1 ELSE 0),
         hi |-> buffer_[k + i].hi]]

\* The queue without its first k strings, and without the first cut bytes of
\* the string that is then in front.
Suffix(k, cut) ==
    [i \in 1 .. (Len(buffer_) - k) |->
        [lo |-> buffer_[k + i].lo + (IF i = 1 THEN cut ELSE 0),
         hi |-> buffer_[k + i].hi]]

AfterPop(k, len) == Suffix(k, len - Prefix(k))

\* A read that copies the whole front string although fewer bytes are asked.
CopiedWhole(k, len) ==
    [i \in 1 .. (IF len > Prefix(k) THEN k + 1 ELSE k) |-> buffer_[i]]

\* The strings a read of len bytes copies: the first k whole, then a piece of
\* the next.
Copied(k, len) ==
    [i \in 1 .. (IF len > Prefix(k) THEN k + 1 ELSE k) |->
        [lo |-> buffer_[i].lo,
         hi |-> IF i <= k THEN buffer_[i].hi
                ELSE buffer_[i].lo + (len - Prefix(k))]]

\* pop where the counter goes down by whole strings.
DequeueWhole(k, len) ==
    /\ bytes_popped_' = bytes_popped_ + len
    /\ bytes_buffered_' = bytes_buffered_ -
         (IF k < Len(buffer_) THEN Prefix(k + 1) ELSE Prefix(k))
    /\ buffer_' = AfterPop(k, len)
    /\ UNCHANGED <<bytes_pushed_, is_closed_, has_error_>>

\* The counters and the queue after len bytes have left it.
Dequeue(k, len) ==
    /\ bytes_popped_' = bytes_popped_ + len
    /\ bytes_buffered_' = bytes_buffered_ - len
    /\ buffer_' = AfterPop(k, len)
    /\ UNCHANGED <<bytes_pushed_, is_closed_, has_error_>>

\* A pop of more than is buffered throws and changes nothing.
pop(len) ==
    /\ len > 0 /\ len <= bytes_buffered_
    /\ \E k \in 0 .. Len(buffer_) : PopsWhole(k, len) /\ Dequeue(k, len)
    /\ UNCHANGED out

\* read (byte_stream_helpers.cc): peek and pop until len bytes are out or
\* nothing is buffered.
Wanted(len) == IF len < bytes_buffered_ THEN len ELSE bytes_buffered_

read(len) ==
    \E k \in 0 .. Len(buffer_) :
        /\ PopsWhole(k, Wanted(len))
        /\ Dequeue(k, Wanted(len))
        /\ out' = Copied(k, Wanted(len))

-----------------------------------------------------------------------------
Next ==
    \/ \E n \in 1 .. MaxString : push(n)
    \/ close
    \/ set_error
    \/ \E len \in 1 .. MaxString : pop(len)
    \/ \E len \in 0 .. MaxString : read(len)

Spec == Init /\ [][Next]_vars

-----------------------------------------------------------------------------
\* Properties

\* The variables hold values of the C++ types.
TypeOK ==
    /\ buffer_ \in Seq(Chunk)
    /\ bytes_pushed_ \in Nat /\ bytes_popped_ \in Nat /\ bytes_buffered_ \in Nat
    /\ is_closed_ \in BOOLEAN /\ has_error_ \in BOOLEAN
    /\ out \in Seq(Chunk)

\* A sequence of non-empty chunks that covers from .. to - 1 without a gap.
Covers(chunks, from, to) ==
    /\ \A i \in 1 .. Len(chunks) : chunks[i].lo < chunks[i].hi
    /\ \A i \in 1 .. (Len(chunks) - 1) : chunks[i].hi = chunks[i + 1].lo
    /\ IF Len(chunks) = 0 THEN from = to
       ELSE chunks[1].lo = from /\ chunks[Len(chunks)].hi = to

\* The three counters that push and pop keep separately from the queue agree
\* with each other and with it: the queue holds the bytes pushed and not yet
\* popped, in order, none twice and none missing, in no empty string (so pop's
\* loop and read never meet one), and never more than the capacity.
BufferIsUnread ==
    /\ bytes_buffered_ = bytes_pushed_ - bytes_popped_
    /\ bytes_buffered_ <= Capacity
    /\ Covers(buffer_, bytes_popped_, bytes_pushed_)

\* The bytes the last read returned are a run of bytes in stream order that
\* has left the buffer.
OutIsARun ==
    Len(out) > 0 => /\ Covers(out, out[1].lo, out[Len(out)].hi)
                    /\ out[Len(out)].hi <= bytes_popped_

\* The queue of strings implements the bounded FIFO of bytes.
Abstract == INSTANCE Stream WITH
    stream <- [capacity |-> Capacity, pushed |-> bytes_pushed_,
               popped |-> bytes_popped_, closed |-> is_closed_,
               error |-> has_error_],
    taken  <- IF Len(out) = 0 THEN [from |-> 0, to |-> 0]
              ELSE [from |-> out[1].lo, to |-> out[Len(out)].hi]

\* Every behaviour of the chunked buffer is one of the abstract stream: what
\* is read is exactly what was pushed, in order, each byte once.
ImplementsStream == Abstract!Spec
=============================================================================
