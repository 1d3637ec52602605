------------------------------- MODULE Stream -------------------------------
(***************************************************************************)
(* What a ByteStream promises: a bounded FIFO of bytes.  Bytes go in at    *)
(* `pushed' while there is room and come out at `popped', each once and in *)
(* order; closing and failing are flags that nothing takes back.           *)
(***************************************************************************)
EXTENDS StreamState

CONSTANT Capacity

VARIABLES
    stream,     \* the stream's counters and flags
    taken       \* the bytes the last read returned: [from, to)

streamVars == <<stream, taken>>

\* The bytes from .. to - 1; every empty range is the same.
Span(from, to) ==
    IF from = to THEN [from |-> 0, to |-> 0] ELSE [from |-> from, to |-> to]

Init == /\ stream = EmptyStream(Capacity)
        /\ taken = Span(0, 0)

Write == /\ \E n \in 1 .. Available(stream) : stream' = PushTo(stream, n)
         /\ UNCHANGED taken

Close == /\ stream' = CloseStream(stream)
         /\ UNCHANGED taken

Fail == /\ stream' = FailStream(stream)
        /\ UNCHANGED taken

Discard == /\ \E n \in 1 .. Buffered(stream) : stream' = PopFrom(stream, n)
           /\ UNCHANGED taken

Take == \E n \in 0 .. Buffered(stream) :
          /\ stream' = PopFrom(stream, n)
          /\ taken' = Span(stream.popped, stream.popped + n)

Next == Write \/ Close \/ Fail \/ Discard \/ Take

Spec == Init /\ [][Next]_streamVars
=============================================================================
