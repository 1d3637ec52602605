---------------------------- MODULE MCByteStream ----------------------------
(***************************************************************************)
(* TLC instance of ByteStream, and the loops of pop and read written out   *)
(* statement by statement as the reference for their closed forms.         *)
(***************************************************************************)
EXTENDS ByteStream

Size(c) == c.hi - c.lo

\* One round of while (len >= front.size() && !empty) { len -= front.size();
\* pop(); }; a round in which the condition is false changes nothing.
PopRound(at) ==
    IF at.queue # <<>> /\ at.len >= Size(Head(at.queue))
    THEN [queue |-> Tail(at.queue), len |-> at.len - Size(Head(at.queue))]
    ELSE at

\* The loop, which every round that goes on shortens the queue, and then
\* front.erase(0, len) when len > 0.
PopLoop(queue, len) ==
    LET Round[k \in 0 .. Len(queue)] ==
            IF k = 0 THEN [queue |-> queue, len |-> len] ELSE PopRound(Round[k - 1])
        end == Round[Len(queue)]
    IN  IF end.len > 0
        THEN <<[lo |-> Head(end.queue).lo + end.len, hi |-> Head(end.queue).hi]>>
               \o Tail(end.queue)
        ELSE end.queue

\* One round of while (bytes_buffered and out.size() < len) { copy at most
\* len - out.size() bytes of the front string; pop them; }.  left is what
\* out.size() has still to grow.
ReadRound(at) ==
    LET front == Head(at.queue)
        n     == IF Size(front) <= at.left THEN Size(front) ELSE at.left
    IN  IF at.buffered = 0 \/ at.left = 0 THEN at
        ELSE [queue    |-> PopLoop(at.queue, n),
              buffered |-> at.buffered - n,
              copied   |-> Append(at.copied, [lo |-> front.lo, hi |-> front.lo + n]),
              left     |-> at.left - n]

\* A round that goes on empties the front string or is the last.
ReadLoop(len) ==
    LET Round[k \in 0 .. Len(buffer_)] ==
            IF k = 0 THEN [queue |-> buffer_, buffered |-> bytes_buffered_,
                           copied |-> <<>>, left |-> len]
            ELSE ReadRound(Round[k - 1])
    IN  Round[Len(buffer_)]

\* In every reachable state the loops of pop and read, run on the actual queue
\* for every length that is buffered and, for read, for more, remove and copy
\* what the actions say, whichever string the length ends in; and
\* bytes_buffered_ is the size of the strings together.
PopAndReadFollowTheLoops ==
    /\ LET Sum[i \in 0 .. Len(buffer_)] ==
               IF i = 0 THEN 0 ELSE Sum[i - 1] + Size(buffer_[i])
       IN  bytes_buffered_ = Sum[Len(buffer_)]
    /\ \A len \in 0 .. bytes_buffered_ + 1 :
         \E k \in 0 .. Len(buffer_) :
            /\ PopsWhole(k, Wanted(len))
            /\ AfterPop(k, Wanted(len)) = PopLoop(buffer_, Wanted(len))
            /\ ReadLoop(len) = [queue    |-> AfterPop(k, Wanted(len)),
                                buffered |-> bytes_buffered_ - Wanted(len),
                                copied   |-> Copied(k, Wanted(len)),
                                left     |-> len - Wanted(len)]
=============================================================================
