---------------------------- MODULE MCTCPSender -----------------------------
(***************************************************************************)
(* TLC instance of TCPSender, and the loops of push and receive written    *)
(* out statement by statement as the reference for their closed forms.     *)
(***************************************************************************)
EXTENDS TCPSender

\* One test and one round of while (seqnums_in_flight_ < available_win_sz)
\* { ... } of push, with the stream beside the sender; each round makes one
\* message or leaves the loop.
PushRound(at) ==
    LET s    == at.snd
        room == Room(s)
        syn  == ~s.syn_
        len  == AtMost(Buffered(at.stream), AtMost(MaxPayload, room - One(syn)))
        rest == PopFrom(at.stream, len)
        fin  == Finished(rest) /\ One(syn) + len < room /\ ~s.fin_
        msg  == Message(Wrap(s.seqnums_sent_, s.isn_), syn, at.stream.popped, len, fin)
        size == sequence_length(msg)
        sent == [s EXCEPT !.syn_ = TRUE,
                          !.fin_ = @ \/ fin,
                          !.seqnums_in_flight_ = @ + size,
                          !.seqnums_sent_ = @ + size,
                          !.outstanding_ = Append(@, msg),
                          !.ready_to_send_ = Append(@, msg)]
    IN  IF ~at.looping \/ room <= 0 \/ size = 0
        THEN [snd |-> s, stream |-> at.stream, looping |-> FALSE]
        ELSE [snd |-> sent, stream |-> rest, looping |-> ~fin /\ Buffered(rest) > 0]

\* A round that goes on has sent something, so that the loop is left, by its
\* condition or by a break, in the round after Room(snd) at the latest.
PushLoop ==
    LET Round[k \in 0 .. Room(snd) + 1] ==
            IF k = 0 THEN [snd |-> snd, stream |-> outbound, looping |-> TRUE]
            ELSE PushRound(Round[k - 1])
    IN  Round[Room(snd) + 1]

\* One test and one round of while (!outstanding_.empty()) { ... } of receive.
AckRound(at, absolute_ackno) ==
    LET s == at.snd
    IN  IF ~at.looping \/ s.outstanding_ = <<>> \/ EndOf(s, 1) > absolute_ackno
        THEN [snd |-> s, looping |-> FALSE]
        ELSE [snd |-> [s EXCEPT !.seqnums_in_flight_ = @ - sequence_length(Head(s.outstanding_)),
                                !.outstanding_ = Tail(@)],
              looping |-> TRUE]

\* A round that goes on has dropped a message.
AckLoop(absolute_ackno) ==
    LET Round[k \in 0 .. Len(snd.outstanding_) + 1] ==
            IF k = 0 THEN [snd |-> snd, looping |-> TRUE]
            ELSE AckRound(Round[k - 1], absolute_ackno)
    IN  Round[Len(snd.outstanding_) + 1]

\* In every reachable state, a push and the receipt of any acceptable ackno do
\* to the sender and the stream what the loops in the code do, and both loops
\* end.
LoopsMatch ==
    /\ CanPush(snd) =>
         PushLoop = [snd     |-> SenderAfterPush(snd, outbound),
                     stream  |-> StreamAfterPush(snd, outbound),
                     looping |-> FALSE]
    /\ \A ackno \in Raw : Acceptable(snd, ackno) =>
         \E k \in 0 .. Len(snd.outstanding_) :
            /\ Acks(snd, ackno, k)
            /\ AckLoop(AbsoluteAckno(snd, ackno)) = [snd |-> DropAcked(snd, k), looping |-> FALSE]
=============================================================================
