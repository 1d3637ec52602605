---------------------------- MODULE SenderState -----------------------------
(***************************************************************************)
(* The TCPSender of src/src/tcp_sender.cc without its clock: what push,    *)
(* receive, maybe_send and a retransmission do to the fields, as functions *)
(* of the sender's record and of the outbound stream it reads from.  The   *)
(* loops of push and receive are given in closed form; MCTCPSender states  *)
(* them statement by statement, TLC compares the two and TCPProofs proves  *)
(* them equal.                                                             *)
(***************************************************************************)
EXTENDS Wrap32, StreamState, Sequences

CONSTANT MaxPayload     \* TCPConfig::MAX_PAYLOAD_SIZE

ASSUME PayloadAssumption == MaxPayload \in Nat /\ MaxPayload > 0

\* A TCPSenderMessage; the payload is the bytes first .. first + len - 1 of
\* the outbound stream.
Message(seqno, syn, first, len, fin) ==
    [seqno |-> seqno, SYN |-> syn, first |-> first, len |-> len, FIN |-> fin]

sequence_length(msg) == One(msg.SYN) + msg.len + One(msg.FIN)

\* Where a message begins and ends in absolute sequence numbers, told from the
\* bytes it carries: the SYN is number 0, byte i of the stream is number i + 1.
Abs(msg)    == IF msg.SYN THEN 0 ELSE msg.first + 1
AbsEnd(msg) == Abs(msg) + sequence_length(msg)

NewSender(isn) ==
    [isn_ |-> isn, syn_ |-> FALSE, fin_ |-> FALSE, window_size_ |-> 1,
     seqnums_sent_ |-> 0, seqnums_in_flight_ |-> 0,
     outstanding_ |-> <<>>, ready_to_send_ |-> <<>>]

-----------------------------------------------------------------------------
\* push

\* Mutant: a window of zero is taken as it is.
UsableUnprobed(window) == window

\* A window of zero is probed as if it were one.
Usable(window) == IF window = 0 THEN 1 ELSE window

Room(snd) == Usable(snd.window_size_) - snd.seqnums_in_flight_

\* How many bytes one push takes from the stream, a SYN counted first.
\* Mutant: the SYN does not count against the window.
BytesBesideSyn(snd, s) == AtMost(Buffered(s), Room(snd))

Bytes(snd, s) == AtMost(Buffered(s), Room(snd) - One(~snd.syn_))

\* Mutant: the FIN goes out when the stream is closed, data left or not.
FinishesEarly(snd, s) ==
    /\ s.closed /\ ~snd.fin_
    /\ Bytes(snd, s) < Room(snd) - One(~snd.syn_) \/ Buffered(s) > 0

\* The FIN goes out with the last byte if the window has room for it, and
\* only once.
Finishes(snd, s) ==
    /\ s.closed /\ ~snd.fin_
    /\ Bytes(snd, s) = Buffered(s)
    /\ Bytes(snd, s) < Room(snd) - One(~snd.syn_)

\* One message per MaxPayload bytes; a SYN or a FIN alone is a message too.
Count(snd, s) ==
    IF Bytes(snd, s) > 0 THEN ((Bytes(snd, s) - 1) \div MaxPayload) + 1
    ELSE One(~snd.syn_ \/ Finishes(snd, s))

\* The i-th message: only the first can carry the SYN, only the last the FIN.
Pushed(snd, s) ==
    [i \in 1 .. Count(snd, s) |->
        LET skip == (i - 1) * MaxPayload
            syn  == i = 1 /\ ~snd.syn_
        IN  Message(Wrap(snd.seqnums_sent_ + (IF i = 1 THEN 0 ELSE One(~snd.syn_)) + skip,
                         snd.isn_),
                    syn,
                    s.popped + skip,
                    AtMost(Bytes(snd, s) - skip, MaxPayload),
                    i = Count(snd, s) /\ Finishes(snd, s))]

SeqnumsPushed(snd, s) ==
    One(~snd.syn_) + Bytes(snd, s) + One(Finishes(snd, s))

\* The loop body runs at all.
CanPush(snd) == Room(snd) > 0

SenderAfterPush(snd, s) ==
    [snd EXCEPT !.syn_ = TRUE,
                !.fin_ = @ \/ Finishes(snd, s),
                !.seqnums_sent_ = @ + SeqnumsPushed(snd, s),
                !.seqnums_in_flight_ = @ + SeqnumsPushed(snd, s),
                !.outstanding_ = @ \o Pushed(snd, s),
                !.ready_to_send_ = @ \o Pushed(snd, s)]

StreamAfterPush(snd, s) == PopFrom(s, Bytes(snd, s))

-----------------------------------------------------------------------------
\* receive

SetWindow(snd, window) == [snd EXCEPT !.window_size_ = window]

AbsoluteAckno(snd, ackno) == Unwrap(ackno, snd.isn_, snd.seqnums_sent_)

\* An ackno beyond what was sent is impossible.
Acceptable(snd, ackno) == AbsoluteAckno(snd, ackno) <= snd.seqnums_sent_

\* Where the i-th outstanding message begins and ends.
Begin(snd, i) == Unwrap(snd.outstanding_[i].seqno, snd.isn_, snd.seqnums_sent_)
EndOf(snd, i) == Begin(snd, i) + sequence_length(snd.outstanding_[i])

\* The first k outstanding messages are the ones acknowledged in full.
\* Mutant: a message is dropped when the ackno reaches where it begins.
AcksBegun(snd, ackno, k) ==
    /\ \A i \in 1 .. k : Begin(snd, i) <= AbsoluteAckno(snd, ackno)
    /\ k < Len(snd.outstanding_) => Begin(snd, k + 1) > AbsoluteAckno(snd, ackno)

Acks(snd, ackno, k) ==
    /\ \A i \in 1 .. k : EndOf(snd, i) <= AbsoluteAckno(snd, ackno)
    /\ k < Len(snd.outstanding_) => EndOf(snd, k + 1) > AbsoluteAckno(snd, ackno)

\* Their lengths together.  The outstanding messages follow each other without
\* a gap, so it is the distance from the first to the k-th one's end.
\* Mutant: only the length of the last of them.
AckedLast(snd, k) == IF k = 0 THEN 0 ELSE sequence_length(snd.outstanding_[k])

Acked(snd, k) == IF k = 0 THEN 0 ELSE EndOf(snd, k) - Begin(snd, 1)

\* Mutant: the total in flight is not reduced.
DropUncounted(snd, k) == [snd EXCEPT !.outstanding_ = SubSeq(@, k + 1, Len(@))]

DropAcked(snd, k) ==
    [snd EXCEPT !.seqnums_in_flight_ = @ - Acked(snd, k),
                !.outstanding_ = SubSeq(@, k + 1, Len(@))]

-----------------------------------------------------------------------------
\* maybe_send, send_empty_message, and the re-queueing of tick

HasMessage(snd) == snd.ready_to_send_ # <<>>
NextMessage(snd) == Head(snd.ready_to_send_)
WithoutNext(snd) == [snd EXCEPT !.ready_to_send_ = Tail(@)]

EmptyMessage(snd) == Message(Wrap(snd.seqnums_sent_, snd.isn_), FALSE, 0, 0, FALSE)

Requeue(snd) ==
    [snd EXCEPT !.ready_to_send_ = Append(@, Head(snd.outstanding_))]
=============================================================================
