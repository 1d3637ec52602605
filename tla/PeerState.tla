------------------------------ MODULE PeerState -----------------------------
(***************************************************************************)
(* A TCPPeer (src/util/tcp_peer.hh): a sender with its outbound stream and *)
(* a receiver with its reassembler and inbound stream, as functions of one *)
(* record, and collect_segments of its socket                              *)
(* (src/util/tcp_minnow_socket.cc), which sends all that a peer has ready. *)
(***************************************************************************)
EXTENDS SenderState, ReceiverState

NewPeer(isn, sendCapacity, recvCapacity) ==
    [snd |-> NewSender(isn), isn |-> None, asm |-> EmptyAssembly,
     outbound |-> EmptyStream(sendCapacity),
     inbound |-> EmptyStream(recvCapacity),
     need_send_ |-> FALSE]

has_ackno(p) == p.isn # None

\* Mutant: what is in flight does not keep the connection alive.
ActiveUnacked(p) ==
    ~p.inbound.error /\ (~Finished(p.outbound) \/ ~p.inbound.closed)

active(p) ==
    /\ ~p.inbound.error
    /\ \/ ~Finished(p.outbound)
       \/ ~p.inbound.closed
       \/ p.snd.seqnums_in_flight_ > 0

push(p) ==
    IF CanPush(p.snd)
    THEN [p EXCEPT !.snd = SenderAfterPush(p.snd, p.outbound),
                   !.outbound = StreamAfterPush(p.snd, p.outbound)]
    ELSE p

\* tick with the timer expired: the oldest outstanding message is queued.
retransmit(p) == [p EXCEPT !.snd = Requeue(@)]

-----------------------------------------------------------------------------
\* receive

\* TCPSender::receive
SenderReceive(snd, ackno, window) ==
    IF ackno = None \/ ~Acceptable(snd, ackno) THEN SetWindow(snd, window)
    ELSE LET k == CHOOSE k \in 0 .. Len(snd.outstanding_) : Acks(snd, ackno, k)
         IN  SetWindow(DropAcked(snd, k), window)

\* TCPReceiver::receive
ReceiverReceive(p, msg) ==
    LET isn   == IsnAfter(p.isn, msg)
        first == FirstIndex(isn, msg, p.inbound)
        next  == CHOOSE n \in p.inbound.pushed .. WindowEnd(p.inbound) :
                    Reaches(p.asm, p.inbound, first, msg.len, n)
    IN  IF Reassembles(isn, msg, p.inbound)
        THEN [p EXCEPT
                !.isn = isn,
                !.asm = AssemblyAfter(@, p.inbound, first, msg.len, msg.FIN, next),
                !.inbound = StreamAfter(p.asm, @, first, msg.len, msg.FIN, next)]
        ELSE [p EXCEPT !.isn = isn]

\* A reply is owed to a segment that occupies sequence numbers, and to a
\* keep-alive: one that repeats the number before the next expected.
AsksReply(p, msg) ==
    \/ sequence_length(msg) > 0
    \/ has_ackno(p) /\ (msg.seqno + 1) % M = Ackno(p.isn, p.inbound)

\* The sender's part and the receiver's part touch different fields.
receive(p, seg) ==
    IF seg.reset \/ p.inbound.error THEN [p EXCEPT !.inbound = FailStream(@)]
    ELSE [ReceiverReceive(p, seg.msg) EXCEPT
            !.snd = SenderReceive(@, seg.ackno, seg.window),
            !.need_send_ = @ \/ AsksReply(p, seg.msg)]

-----------------------------------------------------------------------------
\* maybe_send and collect_segments

\* A TCPSegment: a message of the sender beside one of the receiver.
Envelope(p, msg) ==
    [msg |-> msg, ackno |-> Ackno(p.isn, p.inbound), window |-> Window(p.inbound),
     reset |-> p.outbound.error \/ p.inbound.error]

\* A peer that has heard from the other one pushes first.
Pushes(p) == IF has_ackno(p) THEN push(p) ELSE p

\* collect_segments calls maybe_send until it returns nothing; only the first
\* push finds something to do.  The segments that it gets from a peer after
\* this push, and what it leaves of the peer.
Collected(p) ==
    IF HasMessage(p.snd)
    THEN {Envelope(p, p.snd.ready_to_send_[i]) : i \in DOMAIN p.snd.ready_to_send_}
    ELSE IF p.need_send_ THEN {Envelope(p, EmptyMessage(p.snd))} ELSE {}

AfterCollect(p) == [p EXCEPT !.snd.ready_to_send_ = <<>>, !.need_send_ = FALSE]
=============================================================================
