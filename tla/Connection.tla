----------------------------- MODULE Connection -----------------------------
(***************************************************************************)
(* Two TCPPeers in the event loops of their sockets                        *)
(* (src/util/tcp_minnow_socket.cc), over a network that delays, reorders,  *)
(* duplicates and loses segments.  Every event handler runs to its end     *)
(* with the collect_segments it finishes with.  How long a timeout takes   *)
(* is left open: a tick may or may not find the timer expired, and         *)
(* TCPSender has the timer itself.                                         *)
(***************************************************************************)
EXTENDS PeerState, FiniteSets

CONSTANTS
    Client, Server,      \* the two peers: who connects, who listens
    Isn,                 \* Isn[p]: the sequence number p starts with
    Total,               \* Total[p]: the bytes p's application writes
    SendCapacity, RecvCapacity,
    MaxInFlight,         \* bound, MaxInFlight[p]: segments the network holds for p
    Resets               \* the peers at which a segment with RST may arrive

Peers == {Client, Server}
Other(p) == IF p = Client THEN Server ELSE Client

ASSUME ConnectionAssumption ==
    /\ Client # Server
    /\ Isn \in [Peers -> Raw] /\ Total \in [Peers -> Nat]
    /\ SendCapacity \in Nat /\ RecvCapacity \in Nat
    /\ MaxInFlight \in [Peers -> Nat \ {0}]
    /\ Resets \subseteq Peers

VARIABLES
    peers,      \* see PeerState
    net,        \* net[p]: the segments that may arrive at p
    gone,       \* rules 2 and 3 are cancelled: p's application is gone
    overtook    \* history: a FIN reached p while the last byte was missing

vars == <<peers, net, gone, overtook>>

Init ==
    /\ peers = [p \in Peers |-> NewPeer(Isn[p], SendCapacity, RecvCapacity)]
    /\ net = [p \in Peers |-> {}]
    /\ gone = [p \in Peers |-> FALSE]
    /\ overtook = [p \in Peers |-> FALSE]

-----------------------------------------------------------------------------
\* The network (external)

\* A segment stays in the network when it is delivered, so it may arrive
\* again or later; it is lost when others take its place.  The network keeps
\* must of the segments that are handed to it.
Carry(p, segs, must) ==
    LET all == net[p] \union segs
    IN  \E kept \in SUBSET all :
          /\ Cardinality(kept) = AtMost(Cardinality(all), MaxInFlight[p])
          /\ must => segs \subseteq kept
          /\ net' = [net EXCEPT ![p] = kept]

\* The end of a handler that has turned the peer into q.  (A bound variable
\* with one value is evaluated once.)
FinishWith(p, q, must) ==
    \E r \in {Pushes(q)} :
        /\ peers' = [peers EXCEPT ![p] = AfterCollect(r)]
        /\ Carry(Other(p), Collected(r), must)

Finish(p, q) == FinishWith(p, q, FALSE)

-----------------------------------------------------------------------------
\* The handlers

Una(p) == p.snd.seqnums_sent_ - p.snd.seqnums_in_flight_

\* The loop of connect or listen_and_accept has ended: the SYN is acknowledged,
\* and the application runs until it is gone.
Connected(p) == Una(peers[p]) > 0 /\ ~gone[p]

\* TCPMinnowSocket::connect
connect ==
    /\ ~peers[Client].snd.syn_
    /\ Finish(Client, push(peers[Client]))
    /\ UNCHANGED <<gone, overtook>>

\* Rule 2, with bytes from the application.
write(p, n) ==
    LET peer == peers[p]
    IN  /\ Connected(p) /\ active(peer) /\ ~peer.outbound.closed
        /\ n <= Available(peer.outbound)
        /\ peer.outbound.pushed + n <= Total[p]
        /\ Finish(p, push([peer EXCEPT !.outbound = PushTo(@, n)]))
        /\ UNCHANGED <<gone, overtook>>

\* Rule 2, at the end of the application's stream.
shutdown(p) ==
    LET peer == peers[p]
    IN  /\ Connected(p) /\ active(peer) /\ ~peer.outbound.closed
        /\ Available(peer.outbound) > 0
        /\ Finish(p, push([peer EXCEPT !.outbound = CloseStream(@)]))
        /\ UNCHANGED <<gone, overtook>>

\* The application has closed its end with bytes of the inbound stream unread:
\* poll reports an error, and the event loop cancels rule 2, whose cancel
\* callback closes the outbound stream, and rule 3.
cancel(p) ==
    /\ Connected(p) /\ peers[p].inbound.popped > 0
    /\ peers' = [peers EXCEPT ![p].outbound = CloseStream(@)]
    /\ gone' = [gone EXCEPT ![p] = TRUE]
    /\ UNCHANGED <<net, overtook>>

\* Rule 3: bytes of the inbound stream go to the application.
read(p, n) ==
    /\ ~gone[p] /\ n <= Buffered(peers[p].inbound)
    /\ peers' = [peers EXCEPT ![p].inbound = PopFrom(@, n)]
    /\ UNCHANGED <<net, gone, overtook>>

\* The FIN of m is now known to p, the byte before it is not.
FinOvertakes(p, m) ==
    /\ m.FIN /\ p.asm.closing
    /\ m.first + m.len > 0
    /\ (m.first + m.len) - 1 \notin (0 .. (p.inbound.pushed - 1)) \union p.asm.held

\* Rule 1.
receive_segment(p, seg, must) ==
    /\ active(peers[p])
    /\ \E q \in {receive(peers[p], seg)} :
         /\ FinishWith(p, q, must)
         /\ overtook' = [overtook EXCEPT ![p] = @ \/ FinOvertakes(q, seg.msg)]
    /\ UNCHANGED gone

deliver(p) ==
    \E seg \in net[p] : receive_segment(p, seg, FALSE)

\* A segment with RST from outside; nothing else of it is looked at.
reset(p) ==
    /\ p \in Resets /\ active(peers[p])
    /\ Finish(p, receive(peers[p], [reset |-> TRUE]))
    /\ UNCHANGED <<gone, overtook>>

\* The tick of _tcp_loop.
tick(p) ==
    /\ active(peers[p])
    /\ Finish(p, peers[p])
    /\ UNCHANGED <<gone, overtook>>

retransmission(p, must) ==
    /\ active(peers[p]) /\ peers[p].snd.outstanding_ # <<>>
    /\ FinishWith(p, retransmit(peers[p]), must)
    /\ UNCHANGED <<gone, overtook>>

tick_expired(p) == retransmission(p, FALSE)

Next ==
    \/ connect
    \/ \E p \in Peers :
         \/ \E n \in 1 .. SendCapacity : write(p, n)
         \/ shutdown(p) \/ cancel(p)
         \/ \E n \in 1 .. RecvCapacity : read(p, n)
         \/ deliver(p) \/ reset(p)
         \/ tick(p) \/ tick_expired(p)

Spec == Init /\ [][Next]_vars

-----------------------------------------------------------------------------
\* Fairness

\* None of the segments that the handler sends is lost at once.
tick_kept(p) == retransmission(p, TRUE)

\* The oldest message the other peer has outstanding arrives.
deliver_oldest(p) ==
    LET q == peers[Other(p)].snd.outstanding_
    IN  q # <<>> /\ \E seg \in net[p] :
          seg.msg = Head(q) /\ receive_segment(p, seg, TRUE)

\* The other peer's current acknowledgment arrives.
deliver_ackno(p) ==
    LET q == peers[Other(p)]
    IN  has_ackno(q) /\ \E seg \in net[p] :
          seg.ackno = Ackno(q.isn, q.inbound) /\ receive_segment(p, seg, TRUE)

\* The event loops keep running and the applications keep reading; a message
\* that is sent again and again is not lost every time.
Fairness ==
    /\ WF_vars(connect)
    /\ \A p \in Peers :
         /\ WF_vars(\E n \in 1 .. RecvCapacity : read(p, n))
         /\ WF_vars(tick(p))
         /\ SF_vars(tick_kept(p))
         /\ SF_vars(deliver_oldest(p))
         /\ SF_vars(deliver_ackno(p))

FairSpec == Spec /\ Fairness

-----------------------------------------------------------------------------
\* Properties

\* The peers' fields have their types, and nothing stays half sent between
\* two handlers.
TypeOK ==
    \A p \in Peers :
        /\ StreamOK(peers[p].outbound) /\ StreamOK(peers[p].inbound)
        /\ peers[p].snd.seqnums_sent_ \in Nat /\ Una(peers[p]) \in Nat
        /\ peers[p].snd.ready_to_send_ = <<>> /\ ~peers[p].need_send_
        /\ peers[p].isn \in {None, Isn[Other(p)]}

\* The peer r takes the payload of m, and where it puts the payload's first byte.
TakesPayload(r, m) == m.len > 0 /\ Reassembles(IsnAfter(r.isn, m), m, r.inbound)
PlaceOfPayload(r, m) == FirstIndex(IsnAfter(r.isn, m), m, r.inbound)

\* Whichever segment arrives next, however late or often: its bytes were taken
\* from the other peer's outbound stream, and if they are taken, they go to the
\* place in the inbound stream that they have in the outbound one (m.first).  A
\* receiver gets bytes in no other way, and holds none that was not sent.
DeliveredWasSent ==
    \A p \in Peers :
        LET r    == peers[p]
            sent == peers[Other(p)].outbound.popped
        IN  /\ \A seg \in net[p] :
                 LET m == seg.msg
                 IN  /\ m.first + m.len <= sent
                     /\ TakesPayload(r, m) => PlaceOfPayload(r, m) = m.first
            /\ r.inbound.pushed <= sent
            /\ \A i \in r.asm.held : i < sent

\* p's inbound stream is the whole of what the other application wrote.
Complete(p) ==
    /\ peers[p].inbound.closed
    /\ peers[Other(p)].outbound.closed
    /\ peers[p].inbound.pushed = peers[Other(p)].outbound.pushed

\* The inbound stream of p is closed although a FIN overtook the last byte.
ClosedByOvertaking(p) == overtook[p] /\ peers[p].inbound.closed

\* A sender forgets only what the other peer's stream has: each byte it takes
\* for acknowledged is in the stream, and if its FIN is, the stream is closed
\* and complete.  The one exception is a stream that is closed because a FIN
\* overtook the last byte: the close counts as one number, for which the sender
\* may forget one byte that the other peer does not have, and never a second.
AckedIsDelivered ==
    \A p \in Peers :
        LET o == Other(p)
        IN  Una(peers[p]) <= 1 + peers[o].inbound.pushed
                               + One(Complete(o) \/ ClosedByOvertaking(o))

\* Unless a FIN overtook the last byte, an inbound stream is closed only when
\* all of the other application's data is in it.
ClosedIsComplete ==
    \A p \in Peers :
        peers[p].inbound.closed /\ ~overtook[p] => Complete(p)

\* Unless a FIN overtook the last byte of either stream: a peer that leaves its
\* event loop without an error, after it has sent its FIN, has the whole of the
\* other's stream and knows that the other has the whole of its own.  (A cancel
\* can end the connection before the FIN is sent.)
CleanEndIsComplete ==
    \A p \in Peers :
        ( /\ ~active(peers[p]) /\ ~peers[p].inbound.error
          /\ peers[p].snd.fin_
          /\ \A q \in Peers : ~overtook[q] )
            => Complete(p) /\ Complete(Other(p))

\* What an application has written arrives, and so does the end of its stream,
\* unless a FIN overtook the last byte or the other application is gone.  (A
\* peer that is inactive before its FIN is sent does not send it any more.)
EverythingArrives ==
    \A p \in Peers :
        /\ \A n \in 1 .. Total[p] :
             peers[p].outbound.pushed >= n
                 ~> \/ peers[Other(p)].inbound.pushed >= n
                    \/ overtook[Other(p)] \/ gone[Other(p)]
        /\ peers[p].outbound.closed /\ active(peers[p])
                 ~> peers[Other(p)].inbound.closed \/ gone[Other(p)]

\* A connection whose other peer has left its event loop does not go on for
\* ever: the peer that stays has heard all it needs, or gives up.
HopelessEnds == \A p \in Peers : ~active(peers[Other(p)]) ~> ~active(peers[p])

\* A new message lies inside the window the other peer has advertised, or is
\* a probe of a window that is closed.
NothingBeyondTheWindow ==
    [][\A p \in Peers :
         LET other == peers[Other(p)].inbound
             edge  == AbsoluteNext(other) + Window(other)
             sent  == peers[p].snd.seqnums_sent_'
         IN  sent > peers[p].snd.seqnums_sent_ /\ has_ackno(peers[p]) =>
                sent <= edge \/ sent = Una(peers[p])' + 1 ]_vars
=============================================================================
