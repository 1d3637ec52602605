---------------------------- MODULE SocketRules -----------------------------
(***************************************************************************)
(* The four rules of _initialize_TCP and the body of _tcp_loop             *)
(* (src/util/tcp_minnow_socket.cc), over a record s of the whole program.  *)
(* Of the TCPPeer, which PeerState has in full, only the streams, the      *)
(* sequence numbers in flight and the segments to send are kept.  A string *)
(* of a stream is one byte, so a write takes one, as after a partial one.  *)
(***************************************************************************)
EXTENDS Descriptors, Sequences

CONSTANT RemoteWindow       \* the window that the other peer grants

\* away: the sequence numbers in flight that have left as segments.
\* ready: the peer has something to send.
NewTcp(sendCapacity, recvCapacity) ==
    [outbound |-> EmptyStream(sendCapacity), inbound |-> EmptyStream(recvCapacity),
     in_flight |-> 0, away |-> 0, syn |-> FALSE, fin |-> FALSE,
     has_ackno |-> FALSE, ready |-> FALSE]

active(tcp) ==
    /\ ~tcp.inbound.error
    /\ ~Finished(tcp.outbound) \/ ~tcp.inbound.closed \/ tcp.in_flight > 0

\* Mutant: what is in flight takes nothing off the window.
RoomAhead(tcp) == RemoteWindow - One(~tcp.syn)

\* What the window has room for, a SYN counted first.
Room(tcp) == RemoteWindow - tcp.in_flight - One(~tcp.syn)

\* TCPPeer::push: a SYN, the bytes there is room for, a FIN after the last one.
Push(tcp) ==
    LET n   == AtMost(Buffered(tcp.outbound), Room(tcp))
        fin == Finished(PopFrom(tcp.outbound, n)) /\ ~tcp.fin /\ n < Room(tcp)
    IN  IF Room(tcp) < 0 \/ (n = 0 /\ tcp.syn /\ ~fin) THEN tcp
        ELSE [tcp EXCEPT !.syn = TRUE, !.fin = @ \/ fin, !.ready = TRUE,
                         !.outbound = PopFrom(@, n),
                         !.in_flight = @ + One(~tcp.syn) + n + One(fin)]

\* TCPPeer::receive: every segment but the first carries an acknowledgment.
Receive(tcp, seg) ==
    IF seg.kind = "RST" \/ tcp.inbound.error THEN [tcp EXCEPT !.inbound = FailStream(@)]
    ELSE [tcp EXCEPT !.in_flight = @ - seg.acked, !.away = @ - seg.acked,
                     !.has_ackno = @ \/ seg.kind = "SYN",
                     !.ready = @ \/ seg.kind # "ACK",
                     !.inbound = CASE seg.kind = "BYTE" -> PushTo(@, 1)
                                   [] seg.kind = "FIN"  -> CloseStream(@)
                                   [] OTHER             -> @]

\* collect_segments, whose maybe_send pushes once there is an ackno.
Collect(s) ==
    LET tcp == IF s.tcp.has_ackno THEN Push(s.tcp) ELSE s.tcp
    IN  [s EXCEPT !.tcp = [tcp EXCEPT !.ready = FALSE],
                  !.outgoing_segments_ = @ \/ tcp.ready]

\* The end of a turn of _tcp_loop.
Tick(s) == IF active(s.tcp) THEN Collect(s) ELSE s

-----------------------------------------------------------------------------
\* The rules, in the order they are added.

Rules == <<"receive TCP segment", "push bytes", "read bytes", "send TCP segment">>

Direction(r) == IF r \in {"receive TCP segment", "push bytes"} THEN "IN" ELSE "OUT"

\* Mutant: the stream is over when it is closed, read or not.
InboundClosed(tcp) == tcp.inbound.closed \/ tcp.inbound.error

\* The stream from the peer has ended, in one way or the other.
InboundOver(tcp) == Finished(tcp.inbound) \/ tcp.inbound.error

Interest(r, s) ==
    CASE r = "receive TCP segment" -> active(s.tcp)
      [] r = "push bytes" ->
           active(s.tcp) /\ ~s.thread.outbound_shutdown /\ Available(s.tcp.outbound) > 0
      [] r = "read bytes" ->
           \/ Buffered(s.tcp.inbound) > 0
           \/ InboundOver(s.tcp) /\ ~s.thread.inbound_shutdown
      [] r = "send TCP segment" -> s.outgoing_segments_

ReceiveSegment(s) ==
    Collect([s EXCEPT !.tcp = Receive(@, Head(s.arrived)), !.arrived = Tail(@)])

CloseOutbound(s) ==
    [s EXCEPT !.tcp.outbound = CloseStream(@), !.thread.outbound_shutdown = TRUE]

PushBytes(s) ==
    LET n == ReadCount(s.pair.down, Available(s.tcp.outbound))
        t == [s EXCEPT !.tcp.outbound = PushTo(@, n), !.pair.down = @ - n,
                       !.thread.eof = n = 0]
        u == IF n = 0 THEN CloseOutbound(t) ELSE t
    IN  Collect([u EXCEPT !.tcp = Push(@)])

\* The write, if there is something to write, and the shutdown of this
\* direction at the end.  A write after that end raises SIGPIPE, which ends
\* the program.
ReadBytes(s) ==
    LET writes == Buffered(s.tcp.inbound) > 0
        t == IF writes THEN [s EXCEPT !.pair.up = @ + 1, !.tcp.inbound = PopFrom(@, 1)] ELSE s
    IN  IF writes /\ s.pair.up_shut THEN [s EXCEPT !.killed = TRUE]
        ELSE IF InboundOver(t.tcp)
        THEN [t EXCEPT !.pair.up_shut = TRUE, !.thread.inbound_shutdown = TRUE]
        ELSE t

SendSegments(s) ==
    [s EXCEPT !.outgoing_segments_ = FALSE, !.tcp.away = s.tcp.in_flight]

\* Only rule 3 could do without a call on its descriptor.
Callback(r, s) ==
    [s |-> CASE r = "receive TCP segment" -> ReceiveSegment(s)
             [] r = "push bytes"          -> PushBytes(s)
             [] r = "read bytes"          -> ReadBytes(s)
             [] r = "send TCP segment"    -> SendSegments(s),
     counted |-> r = "read bytes" => Buffered(s.tcp.inbound) > 0 \/ InboundOver(s.tcp),
     throws |-> FALSE]

Cancel(r, s) == IF r = "push bytes" THEN CloseOutbound(s) ELSE s

Eof(r, s) == r = "push bytes" /\ s.thread.eof
Closed(r, s) == FALSE

Revents(r, s) ==
    CASE r \in {"push bytes", "read bytes"} -> PollThreadEnd(s.pair)
      [] r = "receive TCP segment" -> IF s.arrived = <<>> THEN {} ELSE {"IN"}
      [] r = "send TCP segment" -> {"OUT"}
=============================================================================
