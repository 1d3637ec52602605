----------------------------- MODULE MCNetwork ------------------------------
(***************************************************************************)
(* A router between a segment with two clients and a segment with one      *)
(* server on a TAP device, whose first frame is a dummy.  Addresses have   *)
(* four bits.                                                              *)
(***************************************************************************)
EXTENDS Network

CONSTANTS a, c, b, west, east, router, broadcast

MCNode == [i \in {a, b, c, west, east} |-> IF i \in {west, east} THEN router ELSE i]
MCLan  == [i \in {a, b, c, west, east} |-> IF i \in {b, east} THEN 2 ELSE 1]

\* Segment 1 is 0/2, segment 2 is 8/2.
MCIp ==
    [i \in {a, b, c, west, east} |->
        CASE i = west -> 1 [] i = a -> 2 [] i = c -> 3 [] i = east -> 8 [] i = b -> 9]

MCNextHop == [h \in {a, b, c} |-> IF h = b THEN 8 ELSE 1]

\* Both segments, a default route, one for a single address, a second one of
\* the same length, and one that has a bit below its length, as
\* src/tests/router.cc adds for 128.30.76.255/16.
MCRoutes ==
    [r \in {router} |->
        << Entry(0, 0, 9, east), Entry(0, 2, Direct, west), Entry(8, 2, Direct, east),
           Entry(9, 4, Direct, east), Entry(8, 2, 2, west), Entry(13, 3, 2, west) >>]

Port(h) == IF h = b THEN 1234 ELSE 5000
Endpoint(h) == [ip |-> MCIp[h], port |-> Port(h)]

MCConfig ==
    [h \in {a, b, c} |->
        [source |-> IF h = b THEN [ip |-> 0, port |-> 1234] ELSE Endpoint(h),
         destination |-> IF h = b THEN [ip |-> 0, port |-> 0] ELSE Endpoint(b),
         listening |-> h = b]]

\* a connects; c refuses a connection it has not been asked for, and may be
\* heard by the server before a.  A segment of a may be too far from home.
Packet(syn, reset, ttl) == [seg |-> [SYN |-> syn, reset |-> reset], ttl |-> ttl]
MCPackets ==
    [h \in {a, b, c} |->
        CASE h = a -> {Packet(TRUE, FALSE, 2), Packet(FALSE, FALSE, 1)}
          [] h = b -> {Packet(FALSE, FALSE, 2)}
          [] h = c -> {Packet(TRUE, TRUE, 2)}]

MCMaxTicks == [n \in {a, b, c, router} |-> IF n = router THEN 2 ELSE 0]

ASSUME MCOneRouter == OneRouter
=============================================================================
