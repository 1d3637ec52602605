---------------------------- MODULE MCConnection ----------------------------
(***************************************************************************)
(* TLC instances of Connection.                                            *)
(***************************************************************************)
EXTENDS Connection, TLC

\* Both sequence spaces wrap within the connection (M is 16).
IsnBeforeWrap == (Client :> 14) @@ (Server :> 15)

\* Bytes that each application writes.
TwoAndNone    == (Client :> 2) @@ (Server :> 0)

\* Segments that the network holds for each peer: two for the one that gets
\* the data are enough for every reordering of a byte, its successor and a FIN.
OneAndTwo     == (Client :> 1) @@ (Server :> 2)
TwoAndOne     == (Client :> 2) @@ (Server :> 1)
NoneAndNone   == (Client :> 0) @@ (Server :> 0)
OneInFlight   == (Client :> 1) @@ (Server :> 1)
=============================================================================
