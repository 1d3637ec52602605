----------------------------- MODULE Substrings -----------------------------
(***************************************************************************)
(* What a Reassembler is given: substrings of one stream of Total bytes,   *)
(* cut anywhere, in any order, any number of times.  The last one ends     *)
(* where the stream does; the same bytes may also arrive unmarked.         *)
(***************************************************************************)
EXTENDS StreamState

CONSTANTS
    Capacity,   \* of the output stream
    Total       \* the length of the stream being reassembled

ASSUME SubstringsAssumption == Capacity \in Nat /\ Total \in Nat

Substring(first, len, last) ==
    /\ first + len <= Total
    /\ last => first + len = Total

\* The last substring is here, and the stream's last byte never arrived.
Overtakes(last, received) == last /\ Total > 0 /\ Total - 1 \notin received
=============================================================================
