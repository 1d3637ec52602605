---------------------------- MODULE RouterState -----------------------------
(***************************************************************************)
(* The routing table of a Router (src/src/router.cc) and the search of     *)
(* route() for the longest prefix that matches a destination.              *)
(***************************************************************************)
EXTENDS Integers, Sequences

CONSTANT AddressBits        \* 32

ASSUME AddressAssumption == AddressBits \in Nat

\* What a shift by k bits multiplies or divides by.
PowerOfTwo[k \in 0 .. AddressBits] == IF k = 0 THEN 1 ELSE 2 * PowerOfTwo[k - 1]

Addresses == 0 .. PowerOfTwo[AddressBits] - 1
Direct == -1                \* an empty next_hop

\* An Entry of the routing table.
Entry(prefix, length, hop, interface) ==
    [route_prefix |-> prefix, prefix_length |-> length,
     next_hop |-> hop, interface_num |-> interface]

\* The destination with the bits below the prefix cleared by two shifts.
Prefix(dst, length) ==
    IF length = 0 THEN 0
    ELSE LET power == PowerOfTwo[AddressBits - length]
         IN  (dst \div power) * power

\* The bits of the route's own prefix are not cleared (though router.cc:8-10 has
\* only the high-order ones compared), so one with bits below its length matches
\* nothing.
Matches(entry, dst) == Prefix(dst, entry.prefix_length) = entry.route_prefix

\* Mutant: of two routes with the same length the later one.
MatchLast(table, dst) ==
    LET match[k \in 0 .. Len(table)] ==
            IF k = 0 THEN 0
            ELSE IF /\ Matches(table[k], dst)
                    /\ \/ match[k - 1] = 0
                       \/ table[match[k - 1]].prefix_length <= table[k].prefix_length
                 THEN k ELSE match[k - 1]
    IN  match[Len(table)]

\* The loop over the table: match_entry after each of its entries, 0 for none.
MatchEntry(table, dst) ==
    LET match[k \in 0 .. Len(table)] ==
            IF k = 0 THEN 0
            ELSE IF /\ Matches(table[k], dst)
                    /\ \/ match[k - 1] = 0
                       \/ table[match[k - 1]].prefix_length < table[k].prefix_length
                 THEN k ELSE match[k - 1]
    IN  match[Len(table)]

\* Where a datagram goes next: the hop of the entry, or its own destination.
HopOf(entry, dst) == IF entry.next_hop = Direct THEN dst ELSE entry.next_hop
=============================================================================
