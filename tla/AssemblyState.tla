--------------------------- MODULE AssemblyState ----------------------------
(***************************************************************************)
(* A Reassembler as its users see it (src/src/reassembler.cc): the set of  *)
(* bytes that arrived ahead of a gap, and whether the last substring has   *)
(* been seen.  A byte is its index in the stream.  Reassembler keeps the   *)
(* list of substrings and is proved to implement this view.                *)
(***************************************************************************)
EXTENDS StreamState

EmptyAssembly == [held |-> {}, closing |-> FALSE]

\* The first index that the output stream has no room for.
WindowEnd(s) == s.pushed + Available(s)

\* An index below zero stands for what uint64_t makes of it, a number near
\* 2^64 and beyond every window.
InWindow(s, first) == 0 <= first /\ first < WindowEnd(s)

\* The bytes of a substring that insert keeps: the tail beyond the window is
\* cut, and so is what the stream already holds.
Arriving(s, first, len) ==
    {i \in first .. (first + len - 1) : s.pushed <= i /\ i < WindowEnd(s)}

Known(asm, s, first, len) == asm.held \union Arriving(s, first, len)

\* After the insert the stream holds exactly the bytes before next: all of
\* them are there, and next itself is still missing.
Reaches(asm, s, first, len, next) ==
    /\ \A i \in s.pushed .. (next - 1) : i \in Known(asm, s, first, len)
    /\ next \notin Known(asm, s, first, len)

\* The bytes that stay in the reassembler.
StillHeld(asm, s, first, len, next) ==
    {i \in Known(asm, s, first, len) : i > next}

\* The state after an insert of a substring with first in the window.
AssemblyAfter(asm, s, first, len, last, next) ==
    [held    |-> StillHeld(asm, s, first, len, next),
     closing |-> asm.closing \/ last]

\* Mutant: the stream is closed although bytes are still held.
StreamClosedAtLast(asm, s, first, len, last, next) ==
    [s EXCEPT !.pushed = next, !.closed = @ \/ asm.closing \/ last]

StreamAfter(asm, s, first, len, last, next) ==
    [s EXCEPT !.pushed = next,
              !.closed = @ \/ ( /\ asm.closing \/ last
                                /\ StillHeld(asm, s, first, len, next) = {} )]
=============================================================================
