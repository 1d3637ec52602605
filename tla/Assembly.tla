------------------------------ MODULE Assembly ------------------------------
(***************************************************************************)
(* Reassembly without the list: substrings of one stream of Total bytes    *)
(* arrive in any order, any number of times and cut anywhere; the output   *)
(* stream grows by whatever became contiguous; a reader drains it.         *)
(***************************************************************************)
EXTENDS AssemblyState, Substrings

VARIABLES
    asm,        \* the reassembler: bytes held, last substring seen
    output,     \* the stream it writes to
    received,   \* history: every byte that arrived inside the window
    overtook    \* history: a last substring was accepted while the last
                \* byte of the stream had not arrived

vars == <<asm, output, received, overtook>>

Init ==
    /\ asm = EmptyAssembly
    /\ output = EmptyStream(Capacity)
    /\ received = {}
    /\ overtook = FALSE

insert(first, len, last) ==
    /\ Substring(first, len, last)
    /\ InWindow(output, first)
    /\ \E next \in output.pushed .. WindowEnd(output) :
         /\ Reaches(asm, output, first, len, next)
         /\ asm' = AssemblyAfter(asm, output, first, len, last, next)
         /\ output' = StreamAfter(asm, output, first, len, last, next)
    /\ received' = received \union Arriving(output, first, len)
    /\ overtook' = (overtook \/ Overtakes(last, received'))

\* The application reads from the output stream.
drain(n) ==
    /\ n <= Buffered(output)
    /\ output' = PopFrom(output, n)
    /\ UNCHANGED <<asm, received, overtook>>

Next ==
    \/ \E first \in 0 .. Total, last \in BOOLEAN :
         \E len \in 0 .. (Total - first) : insert(first, len, last)
    \/ \E n \in 1 .. Buffered(output) : drain(n)

Spec == Init /\ [][Next]_vars

-----------------------------------------------------------------------------
\* Properties

TypeOK ==
    /\ asm \in [held : SUBSET Nat, closing : BOOLEAN]
    /\ output \in StreamType /\ output.capacity = Capacity
    /\ received \in SUBSET Nat
    /\ overtook \in BOOLEAN

\* Reassembly neither loses nor invents a byte: what has been pushed and what
\* is held are together exactly the bytes that arrived inside the window.
NothingLost == (0 .. (output.pushed - 1)) \union asm.held = received

\* The held bytes lie beyond a gap and inside the window, so the reassembler
\* and the stream together never hold more than the capacity.
HeldInWindow ==
    /\ output.popped <= output.pushed
    /\ output.pushed <= output.popped + Capacity
    /\ \A i \in asm.held : output.pushed < i /\ i < WindowEnd(output)

\* The stream is closed exactly when it is complete and its last substring
\* has been accepted, unless a last substring overtook the last byte (it came
\* without its byte, or lost it to the window).
ClosedWhenComplete ==
    ~overtook => (output.closed <=> asm.closing /\ output.pushed = Total)
=============================================================================
