----------------------------- MODULE TCPReceiver ----------------------------
(***************************************************************************)
(* A TCPReceiver with its Reassembler and inbound stream, given the        *)
(* segments of one peer's stream in any order, any number of times and cut *)
(* anywhere.  The stream is longer than the modulus, so that the sequence  *)
(* numbers on the wire repeat.                                             *)
(***************************************************************************)
EXTENDS ReceiverState

CONSTANTS
    RecvCapacity,   \* of the inbound stream
    PeerTotal,      \* the length of the peer's stream
    PeerIsn         \* the zero point of the peer's sequence numbers

VARIABLES
    isn_,       \* None until a SYN arrives
    asm,        \* the reassembler, see AssemblyState
    inbound,    \* the inbound stream
    arrived     \* history: the bytes of the stream that arrived in the window

receiverVars == <<isn_, asm, inbound, arrived>>

ASSUME ReceiverAssumption ==
    RecvCapacity \in Nat /\ PeerTotal \in Nat /\ PeerIsn \in Raw

ReceiverInit ==
    /\ isn_ = None
    /\ asm = EmptyAssembly
    /\ inbound = EmptyStream(RecvCapacity)
    /\ arrived = {}

\* A segment of the peer's stream: first is where its payload really belongs,
\* which the wire does not carry.
Segment(syn, first, len, fin) ==
    [seqno |-> Wrap(IF syn THEN 0 ELSE first + 1, PeerIsn), SYN |-> syn,
     first |-> first, len |-> len, FIN |-> fin]

Segments ==
    {Segment(syn, first, len, fin) :
        syn \in BOOLEAN, first \in 0 .. PeerTotal, len \in 0 .. PeerTotal, fin \in BOOLEAN}

OfStream(msg) ==
    /\ msg.first + msg.len <= PeerTotal
    /\ msg.SYN => msg.first = 0
    /\ msg.FIN => msg.first + msg.len = PeerTotal

\* No segment stays in the network while half a modulus of the stream passes
\* by, and the peer runs no further ahead: the limit of 32-bit sequence
\* numbers, which nothing in the code enforces.
Recent(msg) ==
    msg.SYN \/ ( /\ msg.first + 1 - inbound.pushed <= Half
                 /\ inbound.pushed - (msg.first + 1) < Half )

-----------------------------------------------------------------------------
\* Before the SYN only the zero point can change.
ignore(msg) ==
    /\ IsnAfter(isn_, msg) = None
    /\ UNCHANGED receiverVars

\* Beyond the window, or from before the stream.
discard(msg) ==
    /\ IsnAfter(isn_, msg) # None
    /\ ~Reassembles(IsnAfter(isn_, msg), msg, inbound)
    /\ isn_' = IsnAfter(isn_, msg)
    /\ UNCHANGED <<asm, inbound, arrived>>

insert(msg) ==
    /\ Reassembles(IsnAfter(isn_, msg), msg, inbound)
    /\ isn_' = IsnAfter(isn_, msg)
    /\ LET first == FirstIndex(isn_', msg, inbound)
       IN  \E next \in inbound.pushed .. WindowEnd(inbound) :
             /\ Reaches(asm, inbound, first, msg.len, next)
             /\ asm' = AssemblyAfter(asm, inbound, first, msg.len, msg.FIN, next)
             /\ inbound' = StreamAfter(asm, inbound, first, msg.len, msg.FIN, next)
    /\ arrived' = arrived \union Arriving(inbound, msg.first, msg.len)

receive_message(msg) ==
    /\ OfStream(msg) /\ Recent(msg)
    /\ ignore(msg) \/ discard(msg) \/ insert(msg)

\* The application reads from the inbound stream.
drain(n) ==
    /\ n <= Buffered(inbound)
    /\ inbound' = PopFrom(inbound, n)
    /\ UNCHANGED <<isn_, asm, arrived>>

ReceiverNext ==
    \/ \E msg \in Segments : receive_message(msg)
    \/ \E n \in 1 .. RecvCapacity : drain(n)

ReceiverSpec == ReceiverInit /\ [][ReceiverNext]_receiverVars

-----------------------------------------------------------------------------
\* Properties

\* The fields have their types, and a zero point is the peer's.
ReceiverTypeOK ==
    /\ isn_ \in {None, PeerIsn}
    /\ asm \in [held : SUBSET Nat, closing : BOOLEAN]
    /\ StreamOK(inbound)

\* What the stream and the reassembler hold, place by place, is exactly what
\* the peer put there and arrived in the window: however the 32-bit numbers
\* wrap, no payload is taken for another part of the stream.
EveryByteInPlace ==
    /\ (0 .. (inbound.pushed - 1)) \union asm.held = arrived
    /\ isn_ = None => arrived = {}

\* Every byte inside the window that send advertises would be kept if it came
\* next, and none of them is beyond what the reassembler and stream can store.
WindowIsHonoured ==
    isn_ # None =>
        \A i \in inbound.pushed .. (inbound.pushed + Window(inbound) - 1) :
            LET msg == Segment(FALSE, i, 1, FALSE)
            IN  Recent(msg) /\ i < PeerTotal =>
                  /\ Reassembles(isn_, msg, inbound)
                  /\ i \in Arriving(inbound, FirstIndex(isn_, msg, inbound), 1)

\* The right edge of the window, in absolute sequence numbers.
Edge == AbsoluteNext(inbound) + Window(inbound)

\* What was once inside the advertised window stays inside it, and what was
\* acknowledged stays acknowledged.
PromisesAreKept ==
    [][ /\ Edge' >= Edge
        /\ AbsoluteNext(inbound)' >= AbsoluteNext(inbound)
        /\ isn_ # None => isn_' = isn_ ]_receiverVars
=============================================================================
