---------------------------- MODULE Descriptors -----------------------------
(***************************************************************************)
(* The file descriptors of a program around a TCPMinnowSocket: the pair of *)
(* connected AF_UNIX stream sockets between the application and the TCP    *)
(* thread, and the standard input and output.  The parts that read, write  *)
(* and shut down are src/util/file_descriptor.cc and src/util/socket.cc;   *)
(* what the kernel does behind them is external.  Bytes are counted.       *)
(***************************************************************************)
EXTENDS StreamState

CONSTANT PairCapacity       \* what one direction of the pair holds

ASSUME PairAssumption == PairCapacity \in Nat \ {0}

\* down and up: the bytes on their way to the TCP thread and from it.  A
\* direction is shut by either end, for both.
NewPair == [down |-> 0, up |-> 0, down_shut |-> FALSE, up_shut |-> FALSE]

HangsUp(pair) == IF pair.down_shut /\ pair.up_shut THEN {"HUP"} ELSE {}

\* What poll finds at one end: bytes or the end of them to read, room to write
\* (also when a write would fail), both directions shut.
PollEnd(pair, incoming, shut, outgoing) ==
    (IF incoming > 0 \/ shut THEN {"IN"} ELSE {})
        \union (IF outgoing < PairCapacity THEN {"OUT"} ELSE {})
        \union HangsUp(pair)

PollThreadEnd(pair) == PollEnd(pair, pair.down, pair.down_shut, pair.up)
PollOwnerEnd(pair) == PollEnd(pair, pair.up, pair.up_shut, pair.down)

\* Mutant: a pair that is shut loses what it holds.
ShutAndLose(pair) == [down |-> 0, up |-> 0, down_shut |-> TRUE, up_shut |-> TRUE]

\* shutdown(SHUT_RDWR), at either end
ShutBoth(pair) == [pair EXCEPT !.down_shut = TRUE, !.up_shut = TRUE]

\* read: as much as fits into the buffer; nothing at the end, which the
\* descriptor remembers.
ReadCount(there, room) == AtMost(there, room)

-----------------------------------------------------------------------------
\* Standard input: a pipe hangs up at its end, a file can be read there.

NewInput(kind) == [kind |-> kind, left |-> 0, typed |-> 0, ended |-> FALSE]

PollInput(input) ==
    (IF input.left > 0 \/ (input.kind = "file" /\ input.ended) THEN {"IN"} ELSE {})
        \union (IF input.kind = "pipe" /\ input.ended THEN {"HUP"} ELSE {})

\* Standard output: open, a pipe that nobody reads any more, or full.
PollOutput(output) ==
    IF output.state = "broken" THEN {"OUT", "ERR"} ELSE {"OUT"}
=============================================================================
