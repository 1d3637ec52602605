------------------------------ MODULE Program -------------------------------
(***************************************************************************)
(* A program like src/apps/tcp_ipv4.cc or src/apps/endtoend.cc around a    *)
(* TCPMinnowSocket: it connects or accepts, runs bidirectional_stream_copy *)
(* and waits until the socket is closed, while the socket's TCP thread     *)
(* runs a loop of its own.  The threads share the pair of sockets and      *)
(* _abort.  Each of them polls in one step and serves what it has found in *)
(* another, so the other thread may have changed the pair in between.      *)
(***************************************************************************)
EXTENDS Descriptors, Sequences

CONSTANTS
    RemoteWindow, SendCapacity, RecvCapacity, CopyCapacity,
    Typed,          \* bound: the bytes that come in on standard input
    Sent,           \* bound: the bytes that the other peer sends
    ClientInput, ServerInput,   \* standard input, of a program that connects and of
                    \* one that listens: "pipe" or "file"
    OutputFails,    \* how standard output may fail: "broken", "full"
    MayReset        \* whether a segment with RST may arrive

ASSUME ProgramAssumption ==
    /\ {RemoteWindow, SendCapacity, RecvCapacity, CopyCapacity} \subseteq Nat \ {0}
    /\ Typed \in Nat /\ Sent \in Nat
    /\ {ClientInput, ServerInput} \subseteq {"pipe", "file"}
    /\ OutputFails \subseteq {"broken", "full"} /\ MayReset \in BOOLEAN

VARIABLES
    s,          \* the descriptors, and what the rules of both loops work on
    tcp_loop,   \* the loop of the socket
    copy_loop,  \* the loop of bidirectional_stream_copy
    main,       \* how far the program has come
    _abort,     \* as in the code
    reset       \* history: a segment with RST has arrived

vars == <<s, tcp_loop, copy_loop, main, _abort, reset>>

Tcp == INSTANCE SocketRules
Copy == INSTANCE CopyRules

TcpLoop == INSTANCE EventLoop WITH
    Direction <- Tcp!Direction, Interest <- Tcp!Interest, Callback <- Tcp!Callback,
    Cancel <- Tcp!Cancel, Eof <- Tcp!Eof, Closed <- Tcp!Closed, Revents <- Tcp!Revents

CopyLoop == INSTANCE EventLoop WITH
    Direction <- Copy!Direction, Interest <- Copy!Interest, Callback <- Copy!Callback,
    Cancel <- Copy!Cancel, Eof <- Copy!Eof, Closed <- Copy!Closed, Revents <- Copy!Revents

NoRevents == [r \in {} |-> {}]

\* A loop after set-up: it polls, or has nothing to poll (Result::Exit) and is
\* left.
Loop(walk) ==
    [rules |-> walk.rules, events |-> walk.events, revents |-> NoRevents,
     at |-> IF walk.events = {} THEN "left" ELSE "poll"]

\* A loop that is left, or has not begun.
Idle(at) == [rules |-> <<>>, events |-> {}, revents |-> NoRevents, at |-> at]

-----------------------------------------------------------------------------
\* connect, listen_and_accept: the program runs the socket's loop itself.

ToBeginWith(kind) ==
    [tcp |-> Tcp!NewTcp(SendCapacity, RecvCapacity),
     outgoing_segments_ |-> FALSE, arrived |-> <<>>,
     thread |-> [eof |-> FALSE, outbound_shutdown |-> FALSE, inbound_shutdown |-> FALSE],
     copy |-> Copy!NewCopy(CopyCapacity),
     pair |-> NewPair, input |-> NewInput(kind),
     output |-> [state |-> "open", bytes |-> 0],
     killed |-> FALSE]

\* connect pushes before its loop begins.
Opened(listens) ==
    IF listens THEN ToBeginWith(ServerInput)
    ELSE Tcp!Collect([ToBeginWith(ClientInput) EXCEPT !.tcp = Tcp!Push(@)])

Init ==
    \E listens \in BOOLEAN :
        LET walk == TcpLoop!SetUp(Tcp!Rules, Opened(listens))
        IN  /\ s = walk.s
            /\ tcp_loop = Loop(walk)
            /\ copy_loop = Idle("idle")
            /\ main = IF listens THEN "accept" ELSE "connect"
            /\ _abort = FALSE
            /\ reset = FALSE

\* The condition of the loop of connect or listen_and_accept.
Opening(t) ==
    CASE main = "connect" -> t.tcp.in_flight = 1
      [] main = "accept"  -> ~t.tcp.has_ackno \/ t.tcp.in_flight > 0

\* The copy begins, from the state t.
StartsCopy(t) ==
    \E walk \in {CopyLoop!SetUp(Copy!Rules, t)} :
        /\ s' = walk.s
        /\ copy_loop' = Loop(walk)
        /\ main' = "copy"

\* A turn of _tcp_loop ends in the state t with the rules left: _abort is
\* read, TCP ticks and the next turn is set up.  A loop that connect leaves
\* goes on in the thread that connect starts.
NextTurn(rules, t) ==
    \E walk \in {TcpLoop!SetUp(rules, Tcp!Tick(t))} :
        /\ tcp_loop' = IF _abort THEN Idle("left") ELSE Loop(walk)
        /\ IF main \in {"connect", "accept"}
              /\ (~Opening(Tcp!Tick(t)) \/ walk.events = {})
           THEN StartsCopy(walk.s)
           ELSE /\ s' = IF _abort THEN t ELSE walk.s
                /\ UNCHANGED <<main, copy_loop>>

Running == ~s.killed

tcp_poll ==
    /\ Running /\ tcp_loop.at = "poll" /\ TcpLoop!Wakes(tcp_loop, s)
    /\ tcp_loop' = [tcp_loop EXCEPT !.at = "serve", !.revents = TcpLoop!Poll(tcp_loop, s)]
    /\ UNCHANGED <<s, copy_loop, main, _abort, reset>>

\* Ten milliseconds without an event.
tcp_timeout ==
    /\ Running /\ tcp_loop.at = "poll" /\ ~TcpLoop!Wakes(tcp_loop, s)
    /\ NextTurn(tcp_loop.rules, s)
    /\ UNCHANGED <<_abort, reset>>

\* An exception in the thread ends the program; before there is a thread, it
\* ends in main.
tcp_serve ==
    /\ Running /\ tcp_loop.at = "serve"
    /\ \E walk \in {TcpLoop!Serve(tcp_loop, tcp_loop.revents, s)} :
         IF walk.throws
         THEN /\ s' = [s EXCEPT !.killed = TRUE]
              /\ UNCHANGED <<tcp_loop, copy_loop, main>>
         ELSE NextTurn(walk.rules, walk.s)
    /\ UNCHANGED <<_abort, reset>>

\* _tcp_main after its loop: both directions of the owner's end are shut.
tcp_main_ends ==
    /\ Running /\ tcp_loop.at = "left"
    /\ s' = [s EXCEPT !.pair = ShutBoth(@)]
    /\ tcp_loop' = Idle("ended")
    /\ UNCHANGED <<copy_loop, main, _abort, reset>>

-----------------------------------------------------------------------------
\* bidirectional_stream_copy, whose poll has no timeout

copy_poll ==
    /\ Running /\ copy_loop.at = "poll" /\ CopyLoop!Wakes(copy_loop, s)
    /\ copy_loop' = [copy_loop EXCEPT !.at = "serve",
                                      !.revents = CopyLoop!Poll(copy_loop, s)]
    /\ UNCHANGED <<s, tcp_loop, main, _abort, reset>>

copy_serve ==
    /\ Running /\ copy_loop.at = "serve"
    /\ \E walk \in {CopyLoop!Serve(copy_loop, copy_loop.revents, s)} :
         IF walk.throws
         THEN /\ main' = "unwind" /\ copy_loop' = Idle("thrown")
              /\ s' = walk.s
         ELSE \E next \in {CopyLoop!SetUp(walk.rules, walk.s)} :
              /\ s' = next.s /\ copy_loop' = Loop(next)
              /\ UNCHANGED main
    /\ UNCHANGED <<tcp_loop, _abort, reset>>

wait_until_closed ==
    /\ Running /\ main = "copy" /\ copy_loop.at = "left"
    /\ s' = [s EXCEPT !.pair = ShutBoth(@)]
    /\ main' = "wait"
    /\ UNCHANGED <<tcp_loop, copy_loop, _abort, reset>>

\* Mutant: the destructor does not tell the thread.
destroy_silently ==
    /\ Running /\ main = "unwind"
    /\ main' = "destroy"
    /\ UNCHANGED <<s, tcp_loop, copy_loop, _abort, reset>>

\* ~TCPMinnowSocket, after an exception
destroy ==
    /\ Running /\ main = "unwind"
    /\ _abort' = TRUE
    /\ main' = "destroy"
    /\ UNCHANGED <<s, tcp_loop, copy_loop, reset>>

\* The end of the thread is awaited in both.
join ==
    /\ Running /\ main \in {"wait", "destroy"} /\ tcp_loop.at = "ended"
    /\ main' = IF main = "wait" THEN "succeeded" ELSE "failed"
    /\ UNCHANGED <<s, tcp_loop, copy_loop, _abort, reset>>

-----------------------------------------------------------------------------
\* The other peer, the input and the output (external)

\* The segments that may come next, each with an acknowledgment of all that
\* has left.  The other peer keeps to the window, and sends no data before it
\* has our SYN.  Segments that are lost or repeated are Connection's.
Segment(kind) == [kind |-> kind, acked |-> s.tcp.away]

SynHasLeft == main \notin {"connect", "accept"} \/ s.tcp.away > 0

Arrivals ==
    {kind \in {"SYN", "BYTE", "FIN", "ACK"} :
        /\ kind = "SYN" <=> ~s.tcp.has_ackno
        /\ main # "accept" \/ kind # "SYN" => SynHasLeft
        /\ kind = "BYTE" => s.tcp.inbound.pushed < Sent /\ Available(s.tcp.inbound) > 0
        /\ kind = "FIN"  => s.tcp.inbound.pushed = Sent /\ ~s.tcp.inbound.closed
        /\ kind = "ACK"  => s.tcp.away > 0}

arrive ==
    /\ Running /\ s.arrived = <<>>
    /\ \E kind \in Arrivals : s' = [s EXCEPT !.arrived = <<Segment(kind)>>]
    /\ UNCHANGED <<tcp_loop, copy_loop, main, _abort, reset>>

\* Bound: a reset or a failure of the output, not both.
Undisturbed == ~reset /\ s.output.state = "open"

arrive_reset ==
    /\ Running /\ MayReset /\ Undisturbed /\ s.arrived = <<>> /\ s.tcp.syn
    /\ s' = [s EXCEPT !.arrived = <<Segment("RST")>>]
    /\ reset' = TRUE
    /\ UNCHANGED <<tcp_loop, copy_loop, main, _abort>>

\* Standard input and output matter to the copy only, so they change while it
\* runs.
type_byte ==
    /\ Running /\ main = "copy" /\ ~s.input.ended /\ s.input.typed < Typed
    /\ s' = [s EXCEPT !.input.left = @ + 1, !.input.typed = @ + 1]
    /\ UNCHANGED <<tcp_loop, copy_loop, main, _abort, reset>>

end_input ==
    /\ Running /\ main = "copy" /\ ~s.input.ended
    /\ s' = [s EXCEPT !.input.ended = TRUE]
    /\ UNCHANGED <<tcp_loop, copy_loop, main, _abort, reset>>

fail_output ==
    /\ Running /\ main = "copy" /\ Undisturbed
    /\ \E state \in OutputFails : s' = [s EXCEPT !.output.state = state]
    /\ UNCHANGED <<tcp_loop, copy_loop, main, _abort, reset>>

tcp_thread == tcp_poll \/ tcp_timeout \/ tcp_serve \/ tcp_main_ends

main_thread ==
    copy_poll \/ copy_serve \/ wait_until_closed \/ destroy \/ join

Next ==
    \/ tcp_thread \/ main_thread
    \/ arrive \/ arrive_reset \/ type_byte \/ end_input \/ fail_output

Spec == Init /\ [][Next]_vars

\* Weak fairness of the threads, with what enables their steps written out: a
\* poll that has found something returns, and what it returns is served.
TcpCanStep ==
    /\ Running
    /\ \/ tcp_loop.at \in {"serve", "left"}
       \/ tcp_loop.at = "poll" /\ (_abort \/ TcpLoop!Wakes(tcp_loop, s))

MainCanStep ==
    /\ Running
    /\ \/ copy_loop.at = "serve" \/ (copy_loop.at = "left" /\ main = "copy")
       \/ copy_loop.at = "poll" /\ CopyLoop!Wakes(copy_loop, s)
       \/ main = "unwind" \/ (main \in {"wait", "destroy"} /\ tcp_loop.at = "ended")

\* The threads run, the other peer goes on sending and acknowledging, and
\* standard input ends.
Fairness ==
    /\ []<>~TcpCanStep \/ []<><<tcp_thread>>_vars
    /\ []<>~MainCanStep \/ []<><<main_thread>>_vars
    /\ WF_vars(arrive) /\ WF_vars(end_input)

FairSpec == Spec /\ Fairness

-----------------------------------------------------------------------------
\* Properties

\* The streams keep to their capacities, and so does the pair of sockets; what
\* has left as segments is in flight.
TypeOK ==
    /\ \A stream \in {s.tcp.inbound, s.tcp.outbound, s.copy.inbound, s.copy.outbound} :
         StreamOK(stream)
    /\ s.pair.down \in 0 .. PairCapacity /\ s.pair.up \in 0 .. PairCapacity
    /\ s.tcp.away \in 0 .. s.tcp.in_flight /\ s.tcp.in_flight <= RemoteWindow
    /\ tcp_loop.at \in {"poll", "serve", "left", "ended"}
    /\ copy_loop.at \in {"idle", "poll", "serve", "left", "thrown"}
    /\ main \in {"connect", "accept", "copy", "unwind", "wait", "destroy",
                 "succeeded", "failed"}

\* However the two threads interleave, and whatever is out of date when a rule
\* is served: without a reset, and while standard output can be written, no
\* write meets a direction that has been shut (which would end the program),
\* and no loop ends with an exception, of a busy wait or of a write.
DiesOnlyOfAnError ==
    s.killed \/ main \in {"unwind", "destroy", "failed"} => ~Undisturbed

\* A program that has come to its end has passed on every byte in both
\* directions, with the end of both: all that was typed is acknowledged, with
\* the FIN after it, and all that the other peer sent is written and standard
\* output closed.  So no direction is cut off by a rule that is cancelled, by
\* the thread that shuts the pair, or by wait_until_closed.
CleanEnd ==
    main = "succeeded" /\ Undisturbed =>
        /\ s.tcp.outbound.popped = s.input.typed /\ s.tcp.fin /\ s.tcp.in_flight = 0
        /\ s.output.bytes = Sent /\ s.copy.output_closed

Streams(t) == <<t.tcp.inbound, t.tcp.outbound, t.copy.inbound, t.copy.outbound>>

\* Nothing is pushed to a stream that has been closed: Writer::push does not
\* look at is_closed_, so each writer has to stop by itself.  (After a reset
\* the loop of the copy does not.)
NothingAfterClose ==
    [][Undisturbed' =>
         \A i \in 1 .. 4 : Streams(s)[i].closed =>
            Streams(s')[i].pushed = Streams(s)[i].pushed]_vars

\* The program comes to an end: neither thread waits for the other or for an
\* event that does not come, also after a reset, and also when an exception
\* leaves only _abort to tell the thread.  (Not when standard output has lost
\* its reader: then bytes may be left that nobody takes.)
Terminates ==
    <>(s.killed \/ main \in {"succeeded", "failed"} \/ s.output.state = "broken")
=============================================================================
