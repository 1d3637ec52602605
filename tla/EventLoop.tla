----------------------------- MODULE EventLoop ------------------------------
(***************************************************************************)
(* wait_next_event of src/util/eventloop.cc, for rules that watch file     *)
(* descriptors, over the state s of whatever its callbacks work on.  The   *)
(* call of poll parts it in two: the walk that sets up what to poll, and   *)
(* the walk over what poll has found, which may be out of date by then.    *)
(* No program of the repository has rules without a descriptor, or         *)
(* requests that a rule be cancelled, and no rule recovers from an error.  *)
(***************************************************************************)
EXTENDS Integers, Sequences, Functions

CONSTANTS
    Direction(_),       \* of a rule: "IN" or "OUT"
    Interest(_, _),     \* is the rule interested in the state?
    Callback(_, _),     \* the state after its callback, beside what poll asks
    Cancel(_, _),       \* the state after its cancel callback
    Eof(_, _),          \* its descriptor has read the end of its file
    Closed(_, _),       \* its descriptor is closed
    Revents(_, _)       \* what poll finds at its descriptor, if it is asked for all

\* The rules left, in order; what each was polled for.
NoRules(s) == [s |-> s, rules |-> <<>>, events |-> {}]

\* A rule that can read no more, or has its descriptor closed, is cancelled and
\* erased; the others are polled, for their direction if they are interested,
\* for errors and a hangup anyway.
SetUpRule(walk, r) ==
    IF (Direction(r) = "IN" /\ Eof(r, walk.s)) \/ Closed(r, walk.s)
    THEN [walk EXCEPT !.s = Cancel(r, @)]
    ELSE [s |-> walk.s, rules |-> Append(walk.rules, r),
          events |-> IF Interest(r, walk.s) THEN walk.events \union {r} ELSE walk.events]

SetUp(rules, s) ==
    LET Walk[i \in 0 .. Len(rules)] ==
            IF i = 0 THEN NoRules(s) ELSE SetUpRule(Walk[i - 1], rules[i])
    IN  Walk[Len(rules)]

\* What poll reports of a rule's descriptor.
Reported(loop, r, s) ==
    Revents(r, s) \intersect
        ({"ERR", "HUP"} \union IF r \in loop.events THEN {Direction(r)} ELSE {})

Poll(loop, s) == [r \in Range(loop.rules) |-> Reported(loop, r, s)]

\* poll returns before its timeout.
Wakes(loop, s) == \E r \in Range(loop.rules) : Reported(loop, r, s) # {}

Ready(r, revents) == Direction(r) \in revents[r]

\* The descriptor is of no more use to the rule.
Defunct(loop, r, revents) ==
    \/ "ERR" \in revents[r]
    \/ /\ "HUP" \in revents[r]
       /\ (r \in loop.events /\ ~Ready(r, revents)) \/ Direction(r) = "OUT"

\* Served without a read or a write, and interested still.
Busy(r, served) == ~served.counted /\ ~Closed(r, served.s) /\ Interest(r, served.s)

\* Only the first rule that is ready is served; the walk ends there.
ServeRule(loop, revents, walk, r) ==
    IF walk.over THEN [walk EXCEPT !.rules = Append(@, r)]
    ELSE IF Defunct(loop, r, revents) THEN [walk EXCEPT !.s = Cancel(r, @)]
    ELSE IF ~Ready(r, revents) THEN [walk EXCEPT !.rules = Append(@, r)]
    ELSE LET served == Callback(r, walk.s)
         IN  [s |-> served.s, rules |-> Append(walk.rules, r), over |-> TRUE,
              throws |-> served.throws \/ Busy(r, served)]

Serve(loop, revents, s) ==
    LET Walk[i \in 0 .. Len(loop.rules)] ==
            IF i = 0 THEN [s |-> s, rules |-> <<>>, over |-> FALSE, throws |-> FALSE]
            ELSE ServeRule(loop, revents, Walk[i - 1], loop.rules[i])
    IN  Walk[Len(loop.rules)]
=============================================================================
