--------------------------- MODULE ProgramProofs ----------------------------
(***************************************************************************)
(* However the TCP thread and the thread of the program interleave, what   *)
(* each has polled is still good enough when it is served: no write meets  *)
(* a direction that is shut, and a program that ends has passed on every   *)
(* byte, for every capacity, window and number of bytes.                   *)
(***************************************************************************)
EXTENDS Program, SequenceTheorems, WellFoundedInduction, TLAPS

TcpRules  == {"receive TCP segment", "push bytes", "read bytes", "send TCP segment"}
CopyRules == {"from stdin", "into socket", "from socket", "into stdout"}
Found     == {"IN", "OUT", "ERR", "HUP"}

TcpType ==
    [outbound : StreamType, inbound : StreamType, in_flight : Nat, away : Nat,
     syn : BOOLEAN, fin : BOOLEAN, has_ackno : BOOLEAN, ready : BOOLEAN]
Segments == [kind : {"SYN", "BYTE", "FIN", "ACK", "RST"}, acked : Nat]
ThreadType == [eof : BOOLEAN, outbound_shutdown : BOOLEAN, inbound_shutdown : BOOLEAN]
CopyType ==
    [outbound : StreamType, inbound : StreamType,
     outbound_shutdown : BOOLEAN, inbound_shutdown : BOOLEAN,
     input_eof : BOOLEAN, socket_eof : BOOLEAN, output_closed : BOOLEAN]
PairType == [down : Nat, up : Nat, down_shut : BOOLEAN, up_shut : BOOLEAN]
InputType == [kind : {"pipe", "file"}, left : Nat, typed : Nat, ended : BOOLEAN]
OutputType == [state : {"open", "broken", "full"}, bytes : Nat]

State ==
    [tcp : TcpType, outgoing_segments_ : BOOLEAN,
     arrived : {<<>>} \union {<<seg>> : seg \in Segments},
     thread : ThreadType, copy : CopyType, pair : PairType,
     input : InputType, output : OutputType, killed : BOOLEAN]

Loops(rules, ats) ==
    [rules : Seq(rules), events : SUBSET rules,
     revents : UNION {[polled -> SUBSET Found] : polled \in SUBSET rules}, at : ats]

\* What holds of the state whatever happens outside.
TcpOK(tcp) ==
    /\ StreamOK(tcp.outbound) /\ tcp.outbound.capacity = SendCapacity
    /\ StreamOK(tcp.inbound) /\ tcp.inbound.capacity = RecvCapacity
    /\ tcp.away <= tcp.in_flight /\ tcp.in_flight <= RemoteWindow
    /\ ~tcp.syn => tcp.in_flight = 0

CopyOK(copy) ==
    /\ StreamOK(copy.outbound) /\ copy.outbound.capacity = CopyCapacity
    /\ StreamOK(copy.inbound) /\ copy.inbound.capacity = CopyCapacity
    /\ copy.input_eof => copy.outbound.closed
    /\ copy.socket_eof => copy.inbound.closed
    /\ copy.output_closed => copy.inbound.closed

Base(t) ==
    /\ t \in State
    /\ TcpOK(t.tcp)
    /\ CopyOK(t.copy)
    /\ t.pair.down <= PairCapacity /\ t.pair.up <= PairCapacity
    /\ t.arrived # <<>> => t.arrived[1].acked <= t.tcp.away
    /\ t.thread.eof => t.tcp.outbound.closed /\ t.thread.outbound_shutdown

\* From standard input to the other peer: each direction is shut behind the
\* last byte, and no byte is left behind on the way.
WayOut(t) ==
    /\ t.input.typed = t.copy.outbound.pushed + t.input.left
    /\ t.copy.outbound.popped = t.tcp.outbound.pushed + t.pair.down
    /\ t.copy.outbound.closed => t.input.ended /\ t.input.left = 0
    /\ t.copy.outbound_shutdown => t.pair.down_shut
    /\ t.pair.down_shut => Finished(t.copy.outbound)
    /\ t.tcp.outbound.closed => t.pair.down_shut /\ t.pair.down = 0

\* From the other peer to standard output.
WayIn(t) ==
    /\ t.output.bytes = t.copy.inbound.popped
    /\ t.tcp.inbound.popped = t.copy.inbound.pushed + t.pair.up
    /\ t.tcp.inbound.closed => t.tcp.inbound.pushed = Sent
    /\ t.thread.inbound_shutdown => t.pair.up_shut
    /\ t.pair.up_shut => Finished(t.tcp.inbound)
    /\ t.copy.inbound.closed => t.pair.up_shut /\ t.pair.up = 0
    /\ t.copy.inbound_shutdown => t.copy.output_closed
    /\ t.copy.output_closed => Finished(t.copy.inbound)

\* The segment that has arrived fits.
Acceptable(t) ==
    t.arrived # <<>> =>
        /\ t.arrived[1].kind # "RST"
        /\ t.arrived[1].kind # "SYN" => t.tcp.has_ackno
        /\ t.arrived[1].kind = "BYTE" => /\ t.tcp.inbound.pushed < Sent
                                         /\ Available(t.tcp.inbound) > 0
        /\ t.arrived[1].kind = "FIN" => t.tcp.inbound.pushed = Sent

\* A FIN that has not been sent waits for the window to open.
FinFollows(tcp) == Finished(tcp.outbound) /\ ~tcp.fin => tcp.in_flight > 0

\* What holds as long as nothing goes wrong outside.
Sound(t) == ~t.killed /\ ~t.tcp.inbound.error /\ WayOut(t) /\ WayIn(t) /\ Acceptable(t)

Good(t) == Sound(t) /\ FinFollows(t.tcp)

-----------------------------------------------------------------------------
\* What the loops know

Elements(q) == {q[i] : i \in 1 .. Len(q)}

Tried(loop) == Elements(loop.rules)

TcpAsked(loop, t) == "push bytes" \in loop.events => Available(t.tcp.outbound) > 0

\* What poll has found is still so.
TcpFresh(loop, t) ==
    /\ DOMAIN loop.revents = Tried(loop)
    /\ "receive TCP segment" \in Tried(loop) =>
         /\ loop.revents["receive TCP segment"] \subseteq {"IN"}
         /\ "IN" \in loop.revents["receive TCP segment"] => t.arrived # <<>>
    /\ "push bytes" \in Tried(loop) =>
         /\ "ERR" \notin loop.revents["push bytes"]
         /\ "IN" \in loop.revents["push bytes"] =>
              /\ "push bytes" \in loop.events
              /\ t.pair.down > 0 \/ t.pair.down_shut
         /\ "HUP" \in loop.revents["push bytes"] /\ "push bytes" \in loop.events =>
              "IN" \in loop.revents["push bytes"]
    /\ "read bytes" \in Tried(loop) =>
         /\ "ERR" \notin loop.revents["read bytes"]
         /\ "OUT" \in loop.revents["read bytes"] => t.pair.up < PairCapacity
         /\ "HUP" \in loop.revents["read bytes"] => t.pair.up_shut /\ t.pair.down_shut
    /\ "send TCP segment" \in Tried(loop) =>
         loop.revents["send TCP segment"] \subseteq {"OUT"}

\* A rule of the socket is cancelled at its end only.
TcpRulesLeft(tried, t) ==
    /\ "receive TCP segment" \in tried
    /\ "read bytes" \in tried \/ t.pair.up_shut

TcpDone(t) ==
    /\ Finished(t.tcp.outbound) /\ t.tcp.fin /\ t.tcp.in_flight = 0
    /\ t.tcp.inbound.closed /\ t.pair.up_shut /\ t.pair.down_shut

CopyAsked(loop, t) ==
    /\ "from stdin" \in loop.events => Available(t.copy.outbound) > 0
    /\ "from socket" \in loop.events => Available(t.copy.inbound) > 0

CopyFresh(loop, t) ==
    /\ DOMAIN loop.revents = Tried(loop)
    /\ "from stdin" \in Tried(loop) =>
         /\ "ERR" \notin loop.revents["from stdin"]
         /\ "IN" \in loop.revents["from stdin"] =>
              /\ "from stdin" \in loop.events
              /\ t.input.left > 0 \/ t.input.ended
         /\ "HUP" \in loop.revents["from stdin"] /\ "from stdin" \in loop.events
              /\ "IN" \notin loop.revents["from stdin"] =>
              t.input.left = 0 /\ t.input.ended
    /\ "into socket" \in Tried(loop) =>
         /\ "ERR" \notin loop.revents["into socket"]
         /\ "OUT" \in loop.revents["into socket"] => t.pair.down < PairCapacity
         /\ "HUP" \in loop.revents["into socket"] => t.pair.up_shut /\ t.pair.down_shut
    /\ "from socket" \in Tried(loop) =>
         /\ "ERR" \notin loop.revents["from socket"]
         /\ "IN" \in loop.revents["from socket"] =>
              /\ "from socket" \in loop.events
              /\ t.pair.up > 0 \/ t.pair.up_shut
         /\ "HUP" \in loop.revents["from socket"] /\ "from socket" \in loop.events =>
              "IN" \in loop.revents["from socket"]
    /\ "into stdout" \in Tried(loop) =>
         /\ "HUP" \notin loop.revents["into stdout"]
         /\ "ERR" \in loop.revents["into stdout"] => t.output.state = "broken"

CopyRulesLeft(tried, t) ==
    /\ "from stdin" \in tried \/ t.copy.outbound.closed
    /\ "into socket" \in tried \/ t.pair.down_shut
    /\ "from socket" \in tried \/ t.copy.inbound.closed
    /\ "into stdout" \in tried \/ t.copy.output_closed

CopyDone(t) == Finished(t.copy.outbound) /\ t.pair.down_shut /\ t.copy.output_closed

-----------------------------------------------------------------------------
\* The inductive invariant

TcpLoopIs(loop, t) ==
    /\ loop \in Loops(TcpRules, {"poll", "serve", "left", "ended"})
    /\ loop.at \in {"poll", "serve"} => TcpAsked(loop, t)
    /\ loop.at = "serve" => TcpFresh(loop, t)

CopyLoopIs(loop, t) ==
    /\ loop \in Loops(CopyRules, {"idle", "poll", "serve", "left", "thrown"})
    /\ loop.at \in {"poll", "serve"} => CopyAsked(loop, t)
    /\ loop.at = "serve" => CopyFresh(loop, t)

TcpGoesWell(loop, t) ==
    /\ loop.at \in {"poll", "serve"} => TcpRulesLeft(Tried(loop), t)
    /\ loop.at \in {"left", "ended"} => TcpDone(t)

CopyGoesWell(loop, t) ==
    /\ loop.at \in {"poll", "serve"} => CopyRulesLeft(Tried(loop), t)
    /\ loop.at = "left" => CopyDone(t)

MainOK ==
    /\ main \in {"connect", "accept", "copy", "unwind", "wait", "destroy",
                 "succeeded", "failed"}
    /\ _abort \in BOOLEAN /\ reset \in BOOLEAN

Smooth ==
    /\ Good(s) /\ TcpGoesWell(tcp_loop, s) /\ CopyGoesWell(copy_loop, s)
    /\ main \notin {"unwind", "destroy", "failed"} /\ ~_abort
    /\ main \in {"wait", "succeeded"} => copy_loop.at = "left"
    /\ main = "succeeded" => tcp_loop.at = "ended"

IInv ==
    /\ Base(s) /\ TcpLoopIs(tcp_loop, s) /\ CopyLoopIs(copy_loop, s) /\ MainOK
    /\ Undisturbed => Smooth
-----------------------------------------------------------------------------
\* The walks over the rules

\* What holds of zero and is handed on holds up to n.
LEMMA Climb ==
    ASSUME NEW n \in Nat, NEW S, 0 \in S, \A k \in 0 .. n - 1 : k \in S => k + 1 \in S
    PROVE  \A k \in 0 .. n : k \in S
  <1> DEFINE T == {k \in 0 .. n : k \notin S}
             R == {ss \in Nat \X Nat : ss[1] < ss[2]}
  <1> SUFFICES ASSUME T # {} PROVE FALSE
    OBVIOUS
  <1>1. R = OpToRel(<, Nat)
    BY DEF OpToRel
  <1>2. IsWellFoundedOn(R, Nat)
    BY <1>1, NatLessThanWellFounded
  <1>3. \A x, y \in Nat : <<x, y>> \in R <=> x < y
    OBVIOUS
  <1>4. T \in SUBSET Nat
    OBVIOUS
  <1> HIDE DEF R
  <1>5. PICK m \in T : \A y \in T : ~ (<<y, m>> \in R)
    <2> HIDE DEF T
    <2> QED
      BY <1>2, <1>4, WFMin
  <1>6. m \in Nat /\ m # 0 /\ m \in 0 .. n
    BY <1>4, <1>5
  <1>7. m - 1 \in Nat /\ m - 1 \in 0 .. n - 1 /\ m - 1 < m
    BY <1>6
  <1>8. m - 1 \notin T
    BY <1>3, <1>5, <1>6, <1>7
  <1>9. m - 1 \in S
    BY <1>7, <1>8
  <1> QED
    BY <1>5, <1>6, <1>7, <1>9

LEMMA ElementsOfAppend ==
    ASSUME NEW R, NEW q \in Seq(R), NEW r \in R
    PROVE  Append(q, r) \in Seq(R) /\ Elements(Append(q, r)) = Elements(q) \union {r}
<1>1. PICK z : z = Append(q, r)
  OBVIOUS
<1>2. PICK n \in Nat : n = Len(q)
  OBVIOUS
<1>3. /\ z \in Seq(R) /\ Len(z) = n + 1 /\ z[n + 1] = r
      /\ \A i \in 1 .. n : z[i] = q[i]
  BY <1>1, <1>2, AppendProperties
<1>4. Elements(z) = {z[i] : i \in 1 .. n + 1} /\ Elements(q) = {q[i] : i \in 1 .. n}
  BY <1>2, <1>3 DEF Elements
<1>5. {z[i] : i \in 1 .. n + 1} = {q[i] : i \in 1 .. n} \union {r}
  BY <1>3
<1> QED BY <1>1, <1>3, <1>4, <1>5

ServeStart(t) == [s |-> t, rules |-> <<>>, over |-> FALSE, throws |-> FALSE]

IsTcpSetUp(n, rules, t, f) ==
    f = [i \in 0 .. n |-> IF i = 0 THEN TcpLoop!NoRules(t)
                          ELSE TcpLoop!SetUpRule(f[i - 1], rules[i])]

LEMMA TcpSetUpExists ==
    ASSUME NEW rules, NEW t, NEW n \in Nat PROVE \E f : IsTcpSetUp(n, rules, t, f)
<1> DEFINE S == {k \in 0 .. n : \E f : IsTcpSetUp(k, rules, t, f)}
<1>1. 0 \in S
  <2>1. IsTcpSetUp(0, rules, t, [k \in 0 .. 0 |-> TcpLoop!NoRules(t)])
    BY DEF IsTcpSetUp
  <2> QED BY <2>1
<1>2. \A k \in 0 .. n - 1 : k \in S => k + 1 \in S
  <2> SUFFICES ASSUME NEW k \in 0 .. n - 1, k \in S PROVE k + 1 \in S
    OBVIOUS
  <2>1. PICK f : IsTcpSetUp(k, rules, t, f)
    OBVIOUS
  <2> DEFINE g == [m \in 0 .. k + 1 |->
                     IF m = k + 1 THEN TcpLoop!SetUpRule(f[k], rules[k + 1])
                     ELSE f[m]]
  <2>2. IsTcpSetUp(k + 1, rules, t, g)
    BY <2>1 DEF IsTcpSetUp
  <2> QED BY <2>2
<1> HIDE DEF S
<1>3. n \in S
  BY <1>1, <1>2, Climb
<1> QED BY <1>3 DEF S

LEMMA TcpSetUpRounds ==
    ASSUME NEW rules, NEW t, Len(rules) \in Nat
    PROVE  \E f : /\ TcpLoop!SetUp(rules, t) = f[Len(rules)]
                  /\ f[0] = TcpLoop!NoRules(t)
                  /\ \A k \in 0 .. Len(rules) - 1 :
                       f[k + 1] = TcpLoop!SetUpRule(f[k], rules[k + 1])
<1> DEFINE g == CHOOSE f : IsTcpSetUp(Len(rules), rules, t, f)
<1>1. IsTcpSetUp(Len(rules), rules, t, g)
  <2>1. \E f : IsTcpSetUp(Len(rules), rules, t, f)
    BY TcpSetUpExists
  <2> QED BY <2>1
<1>2. TcpLoop!SetUp(rules, t) = g[Len(rules)]
  BY DEF TcpLoop!SetUp, IsTcpSetUp
<1> HIDE DEF g
<1>3. \A i \in 0 .. Len(rules) :
        g[i] = IF i = 0 THEN TcpLoop!NoRules(t)
               ELSE TcpLoop!SetUpRule(g[i - 1], rules[i])
  BY <1>1 DEF IsTcpSetUp
<1>4. ASSUME NEW k \in 0 .. Len(rules) - 1
      PROVE  g[k + 1] = TcpLoop!SetUpRule(g[k], rules[k + 1])
  <2>1. k + 1 \in 0 .. Len(rules) /\ k + 1 # 0 /\ (k + 1) - 1 = k
    OBVIOUS
  <2> QED BY <1>3, <2>1
<1> QED BY <1>2, <1>3, <1>4

IsTcpServe(n, loop, t, f) ==
    f = [i \in 0 .. n |-> IF i = 0 THEN ServeStart(t)
                          ELSE TcpLoop!ServeRule(loop, loop.revents, f[i - 1], loop.rules[i])]

LEMMA TcpServeExists ==
    ASSUME NEW loop, NEW t, NEW n \in Nat PROVE \E f : IsTcpServe(n, loop, t, f)
<1> DEFINE S == {k \in 0 .. n : \E f : IsTcpServe(k, loop, t, f)}
<1>1. 0 \in S
  <2>1. IsTcpServe(0, loop, t, [k \in 0 .. 0 |-> ServeStart(t)])
    BY DEF IsTcpServe
  <2> QED BY <2>1
<1>2. \A k \in 0 .. n - 1 : k \in S => k + 1 \in S
  <2> SUFFICES ASSUME NEW k \in 0 .. n - 1, k \in S PROVE k + 1 \in S
    OBVIOUS
  <2>1. PICK f : IsTcpServe(k, loop, t, f)
    OBVIOUS
  <2> DEFINE g == [m \in 0 .. k + 1 |->
                     IF m = k + 1 THEN TcpLoop!ServeRule(loop, loop.revents, f[k], loop.rules[k + 1])
                     ELSE f[m]]
  <2>2. IsTcpServe(k + 1, loop, t, g)
    <3> DEFINE Start == ServeStart(t)
               Serve(w, i) == TcpLoop!ServeRule(loop, loop.revents, w, loop.rules[i])
    <3>1. f = [i \in 0 .. k |-> IF i = 0 THEN Start ELSE Serve(f[i - 1], i)]
      BY <2>1 DEF IsTcpServe
    <3>2. g = [m \in 0 .. k + 1 |-> IF m = k + 1 THEN Serve(f[k], k + 1) ELSE f[m]]
      OBVIOUS
    <3> HIDE DEF g, Start, Serve
    <3>3. g = [i \in 0 .. k + 1 |-> IF i = 0 THEN Start ELSE Serve(g[i - 1], i)]
      BY <3>1, <3>2
    <3> QED BY <3>3 DEF Start, Serve, IsTcpServe
  <2> QED BY <2>2
<1> HIDE DEF S
<1>3. n \in S
  BY <1>1, <1>2, Climb
<1> QED BY <1>3 DEF S

LEMMA TcpServeRounds ==
    ASSUME NEW loop, NEW t, Len(loop.rules) \in Nat
    PROVE  \E f : /\ TcpLoop!Serve(loop, loop.revents, t) = f[Len(loop.rules)]
                  /\ f[0] = ServeStart(t)
                  /\ \A k \in 0 .. Len(loop.rules) - 1 :
                       f[k + 1] = TcpLoop!ServeRule(loop, loop.revents, f[k], loop.rules[k + 1])
<1> DEFINE g == CHOOSE f : IsTcpServe(Len(loop.rules), loop, t, f)
<1>1. IsTcpServe(Len(loop.rules), loop, t, g)
  <2>1. \E f : IsTcpServe(Len(loop.rules), loop, t, f)
    BY TcpServeExists
  <2> QED BY <2>1
<1>2. TcpLoop!Serve(loop, loop.revents, t) = g[Len(loop.rules)]
  BY DEF TcpLoop!Serve, IsTcpServe, ServeStart
<1> HIDE DEF g
<1>3. \A i \in 0 .. Len(loop.rules) :
        g[i] = IF i = 0 THEN ServeStart(t)
               ELSE TcpLoop!ServeRule(loop, loop.revents, g[i - 1], loop.rules[i])
  BY <1>1 DEF IsTcpServe
<1>4. ASSUME NEW k \in 0 .. Len(loop.rules) - 1
      PROVE  g[k + 1] = TcpLoop!ServeRule(loop, loop.revents, g[k], loop.rules[k + 1])
  <2>1. k + 1 \in 0 .. Len(loop.rules) /\ k + 1 # 0 /\ (k + 1) - 1 = k
    OBVIOUS
  <2> QED BY <1>3, <2>1
<1> QED BY <1>2, <1>3, <1>4

IsCopySetUp(n, rules, t, f) ==
    f = [i \in 0 .. n |-> IF i = 0 THEN CopyLoop!NoRules(t)
                          ELSE CopyLoop!SetUpRule(f[i - 1], rules[i])]

LEMMA CopySetUpExists ==
    ASSUME NEW rules, NEW t, NEW n \in Nat PROVE \E f : IsCopySetUp(n, rules, t, f)
<1> DEFINE S == {k \in 0 .. n : \E f : IsCopySetUp(k, rules, t, f)}
<1>1. 0 \in S
  <2>1. IsCopySetUp(0, rules, t, [k \in 0 .. 0 |-> CopyLoop!NoRules(t)])
    BY DEF IsCopySetUp
  <2> QED BY <2>1
<1>2. \A k \in 0 .. n - 1 : k \in S => k + 1 \in S
  <2> SUFFICES ASSUME NEW k \in 0 .. n - 1, k \in S PROVE k + 1 \in S
    OBVIOUS
  <2>1. PICK f : IsCopySetUp(k, rules, t, f)
    OBVIOUS
  <2> DEFINE g == [m \in 0 .. k + 1 |->
                     IF m = k + 1 THEN CopyLoop!SetUpRule(f[k], rules[k + 1])
                     ELSE f[m]]
  <2>2. IsCopySetUp(k + 1, rules, t, g)
    BY <2>1 DEF IsCopySetUp
  <2> QED BY <2>2
<1> HIDE DEF S
<1>3. n \in S
  BY <1>1, <1>2, Climb
<1> QED BY <1>3 DEF S

LEMMA CopySetUpRounds ==
    ASSUME NEW rules, NEW t, Len(rules) \in Nat
    PROVE  \E f : /\ CopyLoop!SetUp(rules, t) = f[Len(rules)]
                  /\ f[0] = CopyLoop!NoRules(t)
                  /\ \A k \in 0 .. Len(rules) - 1 :
                       f[k + 1] = CopyLoop!SetUpRule(f[k], rules[k + 1])
<1> DEFINE g == CHOOSE f : IsCopySetUp(Len(rules), rules, t, f)
<1>1. IsCopySetUp(Len(rules), rules, t, g)
  <2>1. \E f : IsCopySetUp(Len(rules), rules, t, f)
    BY CopySetUpExists
  <2> QED BY <2>1
<1>2. CopyLoop!SetUp(rules, t) = g[Len(rules)]
  BY DEF CopyLoop!SetUp, IsCopySetUp
<1> HIDE DEF g
<1>3. \A i \in 0 .. Len(rules) :
        g[i] = IF i = 0 THEN CopyLoop!NoRules(t)
               ELSE CopyLoop!SetUpRule(g[i - 1], rules[i])
  BY <1>1 DEF IsCopySetUp
<1>4. ASSUME NEW k \in 0 .. Len(rules) - 1
      PROVE  g[k + 1] = CopyLoop!SetUpRule(g[k], rules[k + 1])
  <2>1. k + 1 \in 0 .. Len(rules) /\ k + 1 # 0 /\ (k + 1) - 1 = k
    OBVIOUS
  <2> QED BY <1>3, <2>1
<1> QED BY <1>2, <1>3, <1>4

IsCopyServe(n, loop, t, f) ==
    f = [i \in 0 .. n |-> IF i = 0 THEN ServeStart(t)
                          ELSE CopyLoop!ServeRule(loop, loop.revents, f[i - 1], loop.rules[i])]

LEMMA CopyServeExists ==
    ASSUME NEW loop, NEW t, NEW n \in Nat PROVE \E f : IsCopyServe(n, loop, t, f)
<1> DEFINE S == {k \in 0 .. n : \E f : IsCopyServe(k, loop, t, f)}
<1>1. 0 \in S
  <2>1. IsCopyServe(0, loop, t, [k \in 0 .. 0 |-> ServeStart(t)])
    BY DEF IsCopyServe
  <2> QED BY <2>1
<1>2. \A k \in 0 .. n - 1 : k \in S => k + 1 \in S
  <2> SUFFICES ASSUME NEW k \in 0 .. n - 1, k \in S PROVE k + 1 \in S
    OBVIOUS
  <2>1. PICK f : IsCopyServe(k, loop, t, f)
    OBVIOUS
  <2> DEFINE g == [m \in 0 .. k + 1 |->
                     IF m = k + 1 THEN CopyLoop!ServeRule(loop, loop.revents, f[k], loop.rules[k + 1])
                     ELSE f[m]]
  <2>2. IsCopyServe(k + 1, loop, t, g)
    <3> DEFINE Start == ServeStart(t)
               Serve(w, i) == CopyLoop!ServeRule(loop, loop.revents, w, loop.rules[i])
    <3>1. f = [i \in 0 .. k |-> IF i = 0 THEN Start ELSE Serve(f[i - 1], i)]
      BY <2>1 DEF IsCopyServe
    <3>2. g = [m \in 0 .. k + 1 |-> IF m = k + 1 THEN Serve(f[k], k + 1) ELSE f[m]]
      OBVIOUS
    <3> HIDE DEF g, Start, Serve
    <3>3. g = [i \in 0 .. k + 1 |-> IF i = 0 THEN Start ELSE Serve(g[i - 1], i)]
      BY <3>1, <3>2
    <3> QED BY <3>3 DEF Start, Serve, IsCopyServe
  <2> QED BY <2>2
<1> HIDE DEF S
<1>3. n \in S
  BY <1>1, <1>2, Climb
<1> QED BY <1>3 DEF S

LEMMA CopyServeRounds ==
    ASSUME NEW loop, NEW t, Len(loop.rules) \in Nat
    PROVE  \E f : /\ CopyLoop!Serve(loop, loop.revents, t) = f[Len(loop.rules)]
                  /\ f[0] = ServeStart(t)
                  /\ \A k \in 0 .. Len(loop.rules) - 1 :
                       f[k + 1] = CopyLoop!ServeRule(loop, loop.revents, f[k], loop.rules[k + 1])
<1> DEFINE g == CHOOSE f : IsCopyServe(Len(loop.rules), loop, t, f)
<1>1. IsCopyServe(Len(loop.rules), loop, t, g)
  <2>1. \E f : IsCopyServe(Len(loop.rules), loop, t, f)
    BY CopyServeExists
  <2> QED BY <2>1
<1>2. CopyLoop!Serve(loop, loop.revents, t) = g[Len(loop.rules)]
  BY DEF CopyLoop!Serve, IsCopyServe, ServeStart
<1> HIDE DEF g
<1>3. \A i \in 0 .. Len(loop.rules) :
        g[i] = IF i = 0 THEN ServeStart(t)
               ELSE CopyLoop!ServeRule(loop, loop.revents, g[i - 1], loop.rules[i])
  BY <1>1 DEF IsCopyServe
<1>4. ASSUME NEW k \in 0 .. Len(loop.rules) - 1
      PROVE  g[k + 1] = CopyLoop!ServeRule(loop, loop.revents, g[k], loop.rules[k + 1])
  <2>1. k + 1 \in 0 .. Len(loop.rules) /\ k + 1 # 0 /\ (k + 1) - 1 = k
    OBVIOUS
  <2> QED BY <1>3, <2>1
<1> QED BY <1>2, <1>3, <1>4


\* The helpers of StreamState and Descriptors, by either name.
LEMMA TcpSame ==
    /\ \A x : Tcp!One(x) = One(x)
    /\ \A x, y : Tcp!AtMost(x, y) = AtMost(x, y)
    /\ \A x : Tcp!Buffered(x) = Buffered(x)
    /\ \A x : Tcp!Available(x) = Available(x)
    /\ \A x : Tcp!Finished(x) = Finished(x)
    /\ \A x, y : Tcp!Fitting(x, y) = Fitting(x, y)
    /\ \A x, y : Tcp!PushTo(x, y) = PushTo(x, y)
    /\ \A x : Tcp!CloseStream(x) = CloseStream(x)
    /\ \A x : Tcp!FailStream(x) = FailStream(x)
    /\ \A x, y : Tcp!PopFrom(x, y) = PopFrom(x, y)
    /\ \A x, y : Tcp!ReadCount(x, y) = ReadCount(x, y)
    /\ \A x : Tcp!EmptyStream(x) = EmptyStream(x)
    /\ \A x : Tcp!HangsUp(x) = HangsUp(x)
<1>1. \A x : Tcp!One(x) = One(x)
  BY Zenon DEF Tcp!One, One
<1>2. \A x, y : Tcp!AtMost(x, y) = AtMost(x, y)
  BY Zenon DEF Tcp!AtMost, AtMost
<1>3. \A x : Tcp!Buffered(x) = Buffered(x)
  BY Zenon DEF Tcp!Buffered, Buffered
<1>4. \A x : Tcp!Available(x) = Available(x)
  BY Zenon DEF Tcp!Available, Tcp!Buffered, Available, Buffered
<1>5. \A x : Tcp!Finished(x) = Finished(x)
  BY Zenon DEF Tcp!Finished, Tcp!Buffered, Finished, Buffered
<1>6. \A x, y : Tcp!Fitting(x, y) = Fitting(x, y)
  BY Zenon DEF Tcp!Fitting, Tcp!AtMost, Tcp!Available, Tcp!Buffered, Fitting, AtMost, Available, Buffered
<1>7. \A x, y : Tcp!PushTo(x, y) = PushTo(x, y)
  BY Zenon DEF Tcp!PushTo, Tcp!Fitting, Tcp!AtMost, Tcp!Available, Tcp!Buffered, PushTo, Fitting, AtMost, Available, Buffered
<1>8. \A x : Tcp!CloseStream(x) = CloseStream(x)
  BY Zenon DEF Tcp!CloseStream, CloseStream
<1>9. \A x : Tcp!FailStream(x) = FailStream(x)
  BY Zenon DEF Tcp!FailStream, FailStream
<1>10. \A x, y : Tcp!PopFrom(x, y) = PopFrom(x, y)
  BY Zenon DEF Tcp!PopFrom, PopFrom
<1>11. \A x, y : Tcp!ReadCount(x, y) = ReadCount(x, y)
  BY Zenon DEF Tcp!ReadCount, Tcp!AtMost, ReadCount, AtMost
<1>12. \A x : Tcp!EmptyStream(x) = EmptyStream(x)
  BY Zenon DEF Tcp!EmptyStream, EmptyStream
<1>13. \A x : Tcp!HangsUp(x) = HangsUp(x)
  BY Zenon DEF Tcp!HangsUp, HangsUp
<1> QED BY <1>1, <1>2, <1>3, <1>4, <1>5, <1>6, <1>7, <1>8, <1>9, <1>10, <1>11, <1>12, <1>13

\* The helpers of StreamState and Descriptors, by either name.
LEMMA CopySame ==
    /\ \A x : Copy!One(x) = One(x)
    /\ \A x, y : Copy!AtMost(x, y) = AtMost(x, y)
    /\ \A x : Copy!Buffered(x) = Buffered(x)
    /\ \A x : Copy!Available(x) = Available(x)
    /\ \A x : Copy!Finished(x) = Finished(x)
    /\ \A x, y : Copy!Fitting(x, y) = Fitting(x, y)
    /\ \A x, y : Copy!PushTo(x, y) = PushTo(x, y)
    /\ \A x : Copy!CloseStream(x) = CloseStream(x)
    /\ \A x : Copy!FailStream(x) = FailStream(x)
    /\ \A x, y : Copy!PopFrom(x, y) = PopFrom(x, y)
    /\ \A x, y : Copy!ReadCount(x, y) = ReadCount(x, y)
    /\ \A x : Copy!EmptyStream(x) = EmptyStream(x)
    /\ \A x : Copy!HangsUp(x) = HangsUp(x)
<1>1. \A x : Copy!One(x) = One(x)
  BY Zenon DEF Copy!One, One
<1>2. \A x, y : Copy!AtMost(x, y) = AtMost(x, y)
  BY Zenon DEF Copy!AtMost, AtMost
<1>3. \A x : Copy!Buffered(x) = Buffered(x)
  BY Zenon DEF Copy!Buffered, Buffered
<1>4. \A x : Copy!Available(x) = Available(x)
  BY Zenon DEF Copy!Available, Copy!Buffered, Available, Buffered
<1>5. \A x : Copy!Finished(x) = Finished(x)
  BY Zenon DEF Copy!Finished, Copy!Buffered, Finished, Buffered
<1>6. \A x, y : Copy!Fitting(x, y) = Fitting(x, y)
  BY Zenon DEF Copy!Fitting, Copy!AtMost, Copy!Available, Copy!Buffered, Fitting, AtMost, Available, Buffered
<1>7. \A x, y : Copy!PushTo(x, y) = PushTo(x, y)
  BY Zenon DEF Copy!PushTo, Copy!Fitting, Copy!AtMost, Copy!Available, Copy!Buffered, PushTo, Fitting, AtMost, Available, Buffered
<1>8. \A x : Copy!CloseStream(x) = CloseStream(x)
  BY Zenon DEF Copy!CloseStream, CloseStream
<1>9. \A x : Copy!FailStream(x) = FailStream(x)
  BY Zenon DEF Copy!FailStream, FailStream
<1>10. \A x, y : Copy!PopFrom(x, y) = PopFrom(x, y)
  BY Zenon DEF Copy!PopFrom, PopFrom
<1>11. \A x, y : Copy!ReadCount(x, y) = ReadCount(x, y)
  BY Zenon DEF Copy!ReadCount, Copy!AtMost, ReadCount, AtMost
<1>12. \A x : Copy!EmptyStream(x) = EmptyStream(x)
  BY Zenon DEF Copy!EmptyStream, EmptyStream
<1>13. \A x : Copy!HangsUp(x) = HangsUp(x)
  BY Zenon DEF Copy!HangsUp, HangsUp
<1> QED BY <1>1, <1>2, <1>3, <1>4, <1>5, <1>6, <1>7, <1>8, <1>9, <1>10, <1>11, <1>12, <1>13

\* A rule that set-up erases.
TcpOver(r, t) == (Tcp!Direction(r) = "IN" /\ Tcp!Eof(r, t)) \/ Tcp!Closed(r, t)

\* Its cancel callback has nothing left to do.
LEMMA TcpOverCancel ==
    ASSUME NEW t, Base(t), NEW r, TcpOver(r, t)
    PROVE  Tcp!Cancel(r, t) = t
<1>1. r = "push bytes" /\ t.thread.eof
  BY DEF TcpOver, Tcp!Eof, Tcp!Closed
<1>2. /\ t.tcp \in TcpType /\ t.tcp.outbound \in StreamType /\ t.thread \in ThreadType
      /\ t.tcp.outbound.closed = TRUE /\ t.thread.outbound_shutdown = TRUE
  BY <1>1 DEF Base, State, TcpType, ThreadType, StreamType
<1>3. PICK out : out = t.tcp.outbound
  OBVIOUS
<1>4. CloseStream(out) = out
  BY <1>2, <1>3 DEF CloseStream, StreamType
<1>5. Tcp!CloseOutbound(t) = t
  <2>1. PICK yes \in BOOLEAN : yes = TRUE
    OBVIOUS
  <2>2. Tcp!CloseOutbound(t) = [t EXCEPT !.tcp.outbound = CloseStream(t.tcp.outbound),
                                         !.thread.outbound_shutdown = yes]
    <3>1. Tcp!CloseStream(t.tcp.outbound) = CloseStream(t.tcp.outbound)
      BY TcpSame
    <3> QED BY <2>1, <3>1, Zenon DEF Tcp!CloseOutbound
  <2>3. [t EXCEPT !.tcp.outbound = out, !.thread.outbound_shutdown = yes] = t
    BY <1>2, <1>3, <2>1 DEF Base, State, TcpType, ThreadType
  <2> QED BY <1>3, <1>4, <2>2, <2>3, Zenon
<1> QED BY <1>1, <1>5 DEF Tcp!Cancel

LEMMA TcpSetUpRule ==
    ASSUME NEW t, Base(t), NEW q, NEW e, NEW r
    PROVE  /\ TcpOver(r, t) =>
                 TcpLoop!SetUpRule([s |-> t, rules |-> q, events |-> e], r)
                   = [s |-> t, rules |-> q, events |-> e]
           /\ \A e2 : ~TcpOver(r, t) /\ e2 = (IF Tcp!Interest(r, t) THEN e \union {r} ELSE e) =>
                 TcpLoop!SetUpRule([s |-> t, rules |-> q, events |-> e], r)
                   = [s |-> t, rules |-> Append(q, r), events |-> e2]
<1>1. PICK w : w = [s |-> t, rules |-> q, events |-> e]
  OBVIOUS
<1>2. /\ w.s = t /\ w.rules = q /\ w.events = e
      /\ w \in [s : {t}, rules : {q}, events : {e}]
  BY <1>1
<1>3. CASE TcpOver(r, t)
  <2>1. TcpLoop!SetUpRule(w, r) = [w EXCEPT !.s = Tcp!Cancel(r, t)]
    BY <1>2, <1>3 DEF TcpLoop!SetUpRule, TcpOver
  <2>2. Tcp!Cancel(r, t) = t
    BY <1>3, TcpOverCancel
  <2>3. [w EXCEPT !.s = t] = w
    BY <1>2
  <2> QED BY <1>1, <1>3, <2>1, <2>2, <2>3
<1>4. ASSUME NEW e2, ~TcpOver(r, t),
             e2 = (IF Tcp!Interest(r, t) THEN e \union {r} ELSE e)
      PROVE  TcpLoop!SetUpRule(w, r) = [s |-> t, rules |-> Append(q, r), events |-> e2]
  <2>1. TcpLoop!SetUpRule(w, r) = [s |-> w.s, rules |-> Append(w.rules, r), events |-> e2]
    BY <1>2, <1>4, Zenon DEF TcpLoop!SetUpRule, TcpOver
  <2> QED BY <1>2, <2>1, Zenon
<1> QED BY <1>1, <1>3, <1>4

\* Set-up changes nothing but which rules are left, and finds which of these
\* are interested.
LEMMA TcpSetUpFilters ==
    ASSUME NEW t, Base(t), NEW rules \in Seq(TcpRules)
    PROVE  \E q \in Seq(TcpRules), e \in SUBSET TcpRules :
             /\ TcpLoop!SetUp(rules, t) = [s |-> t, rules |-> q, events |-> e]
             /\ Elements(q) = {r \in Elements(rules) : ~TcpOver(r, t)}
             /\ e = {r \in Elements(q) : Tcp!Interest(r, t)}
<1>1. PICK n \in Nat : n = Len(rules)
  OBVIOUS
<1>2. PICK f : /\ TcpLoop!SetUp(rules, t) = f[n]
               /\ f[0] = TcpLoop!NoRules(t)
               /\ \A k \in 0 .. n - 1 : f[k + 1] = TcpLoop!SetUpRule(f[k], rules[k + 1])
  <2>1. Len(rules) \in Nat
    BY <1>1
  <2>2. \E f : /\ TcpLoop!SetUp(rules, t) = f[Len(rules)]
               /\ f[0] = TcpLoop!NoRules(t)
               /\ \A k \in 0 .. Len(rules) - 1 :
                    f[k + 1] = TcpLoop!SetUpRule(f[k], rules[k + 1])
    BY <2>1, TcpSetUpRounds
  <2> QED BY <1>1, <2>2, Zenon
<1> DEFINE Done(k, q, e) ==
             /\ f[k] = [s |-> t, rules |-> q, events |-> e]
             /\ Elements(q) = {r \in {rules[i] : i \in 1 .. k} : ~TcpOver(r, t)}
             /\ e = {r \in Elements(q) : Tcp!Interest(r, t)}
           S == {k \in 0 .. n : \E q \in Seq(TcpRules), e \in SUBSET TcpRules : Done(k, q, e)}
<1>3. 0 \in S
  <2>1. <<>> \in Seq(TcpRules) /\ {} \in SUBSET TcpRules /\ Elements(<<>>) = {}
    BY DEF Elements
  <2>2. f[0] = [s |-> t, rules |-> <<>>, events |-> {}]
    BY <1>2 DEF TcpLoop!NoRules
  <2>3. Done(0, <<>>, {})
    BY <2>1, <2>2
  <2>4. 0 \in 0 .. n
    OBVIOUS
  <2> HIDE DEF Done
  <2> QED BY <2>1, <2>3, <2>4, Zenon
<1>4. \A k \in 0 .. n - 1 : k \in S => k + 1 \in S
  <2> SUFFICES ASSUME NEW k \in 0 .. n - 1, k \in S PROVE k + 1 \in S
    OBVIOUS
  <2>1. PICK q \in Seq(TcpRules), e \in SUBSET TcpRules : Done(k, q, e)
    OBVIOUS
  <2>2. PICK r \in TcpRules : r = rules[k + 1]
    <3>1. k + 1 \in 1 .. Len(rules)
      BY <1>1
    <3> QED BY <3>1, ElementOfSeq
  <2>3. {rules[i] : i \in 1 .. k + 1} = {rules[i] : i \in 1 .. k} \union {r}
    <3>1. 1 .. k + 1 = (1 .. k) \union {k + 1}
      OBVIOUS
    <3> QED BY <2>2, <3>1
  <2>4. f[k + 1] = TcpLoop!SetUpRule([s |-> t, rules |-> q, events |-> e], r)
    BY <1>2, <2>1, <2>2
  <2>5. k + 1 \in 0 .. n
    OBVIOUS
  <2>6. CASE TcpOver(r, t)
    <3>1. f[k + 1] = [s |-> t, rules |-> q, events |-> e]
      <4>1. TcpLoop!SetUpRule([s |-> t, rules |-> q, events |-> e], r)
              = [s |-> t, rules |-> q, events |-> e]
        BY <2>6, TcpSetUpRule, Zenon
      <4> QED BY <2>4, <4>1, Zenon
    <3>2. Elements(q) = {x \in {rules[i] : i \in 1 .. k + 1} : ~TcpOver(x, t)}
      BY <2>1, <2>3, <2>6
    <3>3. Done(k + 1, q, e)
      BY <2>1, <3>1, <3>2
    <3> HIDE DEF Done
    <3> QED BY <2>5, <3>3
  <2>7. CASE ~TcpOver(r, t)
    <3>1. PICK e2 \in SUBSET TcpRules : e2 = IF Tcp!Interest(r, t) THEN e \union {r} ELSE e
      OBVIOUS
    <3>2. PICK q2 \in Seq(TcpRules) : q2 = Append(q, r) /\ Elements(q2) = Elements(q) \union {r}
      <4>1. /\ Append(q, r) \in Seq(TcpRules)
            /\ Elements(Append(q, r)) = Elements(q) \union {r}
        BY ElementsOfAppend
      <4> QED BY <4>1, Zenon
    <3>3. f[k + 1] = [s |-> t, rules |-> q2, events |-> e2]
      <4>1. TcpLoop!SetUpRule([s |-> t, rules |-> q, events |-> e], r)
              = [s |-> t, rules |-> Append(q, r), events |-> e2]
        BY ONLY Base(t), <2>7, <3>1, TcpSetUpRule
      <4> QED BY <2>4, <3>1, <3>2, <4>1, Zenon
    <3>4. Elements(q2) = {x \in {rules[i] : i \in 1 .. k + 1} : ~TcpOver(x, t)}
      BY <2>1, <2>3, <2>7, <3>2
    <3>5. e2 = {x \in Elements(q2) : Tcp!Interest(x, t)}
      BY <2>1, <3>1, <3>2
    <3>6. Done(k + 1, q2, e2)
      BY <3>3, <3>4, <3>5
    <3> HIDE DEF Done
    <3> QED BY <2>5, <3>6
  <2> QED BY <2>6, <2>7
<1>5. n \in S
  <2> HIDE DEF S
  <2>1. \A k \in 0 .. n : k \in S
    BY <1>3, <1>4, Climb
  <2> QED BY <2>1
<1>6. PICK q \in Seq(TcpRules), e \in SUBSET TcpRules : Done(n, q, e)
  BY <1>5
<1>7. Elements(rules) = {rules[i] : i \in 1 .. n}
  BY <1>1 DEF Elements
<1> QED BY <1>2, <1>6, <1>7

\* A rule that set-up erases.
CopyOver(r, t) == (Copy!Direction(r) = "IN" /\ Copy!Eof(r, t)) \/ Copy!Closed(r, t)

\* Its cancel callback has nothing left to do.
LEMMA CopyOverCancel ==
    ASSUME NEW t, Base(t), NEW r, CopyOver(r, t)
    PROVE  Copy!Cancel(r, t) = t
<1>1. /\ t.copy \in CopyType /\ t.copy.outbound \in StreamType
      /\ t.copy.inbound \in StreamType
  BY DEF Base, State, CopyType
<1>2. \A stream \in StreamType : stream.closed => CloseStream(stream) = stream
  BY DEF CloseStream, StreamType
<1>3. t.copy.outbound.closed => Copy!CloseOutbound(t) = t
  <2> SUFFICES ASSUME t.copy.outbound.closed PROVE Copy!CloseOutbound(t) = t
    OBVIOUS
  <2>1. CloseStream(t.copy.outbound) = t.copy.outbound
    BY <1>1, <1>2
  <2>2. [t EXCEPT !.copy.outbound = t.copy.outbound] = t
    BY <1>1 DEF Base, State, CopyType
  <2>3. Copy!CloseOutbound(t) = [t EXCEPT !.copy.outbound = CloseStream(t.copy.outbound)]
    BY CopySame, Zenon DEF Copy!CloseOutbound
  <2> QED BY <2>1, <2>2, <2>3, Zenon
<1>4. t.copy.inbound.closed => Copy!CloseInbound(t) = t
  <2> SUFFICES ASSUME t.copy.inbound.closed PROVE Copy!CloseInbound(t) = t
    OBVIOUS
  <2>1. CloseStream(t.copy.inbound) = t.copy.inbound
    BY <1>1, <1>2
  <2>2. [t EXCEPT !.copy.inbound = t.copy.inbound] = t
    BY <1>1 DEF Base, State, CopyType
  <2>3. Copy!CloseInbound(t) = [t EXCEPT !.copy.inbound = CloseStream(t.copy.inbound)]
    BY CopySame, Zenon DEF Copy!CloseInbound
  <2> QED BY <2>1, <2>2, <2>3, Zenon
<1>5. \/ r = "from stdin" /\ t.copy.outbound.closed
      \/ r \in {"from socket", "into stdout"} /\ t.copy.inbound.closed
  BY DEF CopyOver, Copy!Eof, Copy!Closed, Base, CopyOK
<1> QED BY <1>3, <1>4, <1>5 DEF Copy!Cancel

LEMMA CopySetUpRule ==
    ASSUME NEW t, Base(t), NEW q, NEW e, NEW r
    PROVE  /\ CopyOver(r, t) =>
                 CopyLoop!SetUpRule([s |-> t, rules |-> q, events |-> e], r)
                   = [s |-> t, rules |-> q, events |-> e]
           /\ \A e2 : ~CopyOver(r, t) /\ e2 = (IF Copy!Interest(r, t) THEN e \union {r} ELSE e) =>
                 CopyLoop!SetUpRule([s |-> t, rules |-> q, events |-> e], r)
                   = [s |-> t, rules |-> Append(q, r), events |-> e2]
<1>1. PICK w : w = [s |-> t, rules |-> q, events |-> e]
  OBVIOUS
<1>2. /\ w.s = t /\ w.rules = q /\ w.events = e
      /\ w \in [s : {t}, rules : {q}, events : {e}]
  BY <1>1
<1>3. CASE CopyOver(r, t)
  <2>1. CopyLoop!SetUpRule(w, r) = [w EXCEPT !.s = Copy!Cancel(r, t)]
    BY <1>2, <1>3 DEF CopyLoop!SetUpRule, CopyOver
  <2>2. Copy!Cancel(r, t) = t
    BY <1>3, CopyOverCancel
  <2>3. [w EXCEPT !.s = t] = w
    BY <1>2
  <2> QED BY <1>1, <1>3, <2>1, <2>2, <2>3
<1>4. ASSUME NEW e2, ~CopyOver(r, t),
             e2 = (IF Copy!Interest(r, t) THEN e \union {r} ELSE e)
      PROVE  CopyLoop!SetUpRule(w, r) = [s |-> t, rules |-> Append(q, r), events |-> e2]
  <2>1. CopyLoop!SetUpRule(w, r) = [s |-> w.s, rules |-> Append(w.rules, r), events |-> e2]
    BY <1>2, <1>4, Zenon DEF CopyLoop!SetUpRule, CopyOver
  <2> QED BY <1>2, <2>1, Zenon
<1> QED BY <1>1, <1>3, <1>4

\* Set-up changes nothing but which rules are left, and finds which of these
\* are interested.
LEMMA CopySetUpFilters ==
    ASSUME NEW t, Base(t), NEW rules \in Seq(CopyRules)
    PROVE  \E q \in Seq(CopyRules), e \in SUBSET CopyRules :
             /\ CopyLoop!SetUp(rules, t) = [s |-> t, rules |-> q, events |-> e]
             /\ Elements(q) = {r \in Elements(rules) : ~CopyOver(r, t)}
             /\ e = {r \in Elements(q) : Copy!Interest(r, t)}
<1>1. PICK n \in Nat : n = Len(rules)
  OBVIOUS
<1>2. PICK f : /\ CopyLoop!SetUp(rules, t) = f[n]
               /\ f[0] = CopyLoop!NoRules(t)
               /\ \A k \in 0 .. n - 1 : f[k + 1] = CopyLoop!SetUpRule(f[k], rules[k + 1])
  <2>1. Len(rules) \in Nat
    BY <1>1
  <2>2. \E f : /\ CopyLoop!SetUp(rules, t) = f[Len(rules)]
               /\ f[0] = CopyLoop!NoRules(t)
               /\ \A k \in 0 .. Len(rules) - 1 :
                    f[k + 1] = CopyLoop!SetUpRule(f[k], rules[k + 1])
    BY <2>1, CopySetUpRounds
  <2> QED BY <1>1, <2>2, Zenon
<1> DEFINE Done(k, q, e) ==
             /\ f[k] = [s |-> t, rules |-> q, events |-> e]
             /\ Elements(q) = {r \in {rules[i] : i \in 1 .. k} : ~CopyOver(r, t)}
             /\ e = {r \in Elements(q) : Copy!Interest(r, t)}
           S == {k \in 0 .. n : \E q \in Seq(CopyRules), e \in SUBSET CopyRules : Done(k, q, e)}
<1>3. 0 \in S
  <2>1. <<>> \in Seq(CopyRules) /\ {} \in SUBSET CopyRules /\ Elements(<<>>) = {}
    BY DEF Elements
  <2>2. f[0] = [s |-> t, rules |-> <<>>, events |-> {}]
    BY <1>2 DEF CopyLoop!NoRules
  <2>3. Done(0, <<>>, {})
    BY <2>1, <2>2
  <2>4. 0 \in 0 .. n
    OBVIOUS
  <2> HIDE DEF Done
  <2> QED BY <2>1, <2>3, <2>4, Zenon
<1>4. \A k \in 0 .. n - 1 : k \in S => k + 1 \in S
  <2> SUFFICES ASSUME NEW k \in 0 .. n - 1, k \in S PROVE k + 1 \in S
    OBVIOUS
  <2>1. PICK q \in Seq(CopyRules), e \in SUBSET CopyRules : Done(k, q, e)
    OBVIOUS
  <2>2. PICK r \in CopyRules : r = rules[k + 1]
    <3>1. k + 1 \in 1 .. Len(rules)
      BY <1>1
    <3> QED BY <3>1, ElementOfSeq
  <2>3. {rules[i] : i \in 1 .. k + 1} = {rules[i] : i \in 1 .. k} \union {r}
    <3>1. 1 .. k + 1 = (1 .. k) \union {k + 1}
      OBVIOUS
    <3> QED BY <2>2, <3>1
  <2>4. f[k + 1] = CopyLoop!SetUpRule([s |-> t, rules |-> q, events |-> e], r)
    BY <1>2, <2>1, <2>2
  <2>5. k + 1 \in 0 .. n
    OBVIOUS
  <2>6. CASE CopyOver(r, t)
    <3>1. f[k + 1] = [s |-> t, rules |-> q, events |-> e]
      <4>1. CopyLoop!SetUpRule([s |-> t, rules |-> q, events |-> e], r)
              = [s |-> t, rules |-> q, events |-> e]
        BY <2>6, CopySetUpRule, Zenon
      <4> QED BY <2>4, <4>1, Zenon
    <3>2. Elements(q) = {x \in {rules[i] : i \in 1 .. k + 1} : ~CopyOver(x, t)}
      BY <2>1, <2>3, <2>6
    <3>3. Done(k + 1, q, e)
      BY <2>1, <3>1, <3>2
    <3> HIDE DEF Done
    <3> QED BY <2>5, <3>3
  <2>7. CASE ~CopyOver(r, t)
    <3>1. PICK e2 \in SUBSET CopyRules : e2 = IF Copy!Interest(r, t) THEN e \union {r} ELSE e
      OBVIOUS
    <3>2. PICK q2 \in Seq(CopyRules) : q2 = Append(q, r) /\ Elements(q2) = Elements(q) \union {r}
      <4>1. /\ Append(q, r) \in Seq(CopyRules)
            /\ Elements(Append(q, r)) = Elements(q) \union {r}
        BY ElementsOfAppend
      <4> QED BY <4>1, Zenon
    <3>3. f[k + 1] = [s |-> t, rules |-> q2, events |-> e2]
      <4>1. CopyLoop!SetUpRule([s |-> t, rules |-> q, events |-> e], r)
              = [s |-> t, rules |-> Append(q, r), events |-> e2]
        BY ONLY Base(t), <2>7, <3>1, CopySetUpRule
      <4> QED BY <2>4, <3>1, <3>2, <4>1, Zenon
    <3>4. Elements(q2) = {x \in {rules[i] : i \in 1 .. k + 1} : ~CopyOver(x, t)}
      BY <2>1, <2>3, <2>7, <3>2
    <3>5. e2 = {x \in Elements(q2) : Copy!Interest(x, t)}
      BY <2>1, <3>1, <3>2
    <3>6. Done(k + 1, q2, e2)
      BY <3>3, <3>4, <3>5
    <3> HIDE DEF Done
    <3> QED BY <2>5, <3>6
  <2> QED BY <2>6, <2>7
<1>5. n \in S
  <2> HIDE DEF S
  <2>1. \A k \in 0 .. n : k \in S
    BY <1>3, <1>4, Climb
  <2> QED BY <2>1
<1>6. PICK q \in Seq(CopyRules), e \in SUBSET CopyRules : Done(n, q, e)
  BY <1>5
<1>7. Elements(rules) = {rules[i] : i \in 1 .. n}
  BY <1>1 DEF Elements
<1> QED BY <1>2, <1>6, <1>7


\* One step of the walk over what poll has found.
TcpWalks(u, q, o, h) == [s : {u}, rules : {q}, over : {o}, throws : {h}]

LEMMA TcpServeRule ==
    ASSUME NEW loop, NEW r, NEW u, NEW q, NEW o \in BOOLEAN, NEW h \in BOOLEAN,
           NEW w \in TcpWalks(u, q, o, h), NEW v, v = TcpLoop!ServeRule(loop, loop.revents, w, r)
    PROVE  /\ o => v \in TcpWalks(u, Append(q, r), o, h)
           /\ ~o /\ TcpLoop!Defunct(loop, r, loop.revents) =>
                v \in TcpWalks(Tcp!Cancel(r, u), q, o, h)
           /\ ~o /\ ~TcpLoop!Defunct(loop, r, loop.revents) /\ ~TcpLoop!Ready(r, loop.revents) =>
                v \in TcpWalks(u, Append(q, r), o, h)
           /\ ~o /\ ~TcpLoop!Defunct(loop, r, loop.revents) /\ TcpLoop!Ready(r, loop.revents) =>
                \E yes, h2 \in BOOLEAN :
                  /\ yes
                  /\ h2 => \/ h \/ Tcp!Callback(r, u).throws
                           \/ TcpLoop!Busy(r, Tcp!Callback(r, u))
                  /\ v \in TcpWalks(Tcp!Callback(r, u).s, Append(q, r), yes, h2)
<1>1. w.s = u /\ w.rules = q /\ w.over = o /\ w.throws = h
  BY DEF TcpWalks
<1>2. PICK q2 : q2 = Append(q, r)
  OBVIOUS
<1>3. PICK u2 : u2 = Tcp!Cancel(r, u)
  OBVIOUS
<1>4. /\ [w EXCEPT !.rules = q2] \in TcpWalks(u, q2, o, h)
      /\ [w EXCEPT !.s = u2] \in TcpWalks(u2, q, o, h)
  BY DEF TcpWalks
<1>5. o => v = [w EXCEPT !.rules = q2]
  BY <1>1, <1>2, Zenon DEF TcpLoop!ServeRule
<1>6. ~o /\ TcpLoop!Defunct(loop, r, loop.revents) => v = [w EXCEPT !.s = u2]
  BY <1>1, <1>3, Zenon DEF TcpLoop!ServeRule
<1>7. ~o /\ ~TcpLoop!Defunct(loop, r, loop.revents) /\ ~TcpLoop!Ready(r, loop.revents) =>
        v = [w EXCEPT !.rules = q2]
  BY <1>1, <1>2, Zenon DEF TcpLoop!ServeRule
<1>8. ASSUME ~o, ~TcpLoop!Defunct(loop, r, loop.revents), TcpLoop!Ready(r, loop.revents)
      PROVE  \E yes, h2 \in BOOLEAN :
               /\ yes
               /\ h2 => \/ h \/ Tcp!Callback(r, u).throws
                        \/ TcpLoop!Busy(r, Tcp!Callback(r, u))
               /\ v \in TcpWalks(Tcp!Callback(r, u).s, q2, yes, h2)
  <2>1. PICK c : c = Tcp!Callback(r, u)
    OBVIOUS
  <2>2. PICK h2 \in BOOLEAN : h2 = (c.throws \/ TcpLoop!Busy(r, c))
    OBVIOUS
  <2>3. PICK yes \in BOOLEAN : yes = TRUE
    OBVIOUS
  <2>4. v = [s |-> c.s, rules |-> q2, over |-> yes, throws |-> h2]
    BY <1>1, <1>2, <1>8, <2>1, <2>2, <2>3, Zenon DEF TcpLoop!ServeRule
  <2>5. v \in TcpWalks(c.s, q2, yes, h2)
    BY <2>4 DEF TcpWalks
  <2> QED BY <2>1, <2>2, <2>3, <2>5
<1> QED BY <1>2, <1>3, <1>4, <1>5, <1>6, <1>7, <1>8

\* The rules that are of no more use, before the one that is served, are
\* cancelled; at most one rule is served, one that is ready.  A is a set of what
\* may come of the state, with the rules that have been cancelled.
TcpServes(loop, A, t, R, throws) ==
    \/ <<t, R>> \in A /\ ~throws
    \/ \E c : \E r \in Tried(loop) :
         /\ <<c, R>> \in A
         /\ ~TcpLoop!Defunct(loop, r, loop.revents) /\ TcpLoop!Ready(r, loop.revents)
         /\ t = Tcp!Callback(r, c).s
         /\ throws => Tcp!Callback(r, c).throws \/ TcpLoop!Busy(r, Tcp!Callback(r, c))

TcpCancels(loop, A) ==
    \A c, R : \A r \in Tried(loop) :
        <<c, R>> \in A /\ TcpLoop!Defunct(loop, r, loop.revents) =>
          <<Tcp!Cancel(r, c), R \union {r}>> \in A

LEMMA TcpServeShape ==
    ASSUME NEW loop, loop.rules \in Seq(TcpRules), NEW t, NEW A, <<t, {}>> \in A,
           TcpCancels(loop, A)
    PROVE  \E q \in Seq(TcpRules), o, h \in BOOLEAN : \E u, R :
             /\ TcpLoop!Serve(loop, loop.revents, t) \in TcpWalks(u, q, o, h)
             /\ TcpServes(loop, A, u, R, h)
             /\ Elements(q) \subseteq Tried(loop)
             /\ Tried(loop) \subseteq Elements(q) \union R
<1> USE DEF TcpCancels
<1>1. PICK n \in Nat : n = Len(loop.rules)
  OBVIOUS
<1>2. PICK f : /\ TcpLoop!Serve(loop, loop.revents, t) = f[n]
               /\ f[0] = ServeStart(t)
               /\ \A k \in 0 .. n - 1 :
                    f[k + 1] = TcpLoop!ServeRule(loop, loop.revents, f[k], loop.rules[k + 1])
  <2>1. Len(loop.rules) \in Nat
    BY <1>1
  <2>2. \E f : /\ TcpLoop!Serve(loop, loop.revents, t) = f[Len(loop.rules)]
               /\ f[0] = ServeStart(t)
               /\ \A k \in 0 .. Len(loop.rules) - 1 :
                    f[k + 1] = TcpLoop!ServeRule(loop, loop.revents, f[k], loop.rules[k + 1])
    BY <2>1, TcpServeRounds, Zenon
  <2> QED BY <1>1, <2>2, Zenon
<1> DEFINE Past(k) == {loop.rules[i] : i \in 1 .. k}
           Done(k, u, R, q, o, h) ==
             /\ f[k] \in TcpWalks(u, q, o, h)
             /\ ~o => <<u, R>> \in A /\ ~h
             /\ o => TcpServes(loop, A, u, R, h)
             /\ Elements(q) \subseteq Past(k)
             /\ Past(k) \subseteq Elements(q) \union R
           S == {k \in 0 .. n : \E q \in Seq(TcpRules), o, h \in BOOLEAN : \E u, R :
                                   Done(k, u, R, q, o, h)}
<1>3. 0 \in S
  <2>1. <<>> \in Seq(TcpRules) /\ Elements(<<>>) = {} /\ Past(0) = {}
    BY DEF Elements
  <2>2. PICK no \in BOOLEAN : no = FALSE
    OBVIOUS
  <2>3. f[0] = [s |-> t, rules |-> <<>>, over |-> no, throws |-> no]
    BY <1>2, <2>2, Zenon DEF ServeStart
  <2>4. f[0] \in TcpWalks(t, <<>>, no, no)
    BY <2>3 DEF TcpWalks
  <2>5. Done(0, t, {}, <<>>, no, no)
    BY <2>1, <2>2, <2>4
  <2>6. 0 \in 0 .. n
    OBVIOUS
  <2> HIDE DEF Done
  <2> QED BY <2>1, <2>2, <2>5, <2>6, Zenon
<1>4. \A k \in 0 .. n - 1 : k \in S => k + 1 \in S
  <2> SUFFICES ASSUME NEW k \in 0 .. n - 1, k \in S PROVE k + 1 \in S
    OBVIOUS
  <2>0. PICK q \in Seq(TcpRules), o \in BOOLEAN, h \in BOOLEAN : \E u, R : Done(k, u, R, q, o, h)
    <3> HIDE DEF Done
    <3> QED OBVIOUS
  <2>1. PICK u, R : Done(k, u, R, q, o, h)
    <3> HIDE DEF Done
    <3> QED BY <2>0, Zenon
  <2>2. PICK r \in TcpRules : r = loop.rules[k + 1]
    <3>1. k + 1 \in 1 .. Len(loop.rules)
      BY <1>1
    <3> QED BY <3>1, ElementOfSeq
  <2>3. r \in Tried(loop)
    BY <1>1, <2>2 DEF Tried, Elements
  <2>4. Past(k + 1) = Past(k) \union {r}
    <3>1. 1 .. k + 1 = (1 .. k) \union {k + 1}
      OBVIOUS
    <3> QED BY <2>2, <3>1
  <2>5. PICK q2 \in Seq(TcpRules) : q2 = Append(q, r) /\ Elements(q2) = Elements(q) \union {r}
    <3>1. /\ Append(q, r) \in Seq(TcpRules)
          /\ Elements(Append(q, r)) = Elements(q) \union {r}
      BY ElementsOfAppend
    <3> QED BY <3>1, Zenon
  <2>6. f[k + 1] = TcpLoop!ServeRule(loop, loop.revents, f[k], r)
    BY <1>2, <2>2
  <2>7. f[k] \in TcpWalks(u, q, o, h)
    BY <2>1
  <2>8. /\ ~o => <<u, R>> \in A /\ ~h
        /\ o => TcpServes(loop, A, u, R, h)
        /\ Elements(q) \subseteq Past(k)
        /\ Past(k) \subseteq Elements(q) \union R
    BY <2>1
  <2>9. k + 1 \in 0 .. n
    OBVIOUS
  <2> HIDE DEF Past
  <2>10. /\ o => f[k + 1] \in TcpWalks(u, q2, o, h)
         /\ ~o /\ TcpLoop!Defunct(loop, r, loop.revents) =>
              f[k + 1] \in TcpWalks(Tcp!Cancel(r, u), q, o, h)
         /\ ~o /\ ~TcpLoop!Defunct(loop, r, loop.revents) /\ ~TcpLoop!Ready(r, loop.revents) =>
              f[k + 1] \in TcpWalks(u, q2, o, h)
         /\ ~o /\ ~TcpLoop!Defunct(loop, r, loop.revents) /\ TcpLoop!Ready(r, loop.revents) =>
              \E yes, h2 \in BOOLEAN :
                /\ yes
                /\ h2 => \/ h \/ Tcp!Callback(r, u).throws
                         \/ TcpLoop!Busy(r, Tcp!Callback(r, u))
                /\ f[k + 1] \in TcpWalks(Tcp!Callback(r, u).s, q2, yes, h2)
    BY <2>5, <2>6, <2>7, TcpServeRule, ZenonT(40)
  <2>11. CASE o \/ (~TcpLoop!Defunct(loop, r, loop.revents) /\ ~TcpLoop!Ready(r, loop.revents))
    <3>1. Done(k + 1, u, R, q2, o, h)
      BY <2>4, <2>5, <2>8, <2>10, <2>11
    <3> HIDE DEF Done
    <3> QED BY <2>9, <3>1
  <2>12. CASE ~o /\ TcpLoop!Defunct(loop, r, loop.revents)
    <3>1. <<Tcp!Cancel(r, u), R \union {r}>> \in A
      BY <2>3, <2>8, <2>12
    <3>2. Done(k + 1, Tcp!Cancel(r, u), R \union {r}, q, o, h)
      BY <2>4, <2>8, <2>10, <2>12, <3>1
    <3> HIDE DEF Done
    <3> QED BY <2>9, <3>2
  <2>13. CASE ~o /\ ~TcpLoop!Defunct(loop, r, loop.revents) /\ TcpLoop!Ready(r, loop.revents)
    <3>1. PICK yes \in BOOLEAN, h2 \in BOOLEAN :
            /\ yes
            /\ h2 => \/ h \/ Tcp!Callback(r, u).throws
                     \/ TcpLoop!Busy(r, Tcp!Callback(r, u))
            /\ f[k + 1] \in TcpWalks(Tcp!Callback(r, u).s, q2, yes, h2)
      BY <2>10, <2>13
    <3>2. TcpServes(loop, A, Tcp!Callback(r, u).s, R, h2)
      BY <2>3, <2>8, <2>13, <3>1 DEF TcpServes
    <3>3. Done(k + 1, Tcp!Callback(r, u).s, R, q2, yes, h2)
      BY <2>4, <2>5, <2>8, <3>1, <3>2
    <3> HIDE DEF Done
    <3> QED BY <2>9, <3>3
  <2> QED BY <2>11, <2>12, <2>13
<1>5. n \in S
  <2> HIDE DEF S
  <2>1. \A k \in 0 .. n : k \in S
    BY <1>3, <1>4, Climb
  <2> QED BY <2>1
<1>6. PICK q \in Seq(TcpRules), o \in BOOLEAN, h \in BOOLEAN : \E u, R : Done(n, u, R, q, o, h)
  <2> HIDE DEF Done
  <2> QED BY <1>5
<1>7. PICK u, R : Done(n, u, R, q, o, h)
  <2> HIDE DEF Done
  <2> QED BY <1>6, Zenon
<1>8. Past(n) = Tried(loop)
  BY <1>1 DEF Tried, Elements
<1>9. TcpServes(loop, A, u, R, h)
  BY <1>7 DEF TcpServes
<1>10. /\ f[n] \in TcpWalks(u, q, o, h)
      /\ Elements(q) \subseteq Past(n)
      /\ Past(n) \subseteq Elements(q) \union R
  BY <1>7
<1> HIDE DEF Past
<1> QED BY <1>2, <1>8, <1>9, <1>10

\* One step of the walk over what poll has found.
CopyWalks(u, q, o, h) == [s : {u}, rules : {q}, over : {o}, throws : {h}]

LEMMA CopyServeRule ==
    ASSUME NEW loop, NEW r, NEW u, NEW q, NEW o \in BOOLEAN, NEW h \in BOOLEAN,
           NEW w \in CopyWalks(u, q, o, h), NEW v, v = CopyLoop!ServeRule(loop, loop.revents, w, r)
    PROVE  /\ o => v \in CopyWalks(u, Append(q, r), o, h)
           /\ ~o /\ CopyLoop!Defunct(loop, r, loop.revents) =>
                v \in CopyWalks(Copy!Cancel(r, u), q, o, h)
           /\ ~o /\ ~CopyLoop!Defunct(loop, r, loop.revents) /\ ~CopyLoop!Ready(r, loop.revents) =>
                v \in CopyWalks(u, Append(q, r), o, h)
           /\ ~o /\ ~CopyLoop!Defunct(loop, r, loop.revents) /\ CopyLoop!Ready(r, loop.revents) =>
                \E yes, h2 \in BOOLEAN :
                  /\ yes
                  /\ h2 => \/ h \/ Copy!Callback(r, u).throws
                           \/ CopyLoop!Busy(r, Copy!Callback(r, u))
                  /\ v \in CopyWalks(Copy!Callback(r, u).s, Append(q, r), yes, h2)
<1>1. w.s = u /\ w.rules = q /\ w.over = o /\ w.throws = h
  BY DEF CopyWalks
<1>2. PICK q2 : q2 = Append(q, r)
  OBVIOUS
<1>3. PICK u2 : u2 = Copy!Cancel(r, u)
  OBVIOUS
<1>4. /\ [w EXCEPT !.rules = q2] \in CopyWalks(u, q2, o, h)
      /\ [w EXCEPT !.s = u2] \in CopyWalks(u2, q, o, h)
  BY DEF CopyWalks
<1>5. o => v = [w EXCEPT !.rules = q2]
  BY <1>1, <1>2, Zenon DEF CopyLoop!ServeRule
<1>6. ~o /\ CopyLoop!Defunct(loop, r, loop.revents) => v = [w EXCEPT !.s = u2]
  BY <1>1, <1>3, Zenon DEF CopyLoop!ServeRule
<1>7. ~o /\ ~CopyLoop!Defunct(loop, r, loop.revents) /\ ~CopyLoop!Ready(r, loop.revents) =>
        v = [w EXCEPT !.rules = q2]
  BY <1>1, <1>2, Zenon DEF CopyLoop!ServeRule
<1>8. ASSUME ~o, ~CopyLoop!Defunct(loop, r, loop.revents), CopyLoop!Ready(r, loop.revents)
      PROVE  \E yes, h2 \in BOOLEAN :
               /\ yes
               /\ h2 => \/ h \/ Copy!Callback(r, u).throws
                        \/ CopyLoop!Busy(r, Copy!Callback(r, u))
               /\ v \in CopyWalks(Copy!Callback(r, u).s, q2, yes, h2)
  <2>1. PICK c : c = Copy!Callback(r, u)
    OBVIOUS
  <2>2. PICK h2 \in BOOLEAN : h2 = (c.throws \/ CopyLoop!Busy(r, c))
    OBVIOUS
  <2>3. PICK yes \in BOOLEAN : yes = TRUE
    OBVIOUS
  <2>4. v = [s |-> c.s, rules |-> q2, over |-> yes, throws |-> h2]
    BY <1>1, <1>2, <1>8, <2>1, <2>2, <2>3, Zenon DEF CopyLoop!ServeRule
  <2>5. v \in CopyWalks(c.s, q2, yes, h2)
    BY <2>4 DEF CopyWalks
  <2> QED BY <2>1, <2>2, <2>3, <2>5
<1> QED BY <1>2, <1>3, <1>4, <1>5, <1>6, <1>7, <1>8

\* The rules that are of no more use, before the one that is served, are
\* cancelled; at most one rule is served, one that is ready.  A is a set of what
\* may come of the state, with the rules that have been cancelled.
CopyServes(loop, A, t, R, throws) ==
    \/ <<t, R>> \in A /\ ~throws
    \/ \E c : \E r \in Tried(loop) :
         /\ <<c, R>> \in A
         /\ ~CopyLoop!Defunct(loop, r, loop.revents) /\ CopyLoop!Ready(r, loop.revents)
         /\ t = Copy!Callback(r, c).s
         /\ throws => Copy!Callback(r, c).throws \/ CopyLoop!Busy(r, Copy!Callback(r, c))

CopyCancels(loop, A) ==
    \A c, R : \A r \in Tried(loop) :
        <<c, R>> \in A /\ CopyLoop!Defunct(loop, r, loop.revents) =>
          <<Copy!Cancel(r, c), R \union {r}>> \in A

LEMMA CopyServeShape ==
    ASSUME NEW loop, loop.rules \in Seq(CopyRules), NEW t, NEW A, <<t, {}>> \in A,
           CopyCancels(loop, A)
    PROVE  \E q \in Seq(CopyRules), o, h \in BOOLEAN : \E u, R :
             /\ CopyLoop!Serve(loop, loop.revents, t) \in CopyWalks(u, q, o, h)
             /\ CopyServes(loop, A, u, R, h)
             /\ Elements(q) \subseteq Tried(loop)
             /\ Tried(loop) \subseteq Elements(q) \union R
<1> USE DEF CopyCancels
<1>1. PICK n \in Nat : n = Len(loop.rules)
  OBVIOUS
<1>2. PICK f : /\ CopyLoop!Serve(loop, loop.revents, t) = f[n]
               /\ f[0] = ServeStart(t)
               /\ \A k \in 0 .. n - 1 :
                    f[k + 1] = CopyLoop!ServeRule(loop, loop.revents, f[k], loop.rules[k + 1])
  <2>1. Len(loop.rules) \in Nat
    BY <1>1
  <2>2. \E f : /\ CopyLoop!Serve(loop, loop.revents, t) = f[Len(loop.rules)]
               /\ f[0] = ServeStart(t)
               /\ \A k \in 0 .. Len(loop.rules) - 1 :
                    f[k + 1] = CopyLoop!ServeRule(loop, loop.revents, f[k], loop.rules[k + 1])
    BY <2>1, CopyServeRounds, Zenon
  <2> QED BY <1>1, <2>2, Zenon
<1> DEFINE Past(k) == {loop.rules[i] : i \in 1 .. k}
           Done(k, u, R, q, o, h) ==
             /\ f[k] \in CopyWalks(u, q, o, h)
             /\ ~o => <<u, R>> \in A /\ ~h
             /\ o => CopyServes(loop, A, u, R, h)
             /\ Elements(q) \subseteq Past(k)
             /\ Past(k) \subseteq Elements(q) \union R
           S == {k \in 0 .. n : \E q \in Seq(CopyRules), o, h \in BOOLEAN : \E u, R :
                                   Done(k, u, R, q, o, h)}
<1>3. 0 \in S
  <2>1. <<>> \in Seq(CopyRules) /\ Elements(<<>>) = {} /\ Past(0) = {}
    BY DEF Elements
  <2>2. PICK no \in BOOLEAN : no = FALSE
    OBVIOUS
  <2>3. f[0] = [s |-> t, rules |-> <<>>, over |-> no, throws |-> no]
    BY <1>2, <2>2, Zenon DEF ServeStart
  <2>4. f[0] \in CopyWalks(t, <<>>, no, no)
    BY <2>3 DEF CopyWalks
  <2>5. Done(0, t, {}, <<>>, no, no)
    BY <2>1, <2>2, <2>4
  <2>6. 0 \in 0 .. n
    OBVIOUS
  <2> HIDE DEF Done
  <2> QED BY <2>1, <2>2, <2>5, <2>6, Zenon
<1>4. \A k \in 0 .. n - 1 : k \in S => k + 1 \in S
  <2> SUFFICES ASSUME NEW k \in 0 .. n - 1, k \in S PROVE k + 1 \in S
    OBVIOUS
  <2>0. PICK q \in Seq(CopyRules), o \in BOOLEAN, h \in BOOLEAN : \E u, R : Done(k, u, R, q, o, h)
    <3> HIDE DEF Done
    <3> QED OBVIOUS
  <2>1. PICK u, R : Done(k, u, R, q, o, h)
    <3> HIDE DEF Done
    <3> QED BY <2>0, Zenon
  <2>2. PICK r \in CopyRules : r = loop.rules[k + 1]
    <3>1. k + 1 \in 1 .. Len(loop.rules)
      BY <1>1
    <3> QED BY <3>1, ElementOfSeq
  <2>3. r \in Tried(loop)
    BY <1>1, <2>2 DEF Tried, Elements
  <2>4. Past(k + 1) = Past(k) \union {r}
    <3>1. 1 .. k + 1 = (1 .. k) \union {k + 1}
      OBVIOUS
    <3> QED BY <2>2, <3>1
  <2>5. PICK q2 \in Seq(CopyRules) : q2 = Append(q, r) /\ Elements(q2) = Elements(q) \union {r}
    <3>1. /\ Append(q, r) \in Seq(CopyRules)
          /\ Elements(Append(q, r)) = Elements(q) \union {r}
      BY ElementsOfAppend
    <3> QED BY <3>1, Zenon
  <2>6. f[k + 1] = CopyLoop!ServeRule(loop, loop.revents, f[k], r)
    BY <1>2, <2>2
  <2>7. f[k] \in CopyWalks(u, q, o, h)
    BY <2>1
  <2>8. /\ ~o => <<u, R>> \in A /\ ~h
        /\ o => CopyServes(loop, A, u, R, h)
        /\ Elements(q) \subseteq Past(k)
        /\ Past(k) \subseteq Elements(q) \union R
    BY <2>1
  <2>9. k + 1 \in 0 .. n
    OBVIOUS
  <2> HIDE DEF Past
  <2>10. /\ o => f[k + 1] \in CopyWalks(u, q2, o, h)
         /\ ~o /\ CopyLoop!Defunct(loop, r, loop.revents) =>
              f[k + 1] \in CopyWalks(Copy!Cancel(r, u), q, o, h)
         /\ ~o /\ ~CopyLoop!Defunct(loop, r, loop.revents) /\ ~CopyLoop!Ready(r, loop.revents) =>
              f[k + 1] \in CopyWalks(u, q2, o, h)
         /\ ~o /\ ~CopyLoop!Defunct(loop, r, loop.revents) /\ CopyLoop!Ready(r, loop.revents) =>
              \E yes, h2 \in BOOLEAN :
                /\ yes
                /\ h2 => \/ h \/ Copy!Callback(r, u).throws
                         \/ CopyLoop!Busy(r, Copy!Callback(r, u))
                /\ f[k + 1] \in CopyWalks(Copy!Callback(r, u).s, q2, yes, h2)
    BY <2>5, <2>6, <2>7, CopyServeRule, ZenonT(40)
  <2>11. CASE o \/ (~CopyLoop!Defunct(loop, r, loop.revents) /\ ~CopyLoop!Ready(r, loop.revents))
    <3>1. Done(k + 1, u, R, q2, o, h)
      BY <2>4, <2>5, <2>8, <2>10, <2>11
    <3> HIDE DEF Done
    <3> QED BY <2>9, <3>1
  <2>12. CASE ~o /\ CopyLoop!Defunct(loop, r, loop.revents)
    <3>1. <<Copy!Cancel(r, u), R \union {r}>> \in A
      BY <2>3, <2>8, <2>12
    <3>2. Done(k + 1, Copy!Cancel(r, u), R \union {r}, q, o, h)
      BY <2>4, <2>8, <2>10, <2>12, <3>1
    <3> HIDE DEF Done
    <3> QED BY <2>9, <3>2
  <2>13. CASE ~o /\ ~CopyLoop!Defunct(loop, r, loop.revents) /\ CopyLoop!Ready(r, loop.revents)
    <3>1. PICK yes \in BOOLEAN, h2 \in BOOLEAN :
            /\ yes
            /\ h2 => \/ h \/ Copy!Callback(r, u).throws
                     \/ CopyLoop!Busy(r, Copy!Callback(r, u))
            /\ f[k + 1] \in CopyWalks(Copy!Callback(r, u).s, q2, yes, h2)
      BY <2>10, <2>13
    <3>2. CopyServes(loop, A, Copy!Callback(r, u).s, R, h2)
      BY <2>3, <2>8, <2>13, <3>1 DEF CopyServes
    <3>3. Done(k + 1, Copy!Callback(r, u).s, R, q2, yes, h2)
      BY <2>4, <2>5, <2>8, <3>1, <3>2
    <3> HIDE DEF Done
    <3> QED BY <2>9, <3>3
  <2> QED BY <2>11, <2>12, <2>13
<1>5. n \in S
  <2> HIDE DEF S
  <2>1. \A k \in 0 .. n : k \in S
    BY <1>3, <1>4, Climb
  <2> QED BY <2>1
<1>6. PICK q \in Seq(CopyRules), o \in BOOLEAN, h \in BOOLEAN : \E u, R : Done(n, u, R, q, o, h)
  <2> HIDE DEF Done
  <2> QED BY <1>5
<1>7. PICK u, R : Done(n, u, R, q, o, h)
  <2> HIDE DEF Done
  <2> QED BY <1>6, Zenon
<1>8. Past(n) = Tried(loop)
  BY <1>1 DEF Tried, Elements
<1>9. CopyServes(loop, A, u, R, h)
  BY <1>7 DEF CopyServes
<1>10. /\ f[n] \in CopyWalks(u, q, o, h)
      /\ Elements(q) \subseteq Past(n)
      /\ Past(n) \subseteq Elements(q) \union R
  BY <1>7
<1> HIDE DEF Past
<1> QED BY <1>2, <1>8, <1>9, <1>10


-----------------------------------------------------------------------------
\* What the socket sends

\* What a thread leaves alone of the state t when it makes u of it.
TcpSide(t, u) ==
    /\ u.copy = t.copy /\ u.input = t.input /\ u.output = t.output
    /\ u.pair.down <= t.pair.down /\ t.pair.up <= u.pair.up
    /\ t.pair.down_shut => u.pair.down_shut
    /\ t.pair.up_shut => u.pair.up_shut

CopySide(t, u) ==
    /\ u.tcp = t.tcp /\ u.thread = t.thread /\ u.arrived = t.arrived
    /\ u.outgoing_segments_ = t.outgoing_segments_
    /\ u.output.state = t.output.state
    /\ t.pair.down <= u.pair.down /\ u.pair.up <= t.pair.up
    /\ t.pair.down_shut => u.pair.down_shut
    /\ t.pair.up_shut => u.pair.up_shut

KeptStream(a, b) == a.closed => b.closed /\ b.pushed = a.pushed

Kept(t, u) ==
    /\ KeptStream(t.tcp.inbound, u.tcp.inbound)
    /\ KeptStream(t.tcp.outbound, u.tcp.outbound)
    /\ KeptStream(t.copy.inbound, u.copy.inbound)
    /\ KeptStream(t.copy.outbound, u.copy.outbound)
    /\ t.copy.output_closed => u.copy.output_closed

\* TCPPeer::push and maybe_send take bytes from the outbound stream.
Takes(tcp, v) ==
    /\ v \in TcpType /\ TcpOK(v)
    /\ v.inbound = tcp.inbound /\ v.away = tcp.away /\ v.has_ackno = tcp.has_ackno
    /\ v.outbound.pushed = tcp.outbound.pushed
    /\ v.outbound.closed = tcp.outbound.closed
    /\ FinFollows(tcp) => FinFollows(v)

\* What the steps of a stream change of it.
LEMMA PopFromChanges ==
    ASSUME NEW a, StreamOK(a), NEW n \in Nat, n <= Buffered(a)
    PROVE  /\ StreamOK(PopFrom(a, n))
           /\ PopFrom(a, n).popped = a.popped + n /\ PopFrom(a, n).pushed = a.pushed
           /\ PopFrom(a, n).closed = a.closed /\ PopFrom(a, n).error = a.error
           /\ PopFrom(a, n).capacity = a.capacity
<1>1. PICK p \in Nat : p = a.popped + n
  BY DEF StreamOK, StreamType
<1>2. PopFrom(a, n) = [a EXCEPT !.popped = p]
  BY <1>1, Zenon DEF PopFrom
<1>3. p <= a.pushed
  BY <1>1 DEF Buffered, StreamOK, StreamType
<1> QED BY <1>1, <1>2, <1>3 DEF StreamOK, StreamType

LEMMA PushToChanges ==
    ASSUME NEW a, StreamOK(a), NEW n \in Nat
    PROVE  /\ StreamOK(PushTo(a, n))
           /\ n <= Available(a) => PushTo(a, n).pushed = a.pushed + n
           /\ n > Available(a) => PushTo(a, n).pushed = a.popped + a.capacity
           /\ PushTo(a, n).popped = a.popped
           /\ PushTo(a, n).closed = a.closed /\ PushTo(a, n).error = a.error
           /\ PushTo(a, n).capacity = a.capacity
<1>1. PICK m \in Nat : /\ m = Fitting(a, n) /\ m <= Available(a)
                       /\ n <= Available(a) => m = n
                       /\ n > Available(a) => m = Available(a)
  <2>1. Available(a) \in Nat
    BY DEF Available, Buffered, StreamOK, StreamType
  <2> QED BY <2>1 DEF Fitting, AtMost
<1>2. PICK p \in Nat : p = a.pushed + m
  BY DEF StreamOK, StreamType
<1>3. PushTo(a, n) = [a EXCEPT !.pushed = p]
  BY <1>1, <1>2, Zenon DEF PushTo
<1>4. /\ a.popped <= p /\ p <= a.popped + a.capacity
      /\ n > Available(a) => p = a.popped + a.capacity
  BY <1>1, <1>2 DEF Available, Buffered, StreamOK, StreamType
<1> QED BY <1>1, <1>2, <1>3, <1>4 DEF StreamOK, StreamType

LEMMA CloseStreamChanges ==
    ASSUME NEW a, StreamOK(a)
    PROVE  /\ StreamOK(CloseStream(a)) /\ CloseStream(a).closed
           /\ CloseStream(a).pushed = a.pushed /\ CloseStream(a).popped = a.popped
           /\ CloseStream(a).error = a.error /\ CloseStream(a).capacity = a.capacity
<1>1. PICK yes \in BOOLEAN : yes = TRUE
  OBVIOUS
<1>2. CloseStream(a) = [a EXCEPT !.closed = yes]
  BY <1>1, Zenon DEF CloseStream
<1> QED BY <1>1, <1>2 DEF StreamOK, StreamType

LEMMA FailStreamChanges ==
    ASSUME NEW a, StreamOK(a)
    PROVE  /\ StreamOK(FailStream(a)) /\ FailStream(a).error
           /\ FailStream(a).capacity = a.capacity
<1>1. PICK yes \in BOOLEAN : yes = TRUE
  OBVIOUS
<1>2. FailStream(a) = [a EXCEPT !.error = yes]
  BY <1>1, Zenon DEF FailStream
<1> QED BY <1>1, <1>2 DEF StreamOK, StreamType

LEMMA PushTakes ==
    ASSUME NEW tcp \in TcpType, TcpOK(tcp)
    PROVE  Takes(tcp, Tcp!Push(tcp)) /\ FinFollows(Tcp!Push(tcp))
<1>1. RemoteWindow \in Nat \ {0} /\ SendCapacity \in Nat
  BY ProgramAssumption
<1>2. PICK out \in StreamType : out = tcp.outbound
  BY DEF TcpType
<1>3. /\ out.popped \in Nat /\ out.pushed \in Nat /\ out.capacity \in Nat
      /\ out.closed \in BOOLEAN
      /\ out.popped <= out.pushed /\ out.pushed <= out.popped + out.capacity
      /\ tcp.in_flight \in Nat /\ tcp.in_flight <= RemoteWindow
      /\ tcp.away \in Nat /\ tcp.away <= tcp.in_flight
      /\ tcp.syn \in BOOLEAN /\ tcp.fin \in BOOLEAN
      /\ ~tcp.syn => tcp.in_flight = 0
  BY <1>2 DEF TcpType, StreamType, TcpOK, StreamOK
<1>4. PICK room \in Nat :
        /\ room = Tcp!Room(tcp)
        /\ tcp.syn => room = RemoteWindow - tcp.in_flight
        /\ ~tcp.syn => room = RemoteWindow - tcp.in_flight - 1
  <2>1. /\ tcp.syn => Tcp!Room(tcp) = RemoteWindow - tcp.in_flight
        /\ ~tcp.syn => Tcp!Room(tcp) = RemoteWindow - tcp.in_flight - 1
    BY <1>1, <1>3 DEF Tcp!Room, Tcp!One
  <2> QED BY <1>1, <1>3, <2>1
<1>5. PICK n \in Nat :
        /\ n = Tcp!AtMost(Tcp!Buffered(tcp.outbound), Tcp!Room(tcp))
        /\ n <= room /\ n <= out.pushed - out.popped
        /\ n < room => n = out.pushed - out.popped
  BY <1>2, <1>3, <1>4 DEF Tcp!AtMost, Tcp!Buffered
<1>6. PICK out2 \in StreamType :
        /\ out2 = Tcp!PopFrom(tcp.outbound, n) /\ StreamOK(out2)
        /\ out2.popped = out.popped + n /\ out2.pushed = out.pushed
        /\ out2.closed = out.closed /\ out2.capacity = out.capacity
  <2>1. StreamOK(out)
    BY <1>2 DEF TcpOK
  <2>2. n <= Buffered(out)
    BY <1>5 DEF Buffered
  <2>3. StreamOK(PopFrom(out, n)) => PopFrom(out, n) \in StreamType
    BY DEF StreamOK
  <2> QED BY <1>2, <2>1, <2>2, <2>3, PopFromChanges, TcpSame
<1>7. PICK fin \in BOOLEAN :
        /\ fin = (Tcp!Finished(Tcp!PopFrom(tcp.outbound, n)) /\ ~tcp.fin /\ n < Tcp!Room(tcp))
        /\ fin <=> Finished(out2) /\ ~tcp.fin /\ n < room
  BY <1>4, <1>6, TcpSame
<1>8. PICK m \in Nat :
        /\ m = tcp.in_flight + Tcp!One(~tcp.syn) + n + Tcp!One(fin)
        /\ m >= tcp.in_flight + n /\ m <= RemoteWindow
        /\ ~tcp.syn => m >= 1 + n
        /\ room <= n => m >= RemoteWindow
  BY <1>1, <1>3, <1>4, <1>5, <1>7 DEF Tcp!One
<1>9. PICK yes \in BOOLEAN, fin2 \in BOOLEAN : yes = TRUE /\ fin2 = (tcp.fin \/ fin)
  OBVIOUS
<1>10. PICK v : v = Tcp!Push(tcp)
  OBVIOUS
<1>11. v = IF room < 0 \/ (n = 0 /\ tcp.syn /\ ~fin) THEN tcp
           ELSE [tcp EXCEPT !.syn = yes, !.fin = fin2, !.ready = yes,
                            !.outbound = out2, !.in_flight = m]
  BY <1>4, <1>5, <1>6, <1>7, <1>8, <1>9, <1>10, Zenon DEF Tcp!Push
<1>12. CASE n = 0 /\ tcp.syn /\ ~fin
  <2>1. v = tcp
    BY <1>11, <1>12
  <2>2. Finished(out2) <=> Finished(out)
    BY <1>3, <1>6, <1>12 DEF Finished, Buffered
  <2>3. FinFollows(v)
    BY <1>1, <1>2, <1>3, <1>4, <1>7, <1>12, <2>1, <2>2 DEF FinFollows
  <2> QED BY <1>10, <2>1, <2>3 DEF Takes
<1>13. CASE ~(n = 0 /\ tcp.syn /\ ~fin)
  <2>1. v = [tcp EXCEPT !.syn = yes, !.fin = fin2, !.ready = yes,
                        !.outbound = out2, !.in_flight = m]
    BY <1>11, <1>13
  <2>2. /\ v \in TcpType /\ v.syn /\ v.outbound = out2 /\ v.in_flight = m
        /\ v.fin = fin2 /\ v.away = tcp.away /\ v.inbound = tcp.inbound
        /\ v.has_ackno = tcp.has_ackno
    BY <1>9, <2>1 DEF TcpType
  <2>4. TcpOK(v)
    BY <1>2, <1>3, <1>6, <1>8, <2>2 DEF TcpOK
  <2>5. FinFollows(v)
    <3> SUFFICES ASSUME Finished(out2), ~fin2 PROVE m > 0
      BY <2>2 DEF FinFollows
    <3>1. ~(n < room)
      BY <1>7, <1>9
    <3> QED BY <1>1, <1>8, <3>1
  <2> QED BY <1>2, <1>6, <1>10, <2>2, <2>4, <2>5 DEF Takes
<1> QED BY <1>12, <1>13


\* A step that changes nothing but TCP and what it has to send.
TcpOnly(t, u) ==
    /\ u.arrived = t.arrived /\ u.thread = t.thread /\ u.copy = t.copy
    /\ u.pair = t.pair /\ u.input = t.input /\ u.output = t.output
    /\ u.killed = t.killed

LEMMA CollectTakes ==
    ASSUME NEW t \in State, TcpOK(t.tcp)
    PROVE  /\ Tcp!Collect(t) \in State /\ TcpOnly(t, Tcp!Collect(t))
           /\ Takes(t.tcp, Tcp!Collect(t).tcp)
           /\ t.tcp.has_ackno => FinFollows(Tcp!Collect(t).tcp)
<1>1. PICK tcp : tcp = IF t.tcp.has_ackno THEN Tcp!Push(t.tcp) ELSE t.tcp
  OBVIOUS
<1>2. t.tcp \in TcpType
  BY DEF State
<1>3. Takes(t.tcp, tcp) /\ (t.tcp.has_ackno => FinFollows(tcp))
  <2>1. Takes(t.tcp, t.tcp)
    BY <1>2 DEF Takes
  <2> QED BY <1>1, <1>2, <2>1, PushTakes
<1>4. tcp \in TcpType /\ TcpOK(tcp)
  BY <1>3 DEF Takes
<1>5. PICK no \in BOOLEAN, out \in BOOLEAN :
        no = FALSE /\ out = (t.outgoing_segments_ \/ tcp.ready)
  OBVIOUS
<1>6. PICK v : v = [tcp EXCEPT !.ready = no]
  OBVIOUS
<1>7. /\ v \in TcpType /\ v.inbound = tcp.inbound /\ v.outbound = tcp.outbound
      /\ v.away = tcp.away /\ v.in_flight = tcp.in_flight /\ v.syn = tcp.syn
      /\ v.fin = tcp.fin /\ v.has_ackno = tcp.has_ackno
  BY <1>4, <1>6 DEF TcpType
<1>8. TcpOK(v)
  BY <1>4, <1>7 DEF TcpOK
<1>9. FinFollows(tcp) => FinFollows(v)
  BY <1>7 DEF FinFollows
<1>10. Takes(t.tcp, v)
  BY <1>3, <1>7, <1>8, <1>9 DEF Takes
<1>11. PICK u : u = Tcp!Collect(t)
  OBVIOUS
<1>12. u = [t EXCEPT !.tcp = v, !.outgoing_segments_ = out]
  BY <1>1, <1>5, <1>6, <1>11, Zenon DEF Tcp!Collect
<1>13. u \in State /\ u.tcp = v /\ TcpOnly(t, u)
  BY <1>5, <1>7, <1>12 DEF State, TcpOnly
<1> QED BY <1>3, <1>9, <1>10, <1>11, <1>13

\* Which is no concern of the rest.
LEMMA TakesKeeps ==
    ASSUME NEW t, NEW u \in State, Base(t), Takes(t.tcp, u.tcp), TcpOnly(t, u)
    PROVE  Base(u) /\ TcpSide(t, u) /\ Kept(t, u) /\ (Sound(t) => Sound(u))
<1>1. t.pair.down \in Nat /\ t.pair.up \in Nat
  BY DEF Base, State, PairType
<1>2. /\ u.tcp.inbound = t.tcp.inbound /\ u.tcp.away = t.tcp.away
      /\ u.tcp.has_ackno = t.tcp.has_ackno
      /\ u.tcp.outbound.pushed = t.tcp.outbound.pushed
      /\ u.tcp.outbound.closed = t.tcp.outbound.closed
      /\ TcpOK(u.tcp)
  BY DEF Takes
<1>3. Base(u)
  BY <1>2 DEF Base, TcpOnly
<1>4. TcpSide(t, u)
  BY <1>1 DEF TcpSide, TcpOnly
<1>5. Kept(t, u)
  BY <1>2 DEF Kept, KeptStream, TcpOnly
<1>6. ASSUME Sound(t) PROVE Sound(u)
  <2>1. WayOut(u)
    BY <1>2, <1>6 DEF Sound, WayOut, TcpOnly
  <2>2. WayIn(u)
    BY <1>2, <1>6 DEF Sound, WayIn, TcpOnly
  <2>3. Acceptable(u)
    BY <1>2, <1>6 DEF Sound, Acceptable, TcpOnly
  <2> QED BY <1>2, <1>6, <2>1, <2>2, <2>3 DEF Sound, TcpOnly
<1> QED BY <1>3, <1>4, <1>5, <1>6

\* What a step of the thread makes of the state.
TcpGives(t, u) == Base(u) /\ TcpSide(t, u) /\ (Good(t) => Good(u) /\ Kept(t, u))

LEMMA TcpGivesNothing == ASSUME NEW t, Base(t) PROVE TcpGives(t, t)
  BY DEF TcpGives, TcpSide, Kept, KeptStream, Base, State, PairType

LEMMA TcpGivesMore ==
    ASSUME NEW t, NEW u, NEW v, Base(t), TcpGives(t, u), TcpGives(u, v)
    PROVE  TcpGives(t, v)
<1>1. /\ t.pair.down \in Nat /\ t.pair.up \in Nat /\ u.pair.down \in Nat
      /\ u.pair.up \in Nat /\ v.pair.down \in Nat /\ v.pair.up \in Nat
  BY DEF TcpGives, Base, State, PairType
<1>2. TcpSide(t, v)
  BY <1>1 DEF TcpGives, TcpSide
<1>3. Good(t) => Kept(t, v)
  BY DEF TcpGives, Kept, KeptStream
<1> QED BY <1>2, <1>3 DEF TcpGives

LEMMA TickGives == ASSUME NEW t, Base(t) PROVE TcpGives(t, Tcp!Tick(t))
<1>1. t \in State /\ TcpOK(t.tcp)
  BY DEF Base
<1>2. TcpGives(t, Tcp!Collect(t))
  <2>1. PICK u \in State : /\ u = Tcp!Collect(t) /\ TcpOnly(t, u) /\ Takes(t.tcp, u.tcp)
    BY <1>1, CollectTakes
  <2>2. Base(u) /\ TcpSide(t, u) /\ Kept(t, u) /\ (Sound(t) => Sound(u))
    BY <2>1, TakesKeeps
  <2>3. FinFollows(t.tcp) => FinFollows(u.tcp)
    BY <2>1 DEF Takes
  <2> QED BY <2>1, <2>2, <2>3 DEF TcpGives, Good
<1> QED BY <1>2, TcpGivesNothing DEF Tcp!Tick


-----------------------------------------------------------------------------
\* The callbacks of the socket

LEMMA ReceiveChanges ==
    ASSUME NEW tcp \in TcpType, TcpOK(tcp), NEW seg \in Segments, seg.acked <= tcp.away
    PROVE  LET v == Tcp!Receive(tcp, seg)
           IN  /\ v \in TcpType /\ TcpOK(v)
               /\ v.outbound = tcp.outbound /\ v.fin = tcp.fin
               /\ seg.kind # "RST" /\ ~tcp.inbound.error =>
                    /\ v.has_ackno <=> tcp.has_ackno \/ seg.kind = "SYN"
                    /\ ~v.inbound.error /\ v.inbound.popped = tcp.inbound.popped
                    /\ v.inbound.closed <=> tcp.inbound.closed \/ seg.kind = "FIN"
                    /\ seg.kind # "BYTE" => v.inbound.pushed = tcp.inbound.pushed
                    /\ seg.kind = "BYTE" /\ Available(tcp.inbound) > 0 =>
                         v.inbound.pushed = tcp.inbound.pushed + 1
<1>1. PICK v : v = Tcp!Receive(tcp, seg)
  OBVIOUS
<1>2. PICK in : in = tcp.inbound
  OBVIOUS
<1>3. StreamOK(in) /\ in.capacity = RecvCapacity /\ in.error \in BOOLEAN /\ in.closed \in BOOLEAN
  BY <1>2 DEF TcpOK, StreamOK, StreamType
<1>4. \A a : StreamOK(a) => a \in StreamType
  BY DEF StreamOK
<1>5. CASE seg.kind = "RST" \/ tcp.inbound.error
  <2>1. PICK in2 : in2 = FailStream(in) /\ StreamOK(in2) /\ in2.capacity = RecvCapacity
    BY <1>3, FailStreamChanges
  <2>2. v = [tcp EXCEPT !.inbound = in2]
    BY <1>1, <1>2, <1>5, <2>1, TcpSame, Zenon DEF Tcp!Receive
  <2>3. /\ v \in TcpType /\ v.inbound = in2 /\ v.outbound = tcp.outbound
        /\ v.in_flight = tcp.in_flight /\ v.away = tcp.away /\ v.syn = tcp.syn
        /\ v.fin = tcp.fin
    BY <1>4, <2>1, <2>2 DEF TcpType
  <2>4. TcpOK(v)
    BY <2>1, <2>3 DEF TcpOK
  <2> QED BY <1>1, <1>5, <2>3, <2>4
<1>6. CASE ~(seg.kind = "RST" \/ tcp.inbound.error)
  <2>1. PICK in2 : in2 = CASE seg.kind = "BYTE" -> PushTo(in, 1)
                           [] seg.kind = "FIN"  -> CloseStream(in)
                           [] OTHER             -> in
    OBVIOUS
  <2>2. /\ StreamOK(in2) /\ in2.capacity = RecvCapacity /\ in2.popped = in.popped
        /\ in2.error = in.error
        /\ in2.closed <=> in.closed \/ seg.kind = "FIN"
        /\ seg.kind # "BYTE" => in2.pushed = in.pushed
        /\ seg.kind = "BYTE" /\ Available(in) > 0 => in2.pushed = in.pushed + 1
    <3>1. CASE seg.kind = "BYTE"
      <4>1. in2 = PushTo(in, 1)
        BY <2>1, <3>1
      <4>2. Available(in) \in Int
        BY <1>3 DEF Available, Buffered, StreamOK, StreamType
      <4> QED BY <1>3, <3>1, <4>1, <4>2, PushToChanges, SMTT(30)
    <3>2. CASE seg.kind = "FIN"
      <4>1. in2 = CloseStream(in)
        BY <2>1, <3>2
      <4> QED BY <1>3, <3>2, <4>1, CloseStreamChanges
    <3>3. CASE seg.kind \notin {"BYTE", "FIN"}
      <4>1. in2 = in
        BY <2>1, <3>3
      <4> QED BY <1>3, <3>3, <4>1
    <3> QED BY <3>1, <3>2, <3>3
  <2>3. PICK m \in Nat, a \in Nat :
          m = tcp.in_flight - seg.acked /\ a = tcp.away - seg.acked /\ a <= m
          /\ m <= RemoteWindow /\ (~tcp.syn => m = 0)
    BY ProgramAssumption DEF TcpType, TcpOK, Segments
  <2>4. PICK ack \in BOOLEAN, rdy \in BOOLEAN :
          /\ ack = (tcp.has_ackno \/ seg.kind = "SYN")
          /\ rdy = (tcp.ready \/ seg.kind # "ACK")
    OBVIOUS
  <2>5. v = [tcp EXCEPT !.in_flight = m, !.away = a, !.has_ackno = ack, !.ready = rdy,
                        !.inbound = in2]
    BY <1>1, <1>2, <1>6, <2>1, <2>3, <2>4, TcpSame, Zenon DEF Tcp!Receive
  <2>6. /\ v \in TcpType /\ v.inbound = in2 /\ v.outbound = tcp.outbound
        /\ v.in_flight = m /\ v.away = a /\ v.syn = tcp.syn
        /\ v.fin = tcp.fin /\ v.has_ackno = ack
    BY <1>4, <2>2, <2>4, <2>5 DEF TcpType
  <2>7. TcpOK(v)
    BY <2>2, <2>3, <2>6 DEF TcpOK
  <2> QED BY <1>1, <1>2, <1>6, <2>2, <2>4, <2>6, <2>7
<1> QED BY <1>5, <1>6

LEMMA ReceiveGives ==
    ASSUME NEW t, Base(t), t.arrived # <<>> PROVE TcpGives(t, Tcp!ReceiveSegment(t))
<1>1. PICK seg \in Segments : t.arrived = <<seg>> /\ seg.acked <= t.tcp.away
  BY DEF Base, State
<1>2. t \in State /\ t.tcp \in TcpType /\ TcpOK(t.tcp) /\ t.pair \in PairType
  BY DEF Base, State
<1>3. PICK v : v = Tcp!Receive(t.tcp, seg)
  OBVIOUS
<1>4. /\ v \in TcpType /\ TcpOK(v)
      /\ v.outbound = t.tcp.outbound /\ v.fin = t.tcp.fin
      /\ seg.kind # "RST" /\ ~t.tcp.inbound.error =>
           /\ v.has_ackno <=> t.tcp.has_ackno \/ seg.kind = "SYN"
           /\ ~v.inbound.error /\ v.inbound.popped = t.tcp.inbound.popped
           /\ v.inbound.closed <=> t.tcp.inbound.closed \/ seg.kind = "FIN"
           /\ seg.kind # "BYTE" => v.inbound.pushed = t.tcp.inbound.pushed
           /\ seg.kind = "BYTE" /\ Available(t.tcp.inbound) > 0 =>
                v.inbound.pushed = t.tcp.inbound.pushed + 1
  BY <1>1, <1>2, <1>3, ReceiveChanges
<1>5. PICK u : u = [t EXCEPT !.tcp = v, !.arrived = <<>>]
  OBVIOUS
<1>6. Tcp!ReceiveSegment(t) = Tcp!Collect(u)
  <2>1. Head(t.arrived) = seg /\ Tail(t.arrived) = <<>>
    BY <1>1
  <2> QED BY <1>3, <1>5, <2>1, Zenon DEF Tcp!ReceiveSegment
<1>7. /\ u \in State /\ u.tcp = v /\ u.arrived = <<>> /\ u.thread = t.thread
      /\ u.copy = t.copy /\ u.pair = t.pair /\ u.input = t.input /\ u.output = t.output
      /\ u.killed = t.killed
  BY <1>2, <1>4, <1>5 DEF State
<1>8. Base(u)
  BY <1>2, <1>4, <1>7 DEF Base
<1>9. TcpSide(t, u)
  BY <1>2, <1>7 DEF TcpSide, PairType
<1>10. ASSUME Good(t) PROVE Sound(u) /\ Kept(t, u) /\ u.tcp.has_ackno
  <2>1. /\ seg.kind # "RST" /\ ~t.tcp.inbound.error
        /\ seg.kind # "SYN" => t.tcp.has_ackno
        /\ seg.kind = "BYTE" => t.tcp.inbound.pushed < Sent /\ Available(t.tcp.inbound) > 0
        /\ seg.kind = "FIN" => t.tcp.inbound.pushed = Sent
    BY <1>1, <1>10 DEF Good, Sound, Acceptable
  <2>2. /\ v.has_ackno
        /\ ~v.inbound.error /\ v.inbound.popped = t.tcp.inbound.popped
        /\ v.inbound.closed <=> t.tcp.inbound.closed \/ seg.kind = "FIN"
        /\ seg.kind # "BYTE" => v.inbound.pushed = t.tcp.inbound.pushed
        /\ seg.kind = "BYTE" => v.inbound.pushed = t.tcp.inbound.pushed + 1
    BY <1>4, <2>1
  <2>3. WayOut(t) /\ WayIn(t)
    BY <1>10 DEF Good, Sound
  <2>4. t.tcp.inbound.closed => t.tcp.inbound.pushed = Sent /\ seg.kind # "BYTE"
    BY <2>1, <2>3, ProgramAssumption DEF WayIn
  <2>5. WayOut(u)
    BY <1>4, <1>7, <2>3 DEF WayOut
  <2>6. Finished(t.tcp.inbound) => Finished(v.inbound)
    BY <2>2, <2>4 DEF Finished, Buffered
  <2>7. WayIn(u)
    BY <1>7, <2>1, <2>2, <2>3, <2>4, <2>6 DEF WayIn
  <2>8. Sound(u)
    BY <1>7, <1>10, <2>2, <2>5, <2>7 DEF Good, Sound, Acceptable
  <2>9. Kept(t, u)
    BY <1>4, <1>7, <2>2, <2>4 DEF Kept, KeptStream
  <2> QED BY <1>7, <2>2, <2>8, <2>9
<1>11. PICK w \in State : /\ w = Tcp!Collect(u) /\ TcpOnly(u, w) /\ Takes(u.tcp, w.tcp)
                          /\ u.tcp.has_ackno => FinFollows(w.tcp)
  BY <1>4, <1>7, CollectTakes
<1>12. Base(w) /\ TcpSide(u, w) /\ Kept(u, w) /\ (Sound(u) => Sound(w))
  BY <1>8, <1>11, TakesKeeps
<1>13. TcpSide(t, w)
  BY <1>9, <1>12, <1>2, <1>7, <1>11 DEF TcpSide, PairType, State, TcpOnly
<1>14. ASSUME Good(t) PROVE Good(w) /\ Kept(t, w)
  BY <1>10, <1>11, <1>12, <1>14 DEF Good, Kept, KeptStream
<1> QED BY <1>6, <1>11, <1>12, <1>13, <1>14 DEF TcpGives


LEMMA PushBytesGives ==
    ASSUME NEW t, Base(t), Available(t.tcp.outbound) > 0,
           t.pair.down > 0 \/ t.pair.down_shut
    PROVE  TcpGives(t, Tcp!PushBytes(t))
<1>1. /\ t \in State /\ t.tcp \in TcpType /\ TcpOK(t.tcp) /\ t.pair \in PairType
      /\ t.thread \in ThreadType /\ t.pair.down \in Nat /\ t.pair.up \in Nat
      /\ t.pair.down_shut \in BOOLEAN /\ t.pair.up_shut \in BOOLEAN
  BY DEF Base, State, PairType
<1>2. PICK out : out = t.tcp.outbound /\ StreamOK(out) /\ Available(out) \in Nat
  BY <1>1 DEF TcpOK, Available, Buffered, StreamOK, StreamType
<1>3. PICK n \in Nat : /\ n = ReadCount(t.pair.down, Available(out))
                       /\ n <= t.pair.down /\ n <= Available(out)
                       /\ n = 0 => t.pair.down = 0
  BY <1>1, <1>2 DEF ReadCount, AtMost
<1>4. PICK d \in Nat : d = t.pair.down - n
  BY <1>1, <1>3
<1>5. PICK out1 : /\ out1 = PushTo(out, n) /\ StreamOK(out1)
                  /\ out1.pushed = out.pushed + n /\ out1.popped = out.popped
                  /\ out1.closed = out.closed /\ out1.capacity = out.capacity
  BY <1>2, <1>3, PushToChanges
<1>6. PICK out2 : /\ out2 = (IF n = 0 THEN CloseStream(out1) ELSE out1) /\ StreamOK(out2)
                  /\ out2.pushed = out1.pushed /\ out2.popped = out1.popped
                  /\ out2.closed <=> out1.closed \/ n = 0
                  /\ out2.capacity = out1.capacity
  <2>1. CASE n = 0
    <3>1. PICK z : z = CloseStream(out1)
      OBVIOUS
    <3>2. /\ StreamOK(z) /\ z.pushed = out1.pushed /\ z.popped = out1.popped
          /\ z.closed /\ z.capacity = out1.capacity
      BY <1>5, <3>1, CloseStreamChanges
    <3> QED BY <2>1, <3>1, <3>2
  <2>2. CASE n # 0
    BY <1>5, <2>2
  <2> QED BY <2>1, <2>2
<1>7. PICK eof \in BOOLEAN, yes \in BOOLEAN : eof = (n = 0) /\ yes = TRUE
  OBVIOUS
<1>8. PICK t1 : t1 = [t EXCEPT !.tcp.outbound = out1, !.pair.down = d, !.thread.eof = eof]
  OBVIOUS
<1>9. PICK u : u = IF n = 0 THEN Tcp!CloseOutbound(t1) ELSE t1
  OBVIOUS
<1>10. Tcp!PushBytes(t) = Tcp!Collect([u EXCEPT !.tcp = Tcp!Push(@)])
  <2> DEFINE N == Tcp!ReadCount(t.pair.down, Tcp!Available(t.tcp.outbound))
             T == [t EXCEPT !.tcp.outbound = Tcp!PushTo(@, N), !.pair.down = @ - N,
                            !.thread.eof = N = 0]
  <2>1. n = N /\ out1 = Tcp!PushTo(t.tcp.outbound, n)
    BY <1>2, <1>3, <1>5, TcpSame, Zenon
  <2>2. t1 = T
    <3> HIDE DEF N
    <3> QED BY <1>4, <1>7, <1>8, <2>1, Zenon
  <2>3. u = IF N = 0 THEN Tcp!CloseOutbound(T) ELSE T
    <3> HIDE DEF N, T
    <3> QED BY <1>9, <2>1, <2>2, Zenon
  <2>4. Tcp!PushBytes(t) = Tcp!Collect([(IF N = 0 THEN Tcp!CloseOutbound(T) ELSE T)
                                           EXCEPT !.tcp = Tcp!Push(@)])
    BY Zenon DEF Tcp!PushBytes
  <2> HIDE DEF N, T
  <2> QED BY <2>3, <2>4, Zenon
<1>11. out1 \in StreamType /\ out2 \in StreamType
  BY <1>5, <1>6 DEF StreamOK
<1>12. /\ t1 \in State /\ t1.tcp = [t.tcp EXCEPT !.outbound = out1]
       /\ t1.tcp.outbound = out1 /\ t1.pair = [t.pair EXCEPT !.down = d]
       /\ t1.thread = [t.thread EXCEPT !.eof = eof] /\ t1.copy = t.copy
       /\ t1.input = t.input /\ t1.output = t.output /\ t1.arrived = t.arrived
       /\ t1.killed = t.killed
  BY <1>1, <1>4, <1>7, <1>8, <1>11 DEF State, TcpType, PairType, ThreadType
<1>13. PICK os \in BOOLEAN : os = IF n = 0 THEN yes ELSE t.thread.outbound_shutdown
  BY <1>1 DEF ThreadType
<1>14. /\ u \in State /\ u.tcp = [t.tcp EXCEPT !.outbound = out2]
       /\ u.pair = [t.pair EXCEPT !.down = d]
       /\ u.thread = [t.thread EXCEPT !.eof = eof, !.outbound_shutdown = os]
       /\ u.copy = t.copy
       /\ u.input = t.input /\ u.output = t.output /\ u.arrived = t.arrived
       /\ u.killed = t.killed
  <2>1. CASE n = 0
    <3>1. u = [t1 EXCEPT !.tcp.outbound = out2, !.thread.outbound_shutdown = os]
      <4>1. out2 = Tcp!CloseStream(t1.tcp.outbound) /\ os = TRUE
        BY <1>6, <1>7, <1>12, <1>13, <2>1, TcpSame
      <4>2. u = Tcp!CloseOutbound(t1)
        BY <1>9, <2>1
      <4> QED BY <4>1, <4>2, Zenon DEF Tcp!CloseOutbound
    <3> QED BY <1>1, <1>11, <1>12, <1>13, <3>1, ZenonT(40) DEF State, TcpType, ThreadType
  <2>2. CASE n # 0
    <3>1. u = t1 /\ out2 = out1 /\ os = t.thread.outbound_shutdown
      BY <1>6, <1>9, <1>13, <2>2
    <3> QED BY <1>1, <1>12, <3>1 DEF ThreadType
  <2> QED BY <2>1, <2>2
<1>15. /\ u.tcp.outbound = out2 /\ u.tcp.inbound = t.tcp.inbound
       /\ u.tcp.in_flight = t.tcp.in_flight /\ u.tcp.away = t.tcp.away
       /\ u.tcp.syn = t.tcp.syn /\ u.tcp.fin = t.tcp.fin
       /\ u.tcp.has_ackno = t.tcp.has_ackno /\ u.tcp \in TcpType
  BY <1>1, <1>11, <1>14 DEF TcpType
<1>16. /\ u.pair.down = d /\ u.pair.up = t.pair.up /\ u.pair.down_shut = t.pair.down_shut
       /\ u.pair.up_shut = t.pair.up_shut
       /\ u.thread.eof => n = 0 /\ u.thread.outbound_shutdown
       /\ u.thread.inbound_shutdown = t.thread.inbound_shutdown
  BY <1>1, <1>7, <1>13, <1>14 DEF PairType, ThreadType
<1>17. TcpOK(u.tcp)
  BY <1>1, <1>2, <1>5, <1>6, <1>15 DEF TcpOK
<1>18. Base(u)
  <2>1. u.thread.eof => u.tcp.outbound.closed /\ u.thread.outbound_shutdown
    BY <1>6, <1>15, <1>16
  <2>2. u.pair.down <= PairCapacity /\ u.pair.up <= PairCapacity
    BY <1>1, <1>3, <1>4, <1>16, PairAssumption DEF Base
  <2> QED BY <1>14, <1>15, <1>17, <2>1, <2>2 DEF Base
<1>19. TcpSide(t, u)
  BY <1>1, <1>3, <1>4, <1>14, <1>16 DEF TcpSide
<1>20. ASSUME Good(t) PROVE Sound(u) /\ Kept(t, u)
  <2>1. WayOut(t) /\ WayIn(t)
    BY <1>20 DEF Good, Sound
  <2>2. t.tcp.outbound.closed => n = 0
    BY <1>1, <1>3, <2>1 DEF WayOut
  <2>3. n = 0 => t.pair.down_shut /\ t.pair.down = 0
    BY <1>1, <1>3
  <2>4. t.copy.outbound.popped = out2.pushed + d
    BY <1>1, <1>2, <1>3, <1>4, <1>5, <1>6, <2>1, SMTT(30) DEF WayOut, StreamOK, StreamType
  <2>5. out2.closed => t.pair.down_shut /\ d = 0
    BY <1>1, <1>2, <1>4, <1>5, <1>6, <2>1, <2>3 DEF WayOut
  <2>6. WayOut(u)
    BY <1>14, <1>15, <1>16, <2>1, <2>4, <2>5 DEF WayOut
  <2>7. WayIn(u)
    BY <1>14, <1>15, <1>16, <2>1 DEF WayIn
  <2>8. Sound(u)
    BY <1>14, <1>15, <1>20, <2>6, <2>7 DEF Good, Sound, Acceptable
  <2>9. KeptStream(t.tcp.outbound, u.tcp.outbound)
    BY <1>2, <1>5, <1>6, <1>15, <2>2 DEF KeptStream, StreamOK, StreamType
  <2> QED BY <1>14, <1>15, <2>8, <2>9 DEF Kept, KeptStream
<1>21. PICK v : v = Tcp!Push(u.tcp) /\ Takes(u.tcp, v) /\ FinFollows(v)
  BY <1>15, <1>17, PushTakes
<1>22. v \in TcpType /\ TcpOK(v)
  BY <1>21 DEF Takes
<1>23. PICK x \in State : x = [u EXCEPT !.tcp = v] /\ x.tcp = v /\ TcpOnly(u, x)
  <2>1. PICK x : x = [u EXCEPT !.tcp = v]
    OBVIOUS
  <2>2. x \in State /\ x.tcp = v /\ TcpOnly(u, x)
    BY <1>14, <1>22, <2>1 DEF State, TcpOnly
  <2> QED BY <2>1, <2>2
<1>24. Base(x) /\ TcpSide(u, x) /\ Kept(u, x) /\ (Sound(u) => Sound(x))
  BY <1>18, <1>21, <1>23, TakesKeeps
<1>25. PICK w \in State : /\ w = Tcp!Collect(x) /\ TcpOnly(x, w) /\ Takes(x.tcp, w.tcp)
  BY <1>22, <1>23, CollectTakes
<1>26. Base(w) /\ TcpSide(x, w) /\ Kept(x, w) /\ (Sound(x) => Sound(w))
  BY <1>24, <1>25, TakesKeeps
<1>27. FinFollows(w.tcp)
  BY <1>21, <1>23, <1>25 DEF Takes
<1>28. w = Tcp!PushBytes(t)
  BY <1>10, <1>21, <1>23, <1>25, Zenon
<1>29. TcpSide(t, w)
  <2>1. w.pair = u.pair /\ w.copy = u.copy /\ w.input = u.input /\ w.output = u.output
    BY <1>23, <1>25 DEF TcpOnly
  <2> QED BY <1>19, <2>1 DEF TcpSide
<1>30. ASSUME Good(t) PROVE Good(w) /\ Kept(t, w)
  BY <1>20, <1>24, <1>26, <1>27, <1>30 DEF Good, Kept, KeptStream
<1> QED BY <1>26, <1>28, <1>29, <1>30 DEF TcpGives


\* The inbound stream and the way to the owner are all that a write changes.
LEMMA ReadBytesGives ==
    ASSUME NEW t, Base(t), t.pair.up < PairCapacity
    PROVE  /\ TcpGives(t, Tcp!ReadBytes(t))
           /\ ~(Buffered(t.tcp.inbound) > 0) /\ ~Tcp!InboundOver(t.tcp) =>
                Tcp!ReadBytes(t) = t
<1>1. /\ t \in State /\ t.tcp \in TcpType /\ TcpOK(t.tcp) /\ t.pair \in PairType
      /\ t.thread \in ThreadType /\ t.pair.down \in Nat /\ t.pair.up \in Nat
  BY DEF Base, State, PairType
<1>2. PICK in : in = t.tcp.inbound /\ StreamOK(in) /\ in.capacity = RecvCapacity
  BY <1>1 DEF TcpOK
<1>3. PICK writes \in BOOLEAN : writes = (Buffered(in) > 0) /\ (writes <=> Buffered(in) > 0)
  <2>1. PICK n \in Int : n = Buffered(in)
    BY <1>2 DEF Buffered, StreamOK, StreamType
  <2>2. (n > 0) \in BOOLEAN
    OBVIOUS
  <2> QED BY <2>1, <2>2, Zenon
<1>4. PICK in1 : /\ in1 = (IF writes THEN PopFrom(in, 1) ELSE in) /\ StreamOK(in1)
                 /\ in1.popped = in.popped + One(writes) /\ in1.pushed = in.pushed
                 /\ in1.closed = in.closed /\ in1.error = in.error
                 /\ in1.capacity = in.capacity
  <2>1. CASE writes
    <3>1. 1 <= Buffered(in)
      BY <1>2, <1>3, <2>1 DEF Buffered, StreamOK, StreamType
    <3>2. PICK z : z = PopFrom(in, 1)
      OBVIOUS
    <3>3. /\ StreamOK(z) /\ z.popped = in.popped + 1 /\ z.pushed = in.pushed
          /\ z.closed = in.closed /\ z.error = in.error /\ z.capacity = in.capacity
      BY <1>2, <3>1, <3>2, PopFromChanges
    <3> QED BY <2>1, <3>2, <3>3 DEF One
  <2>2. CASE ~writes
    BY <1>2, <2>2 DEF One, StreamOK, StreamType
  <2> QED BY <2>1, <2>2
<1>5. PICK up \in Nat : up = t.pair.up + One(writes)
  BY <1>1 DEF One
<1>6. in1 \in StreamType /\ in \in StreamType
  BY <1>2, <1>4 DEF StreamOK
<1>7. PICK t1 : t1 = IF writes THEN [t EXCEPT !.pair.up = @ + 1, !.tcp.inbound = Tcp!PopFrom(@, 1)]
                     ELSE t
  OBVIOUS
<1>8. /\ t1 \in State /\ t1.tcp = [t.tcp EXCEPT !.inbound = in1]
      /\ t1.pair = [t.pair EXCEPT !.up = up] /\ t1.thread = t.thread
      /\ t1.copy = t.copy
      /\ t1.input = t.input /\ t1.output = t.output /\ t1.arrived = t.arrived
      /\ t1.killed = t.killed
  <2>1. CASE writes
    <3>1. t1 = [t EXCEPT !.pair.up = up, !.tcp.inbound = in1]
      <4>1. up = t.pair.up + 1 /\ in1 = Tcp!PopFrom(t.tcp.inbound, 1)
        BY <1>2, <1>4, <1>5, <2>1, TcpSame DEF One
      <4> QED BY <1>7, <2>1, <4>1, Zenon
    <3> QED BY <1>1, <1>6, <3>1 DEF State, TcpType, PairType
  <2>2. CASE ~writes
    <3>1. t1 = t /\ in1 = t.tcp.inbound /\ up = t.pair.up
      BY <1>1, <1>2, <1>4, <1>5, <1>7, <2>2 DEF One
    <3> QED BY <1>1, <3>1 DEF TcpType, PairType
  <2> QED BY <2>1, <2>2
<1>9. PICK over \in BOOLEAN : over = Tcp!InboundOver(t1.tcp)
                              /\ (over <=> Finished(in1) \/ in.error)
  <2>1. t1.tcp.inbound = in1
    BY <1>1, <1>6, <1>8 DEF TcpType
  <2> QED BY <1>4, <2>1, TcpSame DEF Tcp!InboundOver
<1>10. PICK yes \in BOOLEAN : yes = TRUE
  OBVIOUS
<1>11. PICK w : w = Tcp!ReadBytes(t)
  OBVIOUS
<1>12. w = IF writes /\ t.pair.up_shut THEN [t EXCEPT !.killed = yes]
           ELSE IF over THEN [t1 EXCEPT !.pair.up_shut = yes, !.thread.inbound_shutdown = yes]
           ELSE t1
  <2>1. Buffered(in) = Tcp!Buffered(t.tcp.inbound)
    BY <1>2, TcpSame, Zenon
  <2> DEFINE W == Tcp!Buffered(t.tcp.inbound) > 0
             T == IF W THEN [t EXCEPT !.pair.up = @ + 1, !.tcp.inbound = Tcp!PopFrom(@, 1)]
                  ELSE t
  <2>2. w = IF W /\ t.pair.up_shut THEN [t EXCEPT !.killed = TRUE]
            ELSE IF Tcp!InboundOver(T.tcp)
            THEN [T EXCEPT !.pair.up_shut = TRUE, !.thread.inbound_shutdown = TRUE]
            ELSE T
    BY <1>11, Zenon DEF Tcp!ReadBytes
  <2>3. W = writes
    BY <1>3, <2>1, Zenon
  <2>4. T = t1
    <3> HIDE DEF W
    <3> QED BY <1>7, <2>3, Zenon
  <2> HIDE DEF W, T
  <2> QED BY <1>9, <1>10, <2>2, <2>3, <2>4, Zenon
<1>13. CASE writes /\ t.pair.up_shut
  <2>1. w = [t EXCEPT !.killed = yes]
    BY <1>12, <1>13
  <2>2. /\ w \in State /\ w.tcp = t.tcp /\ w.pair = t.pair /\ w.thread = t.thread
        /\ w.copy = t.copy /\ w.input = t.input /\ w.output = t.output
        /\ w.arrived = t.arrived
    BY <1>1, <2>1 DEF State
  <2>3. Base(w)
    BY <2>2 DEF Base
  <2>4. TcpSide(t, w)
    BY <1>1, <2>2 DEF TcpSide
  <2>5. ~Good(t)
    BY <1>2, <1>3, <1>13 DEF Good, Sound, WayIn, Finished
  <2>6. Buffered(t.tcp.inbound) > 0
    BY <1>2, <1>3, <1>13
  <2> QED BY <1>11, <2>3, <2>4, <2>5, <2>6 DEF TcpGives
<1>14. CASE ~(writes /\ t.pair.up_shut)
  <2>1. PICK u \in BOOLEAN, sh \in BOOLEAN :
          /\ u = IF over THEN yes ELSE t.pair.up_shut
          /\ sh = IF over THEN yes ELSE t.thread.inbound_shutdown
    BY <1>1 DEF PairType, ThreadType
  <2>2. /\ w \in State /\ w.tcp = t1.tcp /\ w.pair = [t.pair EXCEPT !.up = up, !.up_shut = u]
        /\ w.thread = [t.thread EXCEPT !.inbound_shutdown = sh] /\ w.copy = t.copy
        /\ w.input = t.input /\ w.output = t.output /\ w.arrived = t.arrived
        /\ w.killed = t.killed
    <3>1. CASE over
      <4>1. w = [t1 EXCEPT !.pair.up_shut = u, !.thread.inbound_shutdown = sh]
        BY <1>12, <1>14, <2>1, <3>1
      <4> QED BY <1>1, <1>8, <4>1 DEF State, PairType, ThreadType
    <3>2. CASE ~over
      <4>1. w = t1 /\ u = t.pair.up_shut /\ sh = t.thread.inbound_shutdown
        BY <1>12, <1>14, <2>1, <3>2
      <4> QED BY <1>1, <1>8, <4>1 DEF PairType, ThreadType
    <3> QED BY <3>1, <3>2
  <2>3. /\ w.tcp.inbound = in1 /\ w.tcp.outbound = t.tcp.outbound
        /\ w.tcp.in_flight = t.tcp.in_flight /\ w.tcp.away = t.tcp.away
        /\ w.tcp.syn = t.tcp.syn /\ w.tcp.fin = t.tcp.fin
        /\ w.tcp.has_ackno = t.tcp.has_ackno /\ w.tcp \in TcpType
    BY <1>1, <1>6, <1>8, <2>2 DEF TcpType
  <2>4. /\ w.pair.down = t.pair.down /\ w.pair.up = up
        /\ w.pair.down_shut = t.pair.down_shut
        /\ w.pair.up_shut <=> t.pair.up_shut \/ over
        /\ w.thread.inbound_shutdown <=> t.thread.inbound_shutdown \/ over
        /\ w.thread.eof = t.thread.eof
        /\ w.thread.outbound_shutdown = t.thread.outbound_shutdown
    BY <1>1, <1>10, <2>1, <2>2 DEF PairType, ThreadType
  <2>5. TcpOK(w.tcp)
    BY <1>1, <1>2, <1>4, <2>3 DEF TcpOK
  <2>6. up <= PairCapacity /\ t.pair.up <= up
    BY <1>1, <1>5, PairAssumption DEF One
  <2>7. Base(w)
    BY <2>2, <2>3, <2>4, <2>5, <2>6 DEF Base
  <2>8. TcpSide(t, w)
    BY <1>1, <2>2, <2>4, <2>6 DEF TcpSide
  <2>9. ASSUME Good(t) PROVE Good(w) /\ Kept(t, w)
    <3>1. WayOut(t) /\ WayIn(t) /\ ~t.tcp.inbound.error
      BY <2>9 DEF Good, Sound
    <3>2. WayOut(w)
      BY <2>2, <2>3, <2>4, <3>1 DEF WayOut
    <3>3. over <=> Finished(in1)
      BY <1>2, <1>9, <3>1
    <3>4. in1.popped = t.copy.inbound.pushed + up
      <4>1. t.copy.inbound.pushed \in Nat
        BY <1>1 DEF State, CopyType, StreamType
      <4> QED BY <1>1, <1>2, <1>4, <1>5, <3>1, <4>1 DEF WayIn, One
    <3>5. t.pair.up_shut => Finished(in1) /\ up = t.pair.up
      BY <1>1, <1>2, <1>3, <1>4, <1>5, <1>14, <3>1 DEF WayIn, One
    <3>6. WayIn(w)
      BY <1>2, <1>4, <2>2, <2>3, <2>4, <3>1, <3>3, <3>4, <3>5 DEF WayIn
    <3>7. Acceptable(w)
      <4>1. Available(in) > 0 => Available(in1) > 0
        BY <1>2, <1>4 DEF Available, Buffered, StreamOK, StreamType, One
      <4> QED BY <1>2, <1>4, <2>2, <2>3, <2>9, <4>1 DEF Good, Sound, Acceptable
    <3>8. Good(w)
      BY <1>2, <1>4, <2>2, <2>3, <2>9, <3>1, <3>2, <3>6, <3>7 DEF Good, Sound, FinFollows
    <3>9. Kept(t, w)
      BY <1>2, <1>4, <2>2, <2>3 DEF Kept, KeptStream
    <3> QED BY <3>8, <3>9
  <2>10. ~(Buffered(in) > 0) /\ ~Tcp!InboundOver(t.tcp) => w = t
    BY <1>3, <1>7, <1>9, <1>12
  <2> QED BY <1>2, <1>11, <2>7, <2>8, <2>9, <2>10 DEF TcpGives
<1> QED BY <1>13, <1>14

LEMMA SendSegmentsGives == ASSUME NEW t, Base(t) PROVE TcpGives(t, Tcp!SendSegments(t))
<1>1. /\ t \in State /\ t.tcp \in TcpType /\ TcpOK(t.tcp) /\ t.pair \in PairType
      /\ t.tcp.in_flight \in Nat /\ t.tcp.away \in Nat
  BY DEF Base, State, TcpType
<1>2. PICK no \in BOOLEAN : no = FALSE
  OBVIOUS
<1>3. PICK w : w = Tcp!SendSegments(t)
  OBVIOUS
<1>4. w = [t EXCEPT !.outgoing_segments_ = no, !.tcp.away = t.tcp.in_flight]
  BY <1>2, <1>3, Zenon DEF Tcp!SendSegments
<1>5. /\ w \in State /\ w.tcp = [t.tcp EXCEPT !.away = t.tcp.in_flight]
      /\ w.pair = t.pair /\ w.thread = t.thread /\ w.copy = t.copy
      /\ w.input = t.input /\ w.output = t.output
      /\ w.arrived = t.arrived /\ w.killed = t.killed
  BY <1>1, <1>4 DEF State, TcpType
<1>6. /\ w.tcp.inbound = t.tcp.inbound /\ w.tcp.outbound = t.tcp.outbound
      /\ w.tcp.in_flight = t.tcp.in_flight /\ w.tcp.away = t.tcp.in_flight
      /\ w.tcp.syn = t.tcp.syn /\ w.tcp.fin = t.tcp.fin
      /\ w.tcp.has_ackno = t.tcp.has_ackno
  BY <1>1, <1>5 DEF TcpType
<1>7. TcpOK(w.tcp)
  BY <1>1, <1>6 DEF TcpOK
<1>8. Base(w)
  <2>1. t.arrived # <<>> => t.arrived[1].acked \in Nat
    BY <1>1 DEF State, Segments
  <2>2. t.tcp.away <= t.tcp.in_flight
    BY <1>1 DEF TcpOK
  <2>3. t.arrived # <<>> => t.arrived[1].acked <= t.tcp.in_flight
    BY <1>1, <2>1, <2>2 DEF Base
  <2> QED BY <1>5, <1>6, <1>7, <2>3 DEF Base
<1>9. TcpSide(t, w)
  BY <1>1, <1>5 DEF TcpSide, PairType
<1>10. ASSUME Good(t) PROVE Good(w) /\ Kept(t, w)
  <2>1. Kept(t, w)
    BY <1>5, <1>6 DEF Kept, KeptStream
  <2>2. WayOut(w)
    BY <1>5, <1>6, <1>10 DEF Good, Sound, WayOut
  <2>3. WayIn(w)
    BY <1>5, <1>6, <1>10 DEF Good, Sound, WayIn
  <2>4. Acceptable(w)
    BY <1>5, <1>6, <1>10 DEF Good, Sound, Acceptable
  <2> QED BY <1>5, <1>6, <1>10, <2>1, <2>2, <2>3, <2>4 DEF Good, Sound, FinFollows
<1> QED BY <1>3, <1>8, <1>9, <1>10 DEF TcpGives


-----------------------------------------------------------------------------
\* A turn of the socket's loop

LEMMA TcpCallbackGives ==
    ASSUME NEW t, Base(t), NEW loop, TcpAsked(loop, t), TcpFresh(loop, t),
           NEW r \in TcpRules, r \in Tried(loop), TcpLoop!Ready(r, loop.revents)
    PROVE  /\ TcpGives(t, Tcp!Callback(r, t).s)
           /\ ~Tcp!Callback(r, t).throws
           /\ ~TcpLoop!Busy(r, Tcp!Callback(r, t))
<1>1. PICK c : c = Tcp!Callback(r, t)
  OBVIOUS
<1>2. /\ ~c.throws
      /\ r = "receive TCP segment" => c.s = Tcp!ReceiveSegment(t) /\ c.counted
      /\ r = "push bytes" => c.s = Tcp!PushBytes(t) /\ c.counted
      /\ r = "read bytes" =>
           /\ c.s = Tcp!ReadBytes(t)
           /\ c.counted <=> Tcp!Buffered(t.tcp.inbound) > 0 \/ Tcp!InboundOver(t.tcp)
      /\ r = "send TCP segment" => c.s = Tcp!SendSegments(t) /\ c.counted
  BY <1>1 DEF Tcp!Callback
<1>3. CASE r = "receive TCP segment"
  <2>1. "IN" \in loop.revents["receive TCP segment"]
    BY <1>3 DEF TcpLoop!Ready, Tcp!Direction
  <2>2. t.arrived # <<>>
    BY <1>3, <2>1 DEF TcpFresh
  <2> QED BY <1>1, <1>2, <1>3, <2>2, ReceiveGives DEF TcpLoop!Busy
<1>4. CASE r = "push bytes"
  <2>1. "IN" \in loop.revents["push bytes"]
    BY <1>4 DEF TcpLoop!Ready, Tcp!Direction
  <2>2. "push bytes" \in loop.events /\ (t.pair.down > 0 \/ t.pair.down_shut)
    BY <1>4, <2>1 DEF TcpFresh
  <2>3. Available(t.tcp.outbound) > 0
    BY <2>2 DEF TcpAsked
  <2> QED BY <1>1, <1>2, <1>4, <2>2, <2>3, PushBytesGives DEF TcpLoop!Busy
<1>5. CASE r = "read bytes"
  <2>1. "OUT" \in loop.revents["read bytes"]
    BY <1>5 DEF TcpLoop!Ready, Tcp!Direction
  <2>2. t.pair.up < PairCapacity
    BY <1>5, <2>1 DEF TcpFresh
  <2>3. /\ TcpGives(t, Tcp!ReadBytes(t))
        /\ ~(Buffered(t.tcp.inbound) > 0) /\ ~Tcp!InboundOver(t.tcp) =>
             Tcp!ReadBytes(t) = t
    BY <2>2, ReadBytesGives
  <2>4. Tcp!Buffered(t.tcp.inbound) = Buffered(t.tcp.inbound)
    BY TcpSame
  <2>5. ~TcpLoop!Busy(r, c)
    <3> SUFFICES ASSUME TcpLoop!Busy(r, c) PROVE FALSE
      OBVIOUS
    <3>1. ~c.counted /\ Tcp!Interest(r, c.s)
      BY DEF TcpLoop!Busy
    <3>2. /\ c.s = t /\ ~(Tcp!Buffered(t.tcp.inbound) > 0) /\ ~Tcp!InboundOver(t.tcp)
      BY <1>2, <1>5, <2>3, <2>4, <3>1
    <3> QED BY <1>5, <3>1, <3>2 DEF Tcp!Interest
  <2> QED BY <1>1, <1>2, <1>5, <2>3, <2>5
<1>6. CASE r = "send TCP segment"
  BY <1>1, <1>2, <1>6, SendSegmentsGives DEF TcpLoop!Busy
<1> QED BY <1>3, <1>4, <1>5, <1>6 DEF TcpRules

\* Only the rule that has shut its direction may be cancelled.
LEMMA TcpDefunct ==
    ASSUME NEW t, NEW loop, TcpFresh(loop, t), NEW r \in TcpRules, r \in Tried(loop),
           TcpLoop!Defunct(loop, r, loop.revents)
    PROVE  r = "read bytes" /\ t.pair.up_shut
<1>1. CASE r = "receive TCP segment"
  <2>1. loop.revents["receive TCP segment"] \subseteq {"IN"}
    BY <1>1 DEF TcpFresh
  <2> QED BY <1>1, <2>1 DEF TcpLoop!Defunct
<1>2. CASE r = "push bytes"
  <2>1. /\ "ERR" \notin loop.revents["push bytes"]
        /\ "HUP" \in loop.revents["push bytes"] /\ "push bytes" \in loop.events =>
             "IN" \in loop.revents["push bytes"]
    BY <1>2 DEF TcpFresh
  <2> QED BY <1>2, <2>1 DEF TcpLoop!Defunct, TcpLoop!Ready, Tcp!Direction
<1>3. CASE r = "read bytes"
  <2>1. /\ "ERR" \notin loop.revents["read bytes"]
        /\ "HUP" \in loop.revents["read bytes"] => t.pair.up_shut
    BY <1>3 DEF TcpFresh
  <2> QED BY <1>3, <2>1 DEF TcpLoop!Defunct
<1>4. CASE r = "send TCP segment"
  <2>1. loop.revents["send TCP segment"] \subseteq {"OUT"}
    BY <1>4 DEF TcpFresh
  <2> QED BY <1>4, <2>1 DEF TcpLoop!Defunct
<1> QED BY <1>1, <1>2, <1>3, <1>4 DEF TcpRules

LEMMA ElementsOfRules == ASSUME NEW R, NEW q \in Seq(R) PROVE Elements(q) \subseteq R
  BY ElementOfSeq DEF Elements

LEMMA TcpServeGives ==
    ASSUME NEW t, Base(t), NEW loop, loop.rules \in Seq(TcpRules),
           TcpAsked(loop, t), TcpFresh(loop, t)
    PROVE  LET w == TcpLoop!Serve(loop, loop.revents, t)
           IN  /\ w.rules \in Seq(TcpRules) /\ TcpGives(t, w.s) /\ ~w.throws
               /\ TcpRulesLeft(Tried(loop), t) => TcpRulesLeft(Elements(w.rules), w.s)
<1>1. Tried(loop) \subseteq TcpRules
  BY ElementsOfRules DEF Tried
<1>2. PICK A : A = {t} \X SUBSET {r \in Tried(loop) : TcpLoop!Defunct(loop, r, loop.revents)}
  OBVIOUS
<1>3. TcpCancels(loop, A)
  <2>1. \A r \in Tried(loop) : TcpLoop!Defunct(loop, r, loop.revents) => Tcp!Cancel(r, t) = t
    BY <1>1, TcpDefunct DEF Tcp!Cancel
  <2> QED BY <1>2, <2>1 DEF TcpCancels
<1>4. PICK q \in Seq(TcpRules), o, h \in BOOLEAN : \E u, R :
        /\ TcpLoop!Serve(loop, loop.revents, t) \in TcpWalks(u, q, o, h)
        /\ TcpServes(loop, A, u, R, h)
        /\ Elements(q) \subseteq Tried(loop)
        /\ Tried(loop) \subseteq Elements(q) \union R
  <2>1. <<t, {}>> \in A
    BY <1>2
  <2> QED BY <1>3, <2>1, TcpServeShape
<1>5. PICK u, R :
        /\ TcpLoop!Serve(loop, loop.revents, t) \in TcpWalks(u, q, o, h)
        /\ TcpServes(loop, A, u, R, h)
        /\ Elements(q) \subseteq Tried(loop)
        /\ Tried(loop) \subseteq Elements(q) \union R
  BY <1>4
<1>6. PICK w : w = TcpLoop!Serve(loop, loop.revents, t)
  OBVIOUS
<1>7. w.s = u /\ w.rules = q /\ w.throws = h
  BY <1>5, <1>6 DEF TcpWalks
<1>8. /\ TcpGives(t, u) /\ ~h
      /\ \A r \in R : r \in Tried(loop) /\ TcpLoop!Defunct(loop, r, loop.revents)
  <2>1. CASE <<u, R>> \in A /\ ~h
    BY <1>2, <2>1, TcpGivesNothing
  <2>2. CASE \E c : \E r \in Tried(loop) :
         /\ <<c, R>> \in A
         /\ ~TcpLoop!Defunct(loop, r, loop.revents) /\ TcpLoop!Ready(r, loop.revents)
         /\ u = Tcp!Callback(r, c).s
         /\ h => Tcp!Callback(r, c).throws \/ TcpLoop!Busy(r, Tcp!Callback(r, c))
    <3>0. PICK c : \E r \in Tried(loop) :
            /\ <<c, R>> \in A
            /\ TcpLoop!Ready(r, loop.revents) /\ u = Tcp!Callback(r, c).s
            /\ h => Tcp!Callback(r, c).throws \/ TcpLoop!Busy(r, Tcp!Callback(r, c))
      BY <2>2
    <3>1. PICK r \in Tried(loop) :
            /\ <<c, R>> \in A
            /\ TcpLoop!Ready(r, loop.revents) /\ u = Tcp!Callback(r, c).s
            /\ h => Tcp!Callback(r, c).throws \/ TcpLoop!Busy(r, Tcp!Callback(r, c))
      BY <3>0
    <3>2. /\ c = t
          /\ \A x \in R : x \in Tried(loop) /\ TcpLoop!Defunct(loop, x, loop.revents)
      BY <1>2, <3>1
    <3> QED BY <1>1, <3>1, <3>2, TcpCallbackGives
  <2> QED BY <1>5, <2>1, <2>2 DEF TcpServes
<1>9. ASSUME TcpRulesLeft(Tried(loop), t) PROVE TcpRulesLeft(Elements(q), u)
  <2>1. t.pair.up_shut => u.pair.up_shut
    BY <1>8 DEF TcpGives, TcpSide
  <2>2. \A r \in R : r = "read bytes" /\ t.pair.up_shut
    BY <1>1, <1>8, TcpDefunct
  <2>3. "receive TCP segment" \in Elements(q)
    <3>1. "receive TCP segment" \in Tried(loop)
      BY <1>9 DEF TcpRulesLeft
    <3>2. "receive TCP segment" \notin R
      BY <2>2
    <3> QED BY <1>5, <3>1, <3>2
  <2>4. "read bytes" \in Elements(q) \/ u.pair.up_shut
    <3>1. "read bytes" \in Tried(loop) \/ t.pair.up_shut
      BY <1>9 DEF TcpRulesLeft
    <3>2. "read bytes" \in R => t.pair.up_shut
      BY <2>2
    <3> QED BY <1>5, <2>1, <3>1, <3>2
  <2> QED BY <2>3, <2>4 DEF TcpRulesLeft
<1> QED BY <1>6, <1>7, <1>8, <1>9


\* A loop after set-up.
NewLoop(q, e) ==
    [rules |-> q, events |-> e, revents |-> NoRevents,
     at |-> IF e = {} THEN "left" ELSE "poll"]

LEMMA NewLoopIs ==
    ASSUME NEW R, NEW q \in Seq(R), NEW e \in SUBSET R, NEW ats, {"poll", "left"} \subseteq ats
    PROVE  /\ NewLoop(q, e) \in Loops(R, ats)
           /\ Tried(NewLoop(q, e)) = Elements(q)
           /\ NewLoop(q, e).rules = q /\ NewLoop(q, e).events = e
           /\ NewLoop(q, e).at = IF e = {} THEN "left" ELSE "poll"
<1>1. PICK x \in ats : x = IF e = {} THEN "left" ELSE "poll"
  OBVIOUS
<1>2. PICK none : none = NoRevents
  OBVIOUS
<1>3. none \in UNION {[polled -> SUBSET Found] : polled \in SUBSET R}
  <2>1. none \in [{} -> SUBSET Found]
    BY <1>2 DEF NoRevents
  <2> QED BY <2>1
<1>4. PICK l : l = NewLoop(q, e)
  OBVIOUS
<1>5. l = [rules |-> q, events |-> e, revents |-> none, at |-> x]
  BY <1>1, <1>2, <1>4, Zenon DEF NewLoop
<1>6. l \in Loops(R, ats) /\ l.rules = q /\ l.events = e /\ l.at = x
  BY <1>3, <1>5 DEF Loops
<1> QED BY <1>1, <1>4, <1>6 DEF Tried

LEMMA IdleIs ==
    ASSUME NEW R, NEW ats, NEW a \in ats
    PROVE  Idle(a) \in Loops(R, ats) /\ Idle(a).at = a
<1>1. PICK none : none = NoRevents
  OBVIOUS
<1>2. none \in UNION {[polled -> SUBSET Found] : polled \in SUBSET R}
  <2>1. none \in [{} -> SUBSET Found]
    BY <1>1 DEF NoRevents
  <2> QED BY <2>1
<1>3. PICK l : l = Idle(a)
  OBVIOUS
<1>4. l = [rules |-> <<>>, events |-> {}, revents |-> none, at |-> a]
  BY <1>1, <1>3, Zenon DEF Idle
<1>5. l \in Loops(R, ats) /\ l.at = a
  BY <1>2, <1>4 DEF Loops
<1> QED BY <1>3, <1>5

\* A turn that begins: what is left of the rules, and when nothing is.
LEMMA TcpSetUpGives ==
    ASSUME NEW t, Base(t), NEW rules \in Seq(TcpRules)
    PROVE  \E q \in Seq(TcpRules), e \in SUBSET TcpRules :
             /\ TcpLoop!SetUp(rules, t) = [s |-> t, rules |-> q, events |-> e]
             /\ TcpAsked(NewLoop(q, e), t)
             /\ TcpRulesLeft(Elements(rules), t) => TcpRulesLeft(Elements(q), t)
             /\ Good(t) /\ TcpRulesLeft(Elements(rules), t) /\ e = {} => TcpDone(t)
<1>1. PICK q \in Seq(TcpRules), e \in SUBSET TcpRules :
        /\ TcpLoop!SetUp(rules, t) = [s |-> t, rules |-> q, events |-> e]
        /\ Elements(q) = {r \in Elements(rules) : ~TcpOver(r, t)}
        /\ e = {r \in Elements(q) : Tcp!Interest(r, t)}
  BY TcpSetUpFilters
<1>2. NewLoop(q, e).events = e
  BY DEF NewLoop
<1>3. TcpAsked(NewLoop(q, e), t)
  <2>1. "push bytes" \in e => Tcp!Interest("push bytes", t)
    BY <1>1
  <2>2. Tcp!Interest("push bytes", t) => Tcp!Available(t.tcp.outbound) > 0
    BY DEF Tcp!Interest
  <2> QED BY <1>2, <2>1, <2>2, TcpSame DEF TcpAsked
<1>4. \A r \in {"receive TCP segment", "read bytes"} : ~TcpOver(r, t)
  BY DEF TcpOver, Tcp!Eof, Tcp!Closed
<1>5. TcpRulesLeft(Elements(rules), t) => TcpRulesLeft(Elements(q), t)
  BY <1>1, <1>4 DEF TcpRulesLeft
<1>6. ASSUME Good(t), TcpRulesLeft(Elements(q), t), e = {} PROVE TcpDone(t)
  <2>1. /\ t.tcp.in_flight \in Nat /\ t.tcp.inbound \in StreamType
        /\ StreamOK(t.tcp.inbound)
    BY DEF Base, TcpOK, State, TcpType
  <2>2. ~Tcp!Interest("receive TCP segment", t)
    BY <1>1, <1>6 DEF TcpRulesLeft
  <2>3. ~Tcp!active(t.tcp)
    BY <2>2 DEF Tcp!Interest
  <2>4. ~t.tcp.inbound.error /\ FinFollows(t.tcp) /\ WayOut(t) /\ WayIn(t)
    BY <1>6 DEF Good, Sound
  <2>5. Finished(t.tcp.outbound) /\ t.tcp.inbound.closed /\ t.tcp.in_flight = 0
    BY <2>1, <2>3, <2>4, TcpSame DEF Tcp!active
  <2>6. t.tcp.fin
    BY <2>4, <2>5 DEF FinFollows
  <2>7. t.pair.down_shut
    BY <2>4, <2>5 DEF WayOut, Finished
  <2>8. t.pair.up_shut
    <3> SUFFICES ASSUME ~t.pair.up_shut PROVE FALSE
      OBVIOUS
    <3>1. ~Tcp!Interest("read bytes", t)
      BY <1>1, <1>6 DEF TcpRulesLeft
    <3>2. /\ ~(Tcp!Buffered(t.tcp.inbound) > 0)
          /\ ~(Tcp!InboundOver(t.tcp) /\ ~t.thread.inbound_shutdown)
      BY <3>1 DEF Tcp!Interest
    <3>3. Buffered(t.tcp.inbound) = 0
      BY <2>1, <3>2, TcpSame DEF Buffered, StreamOK, StreamType
    <3>4. Tcp!InboundOver(t.tcp)
      BY <2>5, <3>3, TcpSame DEF Tcp!InboundOver, Finished
    <3>5. t.thread.inbound_shutdown
      BY <3>2, <3>4
    <3> QED BY <2>4, <3>5 DEF WayIn
  <2> QED BY <2>5, <2>6, <2>7, <2>8 DEF TcpDone
<1> QED BY <1>1, <1>3, <1>5, <1>6

LEMMA CopySetUpGives ==
    ASSUME NEW t, Base(t), NEW rules \in Seq(CopyRules)
    PROVE  \E q \in Seq(CopyRules), e \in SUBSET CopyRules :
             /\ CopyLoop!SetUp(rules, t) = [s |-> t, rules |-> q, events |-> e]
             /\ CopyAsked(NewLoop(q, e), t)
             /\ CopyRulesLeft(Elements(rules), t) => CopyRulesLeft(Elements(q), t)
             /\ Good(t) /\ CopyRulesLeft(Elements(rules), t) /\ e = {} => CopyDone(t)
<1>1. PICK q \in Seq(CopyRules), e \in SUBSET CopyRules :
        /\ CopyLoop!SetUp(rules, t) = [s |-> t, rules |-> q, events |-> e]
        /\ Elements(q) = {r \in Elements(rules) : ~CopyOver(r, t)}
        /\ e = {r \in Elements(q) : Copy!Interest(r, t)}
  BY CopySetUpFilters
<1>2. NewLoop(q, e).events = e
  BY DEF NewLoop
<1>3. CopyAsked(NewLoop(q, e), t)
  <2>1. /\ "from stdin" \in e => Copy!Interest("from stdin", t)
        /\ "from socket" \in e => Copy!Interest("from socket", t)
    BY <1>1
  <2>2. /\ Copy!Interest("from stdin", t) => Copy!Available(t.copy.outbound) > 0
        /\ Copy!Interest("from socket", t) => Copy!Available(t.copy.inbound) > 0
    BY DEF Copy!Interest
  <2> QED BY <1>2, <2>1, <2>2, CopySame DEF CopyAsked
<1>4. CopyRulesLeft(Elements(rules), t) => CopyRulesLeft(Elements(q), t)
  <2>1. /\ CopyOver("from stdin", t) => t.copy.outbound.closed
        /\ ~CopyOver("into socket", t)
        /\ CopyOver("from socket", t) => t.copy.inbound.closed
        /\ CopyOver("into stdout", t) => t.copy.output_closed
    BY DEF CopyOver, Copy!Direction, Copy!Eof, Copy!Closed, Base, CopyOK
  <2> QED BY <1>1, <2>1 DEF CopyRulesLeft
<1>5. ASSUME Good(t), CopyRulesLeft(Elements(q), t), e = {} PROVE CopyDone(t)
  <2>1. /\ StreamOK(t.copy.outbound) /\ t.copy.outbound.capacity = CopyCapacity
        /\ StreamOK(t.copy.inbound) /\ t.copy.inbound.capacity = CopyCapacity
        /\ CopyCapacity \in Nat \ {0}
    BY ProgramAssumption DEF Base, CopyOK
  <2>2. WayOut(t) /\ WayIn(t)
    BY <1>5 DEF Good, Sound
  <2>3. \A r \in Elements(q) : ~Copy!Interest(r, t)
    BY <1>1, <1>5
  <2>4. "into socket" \in Elements(q) =>
          ~(Buffered(t.copy.outbound) > 0)
          /\ (Finished(t.copy.outbound) => t.copy.outbound_shutdown)
    BY <2>3, CopySame DEF Copy!Interest, Copy!HasMore
  <2>5. "into stdout" \in Elements(q) =>
          ~(Buffered(t.copy.inbound) > 0)
          /\ (Finished(t.copy.inbound) => t.copy.inbound_shutdown)
    BY <2>3, CopySame DEF Copy!Interest, Copy!HasMore
  <2>6. "from stdin" \in Elements(q) => ~(Available(t.copy.outbound) > 0)
    BY <2>3, CopySame DEF Copy!Interest
  <2>7. "from socket" \in Elements(q) => ~(Available(t.copy.inbound) > 0)
    BY <2>3, CopySame DEF Copy!Interest
  <2>8. Buffered(t.copy.outbound) = 0 /\ Available(t.copy.outbound) > 0
    <3>1. ~(Buffered(t.copy.outbound) > 0)
      <4>1. Buffered(t.copy.outbound) \in Int
        BY <2>1 DEF Buffered, StreamOK, StreamType
      <4>2. "into socket" \in Elements(q) \/ t.pair.down_shut
        BY <1>5 DEF CopyRulesLeft
      <4>3. ASSUME t.pair.down_shut PROVE ~(Buffered(t.copy.outbound) > 0)
        <5>1. Buffered(t.copy.outbound) = 0
          BY <2>2, <4>3 DEF WayOut, Finished
        <5> QED BY <4>1, <5>1
      <4> QED BY <2>4, <4>2, <4>3, Zenon
    <3> QED BY <2>1, <3>1, SMTT(30) DEF Buffered, Available, StreamOK, StreamType
  <2>9. Buffered(t.copy.inbound) = 0 /\ Available(t.copy.inbound) > 0
    <3>1. ~(Buffered(t.copy.inbound) > 0)
      <4>1. Buffered(t.copy.inbound) \in Int
        BY <2>1 DEF Buffered, StreamOK, StreamType
      <4>2. "into stdout" \in Elements(q) \/ t.copy.output_closed
        BY <1>5 DEF CopyRulesLeft
      <4>3. ASSUME t.copy.output_closed PROVE ~(Buffered(t.copy.inbound) > 0)
        <5>1. Buffered(t.copy.inbound) = 0
          BY <2>2, <4>3 DEF WayIn, Finished
        <5> QED BY <4>1, <5>1
      <4> QED BY <2>5, <4>2, <4>3, Zenon
    <3> QED BY <2>1, <3>1 DEF Buffered, Available, StreamOK, StreamType
  <2>10. Finished(t.copy.outbound) /\ Finished(t.copy.inbound)
    BY <1>5, <2>6, <2>7, <2>8, <2>9 DEF CopyRulesLeft, Finished
  <2>11. t.pair.down_shut
    BY <1>5, <2>2, <2>4, <2>10 DEF CopyRulesLeft, WayOut
  <2>12. t.copy.output_closed
    BY <1>5, <2>2, <2>5, <2>10 DEF CopyRulesLeft, WayIn
  <2> QED BY <2>10, <2>11, <2>12 DEF CopyDone
<1> QED BY <1>1, <1>3, <1>4, <1>5


-----------------------------------------------------------------------------
\* The callbacks of the copy

\* What a step of the copy makes of the state.
CopyGives(t, u) ==
    Base(u) /\ CopySide(t, u) /\ (Good(t) /\ t.output.state = "open" => Good(u) /\ Kept(t, u))

LEMMA CopyGivesNothing == ASSUME NEW t, Base(t) PROVE CopyGives(t, t)
  BY DEF CopyGives, CopySide, Kept, KeptStream, Base, State, PairType

LEMMA CopyGivesMore ==
    ASSUME NEW t, NEW u, NEW v, Base(t), CopyGives(t, u), CopyGives(u, v)
    PROVE  CopyGives(t, v)
<1>1. /\ t.pair.down \in Nat /\ t.pair.up \in Nat /\ u.pair.down \in Nat
      /\ u.pair.up \in Nat /\ v.pair.down \in Nat /\ v.pair.up \in Nat
  BY DEF CopyGives, Base, State, PairType
<1>2. CopySide(t, v)
  BY <1>1 DEF CopyGives, CopySide
<1>3. Good(t) /\ t.output.state = "open" => Good(v) /\ Kept(t, v)
  BY DEF CopyGives, CopySide, Kept, KeptStream
<1> QED BY <1>2, <1>3 DEF CopyGives

\* Nothing the copy does concerns TCP: what is left to show is that the state
\* is as good on both ways.
LEMMA CopyOnly ==
    ASSUME NEW t, NEW u \in State, Base(t), CopySide(t, u), CopyOK(u.copy),
           u.pair.down <= PairCapacity, u.pair.up <= PairCapacity
    PROVE  /\ Base(u)
           /\ Good(t) /\ u.killed = t.killed /\ WayOut(u) /\ WayIn(u) => Good(u)
           /\ KeptStream(t.tcp.inbound, u.tcp.inbound)
           /\ KeptStream(t.tcp.outbound, u.tcp.outbound)
<1>1. Base(u)
  BY DEF Base, CopySide
<1>2. Good(t) /\ u.killed = t.killed /\ WayOut(u) /\ WayIn(u) => Good(u)
  BY DEF Good, Sound, Acceptable, CopySide
<1> QED BY <1>1, <1>2 DEF KeptStream, CopySide

LEMMA FromStdinGives ==
    ASSUME NEW t, Base(t), Available(t.copy.outbound) > 0,
           t.input.left > 0 \/ t.input.ended
    PROVE  CopyGives(t, Copy!FromStdin(t))
<1>1. /\ t \in State /\ t.copy \in CopyType /\ CopyOK(t.copy) /\ t.pair \in PairType
      /\ t.input \in InputType /\ t.input.left \in Nat /\ t.input.typed \in Nat
  BY DEF Base, State, InputType
<1>2. PICK out : out = t.copy.outbound /\ StreamOK(out) /\ Available(out) \in Nat
  BY <1>1 DEF CopyOK, Available, Buffered, StreamOK, StreamType
<1>3. PICK n \in Nat : /\ n = ReadCount(t.input.left, Available(out))
                       /\ n <= t.input.left /\ n <= Available(out)
                       /\ n = 0 => t.input.left = 0
  BY <1>1, <1>2 DEF ReadCount, AtMost
<1>4. PICK d \in Nat : d = t.input.left - n
  BY <1>1, <1>3
<1>5. PICK out1 : /\ out1 = PushTo(out, n) /\ StreamOK(out1)
                  /\ out1.pushed = out.pushed + n /\ out1.popped = out.popped
                  /\ out1.closed = out.closed /\ out1.capacity = out.capacity
  BY <1>2, <1>3, PushToChanges
<1>6. PICK out2 : /\ out2 = (IF n = 0 THEN CloseStream(out1) ELSE out1) /\ StreamOK(out2)
                  /\ out2.pushed = out1.pushed /\ out2.popped = out1.popped
                  /\ out2.closed <=> out1.closed \/ n = 0
                  /\ out2.capacity = out1.capacity
  <2>1. CASE n = 0
    <3>1. PICK z : z = CloseStream(out1)
      OBVIOUS
    <3>2. /\ StreamOK(z) /\ z.pushed = out1.pushed /\ z.popped = out1.popped
          /\ z.closed /\ z.capacity = out1.capacity
      BY <1>5, <3>1, CloseStreamChanges
    <3> QED BY <2>1, <3>1, <3>2
  <2>2. CASE n # 0
    BY <1>5, <2>2
  <2> QED BY <2>1, <2>2
<1>7. PICK eof \in BOOLEAN : eof = (n = 0)
  OBVIOUS
<1>8. PICK t1 : t1 = [t EXCEPT !.copy.outbound = out1, !.input.left = d, !.copy.input_eof = eof]
  OBVIOUS
<1>9. PICK u : u = IF n = 0 THEN Copy!CloseOutbound(t1) ELSE t1
  OBVIOUS
<1>10. Copy!FromStdin(t) = u
  <2> DEFINE N == Copy!ReadCount(t.input.left, Copy!Available(t.copy.outbound))
             T == [t EXCEPT !.copy.outbound = Copy!PushTo(@, N), !.input.left = @ - N,
                            !.copy.input_eof = N = 0]
  <2>1. n = N /\ out1 = Copy!PushTo(t.copy.outbound, n)
    BY <1>2, <1>3, <1>5, CopySame, Zenon
  <2>2. t1 = T
    <3> HIDE DEF N
    <3> QED BY <1>4, <1>7, <1>8, <2>1, Zenon
  <2>3. u = IF N = 0 THEN Copy!CloseOutbound(T) ELSE T
    <3> HIDE DEF N, T
    <3> QED BY <1>9, <2>1, <2>2, Zenon
  <2>4. Copy!FromStdin(t) = IF N = 0 THEN Copy!CloseOutbound(T) ELSE T
    BY Zenon DEF Copy!FromStdin
  <2> HIDE DEF N, T
  <2> QED BY <2>3, <2>4, Zenon
<1>11. out1 \in StreamType /\ out2 \in StreamType
  BY <1>5, <1>6 DEF StreamOK
<1>12. /\ t1 \in State /\ t1.copy = [t.copy EXCEPT !.outbound = out1, !.input_eof = eof]
       /\ t1.copy.outbound = out1 /\ t1.input = [t.input EXCEPT !.left = d]
       /\ t1.tcp = t.tcp /\ t1.thread = t.thread /\ t1.arrived = t.arrived
       /\ t1.outgoing_segments_ = t.outgoing_segments_
       /\ t1.pair = t.pair /\ t1.output = t.output /\ t1.killed = t.killed
  BY <1>1, <1>4, <1>7, <1>8, <1>11 DEF State, CopyType, InputType
<1>13. /\ u \in State /\ u.copy = [t.copy EXCEPT !.outbound = out2, !.input_eof = eof]
       /\ u.input = [t.input EXCEPT !.left = d]
       /\ u.tcp = t.tcp /\ u.thread = t.thread /\ u.arrived = t.arrived
       /\ u.outgoing_segments_ = t.outgoing_segments_
       /\ u.pair = t.pair /\ u.output = t.output /\ u.killed = t.killed
  <2>1. CASE n = 0
    <3>1. u = [t1 EXCEPT !.copy.outbound = out2]
      <4>1. out2 = Copy!CloseStream(t1.copy.outbound)
        BY <1>6, <1>12, <2>1, CopySame
      <4>2. u = Copy!CloseOutbound(t1)
        BY <1>9, <2>1
      <4> QED BY <4>1, <4>2, Zenon DEF Copy!CloseOutbound
    <3> QED BY <1>1, <1>7, <1>11, <1>12, <3>1 DEF State, CopyType
  <2>2. CASE n # 0
    <3>1. u = t1 /\ out2 = out1
      BY <1>6, <1>9, <2>2
    <3> QED BY <1>12, <3>1
  <2> QED BY <2>1, <2>2
<1>14. /\ u.copy.outbound = out2 /\ u.copy.inbound = t.copy.inbound
       /\ u.copy.outbound_shutdown = t.copy.outbound_shutdown
       /\ u.copy.inbound_shutdown = t.copy.inbound_shutdown
       /\ u.copy.input_eof = eof /\ u.copy.socket_eof = t.copy.socket_eof
       /\ u.copy.output_closed = t.copy.output_closed
  BY <1>1, <1>7, <1>11, <1>13 DEF CopyType
<1>15. u.input.left = d /\ u.input.typed = t.input.typed /\ u.input.ended = t.input.ended
  BY <1>1, <1>13 DEF InputType
<1>16. CopyOK(u.copy)
  BY <1>1, <1>2, <1>5, <1>6, <1>7, <1>14 DEF CopyOK
<1>17. CopySide(t, u)
  BY <1>1, <1>13 DEF CopySide, PairType
<1>18. u.pair.down <= PairCapacity /\ u.pair.up <= PairCapacity
  BY <1>13 DEF Base
<1>19. ASSUME Good(t) PROVE WayOut(u) /\ WayIn(u) /\ Kept(t, u)
  <2>1. WayOut(t) /\ WayIn(t)
    BY <1>19 DEF Good, Sound
  <2>2. t.copy.outbound.closed => n = 0
    BY <1>1, <1>3, <2>1 DEF WayOut
  <2>3. n = 0 => t.input.ended /\ t.input.left = 0
    BY <1>1, <1>3
  <2>4. t.input.typed = out2.pushed + d
    BY <1>1, <1>2, <1>3, <1>4, <1>5, <1>6, <2>1 DEF WayOut, StreamOK, StreamType
  <2>5. out2.closed => t.input.ended /\ d = 0
    BY <1>1, <1>2, <1>4, <1>5, <1>6, <2>1, <2>3 DEF WayOut
  <2>6. Finished(t.copy.outbound) => Finished(out2)
    <3>1. n = 0 => out2.pushed = out.pushed
      BY <1>2, <1>5, <1>6 DEF StreamOK, StreamType
    <3> QED BY <1>2, <1>5, <1>6, <2>2, <3>1 DEF Finished, Buffered
  <2>7. WayOut(u)
    BY <1>2, <1>5, <1>6, <1>13, <1>14, <1>15, <2>1, <2>4, <2>5, <2>6 DEF WayOut
  <2>8. WayIn(u)
    BY <1>13, <1>14, <2>1 DEF WayIn
  <2>9. KeptStream(t.copy.outbound, u.copy.outbound)
    BY <1>2, <1>5, <1>6, <1>14, <2>2 DEF KeptStream, StreamOK, StreamType
  <2> QED BY <1>13, <1>14, <2>7, <2>8, <2>9 DEF Kept, KeptStream
<1> QED BY <1>10, <1>13, <1>16, <1>17, <1>18, <1>19, CopyOnly DEF CopyGives


LEMMA FromSocketGives ==
    ASSUME NEW t, Base(t), Available(t.copy.inbound) > 0,
           t.pair.up > 0 \/ t.pair.up_shut
    PROVE  CopyGives(t, Copy!FromSocket(t))
<1>1. /\ t \in State /\ t.copy \in CopyType /\ CopyOK(t.copy) /\ t.pair \in PairType
      /\ t.pair.down \in Nat /\ t.pair.up \in Nat
  BY DEF Base, State, PairType
<1>2. PICK in : in = t.copy.inbound /\ StreamOK(in) /\ Available(in) \in Nat
  BY <1>1 DEF CopyOK, Available, Buffered, StreamOK, StreamType
<1>3. PICK n \in Nat : /\ n = ReadCount(t.pair.up, Available(in))
                       /\ n <= t.pair.up /\ n <= Available(in)
                       /\ n = 0 => t.pair.up = 0
  BY <1>1, <1>2 DEF ReadCount, AtMost
<1>4. PICK d \in Nat : d = t.pair.up - n
  BY <1>1, <1>3
<1>5. PICK in1 : /\ in1 = PushTo(in, n) /\ StreamOK(in1)
                 /\ in1.pushed = in.pushed + n /\ in1.popped = in.popped
                 /\ in1.closed = in.closed /\ in1.capacity = in.capacity
  BY <1>2, <1>3, PushToChanges
<1>6. PICK in2 : /\ in2 = (IF n = 0 THEN CloseStream(in1) ELSE in1) /\ StreamOK(in2)
                 /\ in2.pushed = in1.pushed /\ in2.popped = in1.popped
                 /\ in2.closed <=> in1.closed \/ n = 0
                 /\ in2.capacity = in1.capacity
  <2>1. CASE n = 0
    <3>1. PICK z : z = CloseStream(in1)
      OBVIOUS
    <3>2. /\ StreamOK(z) /\ z.pushed = in1.pushed /\ z.popped = in1.popped
          /\ z.closed /\ z.capacity = in1.capacity
      BY <1>5, <3>1, CloseStreamChanges
    <3> QED BY <2>1, <3>1, <3>2
  <2>2. CASE n # 0
    BY <1>5, <2>2
  <2> QED BY <2>1, <2>2
<1>7. PICK eof \in BOOLEAN : eof = (n = 0)
  OBVIOUS
<1>8. PICK t1 : t1 = [t EXCEPT !.copy.inbound = in1, !.pair.up = d, !.copy.socket_eof = eof]
  OBVIOUS
<1>9. PICK u : u = IF n = 0 THEN Copy!CloseInbound(t1) ELSE t1
  OBVIOUS
<1>10. Copy!FromSocket(t) = u
  <2> DEFINE N == Copy!ReadCount(t.pair.up, Copy!Available(t.copy.inbound))
             T == [t EXCEPT !.copy.inbound = Copy!PushTo(@, N), !.pair.up = @ - N,
                            !.copy.socket_eof = N = 0]
  <2>1. n = N /\ in1 = Copy!PushTo(t.copy.inbound, n)
    BY <1>2, <1>3, <1>5, CopySame, Zenon
  <2>2. t1 = T
    <3> HIDE DEF N
    <3> QED BY <1>4, <1>7, <1>8, <2>1, Zenon
  <2>3. u = IF N = 0 THEN Copy!CloseInbound(T) ELSE T
    <3> HIDE DEF N, T
    <3> QED BY <1>9, <2>1, <2>2, Zenon
  <2>4. Copy!FromSocket(t) = IF N = 0 THEN Copy!CloseInbound(T) ELSE T
    BY Zenon DEF Copy!FromSocket
  <2> HIDE DEF N, T
  <2> QED BY <2>3, <2>4, Zenon
<1>11. in1 \in StreamType /\ in2 \in StreamType
  BY <1>5, <1>6 DEF StreamOK
<1>12. /\ t1 \in State /\ t1.copy = [t.copy EXCEPT !.inbound = in1, !.socket_eof = eof]
       /\ t1.copy.inbound = in1 /\ t1.pair = [t.pair EXCEPT !.up = d]
       /\ t1.tcp = t.tcp /\ t1.thread = t.thread /\ t1.arrived = t.arrived
       /\ t1.outgoing_segments_ = t.outgoing_segments_
       /\ t1.input = t.input /\ t1.output = t.output /\ t1.killed = t.killed
  BY <1>1, <1>4, <1>7, <1>8, <1>11 DEF State, CopyType, PairType
<1>13. /\ u \in State /\ u.copy = [t.copy EXCEPT !.inbound = in2, !.socket_eof = eof]
       /\ u.pair = [t.pair EXCEPT !.up = d]
       /\ u.tcp = t.tcp /\ u.thread = t.thread /\ u.arrived = t.arrived
       /\ u.outgoing_segments_ = t.outgoing_segments_
       /\ u.input = t.input /\ u.output = t.output /\ u.killed = t.killed
  <2>1. CASE n = 0
    <3>1. u = [t1 EXCEPT !.copy.inbound = in2]
      <4>1. in2 = Copy!CloseStream(t1.copy.inbound)
        BY <1>6, <1>12, <2>1, CopySame
      <4>2. u = Copy!CloseInbound(t1)
        BY <1>9, <2>1
      <4> QED BY <4>1, <4>2, Zenon DEF Copy!CloseInbound
    <3> QED BY <1>1, <1>7, <1>11, <1>12, <3>1 DEF State, CopyType
  <2>2. CASE n # 0
    <3>1. u = t1 /\ in2 = in1
      BY <1>6, <1>9, <2>2
    <3> QED BY <1>12, <3>1
  <2> QED BY <2>1, <2>2
<1>14. /\ u.copy.inbound = in2 /\ u.copy.outbound = t.copy.outbound
       /\ u.copy.outbound_shutdown = t.copy.outbound_shutdown
       /\ u.copy.inbound_shutdown = t.copy.inbound_shutdown
       /\ u.copy.socket_eof = eof /\ u.copy.input_eof = t.copy.input_eof
       /\ u.copy.output_closed = t.copy.output_closed
  BY <1>1, <1>7, <1>11, <1>13 DEF CopyType
<1>15. /\ u.pair.up = d /\ u.pair.down = t.pair.down
       /\ u.pair.up_shut = t.pair.up_shut /\ u.pair.down_shut = t.pair.down_shut
  BY <1>1, <1>13 DEF PairType
<1>16. CopyOK(u.copy)
  BY <1>1, <1>2, <1>5, <1>6, <1>7, <1>14 DEF CopyOK
<1>17. CopySide(t, u)
  BY <1>1, <1>3, <1>4, <1>13, <1>15 DEF CopySide
<1>18. u.pair.down <= PairCapacity /\ u.pair.up <= PairCapacity
  BY <1>1, <1>3, <1>4, <1>15, PairAssumption DEF Base
<1>19. ASSUME Good(t) PROVE WayOut(u) /\ WayIn(u) /\ Kept(t, u)
  <2>1. WayOut(t) /\ WayIn(t)
    BY <1>19 DEF Good, Sound
  <2>2. t.copy.inbound.closed => n = 0
    BY <1>1, <1>3, <2>1 DEF WayIn
  <2>3. n = 0 => t.pair.up_shut /\ t.pair.up = 0
    BY <1>1, <1>3
  <2>4. t.tcp.inbound.popped = in2.pushed + d
    BY <1>1, <1>2, <1>3, <1>4, <1>5, <1>6, <2>1 DEF WayIn, StreamOK, StreamType
  <2>5. in2.closed => t.pair.up_shut /\ d = 0
    BY <1>1, <1>2, <1>4, <1>5, <1>6, <2>1, <2>3 DEF WayIn
  <2>6. Finished(t.copy.inbound) => Finished(in2)
    <3>1. n = 0 => in2.pushed = in.pushed
      BY <1>2, <1>5, <1>6 DEF StreamOK, StreamType
    <3> QED BY <1>2, <1>5, <1>6, <2>2, <3>1 DEF Finished, Buffered
  <2>7. WayIn(u)
    BY <1>2, <1>5, <1>6, <1>13, <1>14, <1>15, <2>1, <2>4, <2>5, <2>6 DEF WayIn
  <2>8. WayOut(u)
    BY <1>13, <1>14, <1>15, <2>1 DEF WayOut
  <2>9. KeptStream(t.copy.inbound, u.copy.inbound)
    BY <1>2, <1>5, <1>6, <1>14, <2>2 DEF KeptStream, StreamOK, StreamType
  <2> QED BY <1>13, <1>14, <2>7, <2>8, <2>9 DEF Kept, KeptStream
<1> QED BY <1>10, <1>13, <1>16, <1>17, <1>18, <1>19, CopyOnly DEF CopyGives


LEMMA IntoSocketGives ==
    ASSUME NEW t, Base(t), t.pair.down < PairCapacity
    PROVE  CopyGives(t, Copy!IntoSocket(t))
<1>1. /\ t \in State /\ t.copy \in CopyType /\ CopyOK(t.copy) /\ t.pair \in PairType
      /\ t.pair.down \in Nat /\ t.pair.up \in Nat /\ t.pair.down \in Nat
  BY DEF Base, State, PairType
<1>2. PICK out : out = t.copy.outbound /\ StreamOK(out) /\ out.capacity = CopyCapacity
  BY <1>1 DEF CopyOK
<1>3. PICK writes \in BOOLEAN : writes = (Buffered(out) > 0) /\ (writes <=> Buffered(out) > 0)
  <2>1. PICK n \in Int : n = Buffered(out)
    BY <1>2 DEF Buffered, StreamOK, StreamType
  <2>2. (n > 0) \in BOOLEAN
    OBVIOUS
  <2> QED BY <2>1, <2>2, Zenon
<1>4. PICK rest : /\ rest = (IF writes THEN PopFrom(out, 1) ELSE out) /\ StreamOK(rest)
                  /\ rest.popped = out.popped + One(writes) /\ rest.pushed = out.pushed
                  /\ rest.closed = out.closed /\ rest.capacity = out.capacity
  <2>1. CASE writes
    <3>1. 1 <= Buffered(out)
      BY <1>2, <1>3, <2>1 DEF Buffered, StreamOK, StreamType
    <3>2. PICK z : z = PopFrom(out, 1)
      OBVIOUS
    <3>3. /\ StreamOK(z) /\ z.popped = out.popped + 1 /\ z.pushed = out.pushed
          /\ z.closed = out.closed /\ z.capacity = out.capacity
      BY <1>2, <3>1, <3>2, PopFromChanges
    <3> QED BY <2>1, <3>2, <3>3 DEF One
  <2>2. CASE ~writes
    BY <1>2, <2>2 DEF One, StreamOK, StreamType
  <2> QED BY <2>1, <2>2
<1>5. PICK more \in Nat : more = t.pair.down + One(writes)
  BY <1>1 DEF One
<1>6. rest \in StreamType /\ out \in StreamType
  BY <1>2, <1>4 DEF StreamOK
<1>7. PICK t1 : t1 = IF writes THEN [t EXCEPT !.pair.down = @ + 1, !.copy.outbound = Copy!PopFrom(@, 1)]
                     ELSE t
  OBVIOUS
<1>8. /\ t1 \in State /\ t1.copy = [t.copy EXCEPT !.outbound = rest]
      /\ t1.pair = [t.pair EXCEPT !.down = more] /\ t1.thread = t.thread
      /\ t1.tcp = t.tcp /\ t1.outgoing_segments_ = t.outgoing_segments_
      /\ t1.input = t.input /\ t1.output = t.output /\ t1.arrived = t.arrived
      /\ t1.killed = t.killed
  <2>1. CASE writes
    <3>1. t1 = [t EXCEPT !.pair.down = more, !.copy.outbound = rest]
      <4>1. more = t.pair.down + 1 /\ rest = Copy!PopFrom(t.copy.outbound, 1)
        BY <1>2, <1>4, <1>5, <2>1, CopySame DEF One
      <4> QED BY <1>7, <2>1, <4>1, Zenon
    <3> QED BY <1>1, <1>6, <3>1 DEF State, CopyType, PairType
  <2>2. CASE ~writes
    <3>1. t1 = t /\ rest = t.copy.outbound /\ more = t.pair.down
      BY <1>1, <1>2, <1>4, <1>5, <1>7, <2>2 DEF One
    <3> QED BY <1>1, <3>1 DEF CopyType, PairType
  <2> QED BY <2>1, <2>2
<1>9. PICK over \in BOOLEAN : /\ over = Copy!Finished(t1.copy.outbound)
                              /\ over <=> Finished(rest)
  <2>1. t1.copy.outbound = rest
    BY <1>1, <1>6, <1>8 DEF CopyType
  <2>2. PICK b \in BOOLEAN : b = Finished(rest)
    <3>1. rest.closed \in BOOLEAN
      BY <1>6 DEF StreamType
    <3>2. Finished(rest) \in BOOLEAN
      BY <3>1, Zenon DEF Finished
    <3> QED BY <3>2, Zenon
  <2>3. Copy!Finished(t1.copy.outbound) = Finished(rest)
    BY <2>1, CopySame, Zenon
  <2> QED BY <2>2, <2>3, Zenon
<1>10. PICK yes \in BOOLEAN : yes = TRUE
  OBVIOUS
<1>11. PICK w : w = Copy!IntoSocket(t)
  OBVIOUS
<1>12. w = IF writes /\ t.pair.down_shut THEN [t EXCEPT !.killed = yes]
           ELSE IF over THEN [t1 EXCEPT !.pair.down_shut = yes, !.copy.outbound_shutdown = yes]
           ELSE t1
  <2>1. Buffered(out) = Copy!Buffered(t.copy.outbound)
    BY <1>2, CopySame, Zenon
  <2> DEFINE W == Copy!Buffered(t.copy.outbound) > 0
             T == IF W THEN [t EXCEPT !.pair.down = @ + 1, !.copy.outbound = Copy!PopFrom(@, 1)]
                  ELSE t
  <2>2. w = IF W /\ t.pair.down_shut THEN [t EXCEPT !.killed = TRUE]
            ELSE IF Copy!Finished(T.copy.outbound)
            THEN [T EXCEPT !.pair.down_shut = TRUE, !.copy.outbound_shutdown = TRUE]
            ELSE T
    BY <1>11, Zenon DEF Copy!IntoSocket
  <2>3. W = writes
    BY <1>3, <2>1, Zenon
  <2>4. T = t1
    <3> HIDE DEF W
    <3> QED BY <1>7, <2>3, Zenon
  <2> HIDE DEF W, T
  <2> QED BY <1>9, <1>10, <2>2, <2>3, <2>4, Zenon
<1>13. CASE writes /\ t.pair.down_shut
  <2>1. w = [t EXCEPT !.killed = yes]
    BY <1>12, <1>13
  <2>2. /\ w \in State /\ w.tcp = t.tcp /\ w.pair = t.pair /\ w.thread = t.thread
        /\ w.copy = t.copy /\ w.input = t.input /\ w.output = t.output
        /\ w.arrived = t.arrived /\ w.outgoing_segments_ = t.outgoing_segments_
    BY <1>1, <2>1 DEF State
  <2>3. Base(w)
    BY <2>2 DEF Base
  <2>4. CopySide(t, w)
    BY <1>1, <2>2 DEF CopySide
  <2>5. ~(Good(t) /\ t.output.state = "open")
    BY <1>2, <1>3, <1>13 DEF Good, Sound, WayOut, Finished
  <2> QED BY <1>11, <2>3, <2>4, <2>5 DEF CopyGives
<1>14. CASE ~(writes /\ t.pair.down_shut)
  <2>1. PICK d \in BOOLEAN, sh \in BOOLEAN :
          /\ d = IF over THEN yes ELSE t.pair.down_shut
          /\ sh = IF over THEN yes ELSE t.copy.outbound_shutdown
    BY <1>1 DEF PairType, CopyType
  <2>2. /\ w \in State /\ w.copy = [t.copy EXCEPT !.outbound = rest, !.outbound_shutdown = sh]
        /\ w.pair = [t.pair EXCEPT !.down = more, !.down_shut = d]
        /\ w.thread = t.thread /\ w.tcp = t.tcp
        /\ w.outgoing_segments_ = t.outgoing_segments_
        /\ w.input = t.input /\ w.output = t.output /\ w.arrived = t.arrived
        /\ w.killed = t.killed
    <3>1. CASE over
      <4>1. w = [t1 EXCEPT !.pair.down_shut = d, !.copy.outbound_shutdown = sh]
        BY <1>12, <1>14, <2>1, <3>1
      <4> QED BY <1>1, <1>6, <1>8, <4>1 DEF State, PairType, CopyType
    <3>2. CASE ~over
      <4>1. w = t1 /\ d = t.pair.down_shut /\ sh = t.copy.outbound_shutdown
        BY <1>12, <1>14, <2>1, <3>2
      <4> QED BY <1>1, <1>6, <1>8, <4>1, ZenonT(40) DEF PairType, CopyType
    <3> QED BY <3>1, <3>2
  <2>3. /\ w.copy.outbound = rest /\ w.copy.inbound = t.copy.inbound
        /\ w.copy.outbound_shutdown <=> t.copy.outbound_shutdown \/ over
        /\ w.copy.inbound_shutdown = t.copy.inbound_shutdown
        /\ w.copy.input_eof = t.copy.input_eof /\ w.copy.socket_eof = t.copy.socket_eof
        /\ w.copy.output_closed = t.copy.output_closed
    BY <1>1, <1>6, <1>10, <2>1, <2>2 DEF CopyType
  <2>4. /\ w.pair.down = more /\ w.pair.up = t.pair.up
        /\ w.pair.down_shut <=> t.pair.down_shut \/ over
        /\ w.pair.up_shut = t.pair.up_shut
    BY <1>1, <1>10, <2>1, <2>2 DEF PairType
  <2>5. CopyOK(w.copy)
    BY <1>1, <1>2, <1>4, <2>3 DEF CopyOK
  <2>6. /\ more <= PairCapacity /\ t.pair.up <= PairCapacity /\ t.pair.down <= more
    BY <1>1, <1>5, PairAssumption DEF One, Base
  <2>7. CopySide(t, w)
    BY <1>1, <2>2, <2>4, <2>6 DEF CopySide
  <2>8. ASSUME Good(t) PROVE WayOut(w) /\ WayIn(w)
    <3>1. WayOut(t) /\ WayIn(t)
      BY <2>8 DEF Good, Sound
    <3>2. rest.popped = t.tcp.outbound.pushed + more
      <4>1. t.tcp.outbound.pushed \in Nat
        BY <1>1 DEF State, TcpType, StreamType
      <4> QED BY <1>1, <1>2, <1>4, <1>5, <3>1, <4>1 DEF WayOut, One
    <3>3. t.pair.down_shut => Finished(rest) /\ more = t.pair.down
      BY <1>1, <1>2, <1>3, <1>4, <1>5, <1>14, <3>1 DEF WayOut, One
    <3>4. t.tcp.outbound.closed => (t.pair.down_shut \/ over) /\ more = 0
      BY <1>1, <3>1, <3>3 DEF WayOut
    <3>5. WayOut(w)
      BY <1>2, <1>4, <1>9, <2>2, <2>3, <2>4, <3>1, <3>2, <3>3, <3>4 DEF WayOut
    <3>6. WayIn(w)
      BY <2>2, <2>3, <2>4, <3>1 DEF WayIn
    <3> QED BY <3>5, <3>6
  <2>9. /\ KeptStream(t.copy.inbound, w.copy.inbound)
        /\ KeptStream(t.copy.outbound, w.copy.outbound)
    BY <1>2, <1>4, <2>3 DEF KeptStream
  <2>10. /\ Base(w)
         /\ Good(t) /\ w.killed = t.killed /\ WayOut(w) /\ WayIn(w) => Good(w)
         /\ KeptStream(t.tcp.inbound, w.tcp.inbound)
         /\ KeptStream(t.tcp.outbound, w.tcp.outbound)
    BY <2>2, <2>4, <2>5, <2>6, <2>7, CopyOnly
  <2> QED BY <1>11, <2>2, <2>7, <2>8, <2>9, <2>10 DEF CopyGives, Kept
<1> QED BY <1>13, <1>14

LEMMA IntoStdoutGives ==
    ASSUME NEW t, Base(t)
    PROVE  /\ CopyGives(t, Copy!IntoStdout(t))
           /\ ~(Buffered(t.copy.inbound) > 0) =>
                IF Finished(t.copy.inbound)
                THEN Copy!IntoStdout(t).copy.output_closed
                ELSE Copy!IntoStdout(t) = t
<1>1. /\ t \in State /\ t.copy \in CopyType /\ CopyOK(t.copy) /\ t.pair \in PairType
      /\ t.pair.down \in Nat /\ t.pair.up \in Nat /\ t.output \in OutputType /\ t.output.bytes \in Nat
  BY DEF Base, State, PairType, OutputType
<1>2. PICK in : in = t.copy.inbound /\ StreamOK(in) /\ in.capacity = CopyCapacity
  BY <1>1 DEF CopyOK
<1>3. PICK writes \in BOOLEAN : writes = (Buffered(in) > 0) /\ (writes <=> Buffered(in) > 0)
  <2>1. PICK n \in Int : n = Buffered(in)
    BY <1>2 DEF Buffered, StreamOK, StreamType
  <2>2. (n > 0) \in BOOLEAN
    OBVIOUS
  <2> QED BY <2>1, <2>2, Zenon
<1>4. PICK rest : /\ rest = (IF writes THEN PopFrom(in, 1) ELSE in) /\ StreamOK(rest)
                  /\ rest.popped = in.popped + One(writes) /\ rest.pushed = in.pushed
                  /\ rest.closed = in.closed /\ rest.capacity = in.capacity
  <2>1. CASE writes
    <3>1. 1 <= Buffered(in)
      BY <1>2, <1>3, <2>1 DEF Buffered, StreamOK, StreamType
    <3>2. PICK z : z = PopFrom(in, 1)
      OBVIOUS
    <3>3. /\ StreamOK(z) /\ z.popped = in.popped + 1 /\ z.pushed = in.pushed
          /\ z.closed = in.closed /\ z.capacity = in.capacity
      BY <1>2, <3>1, <3>2, PopFromChanges
    <3> QED BY <2>1, <3>2, <3>3 DEF One
  <2>2. CASE ~writes
    BY <1>2, <2>2 DEF One, StreamOK, StreamType
  <2> QED BY <2>1, <2>2
<1>5. PICK more \in Nat : more = t.output.bytes + One(writes)
  BY <1>1 DEF One
<1>6. rest \in StreamType /\ in \in StreamType
  BY <1>2, <1>4 DEF StreamOK
<1>7. PICK t1 : t1 = IF writes THEN [t EXCEPT !.output.bytes = @ + 1, !.copy.inbound = Copy!PopFrom(@, 1)]
                     ELSE t
  OBVIOUS
<1>8. /\ t1 \in State /\ t1.copy = [t.copy EXCEPT !.inbound = rest]
      /\ t1.output = [t.output EXCEPT !.bytes = more] /\ t1.thread = t.thread
      /\ t1.tcp = t.tcp /\ t1.outgoing_segments_ = t.outgoing_segments_
      /\ t1.input = t.input /\ t1.pair = t.pair /\ t1.arrived = t.arrived
      /\ t1.killed = t.killed
  <2>1. CASE writes
    <3>1. t1 = [t EXCEPT !.output.bytes = more, !.copy.inbound = rest]
      <4>1. more = t.output.bytes + 1 /\ rest = Copy!PopFrom(t.copy.inbound, 1)
        BY <1>2, <1>4, <1>5, <2>1, CopySame DEF One
      <4> QED BY <1>7, <2>1, <4>1, Zenon
    <3> QED BY <1>1, <1>6, <3>1 DEF State, CopyType, OutputType
  <2>2. CASE ~writes
    <3>1. t1 = t /\ rest = t.copy.inbound /\ more = t.output.bytes
      BY <1>1, <1>2, <1>4, <1>5, <1>7, <2>2 DEF One
    <3> QED BY <1>1, <3>1 DEF CopyType, OutputType
  <2> QED BY <2>1, <2>2
<1>9. PICK over \in BOOLEAN : /\ over = Copy!Finished(t1.copy.inbound)
                              /\ over <=> Finished(rest)
  <2>1. t1.copy.inbound = rest
    BY <1>1, <1>6, <1>8 DEF CopyType
  <2>2. PICK b \in BOOLEAN : b = Finished(rest)
    <3>1. rest.closed \in BOOLEAN
      BY <1>6 DEF StreamType
    <3>2. Finished(rest) \in BOOLEAN
      BY <3>1, Zenon DEF Finished
    <3> QED BY <3>2, Zenon
  <2>3. Copy!Finished(t1.copy.inbound) = Finished(rest)
    BY <2>1, CopySame, Zenon
  <2> QED BY <2>2, <2>3, Zenon
<1>10. PICK yes \in BOOLEAN : yes = TRUE
  OBVIOUS
<1>11. PICK w : w = Copy!IntoStdout(t)
  OBVIOUS
<1>12. w = IF writes /\ t.output.state = "broken" THEN [t EXCEPT !.killed = yes]
           ELSE IF over THEN [t1 EXCEPT !.copy.output_closed = yes, !.copy.inbound_shutdown = yes]
           ELSE t1
  <2>1. Buffered(in) = Copy!Buffered(t.copy.inbound)
    BY <1>2, CopySame, Zenon
  <2> DEFINE W == Copy!Buffered(t.copy.inbound) > 0
             T == IF W THEN [t EXCEPT !.output.bytes = @ + 1, !.copy.inbound = Copy!PopFrom(@, 1)]
                  ELSE t
  <2>2. w = IF W /\ t.output.state = "broken" THEN [t EXCEPT !.killed = TRUE]
            ELSE IF Copy!Finished(T.copy.inbound)
            THEN [T EXCEPT !.copy.output_closed = TRUE, !.copy.inbound_shutdown = TRUE]
            ELSE T
    BY <1>11, Zenon DEF Copy!IntoStdout
  <2>3. W = writes
    BY <1>3, <2>1, Zenon
  <2>4. T = t1
    <3> HIDE DEF W
    <3> QED BY <1>7, <2>3, Zenon
  <2> HIDE DEF W, T
  <2> QED BY <1>9, <1>10, <2>2, <2>3, <2>4, Zenon
<1>13. CASE writes /\ t.output.state = "broken"
  <2>1. w = [t EXCEPT !.killed = yes]
    BY <1>12, <1>13
  <2>2. /\ w \in State /\ w.tcp = t.tcp /\ w.pair = t.pair /\ w.thread = t.thread
        /\ w.copy = t.copy /\ w.input = t.input /\ w.output = t.output
        /\ w.arrived = t.arrived /\ w.outgoing_segments_ = t.outgoing_segments_
    BY <1>1, <2>1 DEF State
  <2>3. Base(w)
    BY <2>2 DEF Base
  <2>4. CopySide(t, w)
    BY <1>1, <2>2 DEF CopySide
  <2>5. ~(Good(t) /\ t.output.state = "open")
    BY <1>2, <1>3, <1>13 DEF Good, Sound, WayIn, Finished
  <2>6. Buffered(t.copy.inbound) > 0
    BY <1>2, <1>3, <1>13
  <2> QED BY <1>11, <2>3, <2>4, <2>5, <2>6 DEF CopyGives
<1>14. CASE ~(writes /\ t.output.state = "broken")
  <2>1. PICK oc \in BOOLEAN, sh \in BOOLEAN :
          /\ oc = IF over THEN yes ELSE t.copy.output_closed
          /\ sh = IF over THEN yes ELSE t.copy.inbound_shutdown
    BY <1>1 DEF CopyType
  <2>2. /\ w \in State
        /\ w.copy = [t.copy EXCEPT !.inbound = rest, !.inbound_shutdown = sh, !.output_closed = oc]
        /\ w.output = [t.output EXCEPT !.bytes = more]
        /\ w.thread = t.thread /\ w.tcp = t.tcp
        /\ w.outgoing_segments_ = t.outgoing_segments_
        /\ w.input = t.input /\ w.pair = t.pair /\ w.arrived = t.arrived
        /\ w.killed = t.killed
    <3>1. CASE over
      <4>1. w = [t1 EXCEPT !.copy.output_closed = oc, !.copy.inbound_shutdown = sh]
        BY <1>12, <1>14, <2>1, <3>1
      <4> QED BY <1>1, <1>6, <1>8, <4>1, ZenonT(40) DEF State, CopyType
    <3>2. CASE ~over
      <4>1. w = t1 /\ oc = t.copy.output_closed /\ sh = t.copy.inbound_shutdown
        BY <1>12, <1>14, <2>1, <3>2
      <4> QED BY <1>1, <1>6, <1>8, <4>1 DEF CopyType
    <3> QED BY <3>1, <3>2
  <2>3. /\ w.copy.inbound = rest /\ w.copy.outbound = t.copy.outbound
        /\ w.copy.inbound_shutdown <=> t.copy.inbound_shutdown \/ over
        /\ w.copy.outbound_shutdown = t.copy.outbound_shutdown
        /\ w.copy.input_eof = t.copy.input_eof /\ w.copy.socket_eof = t.copy.socket_eof
        /\ w.copy.output_closed <=> t.copy.output_closed \/ over
    BY <1>1, <1>6, <1>10, <2>1, <2>2 DEF CopyType
  <2>4. w.output.bytes = more /\ w.output.state = t.output.state
    BY <1>1, <2>2 DEF OutputType
  <2>5. CopyOK(w.copy)
    BY <1>1, <1>2, <1>4, <1>9, <2>3 DEF CopyOK, Finished
  <2>6. t.pair.down <= PairCapacity /\ t.pair.up <= PairCapacity
    BY DEF Base
  <2>7. CopySide(t, w)
    BY <1>1, <2>2, <2>4 DEF CopySide
  <2>8. ASSUME Good(t) PROVE WayOut(w) /\ WayIn(w)
    <3>1. WayOut(t) /\ WayIn(t)
      BY <2>8 DEF Good, Sound
    <3>2. more = rest.popped
      BY <1>1, <1>2, <1>4, <1>5, <3>1 DEF WayIn, One
    <3>3. t.copy.output_closed => Finished(rest)
      BY <1>1, <1>2, <1>3, <1>4, <3>1 DEF WayIn, Finished, One
    <3>4. WayIn(w)
      BY <1>2, <1>4, <1>9, <2>2, <2>3, <2>4, <3>1, <3>2, <3>3 DEF WayIn
    <3>5. WayOut(w)
      BY <2>2, <2>3, <3>1 DEF WayOut
    <3> QED BY <3>4, <3>5
  <2>9. /\ KeptStream(t.copy.inbound, w.copy.inbound)
        /\ KeptStream(t.copy.outbound, w.copy.outbound)
        /\ t.copy.output_closed => w.copy.output_closed
    BY <1>2, <1>4, <2>3 DEF KeptStream
  <2>10. /\ Base(w)
         /\ Good(t) /\ w.killed = t.killed /\ WayOut(w) /\ WayIn(w) => Good(w)
         /\ KeptStream(t.tcp.inbound, w.tcp.inbound)
         /\ KeptStream(t.tcp.outbound, w.tcp.outbound)
    BY <2>2, <2>5, <2>6, <2>7, CopyOnly
  <2>11. CopyGives(t, w)
    BY <2>2, <2>7, <2>8, <2>9, <2>10 DEF CopyGives, Kept
  <2>12. ASSUME ~writes PROVE IF Finished(in) THEN w.copy.output_closed ELSE w = t
    <3>1. rest = in /\ t1 = t
      BY <1>4, <1>7, <2>12
    <3>2. over => w.copy.output_closed
      BY <2>3
    <3>3. ~over => w = t
      BY <1>12, <1>14, <3>1
    <3> QED BY <1>9, <3>1, <3>2, <3>3
  <2> QED BY <1>2, <1>3, <1>11, <2>11, <2>12
<1> QED BY <1>13, <1>14


-----------------------------------------------------------------------------
\* A turn of the copy

\* What a cancelled rule makes of the state.
CopyCuts(t, u) ==
    /\ CopyGives(t, u)
    /\ u.input = t.input /\ u.output = t.output /\ u.pair = t.pair
    /\ Available(u.copy.outbound) = Available(t.copy.outbound)
    /\ Available(u.copy.inbound) = Available(t.copy.inbound)

LEMMA CloseOutboundCuts ==
    ASSUME NEW t, Base(t),
           Good(t) /\ t.output.state = "open" => t.input.ended /\ t.input.left = 0
    PROVE  /\ CopyCuts(t, Copy!CloseOutbound(t))
           /\ Copy!CloseOutbound(t).copy.outbound.closed
<1>1. /\ t \in State /\ t.copy \in CopyType /\ CopyOK(t.copy) /\ t.pair \in PairType
      /\ t.pair.down \in Nat /\ t.pair.up \in Nat
  BY DEF Base, State, PairType
<1>2. PICK out : out = t.copy.outbound /\ StreamOK(out)
  BY <1>1 DEF CopyOK
<1>3. PICK out2 : /\ out2 = CloseStream(out) /\ StreamOK(out2) /\ out2.closed
                  /\ out2.pushed = out.pushed /\ out2.popped = out.popped
                  /\ out2.capacity = out.capacity
  BY <1>2, CloseStreamChanges
<1>4. PICK u : u = Copy!CloseOutbound(t)
  OBVIOUS
<1>5. u = [t EXCEPT !.copy.outbound = out2]
  <2>1. out2 = Copy!CloseStream(t.copy.outbound)
    BY <1>2, <1>3, CopySame
  <2> QED BY <1>4, <2>1, Zenon DEF Copy!CloseOutbound
<1>6. out2 \in StreamType
  BY <1>3 DEF StreamOK
<1>7. /\ u \in State /\ u.copy = [t.copy EXCEPT !.outbound = out2]
      /\ u.input = t.input
      /\ u.tcp = t.tcp /\ u.thread = t.thread /\ u.arrived = t.arrived
      /\ u.outgoing_segments_ = t.outgoing_segments_
      /\ u.pair = t.pair /\ u.output = t.output /\ u.killed = t.killed
  BY <1>1, <1>5, <1>6 DEF State, CopyType
<1>8. /\ u.copy.outbound = out2 /\ u.copy.inbound = t.copy.inbound
      /\ u.copy.outbound_shutdown = t.copy.outbound_shutdown
      /\ u.copy.inbound_shutdown = t.copy.inbound_shutdown
      /\ u.copy.input_eof = t.copy.input_eof /\ u.copy.socket_eof = t.copy.socket_eof
      /\ u.copy.output_closed = t.copy.output_closed
  BY <1>1, <1>6, <1>7 DEF CopyType
<1>9. CopyOK(u.copy)
  BY <1>1, <1>2, <1>3, <1>8 DEF CopyOK
<1>10. CopySide(t, u)
  BY <1>1, <1>7 DEF CopySide
<1>11. u.pair.down <= PairCapacity /\ u.pair.up <= PairCapacity
  BY <1>7 DEF Base
<1>12. ASSUME Good(t), t.output.state = "open" PROVE WayOut(u) /\ WayIn(u) /\ Kept(t, u)
  <2>1. WayOut(t) /\ WayIn(t)
    BY <1>12 DEF Good, Sound
  <2>2. Finished(out) => Finished(out2)
    BY <1>3 DEF Finished, Buffered
  <2>3. WayOut(u)
    BY <1>2, <1>3, <1>7, <1>8, <1>12, <2>1, <2>2 DEF WayOut
  <2>4. WayIn(u)
    BY <1>7, <1>8, <2>1 DEF WayIn
  <2> QED BY <1>2, <1>3, <1>7, <1>8, <2>3, <2>4 DEF Kept, KeptStream
<1>13. CopyGives(t, u)
  BY <1>7, <1>9, <1>10, <1>11, <1>12, CopyOnly DEF CopyGives
<1>14. Available(out2) = Available(out)
  BY <1>3 DEF Available, Buffered
<1> QED BY <1>2, <1>3, <1>4, <1>7, <1>8, <1>13, <1>14 DEF CopyCuts

LEMMA CloseInboundCuts ==
    ASSUME NEW t, Base(t), t.output.state # "open"
    PROVE  CopyCuts(t, Copy!CloseInbound(t))
<1>1. /\ t \in State /\ t.copy \in CopyType /\ CopyOK(t.copy) /\ t.pair \in PairType
      /\ t.pair.down \in Nat /\ t.pair.up \in Nat
  BY DEF Base, State, PairType
<1>2. PICK in : in = t.copy.inbound /\ StreamOK(in)
  BY <1>1 DEF CopyOK
<1>3. PICK in2 : /\ in2 = CloseStream(in) /\ StreamOK(in2) /\ in2.closed
                 /\ in2.pushed = in.pushed /\ in2.popped = in.popped
                 /\ in2.capacity = in.capacity
  BY <1>2, CloseStreamChanges
<1>4. PICK u : u = Copy!CloseInbound(t)
  OBVIOUS
<1>5. u = [t EXCEPT !.copy.inbound = in2]
  <2>1. in2 = Copy!CloseStream(t.copy.inbound)
    BY <1>2, <1>3, CopySame
  <2> QED BY <1>4, <2>1, Zenon DEF Copy!CloseInbound
<1>6. in2 \in StreamType
  BY <1>3 DEF StreamOK
<1>7. /\ u \in State /\ u.copy = [t.copy EXCEPT !.inbound = in2]
      /\ u.input = t.input
      /\ u.tcp = t.tcp /\ u.thread = t.thread /\ u.arrived = t.arrived
      /\ u.outgoing_segments_ = t.outgoing_segments_
      /\ u.pair = t.pair /\ u.output = t.output /\ u.killed = t.killed
  BY <1>1, <1>5, <1>6 DEF State, CopyType
<1>8. /\ u.copy.inbound = in2 /\ u.copy.outbound = t.copy.outbound
      /\ u.copy.input_eof = t.copy.input_eof /\ u.copy.socket_eof = t.copy.socket_eof
      /\ u.copy.output_closed = t.copy.output_closed
  BY <1>1, <1>6, <1>7 DEF CopyType
<1>9. CopyOK(u.copy)
  BY <1>1, <1>2, <1>3, <1>8 DEF CopyOK
<1>10. CopySide(t, u)
  BY <1>1, <1>7 DEF CopySide
<1>11. u.pair.down <= PairCapacity /\ u.pair.up <= PairCapacity
  BY <1>7 DEF Base
<1>12. CopyGives(t, u)
  BY <1>7, <1>9, <1>10, <1>11, CopyOnly DEF CopyGives
<1>13. Available(in2) = Available(in)
  BY <1>3 DEF Available, Buffered
<1> QED BY <1>2, <1>3, <1>4, <1>7, <1>8, <1>12, <1>13 DEF CopyCuts

\* What the loop of the copy knows is still so.
LEMMA CutKeeps ==
    ASSUME NEW t, NEW u, CopyCuts(t, u), NEW loop, CopyAsked(loop, t), CopyFresh(loop, t)
    PROVE  CopyAsked(loop, u) /\ CopyFresh(loop, u)
<1>1. /\ u.input = t.input /\ u.output = t.output /\ u.pair = t.pair
      /\ Available(u.copy.outbound) = Available(t.copy.outbound)
      /\ Available(u.copy.inbound) = Available(t.copy.inbound)
  BY DEF CopyCuts
<1>2. CopyAsked(loop, u)
  BY <1>1 DEF CopyAsked
<1>3. CopyFresh(loop, u)
  BY <1>1, Zenon DEF CopyFresh
<1> QED BY <1>2, <1>3

LEMMA CopyCutsMore ==
    ASSUME NEW t, NEW u, NEW v, Base(t), CopyCuts(t, u), CopyCuts(u, v)
    PROVE  CopyCuts(t, v)
  BY CopyGivesMore DEF CopyCuts

LEMMA CopyCutsNothing == ASSUME NEW t, Base(t) PROVE CopyCuts(t, t)
  BY CopyGivesNothing DEF CopyCuts

\* A rule is cancelled behind the end of what it reads, or where all is lost.
LEMMA CopyCancelCuts ==
    ASSUME NEW t, Base(t), NEW loop, CopyFresh(loop, t),
           NEW r \in CopyRules, r \in Tried(loop),
           CopyLoop!Defunct(loop, r, loop.revents)
    PROVE  /\ CopyCuts(t, Copy!Cancel(r, t))
           /\ Good(t) /\ t.output.state = "open" =>
                \/ r = "from stdin" /\ Copy!Cancel(r, t).copy.outbound.closed
                \/ r = "into socket" /\ t.pair.down_shut
<1>1. CASE r = "from stdin"
  <2>1. /\ "ERR" \notin loop.revents["from stdin"]
        /\ "HUP" \in loop.revents["from stdin"] /\ "from stdin" \in loop.events
             /\ "IN" \notin loop.revents["from stdin"] =>
             t.input.left = 0 /\ t.input.ended
    BY <1>1 DEF CopyFresh
  <2>2. t.input.left = 0 /\ t.input.ended
    BY <1>1, <2>1 DEF CopyLoop!Defunct, CopyLoop!Ready, Copy!Direction
  <2>3. Copy!Cancel(r, t) = Copy!CloseOutbound(t)
    BY <1>1 DEF Copy!Cancel
  <2> QED BY <1>1, <2>2, <2>3, CloseOutboundCuts
<1>2. CASE r = "into socket"
  <2>1. /\ "ERR" \notin loop.revents["into socket"]
        /\ "HUP" \in loop.revents["into socket"] => t.pair.down_shut
    BY <1>2 DEF CopyFresh
  <2>2. t.pair.down_shut
    BY <1>2, <2>1 DEF CopyLoop!Defunct
  <2>3. Copy!Cancel(r, t) = Copy!CloseOutbound(t)
    BY <1>2 DEF Copy!Cancel
  <2>4. Good(t) => t.input.ended /\ t.input.left = 0
    BY <2>2 DEF Good, Sound, WayOut, Finished
  <2> QED BY <1>2, <2>2, <2>3, <2>4, CloseOutboundCuts
<1>3. CASE r = "from socket"
  <2>1. /\ "ERR" \notin loop.revents["from socket"]
        /\ "HUP" \in loop.revents["from socket"] /\ "from socket" \in loop.events =>
             "IN" \in loop.revents["from socket"]
    BY <1>3 DEF CopyFresh
  <2> QED BY <1>3, <2>1 DEF CopyLoop!Defunct, CopyLoop!Ready, Copy!Direction
<1>4. CASE r = "into stdout"
  <2>1. /\ "HUP" \notin loop.revents["into stdout"]
        /\ "ERR" \in loop.revents["into stdout"] => t.output.state = "broken"
    BY <1>4 DEF CopyFresh
  <2>2. t.output.state # "open"
    BY <1>4, <2>1 DEF CopyLoop!Defunct
  <2>3. Copy!Cancel(r, t) = Copy!CloseInbound(t)
    BY <1>4 DEF Copy!Cancel
  <2> QED BY <2>2, <2>3, CloseInboundCuts
<1> QED BY <1>1, <1>2, <1>3, <1>4 DEF CopyRules

\* Only a full device stops the copy.
LEMMA CopyCallbackGives ==
    ASSUME NEW t, Base(t), NEW loop, CopyAsked(loop, t), CopyFresh(loop, t),
           NEW r \in CopyRules, r \in Tried(loop), CopyLoop!Ready(r, loop.revents)
    PROVE  /\ CopyGives(t, Copy!Callback(r, t).s)
           /\ Copy!Callback(r, t).throws \/ CopyLoop!Busy(r, Copy!Callback(r, t)) =>
                t.output.state = "full"
<1>1. PICK c : c = Copy!Callback(r, t)
  OBVIOUS
<1>2. CASE Copy!WriteFails(r, t)
  <2>1. c.s = t /\ c.counted /\ t.output.state = "full"
    BY <1>1, <1>2 DEF Copy!Callback, Copy!WriteFails
  <2> QED BY <1>1, <2>1, CopyGivesNothing
<1>3. CASE ~Copy!WriteFails(r, t)
  <2>0. /\ ~c.throws
        /\ r = "from stdin" => c.s = Copy!FromStdin(t) /\ c.counted
        /\ r = "into socket" => c.s = Copy!IntoSocket(t) /\ c.counted
        /\ r = "from socket" => c.s = Copy!FromSocket(t) /\ c.counted
        /\ r = "into stdout" =>
             /\ c.s = Copy!IntoStdout(t)
             /\ c.counted <=> Copy!Buffered(t.copy.inbound) > 0
    BY <1>1, <1>3 DEF Copy!Callback
  <2>1. CASE r = "from stdin"
    <3>1. "IN" \in loop.revents["from stdin"]
      BY <2>1 DEF CopyLoop!Ready, Copy!Direction
    <3>2. "from stdin" \in loop.events /\ (t.input.left > 0 \/ t.input.ended)
      BY <2>1, <3>1 DEF CopyFresh
    <3>3. Available(t.copy.outbound) > 0
      BY <3>2 DEF CopyAsked
    <3>4. CopyGives(t, Copy!FromStdin(t))
      BY <3>2, <3>3, FromStdinGives
    <3> QED BY <1>1, <2>0, <2>1, <3>4 DEF CopyLoop!Busy
  <2>2. CASE r = "into socket"
    <3>1. "OUT" \in loop.revents["into socket"]
      BY <2>2 DEF CopyLoop!Ready, Copy!Direction
    <3>2. t.pair.down < PairCapacity
      BY <2>2, <3>1 DEF CopyFresh
    <3>3. CopyGives(t, Copy!IntoSocket(t))
      BY <3>2, IntoSocketGives
    <3> QED BY <1>1, <2>0, <2>2, <3>3 DEF CopyLoop!Busy
  <2>3. CASE r = "from socket"
    <3>1. "IN" \in loop.revents["from socket"]
      BY <2>3 DEF CopyLoop!Ready, Copy!Direction
    <3>2. "from socket" \in loop.events /\ (t.pair.up > 0 \/ t.pair.up_shut)
      BY <2>3, <3>1 DEF CopyFresh
    <3>3. Available(t.copy.inbound) > 0
      BY <3>2 DEF CopyAsked
    <3>4. CopyGives(t, Copy!FromSocket(t))
      BY <3>2, <3>3, FromSocketGives
    <3> QED BY <1>1, <2>0, <2>3, <3>4 DEF CopyLoop!Busy
  <2>4. CASE r = "into stdout"
    <3>1. /\ CopyGives(t, Copy!IntoStdout(t))
          /\ ~(Buffered(t.copy.inbound) > 0) =>
               IF Finished(t.copy.inbound)
               THEN Copy!IntoStdout(t).copy.output_closed
               ELSE Copy!IntoStdout(t) = t
      BY IntoStdoutGives
    <3>2. ~CopyLoop!Busy(r, c)
      <4> SUFFICES ASSUME CopyLoop!Busy(r, c) PROVE FALSE
        OBVIOUS
      <4>1. ~c.counted /\ ~Copy!Closed(r, c.s) /\ Copy!Interest(r, c.s)
        BY DEF CopyLoop!Busy
      <4>2. ~(Buffered(t.copy.inbound) > 0) /\ c.s = Copy!IntoStdout(t)
        BY <2>0, <2>4, <4>1, CopySame
      <4>3. ~c.s.copy.output_closed
        BY <2>4, <4>1 DEF Copy!Closed
      <4>4. ~Finished(t.copy.inbound) /\ c.s = t
        BY <3>1, <4>2, <4>3
      <4>5. ~Copy!Interest("into stdout", t)
        BY <4>2, <4>4, CopySame DEF Copy!Interest, Copy!HasMore
      <4> QED BY <2>4, <4>1, <4>4, <4>5
    <3> QED BY <1>1, <2>0, <2>4, <3>1, <3>2
  <2> QED BY <2>1, <2>2, <2>3, <2>4 DEF CopyRules
<1> QED BY <1>2, <1>3

LEMMA CopyServeGives ==
    ASSUME NEW t, Base(t), NEW loop, loop.rules \in Seq(CopyRules),
           CopyAsked(loop, t), CopyFresh(loop, t)
    PROVE  LET w == CopyLoop!Serve(loop, loop.revents, t)
           IN  /\ w.rules \in Seq(CopyRules) /\ CopyGives(t, w.s)
               /\ w.throws => t.output.state = "full"
               /\ Good(t) /\ t.output.state = "open" /\ CopyRulesLeft(Tried(loop), t) =>
                    CopyRulesLeft(Elements(w.rules), w.s)
<1>1. Tried(loop) \subseteq CopyRules
  BY ElementsOfRules DEF Tried
<1> DEFINE Cut(c, R) ==
             /\ CopyCuts(t, c)
             /\ Good(t) /\ t.output.state = "open" =>
                  /\ "from stdin" \in R => c.copy.outbound.closed
                  /\ "into socket" \in R => t.pair.down_shut
                  /\ "from socket" \notin R /\ "into stdout" \notin R
<1>2. PICK A : A = {p \in State \X SUBSET Tried(loop) : Cut(p[1], p[2])}
  OBVIOUS
<1>3. \A c, R : <<c, R>> \in A <=> c \in State /\ R \in SUBSET Tried(loop) /\ Cut(c, R)
  <2> HIDE DEF Cut
  <2> QED BY <1>2
<1>4. ASSUME NEW c, NEW R, NEW r \in Tried(loop), <<c, R>> \in A,
             CopyLoop!Defunct(loop, r, loop.revents)
      PROVE  <<Copy!Cancel(r, c), R \union {r}>> \in A
  <2>1. R \in SUBSET Tried(loop) /\ Cut(c, R)
    BY <1>3, <1>4
  <2>2. PICK d : d = Copy!Cancel(r, c)
    OBVIOUS
  <2>3. Base(c) /\ CopyFresh(loop, c) /\ r \in CopyRules
    BY <1>1, <2>1, CutKeeps DEF CopyCuts, CopyGives
  <2>4. /\ CopyCuts(c, d)
        /\ Good(c) /\ c.output.state = "open" =>
             \/ r = "from stdin" /\ d.copy.outbound.closed
             \/ r = "into socket" /\ c.pair.down_shut
    BY <1>4, <2>2, <2>3, CopyCancelCuts
  <2>5. CopyCuts(t, d) /\ d \in State
    <3>1. CopyCuts(t, d)
      BY <2>1, <2>4, CopyCutsMore
    <3> QED BY <3>1 DEF CopyCuts, CopyGives, Base
  <2>6. ASSUME Good(t), t.output.state = "open"
        PROVE  /\ "from stdin" \in R \union {r} => d.copy.outbound.closed
               /\ "into socket" \in R \union {r} => t.pair.down_shut
               /\ "from socket" \notin R \union {r} /\ "into stdout" \notin R \union {r}
    <3>1. Good(c) /\ c.output.state = "open" /\ c.pair = t.pair
      BY <2>1, <2>6 DEF CopyCuts, CopyGives
    <3>2. c.copy.outbound.closed => d.copy.outbound.closed
      BY <2>4, <3>1 DEF CopyCuts, CopyGives, Kept, KeptStream
    <3>3. /\ "from stdin" \in R => c.copy.outbound.closed
          /\ "into socket" \in R => t.pair.down_shut
          /\ "from socket" \notin R /\ "into stdout" \notin R
      BY <2>1, <2>6
    <3>4. \/ r = "from stdin" /\ d.copy.outbound.closed
          \/ r = "into socket" /\ t.pair.down_shut
      BY <2>4, <3>1
    <3> QED BY <3>2, <3>3, <3>4
  <2>7. Cut(d, R \union {r})
    BY <2>5, <2>6
  <2>8. R \union {r} \in SUBSET Tried(loop)
    BY <2>1
  <2> HIDE DEF Cut
  <2> QED BY <1>3, <2>2, <2>5, <2>7, <2>8
<1>5. CopyCancels(loop, A)
  BY <1>4 DEF CopyCancels
<1>6. PICK q \in Seq(CopyRules), o, h \in BOOLEAN : \E u, R :
        /\ CopyLoop!Serve(loop, loop.revents, t) \in CopyWalks(u, q, o, h)
        /\ CopyServes(loop, A, u, R, h)
        /\ Elements(q) \subseteq Tried(loop)
        /\ Tried(loop) \subseteq Elements(q) \union R
  <2>1. <<t, {}>> \in A
    <3>1. Cut(t, {})
      BY CopyCutsNothing
    <3> HIDE DEF Cut
    <3> QED BY <1>3, <3>1 DEF Base
  <2> QED BY <1>5, <2>1, CopyServeShape
<1>7. PICK u, R :
        /\ CopyLoop!Serve(loop, loop.revents, t) \in CopyWalks(u, q, o, h)
        /\ CopyServes(loop, A, u, R, h)
        /\ Elements(q) \subseteq Tried(loop)
        /\ Tried(loop) \subseteq Elements(q) \union R
  BY <1>6
<1>8. PICK w : w = CopyLoop!Serve(loop, loop.revents, t)
  OBVIOUS
<1>9. w.s = u /\ w.rules = q /\ w.throws = h
  BY <1>7, <1>8 DEF CopyWalks
<1>10. PICK c : Cut(c, R) /\ CopyGives(c, u) /\ (h => t.output.state = "full")
  <2>1. CASE <<u, R>> \in A /\ ~h
    <3>1. Cut(u, R)
      <4> HIDE DEF Cut
      <4> QED BY <1>3, <2>1
    <3>2. CopyGives(u, u)
      BY <3>1, CopyGivesNothing DEF CopyCuts, CopyGives
    <3> HIDE DEF Cut
    <3> QED BY <2>1, <3>1, <3>2
  <2>2. CASE \E c : \E r \in Tried(loop) :
         /\ <<c, R>> \in A
         /\ ~CopyLoop!Defunct(loop, r, loop.revents) /\ CopyLoop!Ready(r, loop.revents)
         /\ u = Copy!Callback(r, c).s
         /\ h => Copy!Callback(r, c).throws \/ CopyLoop!Busy(r, Copy!Callback(r, c))
    <3>1. PICK c : \E r \in Tried(loop) :
            /\ <<c, R>> \in A
            /\ CopyLoop!Ready(r, loop.revents) /\ u = Copy!Callback(r, c).s
            /\ h => Copy!Callback(r, c).throws \/ CopyLoop!Busy(r, Copy!Callback(r, c))
      BY <2>2
    <3>2. PICK r \in Tried(loop) :
            /\ <<c, R>> \in A
            /\ CopyLoop!Ready(r, loop.revents) /\ u = Copy!Callback(r, c).s
            /\ h => Copy!Callback(r, c).throws \/ CopyLoop!Busy(r, Copy!Callback(r, c))
      BY <3>1
    <3>3. Cut(c, R)
      <4> HIDE DEF Cut
      <4> QED BY <1>3, <3>2
    <3>4. /\ Base(c) /\ CopyAsked(loop, c) /\ CopyFresh(loop, c) /\ r \in CopyRules
          /\ c.output = t.output
      BY <1>1, <3>3, CutKeeps DEF CopyCuts, CopyGives
    <3>5. CopyGives(c, u) /\ (h => t.output.state = "full")
      BY <3>2, <3>4, CopyCallbackGives
    <3> HIDE DEF Cut
    <3> QED BY <3>3, <3>5
  <2> QED BY <1>7, <2>1, <2>2 DEF CopyServes
<1>11. CopyGives(t, u)
  BY <1>10, CopyGivesMore DEF CopyCuts
<1>12. ASSUME Good(t), t.output.state = "open", CopyRulesLeft(Tried(loop), t)
       PROVE  CopyRulesLeft(Elements(q), u)
  <2>1. /\ "from stdin" \in R => c.copy.outbound.closed
        /\ "into socket" \in R => t.pair.down_shut
        /\ "from socket" \notin R /\ "into stdout" \notin R
    BY <1>10, <1>12
  <2>2. /\ Good(c) /\ c.output.state = "open" /\ c.pair = t.pair
        /\ Kept(t, c)
    BY <1>10, <1>12 DEF CopyCuts, CopyGives
  <2>3. Good(u) /\ Kept(c, u) /\ (c.pair.down_shut => u.pair.down_shut)
    BY <1>10, <2>2 DEF CopyGives, CopySide
  <2>4. /\ c.copy.outbound.closed => u.copy.outbound.closed
        /\ t.copy.outbound.closed => u.copy.outbound.closed
        /\ t.copy.inbound.closed => u.copy.inbound.closed
        /\ t.pair.down_shut => u.pair.down_shut
        /\ t.copy.output_closed => u.copy.output_closed
    BY <2>2, <2>3 DEF Kept, KeptStream
  <2>5. /\ "from stdin" \in Tried(loop) \/ t.copy.outbound.closed
        /\ "into socket" \in Tried(loop) \/ t.pair.down_shut
        /\ "from socket" \in Tried(loop) \/ t.copy.inbound.closed
        /\ "into stdout" \in Tried(loop) \/ t.copy.output_closed
    BY <1>12 DEF CopyRulesLeft
  <2> QED BY <1>7, <2>1, <2>4, <2>5, Zenon DEF CopyRulesLeft
<1> QED BY <1>8, <1>9, <1>10, <1>11, <1>12


-----------------------------------------------------------------------------
\* What poll finds, and how long it stays so

LEMMA TriedIsRange ==
    ASSUME NEW R, NEW loop, loop.rules \in Seq(R)
    PROVE  TcpLoop!Range(loop.rules) = Tried(loop) /\ CopyLoop!Range(loop.rules) = Tried(loop)
<1>1. DOMAIN loop.rules = 1 .. Len(loop.rules)
  OBVIOUS
<1> QED BY <1>1 DEF TcpLoop!Range, CopyLoop!Range, Tried, Elements

\* A loop that serves what it has found.
Polled(loop, found) == [loop EXCEPT !.at = "serve", !.revents = found]

LEMMA PolledIs ==
    ASSUME NEW R, NEW ats, "serve" \in ats, NEW loop \in Loops(R, ats),
           NEW found \in [Tried(loop) -> SUBSET Found]
    PROVE  /\ Polled(loop, found) \in Loops(R, ats)
           /\ Tried(Polled(loop, found)) = Tried(loop)
           /\ Polled(loop, found).events = loop.events
           /\ Polled(loop, found).revents = found
           /\ Polled(loop, found).at = "serve"
<1>1. loop.rules \in Seq(R)
  BY DEF Loops
<1>2. Tried(loop) \in SUBSET R
  BY <1>1, ElementsOfRules DEF Tried
<1>3. found \in UNION {[polled -> SUBSET Found] : polled \in SUBSET R}
  BY <1>2
<1>4. PICK l : l = Polled(loop, found)
  OBVIOUS
<1>5. /\ l \in Loops(R, ats) /\ l.rules = loop.rules /\ l.events = loop.events
      /\ l.revents = found /\ l.at = "serve"
  BY <1>3, <1>4 DEF Polled, Loops
<1> QED BY <1>4, <1>5 DEF Tried

\* What an end of the pair reports.
LEMMA PollEndFinds ==
    ASSUME NEW t, Base(t), NEW x
    PROVE  /\ x \in Tcp!PollThreadEnd(t.pair) <=>
                \/ x = "IN" /\ (t.pair.down > 0 \/ t.pair.down_shut)
                \/ x = "OUT" /\ t.pair.up < PairCapacity
                \/ x = "HUP" /\ t.pair.down_shut /\ t.pair.up_shut
           /\ x \in Copy!PollOwnerEnd(t.pair) <=>
                \/ x = "IN" /\ (t.pair.up > 0 \/ t.pair.up_shut)
                \/ x = "OUT" /\ t.pair.down < PairCapacity
                \/ x = "HUP" /\ t.pair.down_shut /\ t.pair.up_shut
<1>1. PICK ds \in BOOLEAN, us \in BOOLEAN : ds = t.pair.down_shut /\ us = t.pair.up_shut
  BY DEF Base, State, PairType
<1>2. PICK down \in Nat, up \in Nat : down = t.pair.down /\ up = t.pair.up
  BY DEF Base, State, PairType
<1>3. PICK h : h = (IF ds /\ us THEN {"HUP"} ELSE {})
  OBVIOUS
<1>4. HangsUp(t.pair) = h
  BY <1>1, <1>3, Zenon DEF HangsUp
<1>5. Tcp!PollThreadEnd(t.pair) =
        (IF down > 0 \/ ds THEN {"IN"} ELSE {})
          \union (IF up < PairCapacity THEN {"OUT"} ELSE {}) \union h
  BY <1>1, <1>2, <1>4, TcpSame, Zenon DEF Tcp!PollThreadEnd, Tcp!PollEnd
<1>6. Copy!PollOwnerEnd(t.pair) =
        (IF up > 0 \/ us THEN {"IN"} ELSE {})
          \union (IF down < PairCapacity THEN {"OUT"} ELSE {}) \union h
  BY <1>1, <1>2, <1>4, CopySame, Zenon DEF Copy!PollOwnerEnd, Copy!PollEnd
<1>7. x \in h <=> x = "HUP" /\ ds /\ us
  BY <1>3
<1>8. x \in Tcp!PollThreadEnd(t.pair) <=>
        \/ x = "IN" /\ (down > 0 \/ ds)
        \/ x = "OUT" /\ up < PairCapacity
        \/ x = "HUP" /\ ds /\ us
  BY <1>5, <1>7
<1>9. x \in Copy!PollOwnerEnd(t.pair) <=>
        \/ x = "IN" /\ (up > 0 \/ us)
        \/ x = "OUT" /\ down < PairCapacity
        \/ x = "HUP" /\ ds /\ us
  BY <1>6, <1>7
<1> QED BY <1>1, <1>2, <1>8, <1>9, Zenon

LEMMA TcpPollFresh ==
    ASSUME NEW t, Base(t), NEW ats, "serve" \in ats, NEW loop \in Loops(TcpRules, ats)
    PROVE  /\ Polled(loop, TcpLoop!Poll(loop, t)) \in Loops(TcpRules, ats)
           /\ Tried(Polled(loop, TcpLoop!Poll(loop, t))) = Tried(loop)
           /\ Polled(loop, TcpLoop!Poll(loop, t)).events = loop.events
           /\ Polled(loop, TcpLoop!Poll(loop, t)).at = "serve"
           /\ TcpFresh(Polled(loop, TcpLoop!Poll(loop, t)), t)
<1>1. loop.rules \in Seq(TcpRules)
  BY DEF Loops
<1>2. PICK found : found = TcpLoop!Poll(loop, t)
  OBVIOUS
<1>3. \A r : TcpLoop!Reported(loop, r, t) \in SUBSET Found
  BY DEF TcpLoop!Reported, Tcp!Direction, Found
<1>4. found \in [Tried(loop) -> SUBSET Found]
  <2>1. found = [r \in Tried(loop) |-> TcpLoop!Reported(loop, r, t)]
    BY <1>1, <1>2, TriedIsRange, Zenon DEF TcpLoop!Poll
  <2> QED BY <1>3, <2>1
<1>5. \A r \in Tried(loop) : \A x :
        x \in found[r] <=> /\ x \in Tcp!Revents(r, t)
                           /\ \/ x \in {"ERR", "HUP"}
                              \/ r \in loop.events /\ x = Tcp!Direction(r)
  <2>1. found = [r \in Tried(loop) |-> TcpLoop!Reported(loop, r, t)]
    BY <1>1, <1>2, TriedIsRange, Zenon DEF TcpLoop!Poll
  <2> QED BY <2>1 DEF TcpLoop!Reported
<1>6. PICK l : l = Polled(loop, found)
  OBVIOUS
<1>7. /\ l \in Loops(TcpRules, ats) /\ Tried(l) = Tried(loop) /\ l.events = loop.events
      /\ l.revents = found /\ l.at = "serve"
  BY <1>4, <1>6, PolledIs
<1>8. ASSUME "receive TCP segment" \in Tried(loop)
      PROVE  /\ found["receive TCP segment"] \subseteq {"IN"}
             /\ "IN" \in found["receive TCP segment"] => t.arrived # <<>>
  <2>1. Tcp!Revents("receive TCP segment", t) = IF t.arrived = <<>> THEN {} ELSE {"IN"}
    BY DEF Tcp!Revents
  <2> QED BY <1>5, <1>8, <2>1
<1>9. ASSUME "push bytes" \in Tried(loop)
      PROVE  /\ "ERR" \notin found["push bytes"]
             /\ "IN" \in found["push bytes"] =>
                  /\ "push bytes" \in loop.events
                  /\ t.pair.down > 0 \/ t.pair.down_shut
             /\ "HUP" \in found["push bytes"] /\ "push bytes" \in loop.events =>
                  "IN" \in found["push bytes"]
  <2>1. /\ Tcp!Revents("push bytes", t) = Tcp!PollThreadEnd(t.pair)
        /\ Tcp!Direction("push bytes") = "IN"
    BY DEF Tcp!Revents, Tcp!Direction
  <2>2. "ERR" \notin found["push bytes"]
    <3>1. "ERR" \in found["push bytes"] => "ERR" \in Tcp!PollThreadEnd(t.pair)
      BY <1>5, <1>9, <2>1
    <3>2. "ERR" # "IN" /\ "ERR" # "OUT" /\ "ERR" # "HUP"
      OBVIOUS
    <3> QED BY <3>1, <3>2, PollEndFinds, Zenon
  <2>3. "IN" \in found["push bytes"] =>
          "push bytes" \in loop.events /\ (t.pair.down > 0 \/ t.pair.down_shut)
    <3> SUFFICES ASSUME "IN" \in found["push bytes"]
                 PROVE  "push bytes" \in loop.events /\ (t.pair.down > 0 \/ t.pair.down_shut)
      OBVIOUS
    <3>1. "IN" \in Tcp!PollThreadEnd(t.pair) /\ "push bytes" \in loop.events
      BY <1>5, <1>9, <2>1
    <3>2. /\ "IN" # "OUT" /\ "IN" # "HUP"
      OBVIOUS
    <3> QED BY <3>1, <3>2, PollEndFinds, Zenon
  <2>4. "HUP" \in found["push bytes"] => t.pair.down_shut
    <3> SUFFICES ASSUME "HUP" \in found["push bytes"] PROVE t.pair.down_shut
      OBVIOUS
    <3>1. "HUP" \in Tcp!PollThreadEnd(t.pair)
      BY <1>5, <1>9, <2>1
    <3>2. "HUP" # "OUT" /\ "HUP" # "IN"
      OBVIOUS
    <3> QED BY <3>1, <3>2, PollEndFinds, Zenon
  <2>5. t.pair.down_shut => "IN" \in Tcp!PollThreadEnd(t.pair)
    BY PollEndFinds, Zenon
  <2>6. "HUP" \in found["push bytes"] /\ "push bytes" \in loop.events =>
          "IN" \in found["push bytes"]
    BY <1>5, <1>9, <2>1, <2>4, <2>5
  <2> QED BY <2>2, <2>3, <2>6
<1>10. ASSUME "read bytes" \in Tried(loop)
       PROVE  /\ "ERR" \notin found["read bytes"]
              /\ "OUT" \in found["read bytes"] => t.pair.up < PairCapacity
              /\ "HUP" \in found["read bytes"] => t.pair.up_shut /\ t.pair.down_shut
  <2>1. Tcp!Revents("read bytes", t) = Tcp!PollThreadEnd(t.pair)
    BY DEF Tcp!Revents
  <2>2. \A x : x \in found["read bytes"] => x \in Tcp!PollThreadEnd(t.pair)
    BY <1>5, <1>10, <2>1
  <2>3. "ERR" # "IN" /\ "ERR" # "OUT" /\ "ERR" # "HUP" /\ "OUT" # "IN" /\ "OUT" # "HUP" /\ "HUP" # "IN"
    OBVIOUS
  <2> QED BY <2>2, <2>3, PollEndFinds, Zenon
<1>11. ASSUME "send TCP segment" \in Tried(loop)
       PROVE  found["send TCP segment"] \subseteq {"OUT"}
  <2>1. Tcp!Revents("send TCP segment", t) = {"OUT"}
    BY DEF Tcp!Revents
  <2> QED BY <1>5, <1>11, <2>1
<1>12. DOMAIN found = Tried(loop)
  BY <1>4
<1>13. TcpFresh(l, t)
  BY <1>7, <1>8, <1>9, <1>10, <1>11, <1>12, Zenon DEF TcpFresh
<1> QED BY <1>2, <1>6, <1>7, <1>13

LEMMA CopyPollFresh ==
    ASSUME NEW t, Base(t), NEW ats, "serve" \in ats, NEW loop \in Loops(CopyRules, ats)
    PROVE  /\ Polled(loop, CopyLoop!Poll(loop, t)) \in Loops(CopyRules, ats)
           /\ Tried(Polled(loop, CopyLoop!Poll(loop, t))) = Tried(loop)
           /\ Polled(loop, CopyLoop!Poll(loop, t)).events = loop.events
           /\ Polled(loop, CopyLoop!Poll(loop, t)).at = "serve"
           /\ CopyFresh(Polled(loop, CopyLoop!Poll(loop, t)), t)
<1>1. loop.rules \in Seq(CopyRules)
  BY DEF Loops
<1>2. PICK found : found = CopyLoop!Poll(loop, t)
  OBVIOUS
<1>3. \A r : CopyLoop!Reported(loop, r, t) \in SUBSET Found
  BY DEF CopyLoop!Reported, Copy!Direction, Found
<1>4. found \in [Tried(loop) -> SUBSET Found]
  <2>1. found = [r \in Tried(loop) |-> CopyLoop!Reported(loop, r, t)]
    BY <1>1, <1>2, TriedIsRange, Zenon DEF CopyLoop!Poll
  <2> QED BY <1>3, <2>1
<1>5. \A r \in Tried(loop) : \A x :
        x \in found[r] <=> /\ x \in Copy!Revents(r, t)
                           /\ \/ x \in {"ERR", "HUP"}
                              \/ r \in loop.events /\ x = Copy!Direction(r)
  <2>1. found = [r \in Tried(loop) |-> CopyLoop!Reported(loop, r, t)]
    BY <1>1, <1>2, TriedIsRange, Zenon DEF CopyLoop!Poll
  <2> QED BY <2>1 DEF CopyLoop!Reported
<1>6. PICK l : l = Polled(loop, found)
  OBVIOUS
<1>7. /\ l \in Loops(CopyRules, ats) /\ Tried(l) = Tried(loop) /\ l.events = loop.events
      /\ l.revents = found /\ l.at = "serve"
  BY <1>4, <1>6, PolledIs
<1>8. ASSUME "from stdin" \in Tried(loop)
      PROVE  /\ "ERR" \notin found["from stdin"]
             /\ "IN" \in found["from stdin"] =>
                  /\ "from stdin" \in loop.events
                  /\ t.input.left > 0 \/ t.input.ended
             /\ "HUP" \in found["from stdin"] /\ "from stdin" \in loop.events
                  /\ "IN" \notin found["from stdin"] => t.input.left = 0 /\ t.input.ended
  <2>1. /\ Copy!Revents("from stdin", t) = Copy!PollInput(t.input)
        /\ Copy!Direction("from stdin") = "IN"
    BY DEF Copy!Revents, Copy!Direction
  <2>2. PICK ended \in BOOLEAN, left \in Nat : ended = t.input.ended /\ left = t.input.left
    BY DEF Base, State, InputType
  <2>3. PICK found_in \in BOOLEAN, hup \in BOOLEAN :
          /\ found_in = (left > 0 \/ (t.input.kind = "file" /\ ended))
          /\ hup = (t.input.kind = "pipe" /\ ended)
    OBVIOUS
  <2>4. Copy!PollInput(t.input) =
          (IF found_in THEN {"IN"} ELSE {}) \union (IF hup THEN {"HUP"} ELSE {})
    BY <2>2, <2>3, Zenon DEF Copy!PollInput
  <2>5. \A x : x \in Copy!PollInput(t.input) <=> (x = "IN" /\ found_in) \/ (x = "HUP" /\ hup)
    BY <2>4
  <2>6. \A x : x \in found["from stdin"] <=>
          /\ x \in Copy!PollInput(t.input)
          /\ x \in {"ERR", "HUP"} \/ ("from stdin" \in loop.events /\ x = "IN")
    BY <1>5, <1>8, <2>1
  <2>7. "ERR" \notin found["from stdin"]
    BY <2>5, <2>6
  <2>8. /\ "IN" \in found["from stdin"] => "from stdin" \in loop.events /\ found_in
        /\ "from stdin" \in loop.events /\ found_in => "IN" \in found["from stdin"]
        /\ "HUP" \in found["from stdin"] => hup
    BY <2>5, <2>6
  <2>9. /\ found_in => left > 0 \/ ended
        /\ ~found_in => ~(left > 0)
        /\ hup => ended
    BY <2>3
  <2>10. ~(left > 0) => left = 0
    OBVIOUS
  <2> QED BY <2>2, <2>7, <2>8, <2>9, <2>10, Zenon
<1>9. ASSUME "from socket" \in Tried(loop)
      PROVE  /\ "ERR" \notin found["from socket"]
             /\ "IN" \in found["from socket"] =>
                  /\ "from socket" \in loop.events
                  /\ t.pair.up > 0 \/ t.pair.up_shut
             /\ "HUP" \in found["from socket"] /\ "from socket" \in loop.events =>
                  "IN" \in found["from socket"]
  <2>1. /\ Copy!Revents("from socket", t) = Copy!PollOwnerEnd(t.pair)
        /\ Copy!Direction("from socket") = "IN"
    BY DEF Copy!Revents, Copy!Direction
  <2>2. "ERR" \notin found["from socket"]
    <3>1. "ERR" \in found["from socket"] => "ERR" \in Copy!PollOwnerEnd(t.pair)
      BY <1>5, <1>9, <2>1
    <3>2. "ERR" # "IN" /\ "ERR" # "OUT" /\ "ERR" # "HUP"
      OBVIOUS
    <3> QED BY <3>1, <3>2, PollEndFinds, Zenon
  <2>3. "IN" \in found["from socket"] =>
          "from socket" \in loop.events /\ (t.pair.up > 0 \/ t.pair.up_shut)
    <3> SUFFICES ASSUME "IN" \in found["from socket"]
                 PROVE  "from socket" \in loop.events /\ (t.pair.up > 0 \/ t.pair.up_shut)
      OBVIOUS
    <3>1. "IN" \in Copy!PollOwnerEnd(t.pair) /\ "from socket" \in loop.events
      BY <1>5, <1>9, <2>1
    <3>2. "IN" # "OUT" /\ "IN" # "HUP"
      OBVIOUS
    <3> QED BY <3>1, <3>2, PollEndFinds, Zenon
  <2>4. "HUP" \in found["from socket"] => t.pair.up_shut
    <3> SUFFICES ASSUME "HUP" \in found["from socket"] PROVE t.pair.up_shut
      OBVIOUS
    <3>1. "HUP" \in Copy!PollOwnerEnd(t.pair)
      BY <1>5, <1>9, <2>1
    <3>2. "HUP" # "OUT" /\ "HUP" # "IN"
      OBVIOUS
    <3> QED BY <3>1, <3>2, PollEndFinds, Zenon
  <2>5. t.pair.up_shut => "IN" \in Copy!PollOwnerEnd(t.pair)
    BY PollEndFinds, Zenon
  <2>6. "HUP" \in found["from socket"] /\ "from socket" \in loop.events =>
          "IN" \in found["from socket"]
    BY <1>5, <1>9, <2>1, <2>4, <2>5
  <2> QED BY <2>2, <2>3, <2>6
<1>10. ASSUME "into socket" \in Tried(loop)
       PROVE  /\ "ERR" \notin found["into socket"]
              /\ "OUT" \in found["into socket"] => t.pair.down < PairCapacity
              /\ "HUP" \in found["into socket"] => t.pair.up_shut /\ t.pair.down_shut
  <2>1. Copy!Revents("into socket", t) = Copy!PollOwnerEnd(t.pair)
    BY DEF Copy!Revents
  <2>2. \A x : x \in found["into socket"] => x \in Copy!PollOwnerEnd(t.pair)
    BY <1>5, <1>10, <2>1
  <2>3. "ERR" # "IN" /\ "ERR" # "OUT" /\ "ERR" # "HUP" /\ "OUT" # "IN" /\ "OUT" # "HUP" /\ "HUP" # "IN"
    OBVIOUS
  <2> QED BY <2>2, <2>3, PollEndFinds, Zenon
<1>11. ASSUME "into stdout" \in Tried(loop)
       PROVE  /\ "HUP" \notin found["into stdout"]
              /\ "ERR" \in found["into stdout"] => t.output.state = "broken"
  <2>1. Copy!Revents("into stdout", t) =
          IF t.output.state = "broken" THEN {"OUT", "ERR"} ELSE {"OUT"}
    BY DEF Copy!Revents, Copy!PollOutput
  <2> QED BY <1>5, <1>11, <2>1
<1>12. DOMAIN found = Tried(loop)
  BY <1>4
<1>13. CopyFresh(l, t)
  BY <1>7, <1>8, <1>9, <1>10, <1>11, <1>12, Zenon DEF CopyFresh
<1> QED BY <1>2, <1>6, <1>7, <1>13

\* What has been found to be so, and what a loop has asked for, is not undone by
\* anybody else.
TcpStays(t, u) ==
    /\ u.tcp = t.tcp
    /\ t.arrived # <<>> => u.arrived # <<>>
    /\ t.pair.down <= u.pair.down /\ u.pair.up <= t.pair.up
    /\ t.pair.down_shut => u.pair.down_shut
    /\ t.pair.up_shut => u.pair.up_shut

CopyStays(t, u) ==
    /\ u.copy = t.copy
    /\ t.input.left > 0 => u.input.left > 0
    /\ t.input.ended => u.input = t.input
    /\ u.pair.down <= t.pair.down /\ t.pair.up <= u.pair.up
    /\ t.pair.down_shut => u.pair.down_shut
    /\ t.pair.up_shut => u.pair.up_shut
    /\ t.output.state = "broken" => u.output.state = "broken"

LEMMA SidesStay ==
    ASSUME NEW t, NEW u
    PROVE  (TcpSide(t, u) => CopyStays(t, u)) /\ (CopySide(t, u) => TcpStays(t, u))
  BY Zenon DEF TcpSide, CopySide, TcpStays, CopyStays

LEMMA TcpKnowsStill ==
    ASSUME NEW t, NEW u, Base(t), Base(u), TcpStays(t, u), NEW loop
    PROVE  /\ TcpLoopIs(loop, t) => TcpLoopIs(loop, u)
           /\ TcpGoesWell(loop, t) => TcpGoesWell(loop, u)
<1>1. /\ t.pair.down > 0 => u.pair.down > 0
      /\ t.pair.up < PairCapacity => u.pair.up < PairCapacity
  BY PairAssumption DEF TcpStays, Base, State, PairType
<1>2. TcpAsked(loop, t) => TcpAsked(loop, u)
  BY DEF TcpAsked, TcpStays
<1>3. TcpFresh(loop, t) => TcpFresh(loop, u)
  BY <1>1, Zenon DEF TcpFresh, TcpStays
<1>4. \A tried : TcpRulesLeft(tried, t) => TcpRulesLeft(tried, u)
  BY Zenon DEF TcpRulesLeft, TcpStays
<1>5. TcpDone(t) => TcpDone(u)
  BY Zenon DEF TcpDone, TcpStays
<1> QED BY <1>2, <1>3, <1>4, <1>5 DEF TcpLoopIs, TcpGoesWell

LEMMA CopyKnowsStill ==
    ASSUME NEW t, NEW u, Base(t), Base(u), CopyStays(t, u), NEW loop
    PROVE  /\ CopyLoopIs(loop, t) => CopyLoopIs(loop, u)
           /\ CopyGoesWell(loop, t) => CopyGoesWell(loop, u)
<1>1. /\ t.pair.up > 0 => u.pair.up > 0
      /\ t.pair.down < PairCapacity => u.pair.down < PairCapacity
  BY PairAssumption DEF CopyStays, Base, State, PairType
<1>2. CopyAsked(loop, t) => CopyAsked(loop, u)
  BY DEF CopyAsked, CopyStays
<1>3. CopyFresh(loop, t) => CopyFresh(loop, u)
  BY <1>1, Zenon DEF CopyFresh, CopyStays
<1>4. \A tried : CopyRulesLeft(tried, t) => CopyRulesLeft(tried, u)
  BY Zenon DEF CopyRulesLeft, CopyStays
<1>5. CopyDone(t) => CopyDone(u)
  BY Zenon DEF CopyDone, CopyStays
<1> QED BY <1>2, <1>3, <1>4, <1>5 DEF CopyLoopIs, CopyGoesWell


-----------------------------------------------------------------------------
\* The steps

\* A step of the thread: of the loop of the copy and of main nothing changes.
LEMMA ThreadKeeps ==
    ASSUME IInv, Base(s'), TcpSide(s, s'), TcpLoopIs(tcp_loop', s'),
           Smooth =>
             /\ Good(s') /\ Kept(s, s') /\ TcpGoesWell(tcp_loop', s')
             /\ tcp_loop.at = "ended" => tcp_loop'.at = "ended",
           UNCHANGED <<copy_loop, main, _abort, reset>>
    PROVE  IInv' /\ (Undisturbed' => Kept(s, s'))
<1>1. Base(s) /\ CopyLoopIs(copy_loop, s) /\ MainOK
  BY DEF IInv
<1>2. Base(s') /\ CopyStays(s, s') /\ s'.output = s.output
  BY SidesStay DEF TcpSide
<1>3. CopyLoopIs(copy_loop', s')
  BY <1>1, <1>2, CopyKnowsStill
<1>4. MainOK'
  BY <1>1 DEF MainOK
<1>5. ASSUME Undisturbed' PROVE Smooth' /\ Kept(s, s')
  <2>1. Smooth
    BY <1>2, <1>5 DEF Undisturbed, IInv
  <2>2. Good(s') /\ Kept(s, s')
    BY <2>1
  <2>3. CopyGoesWell(copy_loop', s')
    BY <1>1, <1>2, <2>1, CopyKnowsStill DEF Smooth
  <2>4. TcpGoesWell(tcp_loop', s') /\ (tcp_loop.at = "ended" => tcp_loop'.at = "ended")
    BY <2>1
  <2> QED BY <2>1, <2>2, <2>3, <2>4 DEF Smooth
<1> QED BY <1>2, <1>3, <1>4, <1>5 DEF IInv

\* A step of the copy.
LEMMA CopyKeeps ==
    ASSUME IInv, Base(s'), CopySide(s, s'), CopyLoopIs(copy_loop', s'), MainOK',
           Smooth /\ s.output.state = "open" =>
             /\ Good(s') /\ Kept(s, s')
             /\ CopyGoesWell(copy_loop', s')
             /\ main' \in {"connect", "accept", "copy", "wait", "succeeded"}
             /\ main' \in {"wait", "succeeded"} => copy_loop'.at = "left"
             /\ main' = "succeeded" => main = "succeeded",
           UNCHANGED <<tcp_loop, _abort, reset>>
    PROVE  IInv' /\ (Undisturbed' => Kept(s, s'))
<1>1. Base(s) /\ TcpLoopIs(tcp_loop, s)
  BY DEF IInv
<1>2. Base(s') /\ TcpStays(s, s') /\ s'.output.state = s.output.state
  BY SidesStay DEF CopySide
<1>3. TcpLoopIs(tcp_loop', s')
  BY <1>1, <1>2, TcpKnowsStill
<1>4. ASSUME Undisturbed' PROVE Smooth' /\ Kept(s, s')
  <2>1. Smooth /\ s.output.state = "open"
    BY <1>2, <1>4 DEF Undisturbed, IInv
  <2>2. Good(s') /\ Kept(s, s')
    BY <2>1
  <2>3. TcpGoesWell(tcp_loop', s')
    BY <1>1, <1>2, <2>1, TcpKnowsStill DEF Smooth
  <2>4. /\ CopyGoesWell(copy_loop', s')
        /\ main' \in {"connect", "accept", "copy", "wait", "succeeded"}
        /\ main' \in {"wait", "succeeded"} => copy_loop'.at = "left"
        /\ main' = "succeeded" => main = "succeeded"
    BY <2>1
  <2>5. ~_abort' /\ (main' = "succeeded" => tcp_loop'.at = "ended")
    BY <2>1, <2>4 DEF Smooth
  <2> QED BY <2>2, <2>3, <2>4, <2>5 DEF Smooth
<1> QED BY <1>2, <1>3, <1>4 DEF IInv

\* A step from outside.
LEMMA OutsideKeeps ==
    ASSUME IInv, Base(s'), TcpStays(s, s'), CopyStays(s, s'),
           reset' \in BOOLEAN, Undisturbed' => Undisturbed /\ (Good(s) => Good(s')),
           UNCHANGED <<tcp_loop, copy_loop, main, _abort>>
    PROVE  IInv' /\ (Undisturbed' => Kept(s, s'))
<1>1. Base(s) /\ TcpLoopIs(tcp_loop, s) /\ CopyLoopIs(copy_loop, s) /\ MainOK
  BY DEF IInv
<1>2. TcpLoopIs(tcp_loop', s') /\ CopyLoopIs(copy_loop', s')
  BY <1>1, TcpKnowsStill, CopyKnowsStill
<1>3. MainOK'
  BY <1>1 DEF MainOK
<1>4. ASSUME Undisturbed' PROVE Smooth'
  <2>1. Smooth /\ (Good(s) => Good(s'))
    BY <1>4 DEF IInv
  <2>2. TcpGoesWell(tcp_loop', s') /\ CopyGoesWell(copy_loop', s')
    BY <1>1, <2>1, TcpKnowsStill, CopyKnowsStill DEF Smooth
  <2> QED BY <2>1, <2>2 DEF Smooth
<1>5. Kept(s, s')
  BY DEF TcpStays, CopyStays, Kept, KeptStream
<1> QED BY <1>2, <1>3, <1>4, <1>5 DEF IInv

LEMMA NextTurnKeeps ==
    ASSUME IInv, tcp_loop.at \in {"poll", "serve"}, NEW rules \in Seq(TcpRules),
           NEW t, TcpGives(s, t),
           TcpRulesLeft(Tried(tcp_loop), s) => TcpRulesLeft(Elements(rules), t),
           NextTurn(rules, t), UNCHANGED <<_abort, reset>>
    PROVE  IInv' /\ (Undisturbed' => Kept(s, s'))
<1>1. Base(s) /\ Base(t) /\ MainOK
  BY DEF IInv, TcpGives
<1>2. PICK v : v = Tcp!Tick(t) /\ TcpGives(t, v) /\ TcpGives(s, v) /\ Base(v)
  <2>1. PICK v : v = Tcp!Tick(t)
    OBVIOUS
  <2>2. TcpGives(t, v)
    BY <1>1, <2>1, TickGives
  <2>3. TcpGives(s, v)
    BY <1>1, <2>2, TcpGivesMore
  <2> QED BY <2>1, <2>2, <2>3 DEF TcpGives
<1>3. PICK q \in Seq(TcpRules), e \in SUBSET TcpRules :
        /\ TcpLoop!SetUp(rules, v) = [s |-> v, rules |-> q, events |-> e]
        /\ TcpAsked(NewLoop(q, e), v)
        /\ TcpRulesLeft(Elements(rules), v) => TcpRulesLeft(Elements(q), v)
        /\ Good(v) /\ TcpRulesLeft(Elements(rules), v) /\ e = {} => TcpDone(v)
  BY <1>2, TcpSetUpGives
<1>4. PICK walk : /\ walk = TcpLoop!SetUp(rules, v)
                  /\ walk.s = v /\ walk.rules = q /\ walk.events = e
  BY <1>3
<1>5. Loop(walk) = NewLoop(q, e)
  BY <1>4, Zenon DEF Loop, NewLoop
<1>6. tcp_loop' = IF _abort THEN Idle("left") ELSE NewLoop(q, e)
  BY <1>2, <1>4, <1>5 DEF NextTurn
<1>7. \/ main \in {"connect", "accept"} /\ StartsCopy(v)
      \/ s' = (IF _abort THEN t ELSE v) /\ UNCHANGED <<main, copy_loop>>
  BY <1>2, <1>4 DEF NextTurn
<1>8. /\ NewLoop(q, e) \in Loops(TcpRules, {"poll", "serve", "left", "ended"})
      /\ Tried(NewLoop(q, e)) = Elements(q)
      /\ NewLoop(q, e).at = IF e = {} THEN "left" ELSE "poll"
  BY NewLoopIs
<1>9. /\ Idle("left") \in Loops(TcpRules, {"poll", "serve", "left", "ended"})
      /\ Idle("left").at = "left"
  BY IdleIs
<1>10. TcpLoopIs(NewLoop(q, e), v) /\ (\A u : TcpLoopIs(Idle("left"), u))
  BY <1>3, <1>8, <1>9 DEF TcpLoopIs
<1>11. Smooth => ~_abort /\ Good(v) /\ TcpGoesWell(NewLoop(q, e), v)
  <2> SUFFICES ASSUME Smooth PROVE ~_abort /\ Good(v) /\ TcpGoesWell(NewLoop(q, e), v)
    OBVIOUS
  <2>1. Good(s) /\ TcpRulesLeft(Tried(tcp_loop), s) /\ ~_abort
    BY DEF Smooth, TcpGoesWell
  <2>2. TcpRulesLeft(Elements(rules), v)
    BY <1>2, <2>1, Zenon DEF TcpRulesLeft, TcpGives, TcpSide
  <2>3. Good(v)
    BY <1>2, <2>1 DEF TcpGives
  <2>4. TcpRulesLeft(Elements(q), v) /\ (e = {} => TcpDone(v))
    BY <1>3, <2>2, <2>3
  <2> QED BY <1>8, <2>1, <2>3, <2>4 DEF TcpGoesWell
<1>12. CASE s' = (IF _abort THEN t ELSE v) /\ UNCHANGED <<main, copy_loop>>
  <2>1. Base(s') /\ TcpSide(s, s') /\ (Good(s) => Good(s') /\ Kept(s, s'))
    BY <1>2, <1>12 DEF TcpGives
  <2>2. TcpLoopIs(tcp_loop', s')
    BY <1>6, <1>10, <1>12
  <2>3. Smooth => Good(s) /\ TcpGoesWell(tcp_loop', s')
    BY <1>6, <1>11, <1>12 DEF Smooth
  <2>4. tcp_loop.at # "ended"
    OBVIOUS
  <2> QED BY <1>12, <2>1, <2>2, <2>3, <2>4, ThreadKeeps
<1>13. CASE main \in {"connect", "accept"} /\ StartsCopy(v)
  <2>1. Copy!Rules \in Seq(CopyRules)
    BY DEF Copy!Rules, CopyRules
  <2>2. PICK cq \in Seq(CopyRules), ce \in SUBSET CopyRules :
          /\ CopyLoop!SetUp(Copy!Rules, v) = [s |-> v, rules |-> cq, events |-> ce]
          /\ CopyAsked(NewLoop(cq, ce), v)
          /\ CopyRulesLeft(Elements(Copy!Rules), v) => CopyRulesLeft(Elements(cq), v)
          /\ Good(v) /\ CopyRulesLeft(Elements(Copy!Rules), v) /\ ce = {} => CopyDone(v)
    BY <1>2, <2>1, CopySetUpGives
  <2>3. PICK cwalk : /\ cwalk = CopyLoop!SetUp(Copy!Rules, v)
                     /\ cwalk.s = v /\ cwalk.rules = cq /\ cwalk.events = ce
    BY <2>2
  <2>4. Loop(cwalk) = NewLoop(cq, ce)
    BY <2>3, Zenon DEF Loop, NewLoop
  <2>5. s' = v /\ copy_loop' = NewLoop(cq, ce) /\ main' = "copy"
    BY <1>13, <2>3, <2>4 DEF StartsCopy
  <2>6. /\ NewLoop(cq, ce) \in Loops(CopyRules, {"idle", "poll", "serve", "left", "thrown"})
        /\ Tried(NewLoop(cq, ce)) = Elements(cq)
        /\ NewLoop(cq, ce).at = IF ce = {} THEN "left" ELSE "poll"
    <3>1. PICK ats : ats = {"idle", "poll", "serve", "left", "thrown"}
      OBVIOUS
    <3>2. {"poll", "left"} \subseteq ats
      BY <3>1
    <3>3. /\ NewLoop(cq, ce) \in Loops(CopyRules, ats)
          /\ Tried(NewLoop(cq, ce)) = Elements(cq)
          /\ NewLoop(cq, ce).at = IF ce = {} THEN "left" ELSE "poll"
      BY <3>2, NewLoopIs
    <3> QED BY <3>1, <3>3
  <2>7. CopyLoopIs(copy_loop', s')
    BY <2>2, <2>5, <2>6 DEF CopyLoopIs
  <2>8. CopyRulesLeft(Elements(Copy!Rules), v)
    <3>1. \A i \in 1 .. 4 : Copy!Rules[i] \in Elements(Copy!Rules)
      <4>1. Len(Copy!Rules) = 4
        BY DEF Copy!Rules
      <4> QED BY <4>1 DEF Elements
    <3>2. /\ Copy!Rules[1] = "from stdin" /\ Copy!Rules[2] = "into socket"
          /\ Copy!Rules[3] = "from socket" /\ Copy!Rules[4] = "into stdout"
      BY DEF Copy!Rules
    <3>3. 1 \in 1 .. 4 /\ 2 \in 1 .. 4 /\ 3 \in 1 .. 4 /\ 4 \in 1 .. 4
      OBVIOUS
    <3> QED BY <3>1, <3>2, <3>3, Zenon DEF CopyRulesLeft
  <2>9. Base(s') /\ TcpLoopIs(tcp_loop', s') /\ MainOK'
    BY <1>1, <1>2, <1>6, <1>10, <2>5 DEF MainOK
  <2>10. ASSUME Undisturbed' PROVE Smooth' /\ Kept(s, s')
    <3>1. Smooth
      BY <1>2, <2>5, <2>10 DEF Undisturbed, IInv, TcpGives, TcpSide
    <3>2. ~_abort' /\ Good(s') /\ TcpGoesWell(tcp_loop', s')
      BY <1>6, <1>11, <2>5, <3>1
    <3>3. CopyGoesWell(copy_loop', s')
      BY <2>2, <2>5, <2>6, <2>8, <3>2 DEF CopyGoesWell
    <3>4. Kept(s, s')
      BY <1>2, <2>5, <3>1 DEF TcpGives, Smooth
    <3> QED BY <2>5, <3>2, <3>3, <3>4 DEF Smooth
  <2> QED BY <2>7, <2>9, <2>10 DEF IInv
<1> QED BY <1>7, <1>12, <1>13


LEMMA ShutBothIs ==
    ASSUME NEW t, Base(t), NEW u, u = [t EXCEPT !.pair = ShutBoth(@)]
    PROVE  /\ Base(u) /\ TcpSide(t, u) /\ CopySide(t, u)
           /\ t.pair.down_shut /\ t.pair.up_shut => u = t
<1>1. t \in State /\ t.pair \in PairType /\ t.pair.down \in Nat /\ t.pair.up \in Nat
  BY DEF Base, State, PairType
<1>2. PICK yes \in BOOLEAN : yes = TRUE
  OBVIOUS
<1>3. PICK pair : pair = [t.pair EXCEPT !.down_shut = yes, !.up_shut = yes]
  OBVIOUS
<1>4. u = [t EXCEPT !.pair = pair]
  BY <1>2, <1>3, Zenon DEF ShutBoth
<1>5. /\ pair \in PairType /\ pair.down = t.pair.down /\ pair.up = t.pair.up
      /\ pair.down_shut /\ pair.up_shut
  BY <1>1, <1>2, <1>3 DEF PairType
<1>6. /\ u \in State /\ u.pair = pair /\ u.tcp = t.tcp /\ u.thread = t.thread
      /\ u.copy = t.copy /\ u.input = t.input /\ u.output = t.output
      /\ u.arrived = t.arrived /\ u.outgoing_segments_ = t.outgoing_segments_
      /\ u.killed = t.killed
  BY <1>1, <1>4, <1>5 DEF State
<1>7. Base(u)
  BY <1>5, <1>6 DEF Base
<1>8. TcpSide(t, u) /\ CopySide(t, u)
  BY <1>1, <1>5, <1>6 DEF TcpSide, CopySide
<1>9. ASSUME t.pair.down_shut, t.pair.up_shut PROVE u = t
  <2>1. PICK ds \in BOOLEAN, us \in BOOLEAN : ds = t.pair.down_shut /\ us = t.pair.up_shut
    BY <1>1 DEF PairType
  <2>2. ds = yes /\ us = yes
    BY <1>2, <1>9, <2>1
  <2>3. pair = t.pair
    BY <1>1, <1>3, <2>1, <2>2 DEF PairType
  <2> QED BY <1>1, <1>4, <2>3 DEF State
<1> QED BY <1>7, <1>8, <1>9

LEMMA KeptAlways == ASSUME NEW t PROVE Kept(t, t)
  BY DEF Kept, KeptStream

LEMMA TcpPollKeeps == IInv /\ tcp_poll => IInv' /\ (Undisturbed' => Kept(s, s'))
<1> SUFFICES ASSUME IInv, tcp_poll PROVE IInv' /\ (Undisturbed' => Kept(s, s'))
  OBVIOUS
<1>1. Base(s) /\ TcpLoopIs(tcp_loop, s)
  BY DEF IInv
<1>2. /\ s' = s /\ tcp_loop.at = "poll" /\ UNCHANGED <<copy_loop, main, _abort, reset>>
      /\ tcp_loop' = Polled(tcp_loop, TcpLoop!Poll(tcp_loop, s))
  BY DEF tcp_poll, Polled
<1>3. PICK loop : loop = Polled(tcp_loop, TcpLoop!Poll(tcp_loop, s))
  OBVIOUS
<1>4. PICK ats : ats = {"poll", "serve", "left", "ended"}
  OBVIOUS
<1>5. /\ loop \in Loops(TcpRules, ats) /\ Tried(loop) = Tried(tcp_loop)
      /\ loop.events = tcp_loop.events /\ loop.at = "serve" /\ TcpFresh(loop, s)
  <2>1. "serve" \in ats /\ tcp_loop \in Loops(TcpRules, ats)
    BY <1>1, <1>4 DEF TcpLoopIs
  <2> QED BY <1>1, <1>3, <2>1, TcpPollFresh
<1>6. TcpAsked(loop, s)
  BY <1>1, <1>2, <1>5 DEF TcpLoopIs, TcpAsked
<1>7. TcpLoopIs(loop, s)
  BY <1>4, <1>5, <1>6 DEF TcpLoopIs
<1>8. Smooth => Good(s) /\ TcpGoesWell(loop, s)
  BY <1>2, <1>5 DEF Smooth, TcpGoesWell
<1>9. TcpSide(s, s) /\ Kept(s, s)
  BY <1>1, TcpGivesNothing, KeptAlways DEF TcpGives
<1> QED BY <1>1, <1>2, <1>3, <1>7, <1>8, <1>9, ThreadKeeps

LEMMA TcpTimeoutKeeps == IInv /\ tcp_timeout => IInv' /\ (Undisturbed' => Kept(s, s'))
<1> SUFFICES ASSUME IInv, tcp_timeout PROVE IInv' /\ (Undisturbed' => Kept(s, s'))
  OBVIOUS
<1>1. Base(s) /\ TcpLoopIs(tcp_loop, s)
  BY DEF IInv
<1>2. tcp_loop.at = "poll" /\ NextTurn(tcp_loop.rules, s) /\ UNCHANGED <<_abort, reset>>
  BY DEF tcp_timeout
<1>3. TcpGives(s, s)
  BY <1>1, TcpGivesNothing
<1>4. PICK rules \in Seq(TcpRules) : rules = tcp_loop.rules
  BY <1>1 DEF TcpLoopIs, Loops
<1>5. TcpRulesLeft(Tried(tcp_loop), s) => TcpRulesLeft(Elements(rules), s)
  BY <1>4 DEF Tried
<1> QED BY <1>2, <1>3, <1>4, <1>5, NextTurnKeeps

LEMMA TcpServeKeeps == IInv /\ tcp_serve => IInv' /\ (Undisturbed' => Kept(s, s'))
<1> SUFFICES ASSUME IInv, tcp_serve PROVE IInv' /\ (Undisturbed' => Kept(s, s'))
  OBVIOUS
<1>1. tcp_loop.at = "serve" /\ UNCHANGED <<_abort, reset>>
  BY DEF tcp_serve
<1>2. /\ Base(s) /\ TcpAsked(tcp_loop, s) /\ TcpFresh(tcp_loop, s)
      /\ tcp_loop.rules \in Seq(TcpRules)
  BY <1>1 DEF IInv, TcpLoopIs, Loops
<1>3. PICK walk : walk = TcpLoop!Serve(tcp_loop, tcp_loop.revents, s)
  OBVIOUS
<1>4. /\ walk.rules \in Seq(TcpRules) /\ TcpGives(s, walk.s) /\ ~walk.throws
      /\ TcpRulesLeft(Tried(tcp_loop), s) => TcpRulesLeft(Elements(walk.rules), walk.s)
  BY <1>2, <1>3, TcpServeGives
<1>5. NextTurn(walk.rules, walk.s)
  BY <1>3, <1>4 DEF tcp_serve
<1>6. PICK rules, t : rules \in Seq(TcpRules) /\ rules = walk.rules /\ t = walk.s
  BY <1>4
<1> QED BY <1>1, <1>4, <1>5, <1>6, NextTurnKeeps

\* By then TCP is done, and both directions are shut.
LEMMA TcpMainEndsKeeps == IInv /\ tcp_main_ends => IInv' /\ (Undisturbed' => Kept(s, s'))
<1> SUFFICES ASSUME IInv, tcp_main_ends PROVE IInv' /\ (Undisturbed' => Kept(s, s'))
  OBVIOUS
<1>1. /\ tcp_loop.at = "left" /\ s' = [s EXCEPT !.pair = ShutBoth(@)]
      /\ tcp_loop' = Idle("ended") /\ UNCHANGED <<copy_loop, main, _abort, reset>>
  BY DEF tcp_main_ends
<1>2. /\ Base(s') /\ TcpSide(s, s')
      /\ s.pair.down_shut /\ s.pair.up_shut => s' = s
  BY <1>1, ShutBothIs DEF IInv
<1>3. /\ tcp_loop' \in Loops(TcpRules, {"poll", "serve", "left", "ended"})
      /\ tcp_loop'.at = "ended"
  BY <1>1, IdleIs
<1>4. TcpLoopIs(tcp_loop', s')
  BY <1>3 DEF TcpLoopIs
<1>5. ASSUME Smooth PROVE Good(s') /\ Kept(s, s') /\ TcpGoesWell(tcp_loop', s')
  <2>1. TcpDone(s) /\ Good(s)
    BY <1>1, <1>5 DEF Smooth, TcpGoesWell
  <2>2. s' = s
    BY <1>2, <2>1 DEF TcpDone
  <2> QED BY <1>3, <2>1, <2>2, KeptAlways DEF TcpGoesWell
<1> QED BY <1>1, <1>2, <1>3, <1>4, <1>5, ThreadKeeps


LEMMA CopyPollKeeps == IInv /\ copy_poll => IInv' /\ (Undisturbed' => Kept(s, s'))
<1> SUFFICES ASSUME IInv, copy_poll PROVE IInv' /\ (Undisturbed' => Kept(s, s'))
  OBVIOUS
<1>1. Base(s) /\ CopyLoopIs(copy_loop, s) /\ MainOK
  BY DEF IInv
<1>2. /\ s' = s /\ copy_loop.at = "poll" /\ UNCHANGED <<tcp_loop, main, _abort, reset>>
      /\ copy_loop' = Polled(copy_loop, CopyLoop!Poll(copy_loop, s))
  BY DEF copy_poll, Polled
<1>3. PICK loop : loop = Polled(copy_loop, CopyLoop!Poll(copy_loop, s))
  OBVIOUS
<1>4. PICK ats : ats = {"idle", "poll", "serve", "left", "thrown"}
  OBVIOUS
<1>5. /\ loop \in Loops(CopyRules, ats) /\ Tried(loop) = Tried(copy_loop)
      /\ loop.events = copy_loop.events /\ loop.at = "serve" /\ CopyFresh(loop, s)
  <2>1. "serve" \in ats /\ copy_loop \in Loops(CopyRules, ats)
    BY <1>1, <1>4 DEF CopyLoopIs
  <2> QED BY <1>1, <1>3, <2>1, CopyPollFresh
<1>6. CopyAsked(loop, s)
  BY <1>1, <1>2, <1>5 DEF CopyLoopIs, CopyAsked
<1>7. CopyLoopIs(loop, s)
  BY <1>4, <1>5, <1>6 DEF CopyLoopIs
<1>8. CopySide(s, s) /\ Kept(s, s)
  BY <1>1, CopyGivesNothing, KeptAlways DEF CopyGives
<1>9. MainOK'
  BY <1>1, <1>2 DEF MainOK
<1>10. ASSUME Smooth
       PROVE  /\ Good(s) /\ CopyGoesWell(loop, s)
              /\ main \in {"connect", "accept", "copy"}
  <2>1. main \notin {"wait", "succeeded", "unwind", "destroy", "failed"}
    BY <1>2, <1>10 DEF Smooth
  <2>2. main \in {"connect", "accept", "copy"}
    BY <1>1, <2>1 DEF MainOK
  <2> QED BY <1>2, <1>5, <1>10, <2>2 DEF Smooth, CopyGoesWell
<1> QED BY <1>1, <1>2, <1>3, <1>7, <1>8, <1>9, <1>10, CopyKeeps

LEMMA CopyServeKeeps == IInv /\ copy_serve => IInv' /\ (Undisturbed' => Kept(s, s'))
<1> SUFFICES ASSUME IInv, copy_serve PROVE IInv' /\ (Undisturbed' => Kept(s, s'))
  OBVIOUS
<1>1. copy_loop.at = "serve" /\ UNCHANGED <<tcp_loop, _abort, reset>>
  BY DEF copy_serve
<1>2. /\ Base(s) /\ CopyAsked(copy_loop, s) /\ CopyFresh(copy_loop, s) /\ MainOK
      /\ copy_loop.rules \in Seq(CopyRules)
  BY <1>1 DEF IInv, CopyLoopIs, Loops
<1>3. PICK walk : walk = CopyLoop!Serve(copy_loop, copy_loop.revents, s)
  OBVIOUS
<1>4. /\ walk.rules \in Seq(CopyRules) /\ CopyGives(s, walk.s)
      /\ walk.throws => s.output.state = "full"
      /\ Good(s) /\ s.output.state = "open" /\ CopyRulesLeft(Tried(copy_loop), s) =>
           CopyRulesLeft(Elements(walk.rules), walk.s)
  BY <1>2, <1>3, CopyServeGives
<1>5. CASE walk.throws
  <2>1. s' = walk.s /\ copy_loop' = Idle("thrown") /\ main' = "unwind"
    BY <1>3, <1>5 DEF copy_serve
  <2>2. PICK ats : ats = {"idle", "poll", "serve", "left", "thrown"}
    OBVIOUS
  <2>3. copy_loop' \in Loops(CopyRules, ats) /\ copy_loop'.at = "thrown"
    <3>1. "thrown" \in ats
      BY <2>2
    <3> QED BY <2>1, <3>1, IdleIs
  <2>4. CopyLoopIs(copy_loop', s')
    BY <2>2, <2>3 DEF CopyLoopIs
  <2>5. MainOK'
    BY <1>1, <1>2, <2>1 DEF MainOK
  <2>6. Base(s') /\ CopySide(s, s') /\ s.output.state # "open"
    BY <1>4, <1>5, <2>1 DEF CopyGives
  <2> QED BY <1>1, <2>4, <2>5, <2>6, CopyKeeps
<1>6. CASE ~walk.throws
  <2>1. PICK t : t = walk.s /\ CopyGives(s, t) /\ Base(t)
    BY <1>4 DEF CopyGives
  <2>2. PICK rules \in Seq(CopyRules) : rules = walk.rules
    BY <1>4
  <2>3. PICK q \in Seq(CopyRules), e \in SUBSET CopyRules :
          /\ CopyLoop!SetUp(rules, t) = [s |-> t, rules |-> q, events |-> e]
          /\ CopyAsked(NewLoop(q, e), t)
          /\ CopyRulesLeft(Elements(rules), t) => CopyRulesLeft(Elements(q), t)
          /\ Good(t) /\ CopyRulesLeft(Elements(rules), t) /\ e = {} => CopyDone(t)
    BY <2>1, CopySetUpGives, ZenonT(40)
  <2>4. PICK next : /\ next = CopyLoop!SetUp(rules, t)
                    /\ next.s = t /\ next.rules = q /\ next.events = e
    BY <2>3
  <2>5. Loop(next) = NewLoop(q, e)
    BY <2>4, Zenon DEF Loop, NewLoop
  <2>6. s' = t /\ copy_loop' = NewLoop(q, e) /\ main' = main
    BY <1>3, <1>6, <2>1, <2>2, <2>4, <2>5 DEF copy_serve
  <2>7. PICK ats : ats = {"idle", "poll", "serve", "left", "thrown"}
    OBVIOUS
  <2>8. /\ NewLoop(q, e) \in Loops(CopyRules, ats)
        /\ Tried(NewLoop(q, e)) = Elements(q)
        /\ NewLoop(q, e).at = IF e = {} THEN "left" ELSE "poll"
    <3>1. {"poll", "left"} \subseteq ats
      BY <2>7
    <3> QED BY <3>1, NewLoopIs
  <2>9. CopyLoopIs(copy_loop', s')
    BY <2>3, <2>6, <2>7, <2>8 DEF CopyLoopIs
  <2>10. MainOK'
    BY <1>1, <1>2, <2>6 DEF MainOK
  <2>11. Base(s') /\ CopySide(s, s')
    BY <2>1, <2>6 DEF CopyGives
  <2>12. ASSUME Smooth, s.output.state = "open"
         PROVE  /\ Good(s') /\ Kept(s, s') /\ CopyGoesWell(copy_loop', s')
                /\ main \in {"connect", "accept", "copy"}
    <3>1. Good(s) /\ CopyRulesLeft(Tried(copy_loop), s)
      BY <1>1, <2>12 DEF Smooth, CopyGoesWell
    <3>2. Good(t) /\ Kept(s, t)
      BY <2>1, <2>12, <3>1 DEF CopyGives
    <3>3. CopyRulesLeft(Elements(rules), t)
      BY <1>4, <2>1, <2>2, <2>12, <3>1
    <3>4. CopyGoesWell(copy_loop', s')
      BY <2>3, <2>6, <2>8, <3>2, <3>3 DEF CopyGoesWell
    <3>5. main \notin {"wait", "succeeded", "unwind", "destroy", "failed"}
      BY <1>1, <2>12 DEF Smooth
    <3>6. main \in {"connect", "accept", "copy"}
      BY <1>2, <3>5 DEF MainOK
    <3> QED BY <2>6, <3>2, <3>4, <3>6
  <2> QED BY <1>1, <2>6, <2>9, <2>10, <2>11, <2>12, CopyKeeps
<1> QED BY <1>5, <1>6

\* The copy is over, and nothing is left to be cut off.
LEMMA WaitKeeps == IInv /\ wait_until_closed => IInv' /\ (Undisturbed' => Kept(s, s'))
<1> SUFFICES ASSUME IInv, wait_until_closed PROVE IInv' /\ (Undisturbed' => Kept(s, s'))
  OBVIOUS
<1>1. /\ main = "copy" /\ copy_loop.at = "left" /\ s' = [s EXCEPT !.pair = ShutBoth(@)]
      /\ main' = "wait" /\ UNCHANGED <<tcp_loop, copy_loop, _abort, reset>>
  BY DEF wait_until_closed
<1>2. /\ Base(s') /\ CopySide(s, s')
      /\ s.pair.down_shut /\ s.pair.up_shut => s' = s
  BY <1>1, ShutBothIs DEF IInv
<1>3. CopyLoopIs(copy_loop', s')
  BY <1>1 DEF IInv, CopyLoopIs
<1>4. MainOK'
  BY <1>1 DEF IInv, MainOK
<1>5. ASSUME Smooth PROVE Good(s') /\ Kept(s, s') /\ CopyGoesWell(copy_loop', s')
  <2>1. CopyDone(s) /\ Good(s)
    BY <1>1, <1>5 DEF Smooth, CopyGoesWell
  <2>2. s.pair.up_shut
    BY <2>1 DEF CopyDone, Good, Sound, WayIn, Finished
  <2>3. s' = s
    BY <1>2, <2>1, <2>2 DEF CopyDone
  <2> QED BY <1>1, <2>1, <2>3, KeptAlways DEF CopyGoesWell
<1> QED BY <1>1, <1>2, <1>3, <1>4, <1>5, CopyKeeps

LEMMA DestroyKeeps == IInv /\ destroy => IInv' /\ (Undisturbed' => Kept(s, s'))
<1> SUFFICES ASSUME IInv, destroy PROVE IInv' /\ (Undisturbed' => Kept(s, s'))
  OBVIOUS
<1>1. /\ main = "unwind" /\ main' = "destroy" /\ _abort' = TRUE
      /\ UNCHANGED <<s, tcp_loop, copy_loop, reset>>
  BY DEF destroy
<1>2. ~Undisturbed'
  BY <1>1 DEF IInv, Smooth, Undisturbed
<1> QED BY <1>1, <1>2 DEF IInv, MainOK

LEMMA JoinKeeps == IInv /\ join => IInv' /\ (Undisturbed' => Kept(s, s'))
<1> SUFFICES ASSUME IInv, join PROVE IInv' /\ (Undisturbed' => Kept(s, s'))
  OBVIOUS
<1>1. /\ main \in {"wait", "destroy"} /\ tcp_loop.at = "ended"
      /\ main' = (IF main = "wait" THEN "succeeded" ELSE "failed")
      /\ UNCHANGED <<s, tcp_loop, copy_loop, _abort, reset>>
  BY DEF join
<1>2. Undisturbed' => Smooth /\ Kept(s, s')
  BY <1>1, KeptAlways DEF IInv, Undisturbed
<1>3. Smooth => Smooth'
  BY <1>1 DEF Smooth
<1> QED BY <1>1, <1>2, <1>3 DEF IInv, MainOK

LEMMA ArriveKeeps == IInv /\ arrive => IInv' /\ (Undisturbed' => Kept(s, s'))
<1> SUFFICES ASSUME IInv, arrive PROVE IInv' /\ (Undisturbed' => Kept(s, s'))
  OBVIOUS
<1>1. Base(s) /\ s \in State /\ s.tcp \in TcpType /\ s.tcp.away \in Nat
      /\ s.pair.down \in Nat /\ s.pair.up \in Nat /\ MainOK
  BY DEF IInv, Base, State, TcpType, PairType
<1>2. PICK kind \in Arrivals :
        /\ s.arrived = <<>> /\ s' = [s EXCEPT !.arrived = <<Segment(kind)>>]
        /\ UNCHANGED <<tcp_loop, copy_loop, main, _abort, reset>>
  BY DEF arrive
<1>3. /\ kind \in {"SYN", "BYTE", "FIN", "ACK"}
      /\ kind # "SYN" => s.tcp.has_ackno
      /\ kind = "BYTE" => s.tcp.inbound.pushed < Sent /\ Available(s.tcp.inbound) > 0
      /\ kind = "FIN" => s.tcp.inbound.pushed = Sent
  <2>1. kind = "SYN" <=> ~s.tcp.has_ackno
    BY <1>2 DEF Arrivals
  <2>2. /\ kind \in {"SYN", "BYTE", "FIN", "ACK"}
        /\ kind = "BYTE" => s.tcp.inbound.pushed < Sent /\ Available(s.tcp.inbound) > 0
        /\ kind = "FIN" => s.tcp.inbound.pushed = Sent
    BY <1>2 DEF Arrivals
  <2> QED BY <2>1, <2>2, Zenon
<1>4. PICK seg \in Segments : seg = Segment(kind) /\ seg.kind = kind /\ seg.acked = s.tcp.away
  <2>1. PICK n \in Nat : n = s.tcp.away
    BY <1>1
  <2>2. PICK seg : seg = [kind |-> kind, acked |-> n]
    OBVIOUS
  <2>3. seg = Segment(kind)
    BY <2>1, <2>2, Zenon DEF Segment
  <2>4. seg \in Segments /\ seg.kind = kind /\ seg.acked = n
    BY <1>3, <2>2 DEF Segments
  <2> QED BY <2>1, <2>3, <2>4
<1>5. /\ s' \in State /\ s'.arrived = <<seg>> /\ s'.tcp = s.tcp /\ s'.thread = s.thread
      /\ s'.copy = s.copy /\ s'.pair = s.pair /\ s'.input = s.input
      /\ s'.output = s.output /\ s'.killed = s.killed
  BY <1>1, <1>2, <1>4 DEF State
<1>6. Base(s')
  BY <1>1, <1>4, <1>5 DEF Base
<1>7. TcpStays(s, s') /\ CopyStays(s, s')
  BY <1>1, <1>5 DEF TcpStays, CopyStays
<1>8. Good(s) => Good(s')
  <2>1. Acceptable(s')
    BY <1>3, <1>4, <1>5 DEF Acceptable
  <2> QED BY <1>5, <2>1 DEF Good, Sound, WayOut, WayIn
<1>9. (Undisturbed' => Undisturbed) /\ reset' \in BOOLEAN
  BY <1>1, <1>2, <1>5 DEF Undisturbed, MainOK
<1> QED BY <1>2, <1>6, <1>7, <1>8, <1>9, OutsideKeeps

LEMMA ArriveResetKeeps == IInv /\ arrive_reset => IInv' /\ (Undisturbed' => Kept(s, s'))
<1> SUFFICES ASSUME IInv, arrive_reset PROVE IInv' /\ (Undisturbed' => Kept(s, s'))
  OBVIOUS
<1>1. Base(s) /\ s \in State /\ s.tcp \in TcpType /\ s.tcp.away \in Nat
      /\ s.pair.down \in Nat /\ s.pair.up \in Nat
  BY DEF IInv, Base, State, TcpType, PairType
<1>2. /\ s.arrived = <<>> /\ s' = [s EXCEPT !.arrived = <<Segment("RST")>>]
      /\ reset' = TRUE /\ UNCHANGED <<tcp_loop, copy_loop, main, _abort>>
  BY DEF arrive_reset
<1>3. PICK seg \in Segments : seg = Segment("RST") /\ seg.acked = s.tcp.away
  <2>1. PICK n \in Nat : n = s.tcp.away
    BY <1>1
  <2>2. PICK seg : seg = [kind |-> "RST", acked |-> n]
    OBVIOUS
  <2>3. seg = Segment("RST")
    BY <2>1, <2>2, Zenon DEF Segment
  <2>4. seg \in Segments /\ seg.kind = "RST" /\ seg.acked = n
    BY <2>2 DEF Segments
  <2> QED BY <2>1, <2>3, <2>4
<1>4. /\ s' \in State /\ s'.arrived = <<seg>> /\ s'.tcp = s.tcp /\ s'.thread = s.thread
      /\ s'.copy = s.copy /\ s'.pair = s.pair /\ s'.input = s.input
      /\ s'.output = s.output
  BY <1>1, <1>2, <1>3 DEF State
<1>5. Base(s')
  BY <1>1, <1>3, <1>4 DEF Base
<1>6. TcpStays(s, s') /\ CopyStays(s, s')
  BY <1>1, <1>4 DEF TcpStays, CopyStays
<1>7. ~Undisturbed' /\ reset' \in BOOLEAN
  BY <1>2 DEF Undisturbed
<1> QED BY <1>2, <1>5, <1>6, <1>7, OutsideKeeps

LEMMA TypeByteKeeps == IInv /\ type_byte => IInv' /\ (Undisturbed' => Kept(s, s'))
<1> SUFFICES ASSUME IInv, type_byte PROVE IInv' /\ (Undisturbed' => Kept(s, s'))
  OBVIOUS
<1>1. /\ Base(s) /\ s \in State /\ s.input \in InputType
      /\ s.input.left \in Nat /\ s.input.typed \in Nat
      /\ s.pair.down \in Nat /\ s.pair.up \in Nat /\ MainOK
      /\ s.copy.outbound.pushed \in Nat
  BY DEF IInv, Base, State, InputType, PairType, CopyOK, StreamOK, StreamType
<1>2. /\ ~s.input.ended
      /\ s' = [s EXCEPT !.input.left = @ + 1, !.input.typed = @ + 1]
      /\ UNCHANGED <<tcp_loop, copy_loop, main, _abort, reset>>
  BY DEF type_byte
<1>3. PICK left \in Nat, typed \in Nat : left = s.input.left + 1 /\ typed = s.input.typed + 1
  BY <1>1
<1>4. s' = [s EXCEPT !.input.left = left, !.input.typed = typed]
  BY <1>2, <1>3, Zenon
<1>5. /\ s' \in State /\ s'.input = [s.input EXCEPT !.left = left, !.typed = typed]
      /\ s'.tcp = s.tcp /\ s'.thread = s.thread /\ s'.arrived = s.arrived
      /\ s'.copy = s.copy /\ s'.pair = s.pair
      /\ s'.output = s.output /\ s'.killed = s.killed
  BY <1>1, <1>4 DEF State, InputType
<1>6. s'.input.left = left /\ s'.input.typed = typed /\ s'.input.ended = s.input.ended
  BY <1>1, <1>5 DEF InputType
<1>7. Base(s')
  BY <1>1, <1>5 DEF Base
<1>8. TcpStays(s, s') /\ CopyStays(s, s')
  BY <1>1, <1>2, <1>3, <1>5, <1>6 DEF TcpStays, CopyStays
<1>9. ASSUME Good(s) PROVE Good(s')
  <2>1. WayOut(s) /\ WayIn(s)
    BY <1>9 DEF Good, Sound
  <2>2. typed = s.copy.outbound.pushed + left
    BY <1>1, <1>3, <2>1 DEF WayOut
  <2>3. ~s.copy.outbound.closed
    BY <1>2, <2>1 DEF WayOut
  <2>4. WayOut(s')
    BY <1>5, <1>6, <2>1, <2>2, <2>3 DEF WayOut
  <2> QED BY <1>5, <1>9, <2>4 DEF Good, Sound, WayIn, Acceptable
<1>10. (Undisturbed' => Undisturbed) /\ reset' \in BOOLEAN
  BY <1>1, <1>2, <1>5 DEF Undisturbed, MainOK
<1> QED BY <1>2, <1>7, <1>8, <1>9, <1>10, OutsideKeeps

LEMMA EndInputKeeps == IInv /\ end_input => IInv' /\ (Undisturbed' => Kept(s, s'))
<1> SUFFICES ASSUME IInv, end_input PROVE IInv' /\ (Undisturbed' => Kept(s, s'))
  OBVIOUS
<1>1. /\ Base(s) /\ s \in State /\ s.input \in InputType
      /\ s.pair.down \in Nat /\ s.pair.up \in Nat /\ MainOK
  BY DEF IInv, Base, State, InputType, PairType
<1>2. /\ ~s.input.ended
      /\ s' = [s EXCEPT !.input.ended = TRUE]
      /\ UNCHANGED <<tcp_loop, copy_loop, main, _abort, reset>>
  BY DEF end_input
<1>3. PICK yes \in BOOLEAN : yes = TRUE
  OBVIOUS
<1>4. s' = [s EXCEPT !.input.ended = yes]
  BY <1>2, <1>3, Zenon
<1>5. /\ s' \in State /\ s'.input = [s.input EXCEPT !.ended = yes]
      /\ s'.tcp = s.tcp /\ s'.thread = s.thread /\ s'.arrived = s.arrived
      /\ s'.copy = s.copy /\ s'.pair = s.pair
      /\ s'.output = s.output /\ s'.killed = s.killed
  BY <1>1, <1>4 DEF State, InputType
<1>6. s'.input.left = s.input.left /\ s'.input.typed = s.input.typed /\ s'.input.ended
  BY <1>1, <1>3, <1>5 DEF InputType
<1>7. Base(s')
  BY <1>1, <1>5 DEF Base
<1>8. TcpStays(s, s') /\ CopyStays(s, s')
  BY <1>1, <1>2, <1>5, <1>6 DEF TcpStays, CopyStays
<1>9. ASSUME Good(s) PROVE Good(s')
  <2>1. WayOut(s')
    BY <1>5, <1>6, <1>9 DEF Good, Sound, WayOut
  <2> QED BY <1>5, <1>9, <2>1 DEF Good, Sound, WayIn, Acceptable
<1>10. (Undisturbed' => Undisturbed) /\ reset' \in BOOLEAN
  BY <1>1, <1>2, <1>5 DEF Undisturbed, MainOK
<1> QED BY <1>2, <1>7, <1>8, <1>9, <1>10, OutsideKeeps

LEMMA FailOutputKeeps == IInv /\ fail_output => IInv' /\ (Undisturbed' => Kept(s, s'))
<1> SUFFICES ASSUME IInv, fail_output PROVE IInv' /\ (Undisturbed' => Kept(s, s'))
  OBVIOUS
<1>1. /\ Base(s) /\ s \in State /\ s.output \in OutputType
      /\ s.pair.down \in Nat /\ s.pair.up \in Nat /\ MainOK
  BY DEF IInv, Base, State, PairType
<1>2. PICK state \in OutputFails :
        /\ s' = [s EXCEPT !.output.state = state] /\ s.output.state = "open"
        /\ UNCHANGED <<tcp_loop, copy_loop, main, _abort, reset>>
  BY DEF fail_output, Undisturbed
<1>3. state \in {"broken", "full"}
  BY ProgramAssumption
<1>4. /\ s' \in State /\ s'.output = [s.output EXCEPT !.state = state]
      /\ s'.tcp = s.tcp /\ s'.thread = s.thread /\ s'.arrived = s.arrived
      /\ s'.copy = s.copy /\ s'.pair = s.pair /\ s'.input = s.input
  BY <1>1, <1>2, <1>3 DEF State, OutputType
<1>5. s'.output.state = state
  BY <1>1, <1>4 DEF OutputType
<1>6. Base(s')
  BY <1>1, <1>4 DEF Base
<1>7. TcpStays(s, s') /\ CopyStays(s, s')
  BY <1>1, <1>2, <1>4 DEF TcpStays, CopyStays
<1>8. ~Undisturbed' /\ reset' \in BOOLEAN
  BY <1>1, <1>2, <1>3, <1>5 DEF Undisturbed, MainOK
<1> QED BY <1>2, <1>6, <1>7, <1>8, OutsideKeeps


-----------------------------------------------------------------------------
\* The beginning

LEMMA EmptyStreamIs ==
    ASSUME NEW n \in Nat
    PROVE  /\ StreamOK(EmptyStream(n)) /\ EmptyStream(n).capacity = n
           /\ EmptyStream(n).pushed = 0 /\ EmptyStream(n).popped = 0
           /\ ~EmptyStream(n).closed /\ ~EmptyStream(n).error
<1>1. PICK no \in BOOLEAN : no = FALSE
  OBVIOUS
<1>2. PICK a : a = EmptyStream(n)
  OBVIOUS
<1>3. a = [capacity |-> n, pushed |-> 0, popped |-> 0, closed |-> no, error |-> no]
  BY <1>1, <1>2, Zenon DEF EmptyStream
<1>4. StreamOK(a) /\ a.capacity = n /\ a.pushed = 0 /\ a.popped = 0 /\ ~a.closed /\ ~a.error
  BY <1>1, <1>3 DEF StreamOK, StreamType
<1> QED BY <1>2, <1>4

LEMMA BeginsWell ==
    ASSUME NEW kind \in {"pipe", "file"}
    PROVE  /\ Base(ToBeginWith(kind)) /\ Good(ToBeginWith(kind))
           /\ ToBeginWith(kind).output.state = "open"
<1>1. SendCapacity \in Nat /\ RecvCapacity \in Nat /\ CopyCapacity \in Nat /\ RemoteWindow \in Nat
  BY ProgramAssumption
<1>2. PICK no \in BOOLEAN : no = FALSE
  OBVIOUS
<1>3. PICK so, si, co, ci :
        /\ so = EmptyStream(SendCapacity) /\ si = EmptyStream(RecvCapacity)
        /\ co = EmptyStream(CopyCapacity) /\ ci = EmptyStream(CopyCapacity)
  OBVIOUS
<1>4. /\ StreamOK(so) /\ so.capacity = SendCapacity /\ so.pushed = 0 /\ so.popped = 0
      /\ ~so.closed
      /\ StreamOK(si) /\ si.capacity = RecvCapacity /\ si.pushed = 0 /\ si.popped = 0
      /\ ~si.closed /\ ~si.error
      /\ StreamOK(co) /\ co.capacity = CopyCapacity /\ co.pushed = 0 /\ co.popped = 0
      /\ ~co.closed
      /\ StreamOK(ci) /\ ci.capacity = CopyCapacity /\ ci.pushed = 0 /\ ci.popped = 0
      /\ ~ci.closed
  BY <1>1, <1>3, EmptyStreamIs
<1>5. so \in StreamType /\ si \in StreamType /\ co \in StreamType /\ ci \in StreamType
  BY <1>4 DEF StreamOK
<1>6. PICK tcp : tcp = Tcp!NewTcp(SendCapacity, RecvCapacity)
  OBVIOUS
<1>7. tcp = [outbound |-> so, inbound |-> si, in_flight |-> 0, away |-> 0, syn |-> no,
             fin |-> no, has_ackno |-> no, ready |-> no]
  BY <1>2, <1>3, <1>6, TcpSame, Zenon DEF Tcp!NewTcp
<1>8. /\ tcp \in TcpType /\ tcp.outbound = so /\ tcp.inbound = si /\ tcp.in_flight = 0
      /\ tcp.away = 0
  BY <1>5, <1>7 DEF TcpType
<1>9. PICK copy : copy = Copy!NewCopy(CopyCapacity)
  OBVIOUS
<1>10. copy = [outbound |-> co, inbound |-> ci, outbound_shutdown |-> no,
               inbound_shutdown |-> no, input_eof |-> no, socket_eof |-> no,
               output_closed |-> no]
  BY <1>2, <1>3, <1>9, CopySame, Zenon DEF Copy!NewCopy
<1>11. /\ copy \in CopyType /\ copy.outbound = co /\ copy.inbound = ci
       /\ ~copy.outbound_shutdown /\ ~copy.inbound_shutdown
       /\ ~copy.input_eof /\ ~copy.socket_eof /\ ~copy.output_closed
  BY <1>2, <1>5, <1>10 DEF CopyType
<1>12. PICK pair : pair = NewPair
  OBVIOUS
<1>13. pair = [down |-> 0, up |-> 0, down_shut |-> no, up_shut |-> no]
  BY <1>2, <1>12, Zenon DEF NewPair
<1>14. /\ pair \in PairType /\ pair.down = 0 /\ pair.up = 0
       /\ ~pair.down_shut /\ ~pair.up_shut
  BY <1>2, <1>13 DEF PairType
<1>15. PICK input : input = NewInput(kind)
  OBVIOUS
<1>16. input = [kind |-> kind, left |-> 0, typed |-> 0, ended |-> no]
  BY <1>2, <1>15, Zenon DEF NewInput
<1>17. input \in InputType /\ input.left = 0 /\ input.typed = 0
  BY <1>16 DEF InputType
<1>18. PICK output : output = [state |-> "open", bytes |-> 0]
  OBVIOUS
<1>19. output \in OutputType /\ output.bytes = 0 /\ output.state = "open"
  BY <1>18 DEF OutputType
<1>20. PICK thread : thread = [eof |-> no, outbound_shutdown |-> no, inbound_shutdown |-> no]
  OBVIOUS
<1>21. thread \in ThreadType /\ ~thread.eof /\ ~thread.inbound_shutdown
  BY <1>2, <1>20 DEF ThreadType
<1>22. PICK t : t = ToBeginWith(kind)
  OBVIOUS
<1>23. t = [tcp |-> tcp, outgoing_segments_ |-> no, arrived |-> <<>>, thread |-> thread,
            copy |-> copy, pair |-> pair, input |-> input, output |-> output,
            killed |-> no]
  BY <1>2, <1>6, <1>9, <1>12, <1>15, <1>18, <1>20, <1>22, Zenon DEF ToBeginWith
<1>24. /\ t \in State /\ t.tcp = tcp /\ t.arrived = <<>> /\ t.thread = thread
       /\ t.copy = copy /\ t.pair = pair /\ t.input = input /\ t.output = output
       /\ ~t.killed
  BY <1>2, <1>8, <1>11, <1>14, <1>17, <1>19, <1>21, <1>23 DEF State
<1>25. TcpOK(t.tcp) /\ CopyOK(t.copy)
  BY <1>1, <1>4, <1>8, <1>11, <1>24 DEF TcpOK, CopyOK
<1>26. Base(t)
  BY <1>14, <1>21, <1>24, <1>25, PairAssumption DEF Base
<1>27. WayOut(t)
  BY <1>4, <1>8, <1>11, <1>14, <1>17, <1>24 DEF WayOut
<1>28. WayIn(t)
  BY <1>4, <1>8, <1>11, <1>14, <1>19, <1>21, <1>24 DEF WayIn
<1>29. Good(t)
  BY <1>4, <1>8, <1>24, <1>27, <1>28 DEF Good, Sound, Acceptable, FinFollows, Finished
<1> QED BY <1>19, <1>22, <1>24, <1>26, <1>29

\* connect has sent its SYN.
LEMMA OpenedWell ==
    ASSUME NEW listens \in BOOLEAN
    PROVE  /\ Base(Opened(listens)) /\ Good(Opened(listens))
           /\ Opened(listens).output.state = "open"
<1>1. ClientInput \in {"pipe", "file"} /\ ServerInput \in {"pipe", "file"}
  BY ProgramAssumption
<1>2. CASE listens
  <2>1. Opened(listens) = ToBeginWith(ServerInput)
    BY <1>2 DEF Opened
  <2> QED BY <1>1, <2>1, BeginsWell
<1>3. CASE ~listens
  <2>1. PICK t : /\ t = ToBeginWith(ClientInput) /\ Base(t) /\ Good(t)
                 /\ t.output.state = "open"
    BY <1>1, BeginsWell
  <2>2. PICK v : v = Tcp!Push(t.tcp)
    OBVIOUS
  <2>3. t \in State /\ Takes(t.tcp, v) /\ FinFollows(v)
    <3>1. t \in State /\ t.tcp \in TcpType /\ TcpOK(t.tcp)
      BY <2>1 DEF Base, State
    <3> QED BY <2>2, <3>1, PushTakes
  <2>4. PICK u : u = [t EXCEPT !.tcp = v]
    OBVIOUS
  <2>5. u \in State /\ TcpOnly(t, u) /\ u.tcp = v
    BY <2>3, <2>4 DEF State, TcpOnly, Takes
  <2>6. Base(u) /\ Good(u)
    BY <2>1, <2>3, <2>5, TakesKeeps DEF Good
  <2>7. PICK w : w = Tcp!Collect(u)
    OBVIOUS
  <2>8. w \in State /\ TcpOnly(u, w) /\ Takes(u.tcp, w.tcp)
    BY <2>5, <2>6, <2>7, CollectTakes DEF Base
  <2>9. Base(w) /\ Good(w)
    BY <2>6, <2>8, TakesKeeps DEF Good, Takes
  <2>10. Opened(listens) = w
    BY <1>3, <2>1, <2>2, <2>4, <2>7, Zenon DEF Opened
  <2>11. w.output.state = "open"
    BY <2>1, <2>5, <2>8 DEF TcpOnly
  <2> QED BY <2>9, <2>10, <2>11
<1> QED BY <1>2, <1>3

LEMMA InitHolds == Init => IInv
<1> SUFFICES ASSUME Init PROVE IInv
  OBVIOUS
<1>1. PICK listens \in BOOLEAN :
        LET walk == TcpLoop!SetUp(Tcp!Rules, Opened(listens))
        IN  /\ s = walk.s
            /\ tcp_loop = Loop(walk)
            /\ copy_loop = Idle("idle")
            /\ main = IF listens THEN "accept" ELSE "connect"
            /\ _abort = FALSE
            /\ reset = FALSE
  BY DEF Init
<1>2. PICK t : t = Opened(listens) /\ Base(t) /\ Good(t) /\ t.output.state = "open"
  BY OpenedWell
<1>3. Tcp!Rules \in Seq(TcpRules)
  BY DEF Tcp!Rules, TcpRules
<1>4. PICK q \in Seq(TcpRules), e \in SUBSET TcpRules :
        /\ TcpLoop!SetUp(Tcp!Rules, t) = [s |-> t, rules |-> q, events |-> e]
        /\ TcpAsked(NewLoop(q, e), t)
        /\ TcpRulesLeft(Elements(Tcp!Rules), t) => TcpRulesLeft(Elements(q), t)
        /\ Good(t) /\ TcpRulesLeft(Elements(Tcp!Rules), t) /\ e = {} => TcpDone(t)
  BY <1>2, <1>3, TcpSetUpGives
<1>5. PICK walk : /\ walk = TcpLoop!SetUp(Tcp!Rules, t)
                  /\ walk.s = t /\ walk.rules = q /\ walk.events = e
  BY <1>4
<1>6. Loop(walk) = NewLoop(q, e)
  BY <1>5, Zenon DEF Loop, NewLoop
<1>7. /\ s = t /\ tcp_loop = NewLoop(q, e) /\ copy_loop = Idle("idle")
      /\ main = (IF listens THEN "accept" ELSE "connect") /\ ~_abort /\ _abort \in BOOLEAN
      /\ reset \in BOOLEAN
  BY <1>1, <1>2, <1>5, <1>6
<1>8. /\ NewLoop(q, e) \in Loops(TcpRules, {"poll", "serve", "left", "ended"})
      /\ Tried(NewLoop(q, e)) = Elements(q)
      /\ NewLoop(q, e).at = IF e = {} THEN "left" ELSE "poll"
  BY NewLoopIs
<1>9. PICK ats : ats = {"idle", "poll", "serve", "left", "thrown"}
  OBVIOUS
<1>10. copy_loop \in Loops(CopyRules, ats) /\ copy_loop.at = "idle"
  <2>1. "idle" \in ats
    BY <1>9
  <2> QED BY <1>7, <2>1, IdleIs
<1>11. TcpLoopIs(tcp_loop, s)
  BY <1>4, <1>7, <1>8 DEF TcpLoopIs
<1>12. CopyLoopIs(copy_loop, s)
  BY <1>9, <1>10 DEF CopyLoopIs
<1>13. TcpRulesLeft(Elements(Tcp!Rules), t)
  <2>1. \A i \in 1 .. 4 : Tcp!Rules[i] \in Elements(Tcp!Rules)
    <3>1. Len(Tcp!Rules) = 4
      BY DEF Tcp!Rules
    <3> QED BY <3>1 DEF Elements
  <2>2. Tcp!Rules[1] = "receive TCP segment" /\ Tcp!Rules[3] = "read bytes"
    BY DEF Tcp!Rules
  <2>3. 1 \in 1 .. 4 /\ 3 \in 1 .. 4
    OBVIOUS
  <2> QED BY <2>1, <2>2, <2>3, Zenon DEF TcpRulesLeft
<1>14. TcpGoesWell(tcp_loop, s)
  BY <1>2, <1>4, <1>7, <1>8, <1>13 DEF TcpGoesWell
<1>15. CopyGoesWell(copy_loop, s)
  BY <1>10 DEF CopyGoesWell
<1>16. main \in {"accept", "connect"}
  BY <1>7
<1> QED BY <1>2, <1>7, <1>11, <1>12, <1>14, <1>15, <1>16 DEF IInv, MainOK, Smooth

-----------------------------------------------------------------------------
\* The theorems

LEMMA NextKeeps == IInv /\ Next => IInv' /\ (Undisturbed' => Kept(s, s'))
  BY TcpPollKeeps, TcpTimeoutKeeps, TcpServeKeeps, TcpMainEndsKeeps, CopyPollKeeps,
     CopyServeKeeps, WaitKeeps, DestroyKeeps, JoinKeeps, ArriveKeeps,
     ArriveResetKeeps, TypeByteKeeps, EndInputKeeps, FailOutputKeeps, Zenon
  DEF Next, tcp_thread, main_thread

LEMMA StutterKeeps == IInv /\ UNCHANGED vars => IInv' /\ (Undisturbed' => Kept(s, s'))
<1> SUFFICES ASSUME IInv, UNCHANGED vars PROVE IInv' /\ (Undisturbed' => Kept(s, s'))
  OBVIOUS
<1>1. UNCHANGED <<s, tcp_loop, copy_loop, main, _abort, reset>>
  BY DEF vars
<1> QED BY <1>1, KeptAlways DEF IInv, MainOK, Smooth, Undisturbed

\* eventloop.cc:161 (src/util): whatever the order in which the two threads poll
\* and serve, what poll told each of them is good enough for what it then does.
THEOREM Invariant == Spec => []IInv
<1>1. IInv /\ [Next]_vars => IInv'
  BY NextKeeps, StutterKeeps
<1> QED BY <1>1, InitHolds, PTL DEF Spec

\* tcp_minnow_socket.cc, bidirectional_stream_copy.cc: the four streams and the
\* pair keep to their capacities, whatever happens outside.
THEOREM TypeCorrect == Spec => []TypeOK
<1>1. IInv => TypeOK
  <2> SUFFICES ASSUME IInv PROVE TypeOK
    OBVIOUS
  <2>1. /\ Base(s) /\ s \in State /\ TcpOK(s.tcp) /\ CopyOK(s.copy)
        /\ s.tcp \in TcpType /\ s.pair \in PairType
    BY DEF IInv, Base, State
  <2>2. /\ s.pair.down \in 0 .. PairCapacity /\ s.pair.up \in 0 .. PairCapacity
        /\ s.tcp.away \in 0 .. s.tcp.in_flight /\ s.tcp.in_flight <= RemoteWindow
    BY <2>1, PairAssumption DEF Base, TcpOK, TcpType, PairType
  <2>3. \A stream \in {s.tcp.inbound, s.tcp.outbound, s.copy.inbound, s.copy.outbound} :
          StreamOK(stream)
    BY <2>1 DEF TcpOK, CopyOK
  <2>4. /\ tcp_loop.at \in {"poll", "serve", "left", "ended"}
        /\ copy_loop.at \in {"idle", "poll", "serve", "left", "thrown"}
    BY DEF IInv, TcpLoopIs, CopyLoopIs, Loops
  <2>5. main \in {"connect", "accept", "copy", "unwind", "wait", "destroy",
                  "succeeded", "failed"}
    BY DEF IInv, MainOK
  <2> QED BY <2>2, <2>3, <2>4, <2>5 DEF TypeOK
<1> QED BY <1>1, Invariant, PTL

\* tcp_minnow_socket.cc:92-187, 296, eventloop.cc:184-221: without a reset, and
\* while standard output can be written, nothing ends the program but its own
\* end: no write meets a direction that is shut, no rule waits busily, and no
\* callback throws.
THEOREM OnlyErrorsKill == Spec => []DiesOnlyOfAnError
<1>1. IInv => DiesOnlyOfAnError
  BY DEF IInv, Smooth, Good, Sound, DiesOnlyOfAnError
<1> QED BY <1>1, Invariant, PTL

\* tcp_minnow_socket.cc:220-229, 288-306, bidirectional_stream_copy.cc:
\* a program that comes to its end has passed on every byte, both ways, and the
\* end of both.
THEOREM EndIsClean == Spec => []CleanEnd
<1>1. IInv => CleanEnd
  <2> SUFFICES ASSUME IInv, main = "succeeded", Undisturbed
               PROVE  /\ s.tcp.outbound.popped = s.input.typed
                      /\ s.tcp.fin /\ s.tcp.in_flight = 0
                      /\ s.output.bytes = Sent /\ s.copy.output_closed
    BY DEF CleanEnd
  <2>1. Smooth /\ Good(s) /\ WayOut(s) /\ WayIn(s)
    BY DEF IInv, Smooth, Good, Sound
  <2>2. TcpDone(s) /\ CopyDone(s)
    BY <2>1 DEF Smooth, TcpGoesWell, CopyGoesWell
  <2>3. /\ StreamOK(s.tcp.outbound) /\ StreamOK(s.tcp.inbound)
        /\ StreamOK(s.copy.outbound) /\ StreamOK(s.copy.inbound)
    BY DEF IInv, Base, TcpOK, CopyOK
  <2>4. /\ s.tcp.outbound.popped = s.tcp.outbound.pushed
        /\ s.copy.outbound.popped = s.copy.outbound.pushed
        /\ s.tcp.outbound.closed /\ s.copy.outbound.closed
    <3>1. ASSUME NEW a, StreamOK(a), Finished(a) PROVE a.popped = a.pushed /\ a.closed
      BY <3>1 DEF Finished, Buffered, StreamOK, StreamType
    <3>2. Finished(s.tcp.outbound) /\ Finished(s.copy.outbound)
      BY <2>2 DEF TcpDone, CopyDone
    <3> QED BY <2>3, <3>1, <3>2
  <2>5. s.tcp.outbound.popped = s.input.typed
    <3>1. s.pair.down = 0 /\ s.input.left = 0
      BY <2>1, <2>4 DEF WayOut
    <3> QED BY <2>1, <2>3, <2>4, <3>1 DEF WayOut, StreamOK, StreamType
  <2>6. /\ Finished(s.copy.inbound) /\ Finished(s.tcp.inbound) /\ s.pair.up = 0
        /\ s.tcp.inbound.pushed = Sent
    BY <2>1, <2>2 DEF TcpDone, CopyDone, WayIn, Finished
  <2>7. s.output.bytes = Sent
    BY <2>1, <2>3, <2>6 DEF WayIn, Finished, Buffered, StreamOK, StreamType
  <2> QED BY <2>2, <2>5, <2>7 DEF TcpDone, CopyDone
<1> QED BY <1>1, Invariant, PTL

\* byte_stream.cc:9: push does not ask whether the stream is closed, yet none of
\* the rules that push does so after the close, as long as nothing goes wrong
\* outside.
THEOREM ClosedStaysClosed == Spec => NothingAfterClose
<1>1. ASSUME NEW t, NEW u, Kept(t, u), NEW i \in 1 .. 4, Streams(t)[i].closed
      PROVE  Streams(u)[i].pushed = Streams(t)[i].pushed
  <2>1. i = 1 \/ i = 2 \/ i = 3 \/ i = 4
    BY <1>1
  <2> QED BY <1>1, <2>1 DEF Streams, Kept, KeptStream
<1>2. IInv /\ [Next]_vars =>
        (Undisturbed' => \A i \in 1 .. 4 : Streams(s)[i].closed =>
                            Streams(s')[i].pushed = Streams(s)[i].pushed)
  BY <1>1, NextKeeps, StutterKeeps
<1> QED BY <1>2, Invariant, PTL DEF Spec, NothingAfterClose
=============================================================================
