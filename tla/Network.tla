------------------------------ MODULE Network -------------------------------
(***************************************************************************)
(* Hosts and routers on Ethernet segments, as src/apps/endtoend.cc and     *)
(* src/tests/router.cc connect them: a NetworkInterface below the TCP      *)
(* adapter of each host, several below each Router.  Every handler runs to *)
(* its end, with the frames it sends.  A frame arrives at the interfaces   *)
(* of its segment, at each at its own time or not at all.                  *)
(***************************************************************************)
EXTENDS InterfaceState, RouterState, FiniteSets

CONSTANTS
    Interfaces,     \* their Ethernet addresses
    Hosts,          \* the interfaces that belong to hosts
    TapHosts,       \* the hosts whose interface writes to a TAP device
    Node,           \* Node[i]: the host itself, or the router that i is part of
    Lan,            \* Lan[i]: the segment that i is attached to
    Overhearing,    \* the interfaces that also get the frames for others
    Ip,             \* Ip[i]: its address
    NextHop,        \* NextHop[h]: a host's default gateway
    Routes,         \* Routes[r]: the routes a router is given
    Config,         \* Config[h]: source, destination and listening to begin with
    Packets,        \* Packets[h]: the segments h may send, as far as they matter, with a TTL
    MaxDatagrams,   \* bound: the datagrams that are sent
    MaxTicks        \* bound, MaxTicks[n]: the units of time that pass at a node

Routers == {Node[i] : i \in Interfaces \ Hosts}
Nodes == {Node[i] : i \in Interfaces}
Segment(i) == {j \in Interfaces \ {i} : Lan[j] = Lan[i]}

Endpoints == [ip : Addresses, port : Nat]
Adapters == [source : Endpoints, destination : Endpoints, listening : BOOLEAN]

\* A segment, as far as it matters here.
Segments == [SYN : BOOLEAN, reset : BOOLEAN]

Entries ==
    [route_prefix : Addresses, prefix_length : 0 .. AddressBits,
     next_hop : Addresses \union {Direct}, interface_num : Interfaces \ Hosts]

ASSUME NetworkAssumption ==
    /\ ETHERNET_BROADCAST \notin Interfaces
    /\ Hosts \subseteq Interfaces /\ TapHosts \subseteq Hosts
    /\ \A h \in Hosts : Node[h] = h
    /\ Ip \in [Interfaces -> Addresses] /\ NextHop \in [Hosts -> Addresses]
    /\ \A i, j \in Interfaces : Ip[i] = Ip[j] => i = j
    /\ Config \in [Hosts -> Adapters]
    /\ Packets \in [Hosts -> SUBSET [seg : Segments, ttl : Nat]]
    /\ Routes \in [Routers -> Seq(Entries)]
    /\ \A r \in Routers : \A k \in DOMAIN Routes[r] : Node[Routes[r][k].interface_num] = r
    /\ MaxDatagrams \in Nat
    /\ MaxTicks \in [Nodes -> Nat]

VARIABLES
    itf,             \* itf[i]: see InterfaceState
    routing_table_,  \* routing_table_[r]: see RouterState
    adapter,         \* adapter[h]: configuration and listening flag
    net,             \* the frames on their way, each with the interface it may reach
    clock,           \* the units of time that have passed at each node
    sent, handed,    \* history: the datagrams sent, and those given to a host's TCP
    asked            \* history: asked[i][hop], the time since i last asked for hop

vars == <<itf, routing_table_, adapter, net, clock, sent, handed, asked>>

\* The frame that the constructor of the TAP adapter writes.
DummyFrame == [type |-> "none", src |-> ETHERNET_BROADCAST, dst |-> ETHERNET_BROADCAST]

Copies(i, frames) ==
    {copy \in [to : Segment(i), frame : frames] :
        copy.to \in Overhearing \union {copy.frame.dst} \/ copy.frame.dst = ETHERNET_BROADCAST}

Init ==
    /\ itf = [i \in Interfaces |-> NewInterface(i, Ip[i])]
    /\ routing_table_ = [r \in Routers |-> <<>>]
    /\ adapter = Config
    /\ net = UNION {Copies(h, {DummyFrame}) : h \in TapHosts}
    /\ clock = [n \in Nodes |-> 0]
    /\ sent = <<>>
    /\ handed = [h \in Hosts |-> {}]
    /\ asked = [i \in Interfaces |-> [hop \in {} |-> 0]]

-----------------------------------------------------------------------------
\* Routers are configured before the traffic starts.

add_route(r, k) ==
    /\ sent = <<>>
    /\ \A n \in DOMAIN routing_table_[r] : routing_table_[r][n] # Routes[r][k]
    /\ routing_table_' = [routing_table_ EXCEPT ![r] = Append(@, Routes[r][k])]
    /\ UNCHANGED <<itf, adapter, net, clock, sent, handed, asked>>

\* Bound: routes are added in every order, and there is traffic for one.
Configured == routing_table_ = Routes

-----------------------------------------------------------------------------
\* send_datagram at interface i, of interfaces that are in the state itfs, and
\* beside the frames of rest.

Sends(itfs, i, dgram, hop, rest) ==
    /\ itf' = [itfs EXCEPT ![i] = InterfaceAfterSend(itfs[i], dgram, hop)]
    /\ net' = rest \union Copies(i, FramesOfSend(itfs[i], dgram, hop))
    /\ asked' = IF Asks(itfs[i], hop)
                THEN [asked EXCEPT ![i] =
                        [h \in DOMAIN @ \union {hop} |-> IF h = hop THEN 0 ELSE @[h]]]
                ELSE asked

-----------------------------------------------------------------------------
\* A host

\* write: a TCP segment in a datagram in a frame.
write(h, packet) ==
    LET dgram == [id |-> Len(sent) + 1, ttl |-> packet.ttl, seg |-> packet.seg,
                  src |-> adapter[h].source, dst |-> adapter[h].destination]
    IN  /\ Configured /\ Len(sent) < MaxDatagrams
        /\ ~adapter[h].listening
        /\ Sends(itf, h, dgram, NextHop[h], net)
        /\ sent' = Append(sent, dgram)
        /\ UNCHANGED <<routing_table_, adapter, clock, handed>>

\* Mutant: a segment from another address passes if the ports are right.
AdmitsPort(a, dgram) ==
    /\ a.listening \/ dgram.dst.ip = a.source.ip
    /\ dgram.dst.port = a.source.port
    /\ IF a.listening THEN dgram.seg.SYN /\ ~dgram.seg.reset
       ELSE dgram.src.port = a.destination.port

\* unwrap_tcp_in_ip: the datagram holds a segment of this connection, or one
\* that begins it.  A listening host takes any destination address.
Admits(a, dgram) ==
    /\ \/ a.listening
       \/ dgram.dst.ip = a.source.ip /\ dgram.src.ip = a.destination.ip
    /\ dgram.dst.port = a.source.port
    /\ IF a.listening THEN dgram.seg.SYN /\ ~dgram.seg.reset
       ELSE dgram.src.port = a.destination.port

\* The first segment that a listening host takes tells it whom to answer, and
\* from which address.
AdapterAfter(a, dgram) ==
    IF a.listening
    THEN [source |-> [ip |-> dgram.dst.ip, port |-> a.source.port],
          destination |-> dgram.src, listening |-> FALSE]
    ELSE a

\* The frame of copy is taken by interface i.
Hears(i, copy) ==
    /\ itf' = [itf EXCEPT ![i] = InterfaceAfterReceive(@, copy.frame)]
    /\ net' = (net \ {copy}) \union Copies(i, FramesOfReceive(itf[i], copy.frame))

Delivers(h, frame) == IsForUs(itf[h], frame) /\ Admits(adapter[h], frame.dgram)

\* read, when it returns a segment
receive(h, copy) ==
    /\ copy.to = h /\ Delivers(h, copy.frame)
    /\ Hears(h, copy)
    /\ adapter' = [adapter EXCEPT ![h] = AdapterAfter(@, copy.frame.dgram)]
    /\ handed' = [handed EXCEPT ![h] = @ \union {copy.frame.dgram}]
    /\ UNCHANGED <<routing_table_, clock, sent, asked>>

\* read, when it returns nothing
receive_nothing(h, copy) ==
    /\ copy.to = h /\ ~Delivers(h, copy.frame)
    /\ Hears(h, copy)
    /\ UNCHANGED <<routing_table_, adapter, clock, sent, handed, asked>>

-----------------------------------------------------------------------------
\* A router: its network thread gives each frame to the interface and calls
\* route(), so the interface holds at most one datagram when route takes one.

Decremented(dgram) == [dgram EXCEPT !.ttl = @ - 1]

Route(r, dst) == routing_table_[r][MatchEntry(routing_table_[r], dst)]

Forwards(r, dgram) == dgram.ttl > 1 /\ MatchEntry(routing_table_[r], dgram.dst.ip) > 0

forward(i, copy) ==
    LET dgram == copy.frame.dgram
        table == routing_table_[Node[i]]
    IN  /\ IsForUs(itf[i], copy.frame) /\ dgram.ttl > 1
        /\ \E k \in DOMAIN table :
             /\ k = MatchEntry(table, dgram.dst.ip)
             /\ Sends(itf, table[k].interface_num, Decremented(dgram),
                      HopOf(table[k], dgram.dst.ip), net \ {copy})
        /\ UNCHANGED <<routing_table_, adapter, clock, sent, handed>>

\* The TTL has run out, or no route matches.
drop(i, copy) ==
    /\ IsForUs(itf[i], copy.frame) /\ ~Forwards(Node[i], copy.frame.dgram)
    /\ net' = net \ {copy}
    /\ UNCHANGED <<itf, routing_table_, adapter, clock, sent, handed, asked>>

hear(i, copy) ==
    /\ ~IsForUs(itf[i], copy.frame)
    /\ Hears(i, copy)
    /\ UNCHANGED <<routing_table_, adapter, clock, sent, handed, asked>>

-----------------------------------------------------------------------------
\* Time.  Every loop ticks after each event and after ten milliseconds without
\* one; counted in units of the ages, most ticks change nothing.  A router
\* ticks all its interfaces.

tick(n) ==
    /\ clock[n] < MaxTicks[n]
    /\ clock' = [clock EXCEPT ![n] = @ + 1]
    /\ itf' = [i \in Interfaces |->
                 IF Node[i] = n THEN InterfaceAfterTick(itf[i], 1) ELSE itf[i]]
    /\ asked' = [i \in Interfaces |->
                   IF Node[i] = n THEN [hop \in DOMAIN asked[i] |-> asked[i][hop] + 1]
                   ELSE asked[i]]
    /\ UNCHANGED <<routing_table_, adapter, net, sent, handed>>

Next ==
    \/ \E r \in Routers : \E k \in DOMAIN Routes[r] : add_route(r, k)
    \/ \E h \in Hosts : \E packet \in Packets[h] : write(h, packet)
    \/ \E copy \in net :
         \/ copy.to \in Hosts /\ (receive(copy.to, copy) \/ receive_nothing(copy.to, copy))
         \/ /\ copy.to \in Interfaces \ Hosts
            /\ forward(copy.to, copy) \/ drop(copy.to, copy) \/ hear(copy.to, copy)
    \/ \E n \in Nodes : tick(n)

Spec == Init /\ [][Next]_vars

-----------------------------------------------------------------------------
\* Properties

\* The interfaces' ARP tables and waiting datagrams, the routers' tables and
\* the adapters have the form that the code gives them.
TypeOK ==
    /\ \A i \in Interfaces :
         /\ itf[i].ethernet_address_ = i /\ itf[i].ip_address_ = Ip[i]
         /\ DOMAIN itf[i].arp_table_ \subseteq Addresses
         /\ \A hop \in DOMAIN itf[i].arp_table_ :
              /\ itf[i].arp_table_[hop].addr \in Interfaces \union {ETHERNET_BROADCAST}
              /\ itf[i].arp_table_[hop].age \in 0 .. MappingTTL
         /\ \A w \in itf[i].unknown_eth_addr_ : w.hop \in Addresses
    /\ \A copy \in net : copy.to \in Interfaces
    /\ \A h \in Hosts : adapter[h].listening \in BOOLEAN

\* The address a datagram sent by interface i goes to next.
NextHopOf(i, dgram) ==
    IF i \in Hosts THEN NextHop[i]
    ELSE HopOf(Route(Node[i], dgram.dst.ip), dgram.dst.ip)

\* j is on i's segment and has the address ip.
Owns(j, ip, i) == j \in Segment(i) /\ Ip[j] = ip

\* What a table holds is true, however old it is: a datagram is sent to the
\* interface that has the address of its next hop, or (when its request is
\* still pending as another frame comes in) to the broadcast address, never to
\* another interface.
FramesGoToTheirNextHop ==
    \A copy \in net : copy.frame.type = "IPv4" =>
        LET frame == copy.frame
        IN  \/ frame.dst = ETHERNET_BROADCAST
            \/ Owns(frame.dst, NextHopOf(frame.src, frame.dgram), frame.src)

\* A datagram waits only while the address of its next hop is not known: what
\* teaches an interface an address also sends what was waiting for it.
NothingWaitsForAKnownAddress ==
    \A i \in Interfaces : \A w \in itf[i].unknown_eth_addr_ : ~Knows(itf[i], w.hop)

\* An interface that asks for an address has not asked for it in the last five
\* seconds, whatever has expired, been learned or been sent since.
AsksAreSpaced ==
    [][\A i \in Interfaces :
         \A w \in itf'[i].unknown_eth_addr_ \ itf[i].unknown_eth_addr_ :
            w.hop \in DOMAIN asked[i] => asked[i][w.hop] >= PendingTTL]_vars

Waiting(id) ==
    {i \in Interfaces : \E w \in itf[i].unknown_eth_addr_ : w.dgram.id = id}
OnItsWay(id) ==
    {copy \in net : copy.frame.type = "IPv4" /\ copy.frame.dst = copy.to
                    /\ copy.frame.dgram.id = id}
Arrived(id) == {h \in Hosts : \E dgram \in handed[h] : dgram.id = id}

\* A datagram is never in two places: waiting in one interface, in one frame
\* that its addressee can take, or with one host's TCP.  So nobody gets it
\* twice.
OnePlaceAtATime ==
    \A id \in DOMAIN sent :
        Cardinality(Waiting(id)) + Cardinality(OnItsWay(id)) + Cardinality(Arrived(id)) <= 1

\* Interfaces of routers have only hosts for neighbours, and no host is the
\* gateway of another: every way leads through one router.
OneRouter ==
    /\ \A i \in Interfaces \ Hosts : Segment(i) \subseteq Hosts
    /\ \A h \in Hosts : \A j \in Segment(h) : Ip[j] = NextHop[h] => j \notin Hosts

\* What a host's TCP is given was sent by its one peer, to the address it
\* answers from, and has lost nothing but the time to live of the one router
\* on its way.
ArrivesAsSent ==
    \A h \in Hosts : \A dgram \in handed[h] :
        /\ ~adapter[h].listening
        /\ dgram.src = adapter[h].destination /\ dgram.dst = adapter[h].source
        /\ dgram = Decremented(sent[dgram.id])

-----------------------------------------------------------------------------
\* Longest prefix match

Bit(n, k) == (n \div PowerOfTwo[k]) % 2

\* The high-order bits of the address are those of the route.
Agrees(entry, dst) ==
    \A k \in AddressBits - entry.prefix_length .. AddressBits - 1 :
        Bit(entry.route_prefix, k) = Bit(dst, k)

\* No bits of the route's prefix lie below its length.
Normal(entry) ==
    \A k \in 0 .. AddressBits - entry.prefix_length - 1 : Bit(entry.route_prefix, k) = 0

\* With its routes added in any order, a router picks for every address the
\* first of the longest routes whose high-order bits are those of the address,
\* none if there is none.  Nothing is said of an address that agrees with a
\* route that has bits below its length: router.cc:8-10 makes such a route
\* applicable, and the comparison of route() never finds it.  (Once there is
\* traffic the tables do not change.)
PicksTheLongestPrefix ==
    sent = <<>> => \A r \in Routers, dst \in Addresses :
        LET table    == routing_table_[r]
            agreeing == {k \in DOMAIN table : Agrees(table[k], dst)}
            m        == MatchEntry(table, dst)
        IN  (\A k \in agreeing : Normal(table[k])) =>
              IF agreeing = {} THEN m = 0
              ELSE /\ m \in agreeing
                   /\ \A k \in agreeing \ {m} :
                        \/ table[k].prefix_length < table[m].prefix_length
                        \/ table[k].prefix_length = table[m].prefix_length /\ m < k
=============================================================================
