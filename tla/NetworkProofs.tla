--------------------------- MODULE NetworkProofs ----------------------------
(***************************************************************************)
(* What Network promises, for any hosts, routers, routes and segments: the *)
(* ARP tables are well formed and true, nothing waits for an address that  *)
(* is known, no address is asked for twice in five seconds, a router picks *)
(* the longest prefix that matches, a datagram is never in two places, and *)
(* it arrives as it was sent.                                              *)
(***************************************************************************)
EXTENDS Network, TLAPS, FiniteSetTheorems, WellFoundedInduction

-----------------------------------------------------------------------------
\* Types

Stations == Interfaces \union {ETHERNET_BROADCAST}
TablesOf(V) == UNION {[S -> V] : S \in SUBSET Addresses}
Mappings == [addr : Stations, age : 0 .. MappingTTL]

Datagrams == [id : Nat, ttl : Nat, seg : Segments, src : Endpoints, dst : Endpoints]
Waits == [hop : Addresses, dgram : Datagrams]

InterfaceRecords ==
    [ethernet_address_ : Interfaces, ip_address_ : Addresses,
     arp_table_ : TablesOf(Mappings), unknown_eth_addr_ : SUBSET Waits]

IPv4Frames == [type : {"IPv4"}, src : Interfaces, dst : Stations, dgram : Datagrams]
ArpFrames ==
    [type : {"ARP"}, src : Interfaces, dst : Stations, opcode : {"REQUEST", "REPLY"},
     sender_ip_address : Addresses, target_ip_address : Addresses]
Frames == IPv4Frames \union ArpFrames \union {DummyFrame}

\* An ARP message tells its sender's own address.
Truthful(frame) == frame.type = "ARP" => frame.sender_ip_address = Ip[frame.src]

\* What interface i may put on its segment.
FramesFrom(i) == {frame \in IPv4Frames \union ArpFrames : frame.src = i /\ Truthful(frame)}

CopyOK(copy) ==
    /\ copy.to \in Interfaces
    /\ \/ copy.frame = DummyFrame
       \/ \E i \in Interfaces : copy.frame \in FramesFrom(i) /\ i \in Segment(copy.to)

InterfaceOK(i, f) ==
    f \in InterfaceRecords /\ f.ethernet_address_ = i /\ f.ip_address_ = Ip[i]

\* The type of the state, with what frames and interfaces owe to each other.
StateOK ==
    /\ itf \in [Interfaces -> InterfaceRecords]
    /\ \A i \in Interfaces : InterfaceOK(i, itf[i])
    /\ \A copy \in net : CopyOK(copy)
    /\ routing_table_ \in [Routers -> Seq(Entries)]
    /\ \A r \in Routers : \A k \in DOMAIN routing_table_[r] :
         Node[routing_table_[r][k].interface_num] = r
    /\ adapter \in [Hosts -> Adapters]
    /\ sent \in Seq(Datagrams)
    /\ asked \in [Interfaces -> TablesOf(Nat)]

-----------------------------------------------------------------------------
\* Tables

LEMMA TableIs ==
    ASSUME NEW V, NEW T \in TablesOf(V)
    PROVE  /\ DOMAIN T \subseteq Addresses
           /\ \A hop \in DOMAIN T : T[hop] \in V
  BY DEF TablesOf

LEMMA TableOf ==
    ASSUME NEW V, NEW S \in SUBSET Addresses, NEW T \in [S -> V]
    PROVE  T \in TablesOf(V)
  BY DEF TablesOf

LEMMA BindIsTable ==
    ASSUME NEW T \in TablesOf(Mappings), NEW hop \in Addresses, NEW addr \in Stations
    PROVE  Bind(T, hop, addr) \in TablesOf(Mappings)
  <1> DEFINE B == Bind(T, hop, addr)  S == DOMAIN T \union {hop}
  <1>1. S \in SUBSET Addresses /\ \A h \in DOMAIN T : T[h] \in Mappings
    BY TableIs
  <1>2. [addr |-> addr, age |-> 0] \in Mappings
    BY AgesAssumption DEF Mappings
  <1>3. B \in [S -> Mappings]
    BY <1>1, <1>2 DEF Bind
  <1> QED
    BY <1>1, <1>3, TableOf

\* The frames of interface i go to the other interfaces of its segment.
LEMMA CopiesAreOK ==
    ASSUME NEW i \in Interfaces, NEW frames \in SUBSET FramesFrom(i)
    PROVE  \A copy \in Copies(i, frames) : CopyOK(copy) /\ copy.frame \in frames
  <1> SUFFICES ASSUME NEW copy \in Copies(i, frames)
               PROVE  CopyOK(copy) /\ copy.frame \in frames
    OBVIOUS
  <1>1. copy.to \in Segment(i) /\ copy.frame \in frames
    BY DEF Copies
  <1>2. copy.to \in Interfaces /\ i \in Segment(copy.to)
    BY <1>1 DEF Segment
  <1> QED
    BY <1>1, <1>2 DEF CopyOK

-----------------------------------------------------------------------------
\* The methods of an interface

LEMMA SendIsOK ==
    ASSUME NEW i \in Interfaces, NEW f, InterfaceOK(i, f),
           NEW dgram \in Datagrams, NEW hop \in Addresses
    PROVE  /\ InterfaceOK(i, InterfaceAfterSend(f, dgram, hop))
           /\ FramesOfSend(f, dgram, hop) \in SUBSET FramesFrom(i)
  <1>1. f \in InterfaceRecords /\ f.ethernet_address_ = i /\ f.ip_address_ = Ip[i]
    BY DEF InterfaceOK
  <1>2. f.arp_table_ \in TablesOf(Mappings) /\ f.unknown_eth_addr_ \in SUBSET Waits
    BY <1>1 DEF InterfaceRecords
  <1>3. Bind(f.arp_table_, hop, ETHERNET_BROADCAST) \in TablesOf(Mappings)
    BY <1>2, BindIsTable DEF Stations
  <1>4. [hop |-> hop, dgram |-> dgram] \in Waits
    BY DEF Waits
  <1>5. InterfaceOK(i, InterfaceAfterSend(f, dgram, hop))
    BY <1>1, <1>2, <1>3, <1>4 DEF InterfaceAfterSend, InterfaceOK, InterfaceRecords
  <1>6. ASSUME Knows(f, hop)
        PROVE  IPv4Frame(f.ethernet_address_, f.arp_table_[hop].addr, dgram) \in FramesFrom(i)
    <2>1. f.arp_table_[hop] \in Mappings
      BY <1>2, <1>6, TableIs DEF Knows, HasEntry
    <2> QED
      BY <1>1, <2>1 DEF IPv4Frame, FramesFrom, IPv4Frames, Truthful, Mappings
  <1>7. arp_request(f, hop) \in FramesFrom(i)
    BY <1>1, NetworkAssumption
       DEF arp_request, ArpFrame, FramesFrom, ArpFrames, Truthful, Stations
  <1> QED
    BY <1>5, <1>6, <1>7 DEF FramesOfSend

LEMMA LearnIsOK ==
    ASSUME NEW i \in Interfaces, NEW f, InterfaceOK(i, f),
           NEW frame \in Frames
    PROVE  /\ InterfaceOK(i, Learn(f, frame))
           /\ Learn(f, frame).unknown_eth_addr_ = f.unknown_eth_addr_
           /\ \/ Learn(f, frame) = f
              \/ /\ frame \in ArpFrames
                 /\ Learn(f, frame).arp_table_ =
                        Bind(f.arp_table_, frame.sender_ip_address, frame.src)
  <1>1. CASE frame.type = "ARP"
    <2>1. frame \in ArpFrames
      BY <1>1 DEF Frames, IPv4Frames, DummyFrame
    <2>2. frame.sender_ip_address \in Addresses /\ frame.src \in Stations
      BY <2>1 DEF ArpFrames, Stations
    <2>3. f.arp_table_ \in TablesOf(Mappings)
      BY DEF InterfaceOK, InterfaceRecords
    <2>4. Bind(f.arp_table_, frame.sender_ip_address, frame.src) \in TablesOf(Mappings)
      BY <2>2, <2>3, BindIsTable
    <2> QED
      BY <1>1, <2>1, <2>4 DEF Learn, InterfaceOK, InterfaceRecords
  <1>2. CASE frame.type # "ARP"
    BY <1>2 DEF Learn
  <1> QED
    BY <1>1, <1>2

LEMMA ReceiveIsOK ==
    ASSUME NEW i \in Interfaces, NEW f, InterfaceOK(i, f),
           NEW frame \in Frames
    PROVE  /\ InterfaceOK(i, InterfaceAfterReceive(f, frame))
           /\ FramesOfReceive(f, frame) \in SUBSET FramesFrom(i)
  <1> DEFINE g == Learn(f, frame)
  <1> HIDE DEF g
  <1>1. InterfaceOK(i, g)
    BY LearnIsOK DEF g
  <1>2. /\ g \in InterfaceRecords /\ g.ethernet_address_ = i /\ g.ip_address_ = Ip[i]
        /\ g.arp_table_ \in TablesOf(Mappings) /\ g.unknown_eth_addr_ \in SUBSET Waits
    BY <1>1 DEF InterfaceOK, InterfaceRecords
  <1>3. InterfaceOK(i, Flush(g, frame))
    BY <1>2 DEF Flush, Flushed, InterfaceOK, InterfaceRecords
  <1>4. ASSUME AsksForUs(g, frame)
        PROVE  arp_reply(g, frame) \in FramesFrom(i)
    <2>1. frame \in ArpFrames
      BY <1>4 DEF AsksForUs, Frames, IPv4Frames, DummyFrame
    <2> QED
      BY <1>2, <2>1, NetworkAssumption
         DEF arp_reply, ArpFrame, FramesFrom, ArpFrames, Truthful, Stations
  <1>5. ASSUME NEW w \in Flushed(g, frame)
        PROVE  IPv4Frame(g.ethernet_address_, g.arp_table_[w.hop].addr, w.dgram)
                 \in FramesFrom(i)
    <2>1. w \in Waits /\ w.hop \in DOMAIN g.arp_table_
      BY <1>2, <1>5 DEF Flushed, HasEntry
    <2>2. g.arp_table_[w.hop] \in Mappings
      BY <1>2, <2>1, TableIs
    <2> QED
      BY <1>2, <2>1, <2>2 DEF IPv4Frame, FramesFrom, IPv4Frames, Truthful, Mappings, Waits
  <1>6. FramesOfReceive(f, frame) \in SUBSET FramesFrom(i)
    BY <1>4, <1>5 DEF FramesOfReceive, Replies, g
  <1> QED
    BY <1>3, <1>6 DEF InterfaceAfterReceive, g

LEMMA TickIsOK ==
    ASSUME NEW i \in Interfaces, NEW f, InterfaceOK(i, f)
    PROVE  /\ InterfaceOK(i, InterfaceAfterTick(f, 1))
           /\ InterfaceAfterTick(f, 1).unknown_eth_addr_ = f.unknown_eth_addr_
           /\ DOMAIN InterfaceAfterTick(f, 1).arp_table_ =
                 {hop \in DOMAIN f.arp_table_ : f.arp_table_[hop].age + 1 <= MappingTTL}
           /\ \A hop \in DOMAIN InterfaceAfterTick(f, 1).arp_table_ :
                /\ InterfaceAfterTick(f, 1).arp_table_[hop].addr = f.arp_table_[hop].addr
                /\ InterfaceAfterTick(f, 1).arp_table_[hop].age = f.arp_table_[hop].age + 1
  <1> DEFINE kept == {hop \in DOMAIN f.arp_table_ : f.arp_table_[hop].age + 1 <= MappingTTL}
             T    == [hop \in kept |-> [f.arp_table_[hop] EXCEPT !.age = @ + 1]]
  <1>1. /\ DOMAIN f.arp_table_ \subseteq Addresses
        /\ \A hop \in DOMAIN f.arp_table_ : f.arp_table_[hop] \in Mappings
    BY TableIs DEF InterfaceOK, InterfaceRecords
  <1>2. \A hop \in kept :
          /\ T[hop] \in Mappings
          /\ T[hop].addr = f.arp_table_[hop].addr
          /\ T[hop].age = f.arp_table_[hop].age + 1
    BY <1>1, AgesAssumption DEF Mappings
  <1>3. T \in [kept -> Mappings] /\ kept \in SUBSET Addresses
    BY <1>1, <1>2
  <1>4. T \in TablesOf(Mappings)
    BY <1>3, TableOf
  <1>5. InterfaceAfterTick(f, 1) = [f EXCEPT !.arp_table_ = T]
    BY DEF InterfaceAfterTick
  <1>6. InterfaceOK(i, [f EXCEPT !.arp_table_ = T])
    BY <1>4 DEF InterfaceOK, InterfaceRecords
  <1>7. /\ [f EXCEPT !.arp_table_ = T].arp_table_ = T
        /\ [f EXCEPT !.arp_table_ = T].unknown_eth_addr_ = f.unknown_eth_addr_
    BY DEF InterfaceOK, InterfaceRecords
  <1> HIDE DEF T
  <1>8. DOMAIN T = kept
    BY <1>3
  <1> HIDE DEF kept
  <1>9. /\ InterfaceOK(i, InterfaceAfterTick(f, 1))
        /\ InterfaceAfterTick(f, 1).unknown_eth_addr_ = f.unknown_eth_addr_
        /\ InterfaceAfterTick(f, 1).arp_table_ = T
    BY <1>5, <1>6, <1>7
  <1> QED
    BY <1>2, <1>8, <1>9 DEF kept

-----------------------------------------------------------------------------
\* Type correctness

LEMMA SendsIsOK ==
    ASSUME StateOK, NEW i \in Interfaces, NEW dgram \in Datagrams, NEW hop \in Addresses,
           NEW rest \in SUBSET net, Sends(itf, i, dgram, hop, rest)
    PROVE  /\ itf' \in [Interfaces -> InterfaceRecords]
           /\ \A j \in Interfaces : InterfaceOK(j, itf'[j])
           /\ \A copy \in net' : CopyOK(copy)
           /\ asked' \in [Interfaces -> TablesOf(Nat)]
  <1>1. /\ InterfaceOK(i, InterfaceAfterSend(itf[i], dgram, hop))
        /\ FramesOfSend(itf[i], dgram, hop) \in SUBSET FramesFrom(i)
    BY SendIsOK DEF StateOK
  <1>2. /\ itf' \in [Interfaces -> InterfaceRecords]
        /\ \A j \in Interfaces : InterfaceOK(j, itf'[j])
    BY <1>1 DEF Sends, StateOK, InterfaceOK
  <1>3. \A copy \in net' : CopyOK(copy)
    BY <1>1, CopiesAreOK DEF Sends, StateOK
  <1>4. asked' \in [Interfaces -> TablesOf(Nat)]
    <2> DEFINE S == DOMAIN asked[i] \union {hop}
               T == [h \in S |-> IF h = hop THEN 0 ELSE asked[i][h]]
    <2>1. asked[i] \in TablesOf(Nat)
      BY DEF StateOK
    <2>2. S \in SUBSET Addresses /\ T \in [S -> Nat]
      BY <2>1, TableIs
    <2>3. T \in TablesOf(Nat)
      BY <2>2, TableOf
    <2>4. asked' = asked \/ asked' = [asked EXCEPT ![i] = T]
      BY DEF Sends
    <2> QED
      BY <2>3, <2>4 DEF StateOK
  <1> QED
    BY <1>2, <1>3, <1>4

LEMMA HearsIsOK ==
    ASSUME StateOK, NEW copy \in net, Hears(copy.to, copy)
    PROVE  /\ itf' \in [Interfaces -> InterfaceRecords]
           /\ \A j \in Interfaces : InterfaceOK(j, itf'[j])
           /\ \A c \in net' : CopyOK(c)
  <1>1. copy.to \in Interfaces /\ copy.frame \in Frames
    BY DEF StateOK, CopyOK, FramesFrom, Frames
  <1>2. /\ InterfaceOK(copy.to, InterfaceAfterReceive(itf[copy.to], copy.frame))
        /\ FramesOfReceive(itf[copy.to], copy.frame) \in SUBSET FramesFrom(copy.to)
    BY <1>1, ReceiveIsOK DEF StateOK
  <1>3. /\ itf' \in [Interfaces -> InterfaceRecords]
        /\ \A j \in Interfaces : InterfaceOK(j, itf'[j])
    BY <1>1, <1>2 DEF Hears, StateOK, InterfaceOK
  <1>4. \A c \in net' : CopyOK(c)
    BY <1>1, <1>2, CopiesAreOK DEF Hears, StateOK
  <1> QED
    BY <1>3, <1>4

\* What write and forward hand to an interface.
LEMMA WrittenIsDatagram ==
    ASSUME StateOK, NEW h \in Hosts, NEW packet \in Packets[h]
    PROVE  /\ h \in Interfaces /\ NextHop[h] \in Addresses
           /\ [id |-> Len(sent) + 1, ttl |-> packet.ttl, seg |-> packet.seg,
               src |-> adapter[h].source, dst |-> adapter[h].destination] \in Datagrams
  <1>1. packet.ttl \in Nat /\ packet.seg \in Segments
    BY NetworkAssumption
  <1>2. adapter[h].source \in Endpoints /\ adapter[h].destination \in Endpoints
    BY DEF StateOK, Adapters
  <1>3. Len(sent) + 1 \in Nat
    BY DEF StateOK
  <1> QED
    BY <1>1, <1>2, <1>3, NetworkAssumption DEF Datagrams

LEMMA ForwardedIsDatagram ==
    ASSUME StateOK, NEW copy \in net, copy.to \in Interfaces \ Hosts,
           IsForUs(itf[copy.to], copy.frame), copy.frame.dgram.ttl > 1,
           NEW k \in DOMAIN routing_table_[Node[copy.to]]
    PROVE  LET dgram == copy.frame.dgram
               entry == routing_table_[Node[copy.to]][k]
           IN  /\ dgram \in Datagrams /\ Decremented(dgram) \in Datagrams
               /\ Decremented(dgram).dst = dgram.dst
               /\ entry \in Entries
               /\ entry.interface_num \in Interfaces \ Hosts
               /\ Node[entry.interface_num] = Node[copy.to]
               /\ HopOf(entry, dgram.dst.ip) \in Addresses
  <1> DEFINE dgram == copy.frame.dgram  entry == routing_table_[Node[copy.to]][k]
  <1>1. copy.frame \in IPv4Frames
    BY DEF IsForUs, StateOK, CopyOK, FramesFrom, ArpFrames, DummyFrame
  <1>2. dgram \in Datagrams
    BY <1>1 DEF IPv4Frames
  <1>3. dgram.ttl - 1 \in Nat
    BY <1>2 DEF Datagrams
  <1>4. Decremented(dgram) \in Datagrams /\ Decremented(dgram).dst = dgram.dst
    BY <1>2, <1>3 DEF Decremented, Datagrams
  <1>5. Node[copy.to] \in Routers
    BY DEF Routers
  <1>6. routing_table_[Node[copy.to]] \in Seq(Entries)
    BY <1>5 DEF StateOK
  <1>7. entry \in Entries
    BY <1>6
  <1>8. Node[entry.interface_num] = Node[copy.to]
    BY <1>5 DEF StateOK
  <1>9. HopOf(entry, dgram.dst.ip) \in Addresses
    BY <1>2, <1>7 DEF HopOf, Entries, Datagrams, Endpoints
  <1> QED
    BY <1>2, <1>4, <1>7, <1>8, <1>9 DEF Entries

LEMMA InitIsOK == Init => StateOK
  <1> SUFFICES ASSUME Init PROVE StateOK
    OBVIOUS
  <1>1. \A V : [hop \in {} |-> 0] \in TablesOf(V)
    <2> SUFFICES ASSUME NEW V PROVE [hop \in {} |-> 0] \in TablesOf(V)
      OBVIOUS
    <2>1. [hop \in {} |-> 0] \in [{} -> V] /\ {} \in SUBSET Addresses
      OBVIOUS
    <2> QED
      BY <2>1, TableOf
  <1>2. \A i \in Interfaces : InterfaceOK(i, NewInterface(i, Ip[i]))
    <2> SUFFICES ASSUME NEW i \in Interfaces PROVE InterfaceOK(i, NewInterface(i, Ip[i]))
      OBVIOUS
    <2>1. [hop \in {} |-> [addr |-> i, age |-> 0]] \in [{} -> Mappings]
      OBVIOUS
    <2>2. [hop \in {} |-> [addr |-> i, age |-> 0]] \in TablesOf(Mappings)
      BY <2>1, TableOf
    <2>3. Ip[i] \in Addresses
      BY NetworkAssumption
    <2> QED
      BY <2>2, <2>3 DEF NewInterface, InterfaceOK, InterfaceRecords
  <1>3. /\ itf \in [Interfaces -> InterfaceRecords]
        /\ \A i \in Interfaces : InterfaceOK(i, itf[i])
    BY <1>2 DEF Init, InterfaceOK
  <1>4. \A copy \in net : CopyOK(copy)
    BY NetworkAssumption DEF Init, Copies, Segment, CopyOK
  <1>5. asked \in [Interfaces -> TablesOf(Nat)]
    BY <1>1 DEF Init
  <1>6. /\ routing_table_ \in [Routers -> Seq(Entries)]
        /\ \A r \in Routers : \A k \in DOMAIN routing_table_[r] :
             Node[routing_table_[r][k].interface_num] = r
    BY DEF Init
  <1>7. adapter \in [Hosts -> Adapters] /\ sent \in Seq(Datagrams)
    BY NetworkAssumption DEF Init
  <1> QED
    BY <1>3, <1>4, <1>5, <1>6, <1>7 DEF StateOK

LEMMA StateIsOK == Init /\ [][Next]_vars => []StateOK
  <1>1. Init => StateOK
    BY InitIsOK
  <1>2. StateOK /\ [Next]_vars => StateOK'
    <2> SUFFICES ASSUME StateOK, [Next]_vars PROVE StateOK'
      OBVIOUS
    <2>1. ASSUME NEW r \in Routers, NEW k \in DOMAIN Routes[r], add_route(r, k)
          PROVE  StateOK'
      <3>1. Routes[r][k] \in Entries /\ Node[Routes[r][k].interface_num] = r
        BY <2>1, NetworkAssumption
      <3>2. routing_table_[r] \in Seq(Entries)
        BY DEF StateOK
      <3>3. routing_table_' \in [Routers -> Seq(Entries)]
        BY <2>1, <3>1, <3>2 DEF add_route, StateOK
      <3>4. ASSUME NEW q \in Routers, NEW n \in DOMAIN routing_table_'[q]
            PROVE  Node[routing_table_'[q][n].interface_num] = q
        <4>1. CASE q = r
          BY <2>1, <3>1, <3>2, <3>4, <4>1 DEF add_route, StateOK
        <4>2. CASE q # r
          BY <2>1, <3>4, <4>2 DEF add_route, StateOK
        <4> QED
          BY <4>1, <4>2
      <3> QED
        BY <2>1, <3>3, <3>4 DEF add_route, StateOK
    <2>2. ASSUME NEW h \in Hosts, NEW packet \in Packets[h], write(h, packet)
          PROVE  StateOK'
      <3> DEFINE dgram == [id |-> Len(sent) + 1, ttl |-> packet.ttl, seg |-> packet.seg,
                           src |-> adapter[h].source, dst |-> adapter[h].destination]
      <3>1. h \in Interfaces /\ NextHop[h] \in Addresses /\ dgram \in Datagrams
        BY WrittenIsDatagram
      <3>2. /\ Sends(itf, h, dgram, NextHop[h], net) /\ sent' = Append(sent, dgram)
            /\ UNCHANGED <<routing_table_, adapter>>
        BY <2>2 DEF write
      <3> HIDE DEF dgram
      <3>3. sent' \in Seq(Datagrams)
        BY <3>1, <3>2 DEF StateOK
      <3> QED
        BY <3>1, <3>2, <3>3, SendsIsOK DEF StateOK
    <2>3. ASSUME NEW copy \in net, copy.to \in Hosts, receive(copy.to, copy)
          PROVE  StateOK'
      <3>1. AdapterAfter(adapter[copy.to], copy.frame.dgram) \in Adapters
        <4>1. copy.frame \in IPv4Frames
          BY <2>3 DEF receive, Delivers, IsForUs, StateOK, CopyOK, FramesFrom, ArpFrames,
                      DummyFrame
        <4> QED
          BY <2>3, <4>1
             DEF AdapterAfter, Adapters, Endpoints, IPv4Frames, Datagrams, StateOK
      <3>2. adapter' \in [Hosts -> Adapters]
        BY <2>3, <3>1 DEF receive, StateOK
      <3> QED
        BY <2>3, <3>2, HearsIsOK DEF receive, StateOK
    <2>4. ASSUME NEW copy \in net, receive_nothing(copy.to, copy)
          PROVE  StateOK'
      BY <2>4, HearsIsOK DEF receive_nothing, StateOK
    <2>5. ASSUME NEW copy \in net, copy.to \in Interfaces \ Hosts, forward(copy.to, copy)
          PROVE  StateOK'
      <3> DEFINE dgram == copy.frame.dgram  table == routing_table_[Node[copy.to]]
      <3>1. PICK k \in DOMAIN table :
               Sends(itf, table[k].interface_num, Decremented(dgram),
                     HopOf(table[k], dgram.dst.ip), net \ {copy})
        BY <2>5 DEF forward
      <3>2. /\ Decremented(dgram) \in Datagrams
            /\ table[k].interface_num \in Interfaces
            /\ HopOf(table[k], dgram.dst.ip) \in Addresses
        BY <2>5, ForwardedIsDatagram DEF forward
      <3>3. /\ itf' \in [Interfaces -> InterfaceRecords]
            /\ \A j \in Interfaces : InterfaceOK(j, itf'[j])
            /\ \A c \in net' : CopyOK(c)
            /\ asked' \in [Interfaces -> TablesOf(Nat)]
        BY <3>1, <3>2, SendsIsOK
      <3> QED
        BY <2>5, <3>3 DEF forward, StateOK
    <2>6. ASSUME NEW copy \in net, drop(copy.to, copy)
          PROVE  StateOK'
      BY <2>6 DEF drop, StateOK
    <2>7. ASSUME NEW copy \in net, hear(copy.to, copy)
          PROVE  StateOK'
      BY <2>7, HearsIsOK DEF hear, StateOK
    <2>8. ASSUME NEW n \in Nodes, tick(n)
          PROVE  StateOK'
      <3>1. \A i \in Interfaces : InterfaceOK(i, InterfaceAfterTick(itf[i], 1))
        BY TickIsOK DEF StateOK
      <3>2. /\ itf' \in [Interfaces -> InterfaceRecords]
            /\ \A i \in Interfaces : InterfaceOK(i, itf'[i])
        BY <2>8, <3>1 DEF tick, StateOK, InterfaceOK
      <3>3. ASSUME NEW i \in Interfaces
            PROVE  [hop \in DOMAIN asked[i] |-> asked[i][hop] + 1] \in TablesOf(Nat)
        <4>1. asked[i] \in TablesOf(Nat)
          BY DEF StateOK
        <4>2. /\ DOMAIN asked[i] \in SUBSET Addresses
              /\ [hop \in DOMAIN asked[i] |-> asked[i][hop] + 1] \in [DOMAIN asked[i] -> Nat]
          BY <4>1, TableIs
        <4> QED
          BY <4>2, TableOf
      <3>4. asked' \in [Interfaces -> TablesOf(Nat)]
        BY <2>8, <3>3 DEF tick, StateOK
      <3> QED
        BY <2>8, <3>2, <3>4 DEF tick, StateOK
    <2>9. CASE UNCHANGED vars
      BY <2>9 DEF vars, StateOK
    <2> QED
      BY <2>1, <2>2, <2>3, <2>4, <2>5, <2>6, <2>7, <2>8, <2>9 DEF Next
  <1> QED
    BY <1>1, <1>2, PTL

LEMMA StateIsTyped == StateOK => TypeOK
  <1> SUFFICES ASSUME StateOK PROVE TypeOK
    OBVIOUS
  <1>1. ASSUME NEW i \in Interfaces
        PROVE  /\ itf[i].ethernet_address_ = i /\ itf[i].ip_address_ = Ip[i]
               /\ DOMAIN itf[i].arp_table_ \subseteq Addresses
               /\ \A hop \in DOMAIN itf[i].arp_table_ : itf[i].arp_table_[hop] \in Mappings
               /\ itf[i].unknown_eth_addr_ \in SUBSET Waits
    <2>1. /\ InterfaceOK(i, itf[i]) /\ itf[i].arp_table_ \in TablesOf(Mappings)
          /\ itf[i].unknown_eth_addr_ \in SUBSET Waits
      BY DEF StateOK, InterfaceOK, InterfaceRecords
    <2> QED
      BY <2>1, TableIs DEF InterfaceOK
  <1>2. \A copy \in net : copy.to \in Interfaces
    BY DEF StateOK, CopyOK
  <1>3. \A h \in Hosts : adapter[h].listening \in BOOLEAN
    BY DEF StateOK, Adapters
  <1> QED
    BY <1>1, <1>2, <1>3 DEF TypeOK, Mappings, Stations, Waits

\* Whatever frames are exchanged, every interface keeps its own addresses, a
\* table of addresses with ages up to thirty seconds (network_interface.cc),
\* and every adapter a flag.
THEOREM TypeIsOK == Spec => []TypeOK
  BY StateIsOK, StateIsTyped, PTL DEF Spec

-----------------------------------------------------------------------------
\* Nothing waits for an address that is known

NoneKnown(f) == \A w \in f.unknown_eth_addr_ : ~Knows(f, w.hop)

LEMMA SendKeepsNoneKnown ==
    ASSUME NEW i \in Interfaces, NEW f, InterfaceOK(i, f), NoneKnown(f),
           NEW dgram \in Datagrams, NEW hop \in Addresses
    PROVE  NoneKnown(InterfaceAfterSend(f, dgram, hop))
  <1> DEFINE g == InterfaceAfterSend(f, dgram, hop)
             B == Bind(f.arp_table_, hop, ETHERNET_BROADCAST)
  <1>1. CASE Asks(f, hop)
    <2>1. f.arp_table_ \in TablesOf(Mappings) /\ f \in InterfaceRecords
      BY DEF InterfaceOK, InterfaceRecords
    <2>2. /\ g.arp_table_ = B
          /\ g.unknown_eth_addr_ = f.unknown_eth_addr_ \union {[hop |-> hop, dgram |-> dgram]}
      BY <1>1, <2>1 DEF InterfaceAfterSend, InterfaceRecords
    <2>3. /\ DOMAIN B = DOMAIN f.arp_table_ \union {hop}
          /\ B[hop].addr = ETHERNET_BROADCAST
          /\ \A h \in DOMAIN f.arp_table_ : h # hop => B[h] = f.arp_table_[h]
      BY DEF Bind
    <2> SUFFICES ASSUME NEW w \in g.unknown_eth_addr_
                 PROVE  ~Knows(g, w.hop)
      BY DEF NoneKnown
    <2>4. CASE w.hop = hop
      BY <2>2, <2>3, <2>4 DEF Knows
    <2>5. CASE w.hop # hop
      BY <2>2, <2>3, <2>5 DEF Knows, HasEntry, NoneKnown
    <2> QED
      BY <2>4, <2>5
  <1>2. CASE ~Asks(f, hop)
    BY <1>2 DEF InterfaceAfterSend
  <1> QED
    BY <1>1, <1>2

LEMMA ReceiveKeepsNoneKnown ==
    ASSUME NEW i \in Interfaces, NEW f, InterfaceOK(i, f), NoneKnown(f),
           NEW frame \in Frames
    PROVE  NoneKnown(InterfaceAfterReceive(f, frame))
  <1>1. Learn(f, frame) \in InterfaceRecords
    BY LearnIsOK DEF InterfaceOK
  <1>2. /\ Flush(Learn(f, frame), frame).arp_table_ = Learn(f, frame).arp_table_
        /\ \A w \in Flush(Learn(f, frame), frame).unknown_eth_addr_ :
             w.hop \notin DOMAIN Learn(f, frame).arp_table_
    BY <1>1 DEF Flush, Flushed, HasEntry, InterfaceRecords
  <1> QED
    BY <1>2 DEF InterfaceAfterReceive, NoneKnown, Knows, HasEntry

LEMMA TickKeepsNoneKnown ==
    ASSUME NEW i \in Interfaces, NEW f, InterfaceOK(i, f), NoneKnown(f)
    PROVE  NoneKnown(InterfaceAfterTick(f, 1))
  <1> DEFINE g == InterfaceAfterTick(f, 1)
  <1>1. /\ g.unknown_eth_addr_ = f.unknown_eth_addr_
        /\ DOMAIN g.arp_table_ \subseteq DOMAIN f.arp_table_
        /\ \A hop \in DOMAIN g.arp_table_ : g.arp_table_[hop].addr = f.arp_table_[hop].addr
    BY TickIsOK
  <1> HIDE DEF g
  <1>2. NoneKnown(g)
    BY <1>1 DEF NoneKnown, Knows, HasEntry
  <1> QED
    BY <1>2 DEF g

\* recv_frame sends what was waiting for an address in the call that learns it
\* (network_interface.cc), so no order of requests, replies, frames for others
\* and expired entries leaves a datagram behind.
THEOREM NobodyWaitsInVain == Spec => []NothingWaitsForAKnownAddress
  <1> DEFINE Inv == \A i \in Interfaces : NoneKnown(itf[i])
  <1>1. Init => Inv
    BY DEF Init, NewInterface, NoneKnown
  <1>2. StateOK /\ Inv /\ [Next]_vars => Inv'
    <2> SUFFICES ASSUME StateOK, Inv, [Next]_vars PROVE Inv'
      OBVIOUS
    <2>1. ASSUME NEW i \in Interfaces, NEW dgram \in Datagrams, NEW hop \in Addresses,
                 NEW rest, Sends(itf, i, dgram, hop, rest)
          PROVE  Inv'
      <3>1. NoneKnown(InterfaceAfterSend(itf[i], dgram, hop))
        BY SendKeepsNoneKnown DEF StateOK
      <3> QED
        BY <2>1, <3>1 DEF Sends, StateOK
    <2>2. ASSUME NEW copy \in net, Hears(copy.to, copy)
          PROVE  Inv'
      <3>1. copy.to \in Interfaces /\ copy.frame \in Frames
        BY DEF StateOK, CopyOK, FramesFrom, Frames
      <3>2. NoneKnown(InterfaceAfterReceive(itf[copy.to], copy.frame))
        BY <3>1, ReceiveKeepsNoneKnown DEF StateOK
      <3> QED
        BY <2>2, <3>1, <3>2 DEF Hears, StateOK
    <2>3. ASSUME NEW r \in Routers, NEW k \in DOMAIN Routes[r], add_route(r, k)
          PROVE  Inv'
      BY <2>3 DEF add_route
    <2>4. ASSUME NEW h \in Hosts, NEW packet \in Packets[h], write(h, packet)
          PROVE  Inv'
      BY <2>1, <2>4, WrittenIsDatagram DEF write
    <2>5. ASSUME NEW copy \in net,
                 \/ receive(copy.to, copy) \/ receive_nothing(copy.to, copy)
                 \/ hear(copy.to, copy)
          PROVE  Inv'
      BY <2>2, <2>5 DEF receive, receive_nothing, hear
    <2>6. ASSUME NEW copy \in net, copy.to \in Interfaces \ Hosts, forward(copy.to, copy)
          PROVE  Inv'
      <3> DEFINE dgram == copy.frame.dgram  table == routing_table_[Node[copy.to]]
      <3>1. PICK k \in DOMAIN table :
               Sends(itf, table[k].interface_num, Decremented(dgram),
                     HopOf(table[k], dgram.dst.ip), net \ {copy})
        BY <2>6 DEF forward
      <3>2. /\ Decremented(dgram) \in Datagrams
            /\ table[k].interface_num \in Interfaces
            /\ HopOf(table[k], dgram.dst.ip) \in Addresses
        BY <2>6, ForwardedIsDatagram DEF forward
      <3> QED
        BY <2>1, <3>1, <3>2
    <2>7. ASSUME NEW copy \in net, drop(copy.to, copy)
          PROVE  Inv'
      BY <2>7 DEF drop
    <2>8. ASSUME NEW n \in Nodes, tick(n)
          PROVE  Inv'
      BY <2>8, TickKeepsNoneKnown DEF tick, StateOK
    <2>9. CASE UNCHANGED vars
      BY <2>9 DEF vars
    <2> QED
      BY <2>3, <2>4, <2>5, <2>6, <2>7, <2>8, <2>9 DEF Next
  <1>3. Inv => NothingWaitsForAKnownAddress
    BY DEF NothingWaitsForAKnownAddress, NoneKnown
  <1> QED
    BY <1>1, <1>2, <1>3, StateIsOK, PTL DEF Spec

-----------------------------------------------------------------------------
\* No address is asked for twice in five seconds

\* What was asked for lately is in the table: with a request that is as old as
\* the question, or with an answer that is younger.
Remembers(f, ask) ==
    \A hop \in DOMAIN ask : ask[hop] < PendingTTL =>
        /\ HasEntry(f, hop)
        /\ f.arp_table_[hop].age <= ask[hop]
        /\ f.arp_table_[hop].addr = ETHERNET_BROADCAST => f.arp_table_[hop].age = ask[hop]

LEMMA AskingIsRemembered ==
    ASSUME NEW i \in Interfaces, NEW f, InterfaceOK(i, f),
           NEW ask \in TablesOf(Nat), Remembers(f, ask),
           NEW dgram \in Datagrams, NEW hop \in Addresses, Asks(f, hop)
    PROVE  Remembers(InterfaceAfterSend(f, dgram, hop),
                     [h \in DOMAIN ask \union {hop} |-> IF h = hop THEN 0 ELSE ask[h]])
  <1> DEFINE g == InterfaceAfterSend(f, dgram, hop)
             B == Bind(f.arp_table_, hop, ETHERNET_BROADCAST)
             now == [h \in DOMAIN ask \union {hop} |-> IF h = hop THEN 0 ELSE ask[h]]
  <1>1. f.arp_table_ \in TablesOf(Mappings) /\ f \in InterfaceRecords
    BY DEF InterfaceOK, InterfaceRecords
  <1>2. g.arp_table_ = B
    BY <1>1 DEF InterfaceAfterSend, InterfaceRecords
  <1>3. /\ DOMAIN B = DOMAIN f.arp_table_ \union {hop}
        /\ B[hop].age = 0
        /\ \A h \in DOMAIN f.arp_table_ : h # hop => B[h] = f.arp_table_[h]
    BY DEF Bind
  <1> HIDE DEF g, B
  <1> SUFFICES ASSUME NEW h \in DOMAIN now, now[h] < PendingTTL
               PROVE  /\ HasEntry(g, h)
                      /\ g.arp_table_[h].age <= now[h]
                      /\ g.arp_table_[h].addr = ETHERNET_BROADCAST
                            => g.arp_table_[h].age = now[h]
    BY DEF Remembers, g
  <1>4. CASE h = hop
    BY <1>2, <1>3, <1>4 DEF HasEntry
  <1>5. CASE h # hop
    <2>1. h \in DOMAIN ask /\ now[h] = ask[h]
      BY <1>5
    <2>2. /\ h \in DOMAIN f.arp_table_
          /\ f.arp_table_[h].age <= ask[h]
          /\ f.arp_table_[h].addr = ETHERNET_BROADCAST => f.arp_table_[h].age = ask[h]
      BY <2>1 DEF Remembers, HasEntry
    <2> HIDE DEF now
    <2> QED
      BY <1>2, <1>3, <1>5, <2>1, <2>2 DEF HasEntry
  <1> QED
    BY <1>4, <1>5

LEMMA ReceivingIsRemembered ==
    ASSUME NEW i \in Interfaces, NEW f, InterfaceOK(i, f),
           NEW ask \in TablesOf(Nat), Remembers(f, ask), NEW frame \in Frames
    PROVE  Remembers(InterfaceAfterReceive(f, frame), ask)
  <1> DEFINE L == Learn(f, frame)  g == InterfaceAfterReceive(f, frame)
  <1>1. g = f \/ g.arp_table_ = L.arp_table_
    BY LearnIsOK DEF InterfaceAfterReceive, Flush, InterfaceOK, InterfaceRecords
  <1>2. \/ L = f
        \/ /\ frame \in ArpFrames
           /\ L.arp_table_ = Bind(f.arp_table_, frame.sender_ip_address, frame.src)
    BY LearnIsOK, Zenon
  <1>3. CASE g.arp_table_ = f.arp_table_
    BY <1>3 DEF Remembers, HasEntry
  <1>4. CASE /\ frame \in ArpFrames
             /\ g.arp_table_ = Bind(f.arp_table_, frame.sender_ip_address, frame.src)
    <2> DEFINE hop == frame.sender_ip_address  addr == frame.src
               B == Bind(f.arp_table_, hop, addr)
    <2>1. addr \in Interfaces
      BY <1>4 DEF ArpFrames
    <2> HIDE DEF hop, addr
    <2>2. B[hop].addr = addr /\ B[hop].age = 0
      BY DEF Bind
    <2>3. /\ DOMAIN B = DOMAIN f.arp_table_ \union {hop}
          /\ \A h \in DOMAIN f.arp_table_ : h # hop => B[h] = f.arp_table_[h]
      BY DEF Bind
    <2>4. \A h \in DOMAIN ask : ask[h] \in Nat
      BY TableIs
    <2> HIDE DEF B
    <2>5. B[hop].addr # ETHERNET_BROADCAST /\ B[hop].age = 0
      BY <2>1, <2>2, NetworkAssumption
    <2>6. g.arp_table_ = B
      BY <1>4 DEF B, hop, addr
    <2> HIDE DEF g
    <2> SUFFICES ASSUME NEW h \in DOMAIN ask, ask[h] < PendingTTL
                 PROVE  /\ h \in DOMAIN B
                        /\ B[h].age <= ask[h]
                        /\ B[h].addr = ETHERNET_BROADCAST => B[h].age = ask[h]
      BY <2>6 DEF Remembers, HasEntry, g
    <2>7. CASE h = hop
      BY <2>3, <2>4, <2>5, <2>7
    <2>8. CASE h # hop
      BY <2>3, <2>8 DEF Remembers, HasEntry
    <2> QED
      BY <2>7, <2>8
  <1> QED
    BY <1>1, <1>2, <1>3, <1>4

LEMMA TickIsRemembered ==
    ASSUME NEW i \in Interfaces, NEW f, InterfaceOK(i, f),
           NEW ask \in TablesOf(Nat), Remembers(f, ask)
    PROVE  Remembers(InterfaceAfterTick(f, 1), [hop \in DOMAIN ask |-> ask[hop] + 1])
  <1> DEFINE g == InterfaceAfterTick(f, 1)
  <1>1. /\ DOMAIN g.arp_table_ =
             {hop \in DOMAIN f.arp_table_ : f.arp_table_[hop].age + 1 <= MappingTTL}
        /\ \A hop \in DOMAIN g.arp_table_ :
             /\ g.arp_table_[hop].addr = f.arp_table_[hop].addr
             /\ g.arp_table_[hop].age = f.arp_table_[hop].age + 1
    BY TickIsOK
  <1>2. \A hop \in DOMAIN f.arp_table_ : f.arp_table_[hop].age \in Int
    <2>1. f.arp_table_ \in TablesOf(Mappings)
      BY DEF InterfaceOK, InterfaceRecords
    <2>2. \A hop \in DOMAIN f.arp_table_ : f.arp_table_[hop] \in Mappings
      BY <2>1, TableIs
    <2> QED
      BY <2>2, AgesAssumption DEF Mappings
  <1>3. \A hop \in DOMAIN ask : ask[hop] \in Nat
    BY TableIs
  <1> HIDE DEF g
  <1> SUFFICES ASSUME NEW hop \in DOMAIN ask, ask[hop] + 1 < PendingTTL
               PROVE  /\ hop \in DOMAIN g.arp_table_
                      /\ g.arp_table_[hop].age <= ask[hop] + 1
                      /\ g.arp_table_[hop].addr = ETHERNET_BROADCAST
                            => g.arp_table_[hop].age = ask[hop] + 1
    BY DEF Remembers, HasEntry, g
  <1>4. /\ hop \in DOMAIN f.arp_table_
        /\ f.arp_table_[hop].age <= ask[hop]
        /\ f.arp_table_[hop].addr = ETHERNET_BROADCAST => f.arp_table_[hop].age = ask[hop]
    BY <1>3, AgesAssumption DEF Remembers, HasEntry
  <1>5. hop \in DOMAIN g.arp_table_
    BY <1>1, <1>2, <1>3, <1>4, AgesAssumption
  <1> QED
    BY <1>1, <1>2, <1>3, <1>4, <1>5

AllRemembered == \A i \in Interfaces : Remembers(itf[i], asked[i])

NewWaits(i) == itf'[i].unknown_eth_addr_ \ itf[i].unknown_eth_addr_

\* What a send does to the state, seen from the questions.
LEMMA SendsAsksSeldom ==
    ASSUME StateOK, AllRemembered, NEW i \in Interfaces, NEW dgram \in Datagrams,
           NEW hop \in Addresses, NEW rest, Sends(itf, i, dgram, hop, rest)
    PROVE  /\ AllRemembered'
           /\ \A j \in Interfaces : \A w \in NewWaits(j) :
                w.hop \in DOMAIN asked[j] => asked[j][w.hop] >= PendingTTL
  <1>1. InterfaceOK(i, itf[i]) /\ itf[i] \in InterfaceRecords /\ asked[i] \in TablesOf(Nat)
    BY DEF StateOK, InterfaceOK
  <1>2. \A j \in Interfaces : j # i => itf'[j] = itf[j] /\ asked'[j] = asked[j]
    BY DEF Sends, StateOK
  <1>3. itf'[i] = InterfaceAfterSend(itf[i], dgram, hop)
    BY DEF Sends, StateOK
  <1>4. CASE Asks(itf[i], hop)
    <2>1. asked'[i] =
            [h \in DOMAIN asked[i] \union {hop} |-> IF h = hop THEN 0 ELSE asked[i][h]]
      BY <1>4 DEF Sends, StateOK
    <2>2. Remembers(itf'[i], asked'[i])
      BY <1>1, <1>3, <1>4, <2>1, AskingIsRemembered DEF AllRemembered
    <2>3. \A w \in NewWaits(i) : w.hop = hop
      BY <1>1, <1>3, <1>4 DEF NewWaits, InterfaceAfterSend, InterfaceRecords
    <2>4. ASSUME hop \in DOMAIN asked[i]
          PROVE  asked[i][hop] >= PendingTTL
      <3> SUFFICES ASSUME asked[i][hop] < PendingTTL PROVE FALSE
        <4>1. asked[i][hop] \in Nat
          BY <1>1, <2>4, TableIs
        <4> QED
          BY <4>1, AgesAssumption
      <3>1. /\ HasEntry(itf[i], hop)
            /\ itf[i].arp_table_[hop].addr = ETHERNET_BROADCAST
                 => itf[i].arp_table_[hop].age = asked[i][hop]
        BY <2>4 DEF AllRemembered, Remembers
      <3> QED
        BY <1>4, <3>1 DEF Asks, Pending, Knows
    <2>5. \A j \in Interfaces : j # i => NewWaits(j) = {}
      BY <1>2 DEF NewWaits
    <2> QED
      BY <1>2, <2>2, <2>3, <2>4, <2>5 DEF AllRemembered
  <1>5. CASE ~Asks(itf[i], hop)
    <2>1. itf'[i] = itf[i] /\ asked'[i] = asked[i]
      BY <1>3, <1>5 DEF InterfaceAfterSend, Sends
    <2> QED
      BY <1>2, <2>1 DEF AllRemembered, NewWaits
  <1> QED
    BY <1>4, <1>5

LEMMA HearsAsksNothing ==
    ASSUME StateOK, AllRemembered, NEW copy \in net, Hears(copy.to, copy), UNCHANGED asked
    PROVE  AllRemembered' /\ \A j \in Interfaces : NewWaits(j) = {}
  <1>1. copy.to \in Interfaces /\ copy.frame \in Frames
    BY DEF StateOK, CopyOK, FramesFrom, Frames
  <1> DEFINE i == copy.to
  <1> HIDE DEF i
  <1>2. /\ i \in Interfaces /\ InterfaceOK(i, itf[i]) /\ asked[i] \in TablesOf(Nat)
        /\ itf[i] \in InterfaceRecords
    BY <1>1 DEF StateOK, InterfaceOK, i
  <1>3. /\ itf'[i] = InterfaceAfterReceive(itf[i], copy.frame)
        /\ \A j \in Interfaces : j # i => itf'[j] = itf[j]
    BY <1>1 DEF Hears, StateOK, i
  <1>4. Remembers(itf'[i], asked[i])
    BY <1>1, <1>2, <1>3, ReceivingIsRemembered DEF AllRemembered
  <1>5. NewWaits(i) = {}
    <2>1. /\ Learn(itf[i], copy.frame).unknown_eth_addr_ = itf[i].unknown_eth_addr_
          /\ Learn(itf[i], copy.frame) \in InterfaceRecords
      BY <1>1, <1>2, LearnIsOK DEF InterfaceOK
    <2> QED
      BY <1>3, <2>1 DEF NewWaits, InterfaceAfterReceive, Flush, InterfaceRecords
  <1> QED
    BY <1>3, <1>4, <1>5 DEF AllRemembered, NewWaits

\* arp_table_ keeps a request for five seconds and an answer for thirty
\* (network_interface.cc), so however sends, frames and ticks alternate, an
\* interface asks for an address again only when five seconds have passed.
THEOREM AsksSeldom == Spec => AsksAreSpaced
  <1> DEFINE Spaced == \A i \in Interfaces : \A w \in NewWaits(i) :
                          w.hop \in DOMAIN asked[i] => asked[i][w.hop] >= PendingTTL
  <1>1. Init => AllRemembered
    BY DEF Init, AllRemembered, Remembers
  <1>2. StateOK /\ AllRemembered /\ [Next]_vars => AllRemembered' /\ Spaced
    <2> SUFFICES ASSUME StateOK, AllRemembered, [Next]_vars PROVE AllRemembered' /\ Spaced
      OBVIOUS
    <2>1. ASSUME UNCHANGED <<itf, asked>>
          PROVE  AllRemembered' /\ Spaced
      BY <2>1 DEF AllRemembered, NewWaits
    <2>2. ASSUME NEW r \in Routers, NEW k \in DOMAIN Routes[r], add_route(r, k)
          PROVE  AllRemembered' /\ Spaced
      BY <2>1, <2>2 DEF add_route
    <2>3. ASSUME NEW h \in Hosts, NEW packet \in Packets[h], write(h, packet)
          PROVE  AllRemembered' /\ Spaced
      BY <2>3, WrittenIsDatagram, SendsAsksSeldom DEF write
    <2>4. ASSUME NEW copy \in net,
                 \/ receive(copy.to, copy) \/ receive_nothing(copy.to, copy)
                 \/ hear(copy.to, copy)
          PROVE  AllRemembered' /\ Spaced
      BY <2>4, HearsAsksNothing DEF receive, receive_nothing, hear
    <2>5. ASSUME NEW copy \in net, copy.to \in Interfaces \ Hosts, forward(copy.to, copy)
          PROVE  AllRemembered' /\ Spaced
      <3> DEFINE dgram == copy.frame.dgram  table == routing_table_[Node[copy.to]]
      <3>1. PICK k \in DOMAIN table :
               Sends(itf, table[k].interface_num, Decremented(dgram),
                     HopOf(table[k], dgram.dst.ip), net \ {copy})
        BY <2>5 DEF forward
      <3>2. /\ Decremented(dgram) \in Datagrams
            /\ table[k].interface_num \in Interfaces
            /\ HopOf(table[k], dgram.dst.ip) \in Addresses
        BY <2>5, ForwardedIsDatagram DEF forward
      <3> QED
        BY <3>1, <3>2, SendsAsksSeldom
    <2>6. ASSUME NEW copy \in net, drop(copy.to, copy)
          PROVE  AllRemembered' /\ Spaced
      BY <2>1, <2>6 DEF drop
    <2>7. ASSUME NEW n \in Nodes, tick(n)
          PROVE  AllRemembered' /\ Spaced
      <3>1. \A i \in Interfaces :
              /\ InterfaceOK(i, itf[i]) /\ asked[i] \in TablesOf(Nat)
              /\ Remembers(InterfaceAfterTick(itf[i], 1),
                           [hop \in DOMAIN asked[i] |-> asked[i][hop] + 1])
              /\ InterfaceAfterTick(itf[i], 1).unknown_eth_addr_ = itf[i].unknown_eth_addr_
        BY TickIsRemembered, TickIsOK DEF StateOK, AllRemembered
      <3>2. \A i \in Interfaces :
              \/ itf'[i] = itf[i] /\ asked'[i] = asked[i]
              \/ /\ itf'[i] = InterfaceAfterTick(itf[i], 1)
                 /\ asked'[i] = [hop \in DOMAIN asked[i] |-> asked[i][hop] + 1]
        BY <2>7 DEF tick
      <3>3. AllRemembered'
        BY <3>1, <3>2 DEF AllRemembered
      <3>4. \A i \in Interfaces : NewWaits(i) = {}
        BY <3>1, <3>2 DEF NewWaits
      <3> QED
        BY <3>3, <3>4
    <2>8. CASE UNCHANGED vars
      BY <2>1, <2>8 DEF vars
    <2> QED
      BY <2>2, <2>3, <2>4, <2>5, <2>6, <2>7, <2>8 DEF Next
  <1>3. Spaced => [\A i \in Interfaces :
                     \A w \in itf'[i].unknown_eth_addr_ \ itf[i].unknown_eth_addr_ :
                        w.hop \in DOMAIN asked[i] => asked[i][w.hop] >= PendingTTL]_vars
    BY DEF NewWaits
  <1> QED
    BY <1>1, <1>2, <1>3, StateIsOK, PTL DEF Spec, AsksAreSpaced

-----------------------------------------------------------------------------
\* Frames go to their next hop

\* What the table of interface i says is so.
TrueTable(i, f) ==
    \A hop \in DOMAIN f.arp_table_ :
        \/ f.arp_table_[hop].addr = ETHERNET_BROADCAST
        \/ Owns(f.arp_table_[hop].addr, hop, i)

Reaches(frame, hop) ==
    \/ frame.dst = ETHERNET_BROADCAST
    \/ Owns(frame.dst, hop, frame.src)

LEMMA BindKeepsTrue ==
    ASSUME NEW i \in Interfaces, NEW f, InterfaceOK(i, f), TrueTable(i, f),
           NEW g, NEW hop \in Addresses, NEW addr \in Stations,
           g.arp_table_ = Bind(f.arp_table_, hop, addr),
           addr = ETHERNET_BROADCAST \/ Owns(addr, hop, i)
    PROVE  TrueTable(i, g)
  <1> DEFINE B == Bind(f.arp_table_, hop, addr)
  <1>1. /\ DOMAIN B = DOMAIN f.arp_table_ \union {hop}
        /\ B[hop].addr = addr
        /\ \A h \in DOMAIN f.arp_table_ : h # hop => B[h] = f.arp_table_[h]
    BY DEF Bind
  <1> HIDE DEF B
  <1>2. g.arp_table_ = B
    BY DEF B
  <1> SUFFICES ASSUME NEW h \in DOMAIN B
               PROVE  B[h].addr = ETHERNET_BROADCAST \/ Owns(B[h].addr, h, i)
    BY <1>2 DEF TrueTable
  <1>3. CASE h = hop
    BY <1>1, <1>3
  <1>4. CASE h # hop
    BY <1>1, <1>4 DEF TrueTable
  <1> QED
    BY <1>3, <1>4

LEMMA SendIsTrue ==
    ASSUME NEW i \in Interfaces, NEW f, InterfaceOK(i, f), TrueTable(i, f),
           NEW dgram \in Datagrams, NEW hop \in Addresses
    PROVE  /\ TrueTable(i, InterfaceAfterSend(f, dgram, hop))
           /\ \A frame \in FramesOfSend(f, dgram, hop) : frame.type = "IPv4" =>
                frame.dgram = dgram /\ Reaches(frame, hop)
  <1>1. TrueTable(i, InterfaceAfterSend(f, dgram, hop))
    <2>1. CASE Asks(f, hop)
      <3>1. InterfaceAfterSend(f, dgram, hop).arp_table_ =
              Bind(f.arp_table_, hop, ETHERNET_BROADCAST)
        BY <2>1 DEF InterfaceAfterSend, InterfaceOK, InterfaceRecords
      <3>2. ETHERNET_BROADCAST \in Stations
        BY DEF Stations
      <3> QED
        BY <3>1, <3>2, BindKeepsTrue
    <2>2. CASE ~Asks(f, hop)
      BY <2>2 DEF InterfaceAfterSend
    <2> QED
      BY <2>1, <2>2
  <1>2. ASSUME NEW frame \in FramesOfSend(f, dgram, hop), frame.type = "IPv4"
        PROVE  frame.dgram = dgram /\ Reaches(frame, hop)
    <2>1. Knows(f, hop)
          /\ frame = IPv4Frame(f.ethernet_address_, f.arp_table_[hop].addr, dgram)
      BY <1>2 DEF FramesOfSend, arp_request, ArpFrame
    <2>2. frame.src = i /\ frame.dst = f.arp_table_[hop].addr /\ frame.dgram = dgram
      BY <2>1 DEF IPv4Frame, InterfaceOK
    <2> QED
      BY <2>1, <2>2 DEF TrueTable, Reaches, Knows, HasEntry
  <1> QED
    BY <1>1, <1>2

LEMMA ReceiveIsTrue ==
    ASSUME NEW i \in Interfaces, NEW f, InterfaceOK(i, f), TrueTable(i, f),
           NEW copy, CopyOK(copy), copy.to = i
    PROVE  /\ TrueTable(i, InterfaceAfterReceive(f, copy.frame))
           /\ \A frame \in FramesOfReceive(f, copy.frame) : frame.type = "IPv4" =>
                /\ frame.src = i
                /\ \E w \in f.unknown_eth_addr_ :
                     frame.dgram = w.dgram /\ Reaches(frame, w.hop)
  <1> DEFINE g == Learn(f, copy.frame)
  <1>1. copy.frame \in Frames
    BY DEF CopyOK, FramesFrom, Frames
  <1>2. /\ InterfaceOK(i, g)
        /\ g.unknown_eth_addr_ = f.unknown_eth_addr_
    BY <1>1, LearnIsOK
  <1>3. \/ g = f
        \/ /\ copy.frame \in ArpFrames
           /\ g.arp_table_ = Bind(f.arp_table_, copy.frame.sender_ip_address, copy.frame.src)
    BY <1>1, LearnIsOK, Zenon
  <1> HIDE DEF g
  <1>4. TrueTable(i, g)
    <2>1. CASE g = f
      BY <2>1
    <2>2. CASE /\ copy.frame \in ArpFrames
               /\ g.arp_table_ =
                    Bind(f.arp_table_, copy.frame.sender_ip_address, copy.frame.src)
      <3> DEFINE hop == copy.frame.sender_ip_address  addr == copy.frame.src
      <3>1. hop \in Addresses /\ addr \in Stations
        BY <2>2 DEF ArpFrames, Stations
      <3>2. Owns(addr, hop, i)
        BY <2>2 DEF CopyOK, FramesFrom, Truthful, ArpFrames, DummyFrame, Owns
      <3>3. g.arp_table_ = Bind(f.arp_table_, hop, addr)
        BY <2>2
      <3> HIDE DEF hop, addr
      <3> QED
        BY <3>1, <3>2, <3>3, BindKeepsTrue
    <2> QED
      BY <1>3, <2>1, <2>2
  <1>5. TrueTable(i, InterfaceAfterReceive(f, copy.frame))
    <2>1. Flush(g, copy.frame).arp_table_ = g.arp_table_
      BY <1>2 DEF Flush, InterfaceOK, InterfaceRecords
    <2> QED
      BY <1>4, <2>1 DEF InterfaceAfterReceive, TrueTable, g
  <1>6. ASSUME NEW frame \in FramesOfReceive(f, copy.frame), frame.type = "IPv4"
        PROVE  /\ frame.src = i
               /\ \E w \in f.unknown_eth_addr_ :
                    frame.dgram = w.dgram /\ Reaches(frame, w.hop)
    <2>1. PICK w \in Flushed(g, copy.frame) :
             frame = IPv4Frame(g.ethernet_address_, g.arp_table_[w.hop].addr, w.dgram)
      BY <1>6 DEF FramesOfReceive, Replies, arp_reply, ArpFrame, g
    <2>2. w \in f.unknown_eth_addr_ /\ w.hop \in DOMAIN g.arp_table_
      BY <1>2 DEF Flushed, HasEntry
    <2>3. frame.src = i /\ frame.dst = g.arp_table_[w.hop].addr /\ frame.dgram = w.dgram
      BY <1>2, <2>1 DEF IPv4Frame, InterfaceOK
    <2> QED
      BY <1>4, <2>2, <2>3 DEF TrueTable, Reaches
  <1> QED
    BY <1>5, <1>6

LEMMA TickIsTrue ==
    ASSUME NEW i \in Interfaces, NEW f, InterfaceOK(i, f), TrueTable(i, f)
    PROVE  TrueTable(i, InterfaceAfterTick(f, 1))
  <1> DEFINE g == InterfaceAfterTick(f, 1)
  <1>1. /\ DOMAIN g.arp_table_ \subseteq DOMAIN f.arp_table_
        /\ \A hop \in DOMAIN g.arp_table_ : g.arp_table_[hop].addr = f.arp_table_[hop].addr
    BY TickIsOK
  <1> HIDE DEF g
  <1>2. TrueTable(i, g)
    BY <1>1 DEF TrueTable
  <1> QED
    BY <1>2 DEF g

HopsAreTrue ==
    /\ \A i \in Interfaces : TrueTable(i, itf[i])
    /\ \A i \in Interfaces : \A w \in itf[i].unknown_eth_addr_ :
         w.hop = NextHopOf(i, w.dgram)
    /\ \A copy \in net : copy.frame.type = "IPv4" =>
         Reaches(copy.frame, NextHopOf(copy.frame.src, copy.frame.dgram))

\* Routes are only added while there is no traffic they could change.
Quiet ==
    sent = <<>> =>
        /\ \A copy \in net : copy.frame.type # "IPv4"
        /\ \A i \in Interfaces : itf[i].unknown_eth_addr_ = {}

LEMMA SendsIsTrue ==
    ASSUME StateOK, HopsAreTrue, NEW i \in Interfaces, NEW dgram \in Datagrams,
           NEW hop \in Addresses, hop = NextHopOf(i, dgram),
           NEW rest \in SUBSET net, Sends(itf, i, dgram, hop, rest), UNCHANGED routing_table_
    PROVE  HopsAreTrue'
  <1> DEFINE g == InterfaceAfterSend(itf[i], dgram, hop)
             frames == FramesOfSend(itf[i], dgram, hop)
  <1>1. InterfaceOK(i, itf[i]) /\ itf[i] \in InterfaceRecords /\ TrueTable(i, itf[i])
    BY DEF StateOK, InterfaceOK, HopsAreTrue
  <1>2. /\ itf'[i] = g
        /\ \A j \in Interfaces : j # i => itf'[j] = itf[j]
    BY DEF Sends, StateOK
  <1>3. \A j, d : NextHopOf(j, d)' = NextHopOf(j, d)
    BY DEF NextHopOf, Route
  <1>4. TrueTable(i, g)
    BY <1>1, SendIsTrue
  <1>5. \A frame \in frames : frame.type = "IPv4" => frame.dgram = dgram /\ Reaches(frame, hop)
    BY <1>1, SendIsTrue
  <1>6. \A w \in g.unknown_eth_addr_ :
          w \in itf[i].unknown_eth_addr_ \/ w.hop = NextHopOf(i, w.dgram)
    BY <1>1 DEF InterfaceAfterSend, InterfaceRecords
  <1>7. frames \in SUBSET FramesFrom(i)
    BY <1>1, SendIsOK
  <1>8. \A copy \in net' : copy \in net \/ copy.frame \in frames
    BY <1>7, CopiesAreOK DEF Sends
  <1> HIDE DEF g, frames
  <1>9. \A j \in Interfaces : TrueTable(j, itf'[j])
    BY <1>2, <1>4 DEF HopsAreTrue
  <1>10. \A j \in Interfaces : \A w \in itf'[j].unknown_eth_addr_ : w.hop = NextHopOf(j, w.dgram)
    BY <1>2, <1>6 DEF HopsAreTrue
  <1>11. \A copy \in net' : copy.frame.type = "IPv4" =>
           Reaches(copy.frame, NextHopOf(copy.frame.src, copy.frame.dgram))
    BY <1>5, <1>7, <1>8 DEF HopsAreTrue, FramesFrom
  <1> QED
    BY <1>3, <1>9, <1>10, <1>11 DEF HopsAreTrue

LEMMA HearsIsTrue ==
    ASSUME StateOK, HopsAreTrue, NEW copy \in net, Hears(copy.to, copy),
           UNCHANGED <<routing_table_, sent>>, Quiet
    PROVE  HopsAreTrue' /\ Quiet'
  <1> DEFINE i == copy.to
             g == InterfaceAfterReceive(itf[i], copy.frame)
             frames == FramesOfReceive(itf[i], copy.frame)
  <1>1. /\ i \in Interfaces /\ copy.frame \in Frames /\ CopyOK(copy)
        /\ InterfaceOK(i, itf[i]) /\ itf[i] \in InterfaceRecords /\ TrueTable(i, itf[i])
    BY DEF StateOK, CopyOK, FramesFrom, Frames, InterfaceOK, HopsAreTrue
  <1>2. /\ itf'[i] = g
        /\ \A j \in Interfaces : j # i => itf'[j] = itf[j]
    BY <1>1 DEF Hears, StateOK
  <1>3. \A j, d : NextHopOf(j, d)' = NextHopOf(j, d)
    BY DEF NextHopOf, Route
  <1>4. TrueTable(i, g)
    BY <1>1, ReceiveIsTrue
  <1>5. \A frame \in frames : frame.type = "IPv4" =>
          /\ frame.src = i
          /\ \E w \in itf[i].unknown_eth_addr_ : frame.dgram = w.dgram /\ Reaches(frame, w.hop)
    BY <1>1, ReceiveIsTrue
  <1>6. g.unknown_eth_addr_ \subseteq itf[i].unknown_eth_addr_
    <2>1. /\ Learn(itf[i], copy.frame).unknown_eth_addr_ = itf[i].unknown_eth_addr_
          /\ Learn(itf[i], copy.frame) \in InterfaceRecords
      BY <1>1, LearnIsOK DEF InterfaceOK
    <2> QED
      BY <2>1 DEF InterfaceAfterReceive, Flush, InterfaceRecords
  <1>7. frames \in SUBSET FramesFrom(i)
    BY <1>1, ReceiveIsOK
  <1>8. \A c \in net' : c \in net \/ c.frame \in frames
    BY <1>1, <1>7, CopiesAreOK DEF Hears
  <1> HIDE DEF i, g, frames
  <1>9. \A j \in Interfaces : TrueTable(j, itf'[j])
    BY <1>2, <1>4 DEF HopsAreTrue
  <1>10. \A j \in Interfaces : itf'[j].unknown_eth_addr_ \subseteq itf[j].unknown_eth_addr_
    BY <1>2, <1>6
  <1>11. \A c \in net' : c.frame.type = "IPv4" =>
           Reaches(c.frame, NextHopOf(c.frame.src, c.frame.dgram))
    BY <1>1, <1>5, <1>8 DEF HopsAreTrue
  <1>12. HopsAreTrue'
    BY <1>3, <1>9, <1>10, <1>11 DEF HopsAreTrue
  <1>13. Quiet'
    BY <1>1, <1>5, <1>8, <1>10 DEF Quiet
  <1> QED
    BY <1>12, <1>13

LEMMA HopsStayTrue == Spec => [](HopsAreTrue /\ Quiet)
  <1> DEFINE Inv == HopsAreTrue /\ Quiet
  <1>1. Init => Inv
    <2> SUFFICES ASSUME Init PROVE Inv
      OBVIOUS
    <2>1. \A copy \in net : copy.frame.type # "IPv4"
      BY DEF Init, Copies, DummyFrame
    <2>2. \A i \in Interfaces : itf[i].unknown_eth_addr_ = {} /\ DOMAIN itf[i].arp_table_ = {}
      BY DEF Init, NewInterface
    <2> QED
      BY <2>1, <2>2 DEF HopsAreTrue, Quiet, TrueTable
  <1>2. StateOK /\ Inv /\ [Next]_vars => Inv'
    <2> SUFFICES ASSUME StateOK, Inv, [Next]_vars PROVE Inv'
      OBVIOUS
    <2>1. ASSUME UNCHANGED <<routing_table_, sent, itf>>, net' \subseteq net
          PROVE  Inv'
      <3>1. \A j, d : NextHopOf(j, d)' = NextHopOf(j, d)
        BY <2>1 DEF NextHopOf, Route
      <3> QED
        BY <2>1, <3>1 DEF HopsAreTrue, Quiet
    <2>2. ASSUME NEW r \in Routers, NEW k \in DOMAIN Routes[r], add_route(r, k)
          PROVE  Inv'
      <3>1. /\ \A copy \in net : copy.frame.type # "IPv4"
            /\ \A i \in Interfaces : itf[i].unknown_eth_addr_ = {}
            /\ UNCHANGED <<itf, net, sent>>
        BY <2>2 DEF add_route, Quiet
      <3> QED
        BY <3>1 DEF HopsAreTrue, Quiet
    <2>3. ASSUME NEW h \in Hosts, NEW packet \in Packets[h], write(h, packet)
          PROVE  Inv'
      <3> DEFINE dgram == [id |-> Len(sent) + 1, ttl |-> packet.ttl, seg |-> packet.seg,
                           src |-> adapter[h].source, dst |-> adapter[h].destination]
      <3>1. h \in Interfaces /\ NextHop[h] \in Addresses /\ dgram \in Datagrams
        BY WrittenIsDatagram
      <3>2. /\ Sends(itf, h, dgram, NextHop[h], net) /\ sent' = Append(sent, dgram)
            /\ UNCHANGED routing_table_
        BY <2>3 DEF write
      <3> HIDE DEF dgram
      <3>3. NextHop[h] = NextHopOf(h, dgram)
        BY DEF NextHopOf
      <3>4. HopsAreTrue'
        BY <3>1, <3>2, <3>3, SendsIsTrue
      <3>5. sent' # <<>>
        BY <3>1, <3>2 DEF StateOK
      <3> QED
        BY <3>4, <3>5 DEF Quiet
    <2>4. ASSUME NEW copy \in net,
                 \/ receive(copy.to, copy) \/ receive_nothing(copy.to, copy)
                 \/ hear(copy.to, copy)
          PROVE  Inv'
      BY <2>4, HearsIsTrue DEF receive, receive_nothing, hear
    <2>5. ASSUME NEW copy \in net, copy.to \in Interfaces \ Hosts, forward(copy.to, copy)
          PROVE  Inv'
      <3> DEFINE dgram == copy.frame.dgram  table == routing_table_[Node[copy.to]]
                 m == MatchEntry(table, dgram.dst.ip)
      <3>1. m \in DOMAIN table /\ Sends(itf, table[m].interface_num, Decremented(dgram),
                                       HopOf(table[m], dgram.dst.ip), net \ {copy})
        BY <2>5 DEF forward
      <3>2. /\ Decremented(dgram) \in Datagrams /\ Decremented(dgram).dst = dgram.dst
            /\ table[m].interface_num \in Interfaces \ Hosts
            /\ Node[table[m].interface_num] = Node[copy.to]
            /\ HopOf(table[m], dgram.dst.ip) \in Addresses
        BY <2>5, <3>1, ForwardedIsDatagram DEF forward
      <3>3. HopOf(table[m], dgram.dst.ip) =
              NextHopOf(table[m].interface_num, Decremented(dgram))
        BY <3>2 DEF NextHopOf, Route
      <3>4. UNCHANGED <<routing_table_, sent>> /\ sent # <<>>
        BY <2>5 DEF forward, Quiet, IsForUs
      <3>5. HopsAreTrue'
        BY <3>1, <3>2, <3>3, <3>4, SendsIsTrue
      <3> QED
        BY <3>4, <3>5 DEF Quiet
    <2>6. ASSUME NEW copy \in net, drop(copy.to, copy)
          PROVE  Inv'
      BY <2>1, <2>6 DEF drop
    <2>7. ASSUME NEW n \in Nodes, tick(n)
          PROVE  Inv'
      <3>1. \A i \in Interfaces :
              /\ TrueTable(i, InterfaceAfterTick(itf[i], 1))
              /\ InterfaceAfterTick(itf[i], 1).unknown_eth_addr_ = itf[i].unknown_eth_addr_
        BY TickIsTrue, TickIsOK DEF StateOK, HopsAreTrue
      <3>2. \A i \in Interfaces : itf'[i] = itf[i] \/ itf'[i] = InterfaceAfterTick(itf[i], 1)
        BY <2>7 DEF tick
      <3>3. \A i \in Interfaces :
              TrueTable(i, itf'[i]) /\ itf'[i].unknown_eth_addr_ = itf[i].unknown_eth_addr_
        BY <3>1, <3>2 DEF HopsAreTrue
      <3>4. UNCHANGED <<routing_table_, net, sent>>
        BY <2>7 DEF tick
      <3>5. \A j, d : NextHopOf(j, d)' = NextHopOf(j, d)
        BY <3>4 DEF NextHopOf, Route
      <3> QED
        BY <3>3, <3>4, <3>5 DEF HopsAreTrue, Quiet
    <2>8. CASE UNCHANGED vars
      BY <2>1, <2>8 DEF vars
    <2> QED
      BY <2>2, <2>3, <2>4, <2>5, <2>6, <2>7, <2>8 DEF Next
  <1> QED
    BY <1>1, <1>2, StateIsOK, PTL DEF Spec

\* A mapping comes from its owner's own message and from nowhere else
\* (network_interface.cc), and a datagram waits under the address of its next
\* hop: the frame it leaves in reaches that hop or, for an entry still pending,
\* nobody in particular.
THEOREM FramesAreAddressed == Spec => []FramesGoToTheirNextHop
  <1>1. HopsAreTrue => FramesGoToTheirNextHop
    BY DEF HopsAreTrue, Reaches, FramesGoToTheirNextHop
  <1> QED
    BY <1>1, HopsStayTrue, PTL

-----------------------------------------------------------------------------
\* Induction

\* What holds of zero and is handed on holds up to n.
LEMMA Climb ==
    ASSUME NEW n \in Nat, NEW S, 0 \in S, \A k \in 0 .. n - 1 : k \in S => k + 1 \in S
    PROVE  \A k \in 0 .. n : k \in S
  <1> DEFINE T == {k \in 0 .. n : k \notin S}
             R == {ss \in Nat \X Nat : ss[1] < ss[2]}
  <1> SUFFICES ASSUME T # {} PROVE FALSE
    OBVIOUS
  <1>1. R = OpToRel(<, Nat)
    BY DEF OpToRel
  <1>2. IsWellFoundedOn(R, Nat)
    BY <1>1, NatLessThanWellFounded
  <1>3. \A x, y \in Nat : <<x, y>> \in R <=> x < y
    OBVIOUS
  <1>4. T \in SUBSET Nat
    OBVIOUS
  <1> HIDE DEF R
  <1>5. PICK m \in T : \A y \in T : ~ (<<y, m>> \in R)
    <2> HIDE DEF T
    <2> QED
      BY <1>2, <1>4, WFMin
  <1>6. m \in Nat /\ m # 0 /\ m \in 0 .. n
    BY <1>4, <1>5
  <1>7. m - 1 \in Nat /\ m - 1 \in 0 .. n - 1 /\ m - 1 < m
    BY <1>6
  <1>8. m - 1 \notin T
    BY <1>3, <1>5, <1>6, <1>7
  <1>9. m - 1 \in S
    BY <1>7, <1>8
  <1> QED
    BY <1>5, <1>6, <1>7, <1>9

\* The same from the other end.
LEMMA Descend ==
    ASSUME NEW n \in Nat, NEW S, n \in S, \A k \in 0 .. n - 1 : k + 1 \in S => k \in S
    PROVE  \A k \in 0 .. n : k \in S
  <1> DEFINE T == {k \in 0 .. n : n - k \in S}
  <1>1. 0 \in T
    OBVIOUS
  <1>2. \A k \in 0 .. n - 1 : k \in T => k + 1 \in T
    <2> SUFFICES ASSUME NEW k \in 0 .. n - 1, k \in T PROVE k + 1 \in T
      OBVIOUS
    <2>1. n - (k + 1) \in 0 .. n - 1 /\ (n - (k + 1)) + 1 = n - k
      OBVIOUS
    <2> QED
      BY <2>1
  <1> HIDE DEF T
  <1>3. \A k \in 0 .. n : k \in T
    BY <1>1, <1>2, Climb
  <1> SUFFICES ASSUME NEW k \in 0 .. n PROVE k \in S
    OBVIOUS
  <1>4. n - k \in 0 .. n /\ n - (n - k) = k
    OBVIOUS
  <1> QED
    BY <1>3, <1>4 DEF T

-----------------------------------------------------------------------------
\* Powers of two

IsPower(n, f) == f = [k \in 0 .. n |-> IF k = 0 THEN 1 ELSE 2 * f[k - 1]]

LEMMA PowerExists == ASSUME NEW n \in Nat PROVE \E f : IsPower(n, f)
  <1> DEFINE S == {k \in 0 .. n : \E f : IsPower(k, f)}
  <1>1. 0 \in S
    <2>1. IsPower(0, [k \in 0 .. 0 |-> 1])
      BY DEF IsPower
    <2> QED
      BY <2>1
  <1>2. \A k \in 0 .. n - 1 : k \in S => k + 1 \in S
    <2> SUFFICES ASSUME NEW k \in 0 .. n - 1, k \in S PROVE k + 1 \in S
      OBVIOUS
    <2>1. PICK f : IsPower(k, f)
      OBVIOUS
    <2> DEFINE g == [m \in 0 .. k + 1 |-> IF m = k + 1 THEN 2 * f[k] ELSE f[m]]
    <2>2. IsPower(k + 1, g)
      BY <2>1 DEF IsPower
    <2> QED
      BY <2>2
  <1> HIDE DEF S
  <1>3. n \in S
    BY <1>1, <1>2, Climb
  <1> QED
    BY <1>3 DEF S

LEMMA PowerStep ==
    /\ PowerOfTwo[0] = 1
    /\ \A k \in 0 .. AddressBits - 1 : PowerOfTwo[k + 1] = 2 * PowerOfTwo[k]
  <1>1. IsPower(AddressBits, PowerOfTwo)
    <2>1. \E f : IsPower(AddressBits, f)
      BY PowerExists, AddressAssumption
    <2>2. PowerOfTwo = CHOOSE f : IsPower(AddressBits, f)
      BY DEF PowerOfTwo, IsPower
    <2> QED
      BY <2>1, <2>2
  <1>2. 0 \in 0 .. AddressBits
    BY AddressAssumption
  <1>3. \A k \in 0 .. AddressBits :
          PowerOfTwo[k] = IF k = 0 THEN 1 ELSE 2 * PowerOfTwo[k - 1]
    BY <1>1 DEF IsPower
  <1>4. ASSUME NEW k \in 0 .. AddressBits - 1
        PROVE  PowerOfTwo[k + 1] = 2 * PowerOfTwo[k]
    <2>1. k + 1 \in 0 .. AddressBits /\ k + 1 # 0 /\ (k + 1) - 1 = k
      BY AddressAssumption
    <2> QED
      BY <1>3, <2>1
  <1> QED
    BY <1>2, <1>3, <1>4

LEMMA PowerIsPositive == \A k \in 0 .. AddressBits : PowerOfTwo[k] \in Nat \ {0}
  <1> DEFINE S == {k \in 0 .. AddressBits : PowerOfTwo[k] \in Nat \ {0}}
  <1>1. 0 \in S
    BY PowerStep, AddressAssumption
  <1>2. \A k \in 0 .. AddressBits - 1 : k \in S => k + 1 \in S
    BY PowerStep, AddressAssumption
  <1> HIDE DEF S
  <1>3. \A k \in 0 .. AddressBits : k \in S
    BY <1>1, <1>2, Climb, AddressAssumption
  <1> QED
    BY <1>3 DEF S

-----------------------------------------------------------------------------
\* Division

LEMMA DivisionIs ==
    ASSUME NEW n \in Nat, NEW d \in Nat \ {0}
    PROVE  n \div d \in Nat /\ n = d * (n \div d) + (n % d) /\ n % d \in 0 .. d - 1
  <1>1. n = d * (n \div d) + (n % d)
    OBVIOUS
  <1>2. n % d \in 0 .. d - 1
    OBVIOUS
  <1>3. n \div d \in Int
    OBVIOUS
  <1>4. n \div d >= 0
    OBVIOUS
  <1> QED
    BY <1>1, <1>2, <1>3, <1>4

LEMMA HalvesAreEqual ==
    ASSUME NEW x \in Nat, NEW y \in Nat, NEW a \in {0, 1}, NEW b \in {0, 1},
           2 * x + a = 2 * y + b
    PROVE  x = y /\ a = b
  OBVIOUS

LEMMA QuotientIs ==
    ASSUME NEW d \in Nat \ {0}, NEW x \in Nat, NEW r \in 0 .. d - 1
    PROVE  (d * x + r) \div d = x
  OBVIOUS

\* Two shifts, and the bit between them.
LEMMA HalfIs ==
    ASSUME NEW n \in Nat, NEW d \in Nat \ {0}
    PROVE  n \div d = 2 * (n \div (2 * d)) + ((n \div d) % 2)
  <1> DEFINE q == n \div d  r == n % d  h == q \div 2  b == q % 2
  <1>1. q \in Nat /\ n = d * q + r /\ r \in 0 .. d - 1
    BY DivisionIs
  <1>2. h \in Nat /\ q = 2 * h + b /\ b \in 0 .. 1
    BY <1>1, DivisionIs
  <1> HIDE DEF q, r, h, b
  <1>3. d * q = (2 * d) * h + d * b
    BY <1>2
  <1>4. d * b + r \in 0 .. 2 * d - 1
    <2>1. d * b = IF b = 0 THEN 0 ELSE d
      BY <1>2
    <2> QED
      BY <1>1, <1>2, <2>1
  <1>5. d * b \in Int /\ (2 * d) * h \in Int
    BY <1>2
  <1>6. n = (2 * d) * h + (d * b + r)
    BY <1>1, <1>3, <1>5
  <1>7. 2 * d \in Nat \ {0}
    OBVIOUS
  <1>8. n \div (2 * d) = h
    BY <1>2, <1>4, <1>6, <1>7, QuotientIs
  <1>9. q = 2 * (n \div (2 * d)) + b
    BY <1>2, <1>8
  <1> QED
    BY <1>9 DEF q, b

-----------------------------------------------------------------------------
\* Shifts of an address

Shifted(n, k) == n \div PowerOfTwo[k]

LEMMA ShiftStep ==
    ASSUME NEW n \in Addresses, NEW k \in 0 .. AddressBits - 1
    PROVE  Shifted(n, k) = 2 * Shifted(n, k + 1) + Bit(n, k)
  <1>1. n \in Nat /\ PowerOfTwo[k] \in Nat \ {0} /\ PowerOfTwo[k + 1] = 2 * PowerOfTwo[k]
    BY PowerIsPositive, PowerStep, AddressAssumption DEF Addresses
  <1> QED
    BY <1>1, HalfIs DEF Shifted, Bit

LEMMA ShiftIs ==
    ASSUME NEW n \in Addresses
    PROVE  /\ \A k \in 0 .. AddressBits : Shifted(n, k) \in Nat
           /\ Shifted(n, 0) = n /\ Shifted(n, AddressBits) = 0
           /\ \A k \in 0 .. AddressBits - 1 : Bit(n, k) \in {0, 1}
  <1>1. n \in Nat
    BY PowerIsPositive, AddressAssumption DEF Addresses
  <1>2. \A k \in 0 .. AddressBits : Shifted(n, k) \in Nat
    BY <1>1, PowerIsPositive, DivisionIs DEF Shifted
  <1>3. Shifted(n, 0) = n
    <2>1. Shifted(n, 0) = n \div 1
      BY PowerStep DEF Shifted
    <2> QED
      BY <1>1, <2>1
  <1>4. Shifted(n, AddressBits) = 0
    <2> DEFINE d == PowerOfTwo[AddressBits]
    <2>1. d \in Nat \ {0} /\ n \in 0 .. d - 1
      BY PowerIsPositive, AddressAssumption DEF Addresses
    <2> HIDE DEF d
    <2>2. (d * 0 + n) \div d = 0
      BY <2>1, QuotientIs
    <2>3. d * 0 + n = n
      BY <1>1, <2>1
    <2> QED
      BY <2>2, <2>3 DEF Shifted, d
  <1>5. ASSUME NEW k \in 0 .. AddressBits - 1
        PROVE  Bit(n, k) \in {0, 1}
    <2>1. Shifted(n, k) \in Nat
      BY <1>2, AddressAssumption
    <2>2. Shifted(n, k) % 2 \in 0 .. 2 - 1
      BY <2>1, DivisionIs
    <2> QED
      BY <2>2 DEF Shifted, Bit
  <1> QED
    BY <1>2, <1>3, <1>4, <1>5

\* Two addresses with the same bits from position q up have the same part there.
LEMMA SameBits ==
    ASSUME NEW m \in Addresses, NEW n \in Addresses, NEW q \in 0 .. AddressBits
    PROVE  Shifted(m, q) = Shifted(n, q) <=>
             \A k \in q .. AddressBits - 1 : Bit(m, k) = Bit(n, k)
  <1>0. AddressBits - q \in Nat /\ q \in Nat /\ AddressBits \in Nat
    BY AddressAssumption
  <1>1. ASSUME \A k \in q .. AddressBits - 1 : Bit(m, k) = Bit(n, k)
        PROVE  Shifted(m, q) = Shifted(n, q)
    <2> DEFINE S == {j \in 0 .. AddressBits - q : Shifted(m, q + j) = Shifted(n, q + j)}
    <2>1. AddressBits - q \in S
      BY <1>0, ShiftIs
    <2>2. \A j \in 0 .. (AddressBits - q) - 1 : j + 1 \in S => j \in S
      <3> SUFFICES ASSUME NEW j \in 0 .. (AddressBits - q) - 1, j + 1 \in S PROVE j \in S
        OBVIOUS
      <3>1. q + j \in 0 .. AddressBits - 1 /\ q + j \in q .. AddressBits - 1
            /\ q + (j + 1) = (q + j) + 1 /\ j \in 0 .. AddressBits - q
        BY <1>0
      <3>2. Shifted(m, (q + j) + 1) = Shifted(n, (q + j) + 1)
        BY <3>1
      <3> QED
        BY <1>1, <3>1, <3>2, ShiftStep
    <2> HIDE DEF S
    <2>3. 0 \in S
      BY <1>0, <2>1, <2>2, Descend
    <2> QED
      BY <1>0, <2>3 DEF S
  <1>2. ASSUME Shifted(m, q) = Shifted(n, q)
        PROVE  \A k \in q .. AddressBits - 1 : Bit(m, k) = Bit(n, k)
    <2> DEFINE S == {j \in 0 .. AddressBits - q : Shifted(m, q + j) = Shifted(n, q + j)}
    <2>1. \A j \in 0 .. (AddressBits - q) - 1 :
            j \in S => j + 1 \in S /\ Bit(m, q + j) = Bit(n, q + j)
      <3> SUFFICES ASSUME NEW j \in 0 .. (AddressBits - q) - 1, j \in S
                   PROVE  j + 1 \in S /\ Bit(m, q + j) = Bit(n, q + j)
        OBVIOUS
      <3> DEFINE k == q + j
      <3>1. k \in 0 .. AddressBits - 1 /\ k + 1 \in 0 .. AddressBits
            /\ q + (j + 1) = k + 1 /\ j + 1 \in 0 .. AddressBits - q
        BY <1>0
      <3>2. Shifted(m, k) = Shifted(n, k)
        OBVIOUS
      <3> HIDE DEF k
      <3>3. /\ Shifted(m, k) = 2 * Shifted(m, k + 1) + Bit(m, k)
            /\ Shifted(n, k) = 2 * Shifted(n, k + 1) + Bit(n, k)
        BY <3>1, ShiftStep
      <3>4. /\ Shifted(m, k + 1) \in Nat /\ Shifted(n, k + 1) \in Nat
            /\ Bit(m, k) \in {0, 1} /\ Bit(n, k) \in {0, 1}
        BY <3>1, ShiftIs
      <3>5. Shifted(m, k + 1) = Shifted(n, k + 1) /\ Bit(m, k) = Bit(n, k)
        <4>1. 2 * Shifted(m, k + 1) + Bit(m, k) = 2 * Shifted(n, k + 1) + Bit(n, k)
          BY <3>2, <3>3
        <4> QED
          BY <3>4, <4>1, HalvesAreEqual
      <3> QED
        BY <3>1, <3>5 DEF k
    <2>2. 0 \in S
      BY <1>0, <1>2
    <2> HIDE DEF S
    <2>3. \A j \in 0 .. AddressBits - q : j \in S
      BY <1>0, <2>1, <2>2, Climb
    <2> SUFFICES ASSUME NEW k \in q .. AddressBits - 1 PROVE Bit(m, k) = Bit(n, k)
      OBVIOUS
    <2>4. k - q \in 0 .. (AddressBits - q) - 1 /\ q + (k - q) = k
          /\ k - q \in 0 .. AddressBits - q
      BY <1>0
    <2> QED
      BY <2>1, <2>3, <2>4
  <1> QED
    BY <1>1, <1>2

\* An address has no bits below position q if clearing them changes nothing.
LEMMA NoBitsBelow ==
    ASSUME NEW n \in Addresses, NEW q \in 0 .. AddressBits
    PROVE  Shifted(n, q) * PowerOfTwo[q] = n <=> \A k \in 0 .. q - 1 : Bit(n, k) = 0
  <1> DEFINE Whole(k) == Shifted(n, k) * PowerOfTwo[k] = n
             S == {k \in 0 .. q : Whole(k)}
  <1>1. n \in Nat /\ q \in Nat
    BY PowerIsPositive, AddressAssumption DEF Addresses
  <1>2. ASSUME NEW k \in 0 .. q - 1
        PROVE  Whole(k + 1) <=> Whole(k) /\ Bit(n, k) = 0
    <2> DEFINE d == PowerOfTwo[k]  x == Shifted(n, k)  h == Shifted(n, k + 1)  b == Bit(n, k)
    <2>1. k \in 0 .. AddressBits - 1 /\ k \in 0 .. AddressBits /\ k + 1 \in 0 .. AddressBits
      BY <1>1, AddressAssumption
    <2>2. /\ d \in Nat \ {0} /\ PowerOfTwo[k + 1] = 2 * d
          /\ x \in Nat /\ h \in Nat /\ b \in {0, 1}
          /\ x = 2 * h + b
      BY <2>1, PowerIsPositive, PowerStep, ShiftIs, ShiftStep
    <2>3. x = n \div d
      BY DEF Shifted
    <2> HIDE DEF d, x, h, b
    <2>4. ASSUME h * (2 * d) = n
          PROVE  x * d = n /\ b = 0
      <3>1. n = d * (2 * h) + 0 /\ 2 * h \in Nat /\ 0 \in 0 .. d - 1
        BY <2>2, <2>4
      <3>2. n \div d = 2 * h
        BY <2>2, <3>1, QuotientIs
      <3>3. b = 0 /\ x = 2 * h
        BY <2>2, <2>3, <3>2
      <3> QED
        BY <2>2, <3>1, <3>3
    <2>5. ASSUME x * d = n, b = 0
          PROVE  h * (2 * d) = n
      BY <2>2, <2>5
    <2>6. Whole(k) <=> x * d = n
      BY DEF d, x
    <2>7. Whole(k + 1) <=> h * (2 * d) = n
      BY <2>2 DEF h
    <2>8. Bit(n, k) = 0 <=> b = 0
      BY DEF b
    <2> HIDE DEF Whole
    <2> QED
      BY <2>4, <2>5, <2>6, <2>7, <2>8
  <1>3. Whole(0)
    BY <1>1, ShiftIs, PowerStep
  <1> HIDE DEF Whole
  <1>4. ASSUME Whole(q)
        PROVE  \A k \in 0 .. q - 1 : Bit(n, k) = 0
    <2>1. q \in S
      BY <1>1, <1>4
    <2>2. \A k \in 0 .. q - 1 : k + 1 \in S => k \in S
      BY <1>1, <1>2
    <2> HIDE DEF S
    <2>3. \A k \in 0 .. q : k \in S
      BY <1>1, <2>1, <2>2, Descend
    <2> SUFFICES ASSUME NEW k \in 0 .. q - 1 PROVE Bit(n, k) = 0
      OBVIOUS
    <2>4. k + 1 \in S
      BY <1>1, <2>3
    <2> QED
      BY <1>2, <2>4 DEF S
  <1>5. ASSUME \A k \in 0 .. q - 1 : Bit(n, k) = 0
        PROVE  Whole(q)
    <2>1. 0 \in S
      BY <1>1, <1>3
    <2>2. \A k \in 0 .. q - 1 : k \in S => k + 1 \in S
      BY <1>1, <1>2, <1>5
    <2> HIDE DEF S
    <2>3. \A k \in 0 .. q : k \in S
      BY <1>1, <2>1, <2>2, Climb
    <2>4. q \in S
      BY <1>1, <2>3
    <2> QED
      BY <2>4 DEF S
  <1> QED
    BY <1>4, <1>5 DEF Whole

\* The shifts of route() and the comparison with the route's prefix, said of bits.
LEMMA MatchIsAgreement ==
    ASSUME NEW entry, entry.route_prefix \in Addresses, entry.prefix_length \in 0 .. AddressBits,
           NEW dst \in Addresses
    PROVE  Matches(entry, dst) <=> Normal(entry) /\ Agrees(entry, dst)
  <1> DEFINE r == entry.route_prefix  length == entry.prefix_length  q == AddressBits - length
             d == PowerOfTwo[q]
  <1>1. /\ q \in 0 .. AddressBits /\ AddressBits \in Nat /\ length \in Nat
        /\ d \in Nat \ {0} /\ r \in Nat /\ dst \in Nat
    BY PowerIsPositive, AddressAssumption DEF Addresses
  <1>2. Prefix(dst, length) = Shifted(dst, q) * d
    <2>1. CASE length = 0
      <3>1. q = AddressBits
        BY <1>1, <2>1
      <3>2. Shifted(dst, q) = 0
        BY <3>1, ShiftIs
      <3> HIDE DEF d, q
      <3>3. Shifted(dst, q) * d = 0
        BY <1>1, <3>2
      <3> QED
        BY <2>1, <3>3 DEF Prefix
    <2>2. CASE length # 0
      BY <2>2 DEF Prefix, Shifted
    <2> QED
      BY <2>1, <2>2
  <1>3. Normal(entry) <=> Shifted(r, q) * d = r
    BY <1>1, NoBitsBelow DEF Normal
  <1>4. Agrees(entry, dst) <=> Shifted(r, q) = Shifted(dst, q)
    BY <1>1, SameBits DEF Agrees
  <1>5. Shifted(r, q) \in Nat /\ Shifted(dst, q) \in Nat
    BY <1>1, ShiftIs
  <1>6. ASSUME Shifted(dst, q) * d = r
        PROVE  Shifted(r, q) = Shifted(dst, q)
    <2>1. r = d * Shifted(dst, q) + 0 /\ 0 \in 0 .. d - 1
      BY <1>1, <1>5, <1>6
    <2>2. r \div d = Shifted(dst, q)
      BY <1>1, <1>5, <2>1, QuotientIs
    <2> QED
      BY <2>2 DEF Shifted
  <1>7. Matches(entry, dst) <=> Shifted(dst, q) * d = r
    BY <1>2 DEF Matches
  <1> HIDE DEF r, d, q
  <1> QED
    BY <1>3, <1>4, <1>6, <1>7
-----------------------------------------------------------------------------
\* The loop over the routing table

\* The best route after entry k, if it was m before.
Better(table, dst, k, m) ==
    IF /\ Matches(table[k], dst)
       /\ \/ m = 0
          \/ table[m].prefix_length < table[k].prefix_length
    THEN k ELSE m

IsSearch(table, dst, n, match) ==
    match = [k \in 0 .. n |-> IF k = 0 THEN 0 ELSE Better(table, dst, k, match[k - 1])]

LEMMA SearchExists ==
    ASSUME NEW table, NEW dst, NEW n \in Nat
    PROVE  \E match : IsSearch(table, dst, n, match)
  <1> DEFINE S == {k \in 0 .. n : \E match : IsSearch(table, dst, k, match)}
  <1>1. 0 \in S
    <2>1. IsSearch(table, dst, 0, [k \in 0 .. 0 |-> 0])
      BY DEF IsSearch
    <2> QED
      BY <2>1
  <1>2. \A k \in 0 .. n - 1 : k \in S => k + 1 \in S
    <2> SUFFICES ASSUME NEW k \in 0 .. n - 1, k \in S PROVE k + 1 \in S
      OBVIOUS
    <2>1. PICK f : IsSearch(table, dst, k, f)
      OBVIOUS
    <2> DEFINE last == Better(table, dst, k + 1, f[k])
               g == [m \in 0 .. k + 1 |-> IF m = k + 1 THEN last ELSE f[m]]
    <2>2. IsSearch(table, dst, k + 1, g)
      BY <2>1 DEF IsSearch
    <2> QED
      BY <2>2
  <1> HIDE DEF S
  <1>3. n \in S
    BY <1>1, <1>2, Climb
  <1> QED
    BY <1>3 DEF S

\* m is the first of the longest matching routes among the first k.
IsBest(table, dst, k, m) ==
    LET good == {j \in 1 .. k : Matches(table[j], dst)}
    IN  IF good = {} THEN m = 0
        ELSE /\ m \in good
             /\ \A j \in good \ {m} :
                  \/ table[j].prefix_length < table[m].prefix_length
                  \/ table[j].prefix_length = table[m].prefix_length /\ m < j

LEMMA BestIsFound ==
    ASSUME NEW table \in Seq(Entries), NEW dst
    PROVE  IsBest(table, dst, Len(table), MatchEntry(table, dst))
  <1> DEFINE n == Len(table)
             match == CHOOSE f : IsSearch(table, dst, n, f)
             S == {k \in 0 .. n : IsBest(table, dst, k, match[k])}
  <1>1. n \in Nat /\ \A k \in 1 .. n : table[k].prefix_length \in Nat
    <2>1. \A k \in 1 .. n : table[k] \in Entries
      OBVIOUS
    <2> QED
      BY <2>1, AddressAssumption DEF Entries
  <1>2. IsSearch(table, dst, n, match)
    BY <1>1, SearchExists
  <1>3. MatchEntry(table, dst) = match[n]
    BY DEF MatchEntry, IsSearch, Better
  <1> HIDE DEF match
  <1>4. match[0] = 0
    BY <1>1, <1>2 DEF IsSearch
  <1>5. ASSUME NEW k \in 0 .. n - 1
        PROVE  match[k + 1] = Better(table, dst, k + 1, match[k])
    <2>1. k + 1 \in 0 .. n /\ k + 1 # 0 /\ (k + 1) - 1 = k
      BY <1>1
    <2> QED
      BY <1>2, <2>1 DEF IsSearch
  <1>6. 0 \in S
    BY <1>1, <1>4 DEF IsBest
  <1>7. ASSUME NEW k \in 0 .. n - 1, k \in S
        PROVE  k + 1 \in S
    <2> DEFINE m == match[k]  next == match[k + 1]
               good(i) == {j \in 1 .. i : Matches(table[j], dst)}
    <2>1. k + 1 \in 1 .. n /\ k \in Nat /\ k + 1 \in 0 .. n
      BY <1>1
    <2>2. IF good(k) = {} THEN m = 0
          ELSE /\ m \in good(k)
               /\ \A j \in good(k) \ {m} :
                    \/ table[j].prefix_length < table[m].prefix_length
                    \/ table[j].prefix_length = table[m].prefix_length /\ m < j
      BY <1>7 DEF IsBest
    <2>3. next = IF /\ Matches(table[k + 1], dst)
                    /\ m = 0 \/ table[m].prefix_length < table[k + 1].prefix_length
                 THEN k + 1 ELSE m
      BY <1>5 DEF Better
    <2>4. good(k + 1) = IF Matches(table[k + 1], dst) THEN good(k) \union {k + 1} ELSE good(k)
      BY <2>1
    <2>5. \A j \in good(k) : j \in 1 .. n /\ j < k + 1 /\ table[j].prefix_length \in Nat
      BY <1>1, <2>1
    <2>6. table[k + 1].prefix_length \in Nat
      BY <1>1, <2>1
    <2> HIDE DEF m, next, good
    <2>7. IF good(k + 1) = {} THEN next = 0
          ELSE /\ next \in good(k + 1)
               /\ \A j \in good(k + 1) \ {next} :
                    \/ table[j].prefix_length < table[next].prefix_length
                    \/ table[j].prefix_length = table[next].prefix_length /\ next < j
      <3>1. CASE ~Matches(table[k + 1], dst)
        BY <2>2, <2>3, <2>4, <3>1
      <3>2. CASE Matches(table[k + 1], dst) /\ good(k) = {}
        BY <2>2, <2>3, <2>4, <3>2
      <3>3. CASE Matches(table[k + 1], dst) /\ good(k) # {}
        <4>1. m \in good(k) /\ m # 0
          BY <2>2, <2>5, <3>3
        <4>2. CASE table[m].prefix_length < table[k + 1].prefix_length
          <5>1. next = k + 1
            BY <2>3, <3>3, <4>2
          <5>2. ASSUME NEW j \in good(k)
                PROVE  table[j].prefix_length < table[k + 1].prefix_length
            BY <2>2, <2>5, <2>6, <3>3, <4>1, <4>2, SMTT(30)
          <5> QED
            BY <2>4, <3>3, <5>1, <5>2
        <4>3. CASE ~(table[m].prefix_length < table[k + 1].prefix_length)
          <5>1. next = m
            BY <2>3, <4>1, <4>3
          <5>2. \/ table[k + 1].prefix_length < table[m].prefix_length
                \/ table[k + 1].prefix_length = table[m].prefix_length /\ m < k + 1
            BY <2>5, <2>6, <4>1, <4>3
          <5> QED
            BY <2>2, <2>4, <3>3, <4>1, <5>1, <5>2
        <4> QED
          BY <4>2, <4>3
      <3> QED
        BY <3>1, <3>2, <3>3
    <2>8. IsBest(table, dst, k + 1, match[k + 1])
      BY <2>7 DEF IsBest, next, good
    <2> QED
      BY <2>1, <2>8
  <1> HIDE DEF S
  <1>8. \A k \in 0 .. n - 1 : k \in S => k + 1 \in S
    BY <1>7
  <1>9. \A k \in 0 .. n : k \in S
    BY <1>1, <1>6, <1>8, Climb
  <1>10. n \in S
    BY <1>1, <1>9
  <1> QED
    BY <1>3, <1>10 DEF S

\* route (router.cc) compares every route once, keeps the first of the longest
\* whose high-order bits are those of the destination, for every table, every
\* destination and any width of the addresses, unless one of these routes has
\* bits below its length, which its two shifts clear in the destination only.
THEOREM RouterPicksTheLongestPrefix == Spec => []PicksTheLongestPrefix
  <1>1. StateOK => PicksTheLongestPrefix
    <2> SUFFICES ASSUME StateOK, NEW r \in Routers, NEW dst \in Addresses,
                        \A k \in DOMAIN routing_table_[r] :
                            Agrees(routing_table_[r][k], dst) => Normal(routing_table_[r][k])
                 PROVE  LET table    == routing_table_[r]
                            agreeing == {k \in DOMAIN table : Agrees(table[k], dst)}
                            m        == MatchEntry(table, dst)
                        IN  IF agreeing = {} THEN m = 0
                            ELSE /\ m \in agreeing
                                 /\ \A k \in agreeing \ {m} :
                                      \/ table[k].prefix_length < table[m].prefix_length
                                      \/ table[k].prefix_length = table[m].prefix_length /\ m < k
      BY DEF PicksTheLongestPrefix
    <2> DEFINE table == routing_table_[r]
    <2>1. table \in Seq(Entries) /\ DOMAIN table = 1 .. Len(table)
      BY DEF StateOK
    <2>2. \A k \in DOMAIN table :
            table[k].route_prefix \in Addresses /\ table[k].prefix_length \in 0 .. AddressBits
      <3>1. \A k \in DOMAIN table : table[k] \in Entries
        BY <2>1
      <3> QED
        BY <3>1 DEF Entries
    <2> HIDE DEF table
    <2>3. ASSUME NEW k \in 1 .. Len(table)
          PROVE  Matches(table[k], dst) <=> Normal(table[k]) /\ Agrees(table[k], dst)
      BY <2>1, <2>2, MatchIsAgreement
    <2>4. {k \in DOMAIN table : Agrees(table[k], dst)} =
            {k \in 1 .. Len(table) : Matches(table[k], dst)}
      BY <2>1, <2>3 DEF table
    <2>5. IsBest(table, dst, Len(table), MatchEntry(table, dst))
      BY <2>1, BestIsFound
    <2> QED
      BY <2>4, <2>5 DEF IsBest, table
  <1> QED
    BY <1>1, StateIsOK, PTL DEF Spec

-----------------------------------------------------------------------------
\* What moves datagrams

\* A send leaves its datagram with the interface or in a frame of its own.
LEMMA SendsMoves ==
    ASSUME StateOK, NEW i \in Interfaces, NEW dgram \in Datagrams, NEW hop \in Addresses,
           NEW rest \in SUBSET net, Sends(itf, i, dgram, hop, rest)
    PROVE  /\ \A j \in Interfaces : \A w \in itf'[j].unknown_eth_addr_ :
                \/ w \in itf[j].unknown_eth_addr_
                \/ j = i /\ w = [hop |-> hop, dgram |-> dgram] /\ Asks(itf[i], hop)
           /\ \A copy \in net' : copy.frame.type = "IPv4" =>
                \/ copy \in rest
                \/ /\ copy \in [to : Interfaces, frame : FramesFrom(i)]
                   /\ copy.frame = IPv4Frame(i, itf[i].arp_table_[hop].addr, dgram)
                   /\ copy.frame.src = i /\ copy.frame.dgram = dgram
                   /\ Knows(itf[i], hop)
  <1> DEFINE frames == FramesOfSend(itf[i], dgram, hop)
  <1>1. InterfaceOK(i, itf[i]) /\ itf[i] \in InterfaceRecords /\ itf[i].ethernet_address_ = i
    BY DEF StateOK, InterfaceOK
  <1>2. /\ itf'[i] = InterfaceAfterSend(itf[i], dgram, hop)
        /\ \A j \in Interfaces : j # i => itf'[j] = itf[j]
    BY DEF Sends, StateOK
  <1>3. \A w \in itf'[i].unknown_eth_addr_ :
          \/ w \in itf[i].unknown_eth_addr_
          \/ w = [hop |-> hop, dgram |-> dgram] /\ Asks(itf[i], hop)
    BY <1>1, <1>2 DEF InterfaceAfterSend, InterfaceRecords
  <1>4. frames \in SUBSET FramesFrom(i)
    BY <1>1, SendIsOK
  <1>5. ASSUME NEW copy \in net', copy.frame.type = "IPv4", copy \notin rest
        PROVE  /\ copy \in [to : Interfaces, frame : FramesFrom(i)]
               /\ copy.frame = IPv4Frame(i, itf[i].arp_table_[hop].addr, dgram)
               /\ copy.frame.src = i /\ copy.frame.dgram = dgram
               /\ Knows(itf[i], hop)
    <2>1. copy \in Copies(i, frames)
      BY <1>5 DEF Sends
    <2>2. copy \in [to : Segment(i), frame : frames]
      BY <2>1 DEF Copies
    <2>3. copy.frame \in frames
      BY <2>2
    <2>4. Knows(itf[i], hop) /\ copy.frame = IPv4Frame(i, itf[i].arp_table_[hop].addr, dgram)
      BY <1>1, <1>5, <2>3 DEF FramesOfSend, arp_request, ArpFrame
    <2>5. copy.frame.src = i /\ copy.frame.dgram = dgram
      BY <2>4 DEF IPv4Frame
    <2> QED
      BY <1>4, <2>2, <2>4, <2>5 DEF Segment
  <1> QED
    BY <1>2, <1>3, <1>5

\* Frames that come in send on what was waiting, and only that.
LEMMA HearsMoves ==
    ASSUME StateOK, NEW copy \in net, Hears(copy.to, copy)
    PROVE  LET g == Learn(itf[copy.to], copy.frame)
               out == Flushed(g, copy.frame)
           IN  /\ copy.to \in Interfaces
               /\ \A j \in Interfaces : \A w \in itf'[j].unknown_eth_addr_ :
                    /\ w \in itf[j].unknown_eth_addr_
                    /\ j = copy.to /\ ~IsForUs(itf[j], copy.frame) => w \notin out
               /\ out \subseteq itf[copy.to].unknown_eth_addr_
               /\ \A c \in net' : c.frame.type = "IPv4" =>
                    \/ c \in net \ {copy}
                    \/ /\ c \in [to : Interfaces, frame : FramesFrom(copy.to)]
                       /\ ~IsForUs(itf[copy.to], copy.frame)
                       /\ \E w \in out :
                            /\ c.frame = IPv4Frame(copy.to, g.arp_table_[w.hop].addr, w.dgram)
                            /\ c.frame.src = copy.to /\ c.frame.dgram = w.dgram
  <1> DEFINE i == copy.to  f == itf[i]
             g == Learn(f, copy.frame)
             out == Flushed(g, copy.frame)
             frames == FramesOfReceive(f, copy.frame)
  <1>1. /\ i \in Interfaces /\ copy.frame \in Frames
        /\ InterfaceOK(i, f) /\ f \in InterfaceRecords
    BY DEF StateOK, CopyOK, FramesFrom, Frames, InterfaceOK
  <1>2. /\ InterfaceOK(i, g) /\ g \in InterfaceRecords
        /\ g.unknown_eth_addr_ = f.unknown_eth_addr_ /\ g.ethernet_address_ = i
    BY <1>1, LearnIsOK DEF InterfaceOK
  <1>3. /\ itf'[i] = InterfaceAfterReceive(f, copy.frame)
        /\ \A j \in Interfaces : j # i => itf'[j] = itf[j]
    BY <1>1 DEF Hears, StateOK
  <1>4. /\ IsForUs(f, copy.frame) => itf'[i] = f
        /\ ~IsForUs(f, copy.frame) =>
             itf'[i].unknown_eth_addr_ = f.unknown_eth_addr_ \ out
    BY <1>2, <1>3 DEF InterfaceAfterReceive, Flush, InterfaceRecords
  <1>5. out \subseteq f.unknown_eth_addr_
    BY <1>2 DEF Flushed
  <1>6. frames \in SUBSET FramesFrom(i)
    BY <1>1, ReceiveIsOK
  <1>7. ASSUME NEW c \in net', c.frame.type = "IPv4", c \notin net \ {copy}
        PROVE  /\ c \in [to : Interfaces, frame : FramesFrom(i)]
               /\ ~IsForUs(f, copy.frame)
               /\ \E w \in out :
                    /\ c.frame = IPv4Frame(i, g.arp_table_[w.hop].addr, w.dgram)
                    /\ c.frame.src = i /\ c.frame.dgram = w.dgram
    <2>1. c \in Copies(i, frames)
      BY <1>7 DEF Hears
    <2>2. c \in [to : Segment(i), frame : frames]
      BY <2>1 DEF Copies
    <2>3. c.frame \in frames
      BY <2>2
    <2>4. ~IsForUs(f, copy.frame)
      BY <2>3 DEF FramesOfReceive
    <2>5. PICK w \in out :
             c.frame = IPv4Frame(g.ethernet_address_, g.arp_table_[w.hop].addr, w.dgram)
      BY <1>7, <2>3 DEF FramesOfReceive, Replies, arp_reply, ArpFrame
    <2>6. c.frame = IPv4Frame(i, g.arp_table_[w.hop].addr, w.dgram)
      BY <1>2, <2>5
    <2>7. c.frame.src = i /\ c.frame.dgram = w.dgram
      BY <2>6 DEF IPv4Frame
    <2> QED
      BY <1>6, <2>2, <2>4, <2>6, <2>7 DEF Segment
  <1> HIDE DEF f, g, out, frames
  <1>8. \A j \in Interfaces : \A w \in itf'[j].unknown_eth_addr_ :
          /\ w \in itf[j].unknown_eth_addr_
          /\ j = i /\ ~IsForUs(itf[j], copy.frame) => w \notin out
    BY <1>3, <1>4 DEF f
  <1> QED
    BY <1>1, <1>5, <1>7, <1>8 DEF f, g, out

-----------------------------------------------------------------------------
\* One place at a time

WaitsFor(id) ==
    {p \in Interfaces \X Waits : p[2] \in itf[p[1]].unknown_eth_addr_ /\ p[2].dgram.id = id}

Lone(S) == \A x, y \in S : x = y

InOnePlace(A, B, C) ==
    /\ Lone(A) /\ Lone(B) /\ Lone(C)
    /\ A = {} \/ B = {}
    /\ A = {} \/ C = {}
    /\ B = {} \/ C = {}

Located(id) == InOnePlace(WaitsFor(id), OnItsWay(id), Arrived(id))

Unsent(id) == WaitsFor(id) = {} /\ OnItsWay(id) = {} /\ Arrived(id) = {}

PlacesOK ==
    /\ handed \in [Hosts -> SUBSET Datagrams]
    /\ \A id \in Nat : Located(id) /\ (id \notin DOMAIN sent => Unsent(id))

\* The datagram of a frame that its addressee can take, or that is taken.
LEMMA TakenIsOnItsWay ==
    ASSUME StateOK, NEW copy \in net, copy.to \in Interfaces,
           IsForUs(itf[copy.to], copy.frame)
    PROVE  /\ copy.frame \in IPv4Frames /\ copy.frame.dgram \in Datagrams
           /\ copy.frame.dgram.id \in Nat
           /\ copy \in OnItsWay(copy.frame.dgram.id)
  <1>1. copy.frame \in IPv4Frames
    BY DEF IsForUs, StateOK, CopyOK, FramesFrom, ArpFrames, DummyFrame
  <1>2. copy.frame.dst = copy.to /\ copy.frame.type = "IPv4"
    BY DEF IsForUs, StateOK, InterfaceOK
  <1> QED
    BY <1>1, <1>2 DEF IPv4Frames, Datagrams, OnItsWay

LEMMA OthersStay ==
    ASSUME PlacesOK, handed' \in [Hosts -> SUBSET Datagrams],
           NEW id \in Nat,
           WaitsFor(id)' \subseteq WaitsFor(id), OnItsWay(id)' \subseteq OnItsWay(id),
           Arrived(id)' \subseteq Arrived(id), DOMAIN sent \subseteq DOMAIN sent'
    PROVE  Located(id)' /\ (id \notin DOMAIN sent' => Unsent(id)')
  <1>1. Located(id) /\ (id \notin DOMAIN sent => Unsent(id))
    BY DEF PlacesOK
  <1>2. Located(id)'
    BY <1>1 DEF Located, InOnePlace, Lone
  <1> QED
    BY <1>1, <1>2 DEF Unsent

\* A datagram that is nowhere else when it is sent is in one place afterwards.
LEMMA SendsToOnePlace ==
    ASSUME StateOK, NEW i \in Interfaces, NEW dgram \in Datagrams, NEW hop \in Addresses,
           NEW rest \in SUBSET net, Sends(itf, i, dgram, hop, rest), NEW id \in Nat
    PROVE  /\ id # dgram.id =>
                WaitsFor(id)' \subseteq WaitsFor(id) /\ OnItsWay(id)' \subseteq OnItsWay(id)
           /\ /\ id = dgram.id /\ WaitsFor(id) = {} /\ rest \cap OnItsWay(id) = {}
              => /\ Lone(WaitsFor(id)') /\ Lone(OnItsWay(id)')
                 /\ WaitsFor(id)' = {} \/ OnItsWay(id)' = {}
  <1> DEFINE new == [hop |-> hop, dgram |-> dgram]
             sentOn == IPv4Frame(i, itf[i].arp_table_[hop].addr, dgram)
  <1>1. \A j \in Interfaces : \A w \in itf'[j].unknown_eth_addr_ :
          \/ w \in itf[j].unknown_eth_addr_
          \/ j = i /\ w = new /\ Asks(itf[i], hop)
    BY SendsMoves
  <1>2. \A copy \in net' : copy.frame.type = "IPv4" =>
          \/ copy \in rest
          \/ /\ copy \in [to : Interfaces, frame : FramesFrom(i)]
             /\ copy.frame = sentOn /\ copy.frame.dgram = dgram
             /\ Knows(itf[i], hop)
    BY SendsMoves
  <1>3. new.dgram = dgram
    OBVIOUS
  <1> HIDE DEF new, sentOn
  <1>4. ASSUME id # dgram.id
        PROVE  WaitsFor(id)' \subseteq WaitsFor(id) /\ OnItsWay(id)' \subseteq OnItsWay(id)
    <2>1. ASSUME NEW p \in WaitsFor(id)'
          PROVE  p \in WaitsFor(id)
      BY <1>1, <1>3, <1>4, <2>1 DEF WaitsFor
    <2>2. ASSUME NEW c \in OnItsWay(id)'
          PROVE  c \in OnItsWay(id)
      BY <1>2, <1>4, <2>2 DEF OnItsWay
    <2> QED
      BY <2>1, <2>2
  <1>5. ASSUME id = dgram.id, WaitsFor(id) = {}, rest \cap OnItsWay(id) = {}
        PROVE  /\ Lone(WaitsFor(id)') /\ Lone(OnItsWay(id)')
               /\ WaitsFor(id)' = {} \/ OnItsWay(id)' = {}
    <2>1. ASSUME NEW p \in WaitsFor(id)'
          PROVE  p = <<i, new>> /\ Asks(itf[i], hop)
      <3>1. /\ p \in Interfaces \X Waits /\ p[1] \in Interfaces
            /\ p[2] \in itf'[p[1]].unknown_eth_addr_ /\ p[2].dgram.id = id
        BY <2>1 DEF WaitsFor
      <3>2. p[2] \notin itf[p[1]].unknown_eth_addr_
        BY <1>5, <3>1 DEF WaitsFor
      <3> QED
        BY <1>1, <3>1, <3>2
    <2>2. ASSUME NEW c \in OnItsWay(id)'
          PROVE  /\ c \in [to : Interfaces, frame : FramesFrom(i)]
                 /\ c.frame = sentOn /\ c.to = sentOn.dst
                 /\ Knows(itf[i], hop)
      <3>1. /\ c \in net' /\ c.frame.type = "IPv4" /\ c.frame.dst = c.to
            /\ c.frame.dgram.id = id
        BY <2>2 DEF OnItsWay
      <3>2. c \notin rest
        BY <1>5, <3>1 DEF OnItsWay
      <3> QED
        BY <1>2, <3>1, <3>2
    <2>3. Lone(WaitsFor(id)')
      BY <2>1 DEF Lone
    <2>4. Lone(OnItsWay(id)')
      <3>1. ASSUME NEW c \in OnItsWay(id)'
            PROVE  c = [to |-> sentOn.dst, frame |-> sentOn]
        BY <2>2
      <3> QED
        BY <3>1 DEF Lone
    <2>5. WaitsFor(id)' = {} \/ OnItsWay(id)' = {}
      BY <2>1, <2>2 DEF Asks
    <2> QED
      BY <2>3, <2>4, <2>5
  <1> QED
    BY <1>4, <1>5

\* What frames send on leaves its waiting place for one frame.
LEMMA HearsToOnePlace ==
    ASSUME StateOK, PlacesOK, NEW copy \in net, Hears(copy.to, copy), NEW id \in Nat
    PROVE  \/ WaitsFor(id)' \subseteq WaitsFor(id) /\ OnItsWay(id)' \subseteq OnItsWay(id) \ {copy}
           \/ WaitsFor(id) # {} /\ WaitsFor(id)' = {} /\ Lone(OnItsWay(id)')
  <1> DEFINE i == copy.to
             g == Learn(itf[i], copy.frame)
             out == Flushed(g, copy.frame)
             addr(w) == g.arp_table_[w.hop].addr
  <1>1. /\ i \in Interfaces
        /\ \A j \in Interfaces : \A w \in itf'[j].unknown_eth_addr_ :
             /\ w \in itf[j].unknown_eth_addr_
             /\ j = i /\ ~IsForUs(itf[j], copy.frame) => w \notin out
        /\ out \subseteq itf[i].unknown_eth_addr_
        /\ \A c \in net' : c.frame.type = "IPv4" =>
             \/ c \in net \ {copy}
             \/ /\ c \in [to : Interfaces, frame : FramesFrom(i)]
                /\ ~IsForUs(itf[i], copy.frame)
                /\ \E w \in out : c.frame = IPv4Frame(i, addr(w), w.dgram)
                                  /\ c.frame.src = i /\ c.frame.dgram = w.dgram
    BY HearsMoves
  <1>2. itf[i].unknown_eth_addr_ \subseteq Waits
    BY <1>1 DEF StateOK, InterfaceOK, InterfaceRecords
  <1> HIDE DEF i, g, out, addr
  <1>3. WaitsFor(id)' \subseteq WaitsFor(id)
    BY <1>1 DEF WaitsFor
  <1>4. CASE ~IsForUs(itf[i], copy.frame) /\ \E w \in out : w.dgram.id = id
    <2>1. PICK w \in out : w.dgram.id = id
      BY <1>4
    <2>2. <<i, w>> \in WaitsFor(id)
      BY <1>1, <1>2, <2>1 DEF WaitsFor
    <2>3. /\ \A p \in WaitsFor(id) : p = <<i, w>>
          /\ OnItsWay(id) = {}
      BY <2>2 DEF PlacesOK, Located, InOnePlace, Lone
    <2>4. WaitsFor(id)' = {}
      <3> SUFFICES ASSUME NEW p \in WaitsFor(id)' PROVE FALSE
        OBVIOUS
      <3>1. p = <<i, w>>
        BY <1>3, <2>3
      <3>2. w \in itf'[i].unknown_eth_addr_
        BY <3>1 DEF WaitsFor
      <3> QED
        BY <1>1, <1>4, <2>1, <3>2
    <2>5. ASSUME NEW c \in OnItsWay(id)'
          PROVE  c = [to |-> IPv4Frame(i, addr(w), w.dgram).dst,
                      frame |-> IPv4Frame(i, addr(w), w.dgram)]
      <3>1. /\ c \in net' /\ c.frame.type = "IPv4" /\ c.frame.dst = c.to
            /\ c.frame.dgram.id = id
        BY <2>5 DEF OnItsWay
      <3>2. c \notin net
        BY <2>3, <3>1 DEF OnItsWay
      <3>3. PICK v \in out : c.frame = IPv4Frame(i, addr(v), v.dgram) /\ c.frame.dgram = v.dgram
        BY <1>1, <3>1, <3>2
      <3>4. <<i, v>> \in WaitsFor(id)
        BY <1>1, <1>2, <3>1, <3>3 DEF WaitsFor
      <3>5. v = w
        BY <2>3, <3>4
      <3>6. c \in [to : Interfaces, frame : FramesFrom(i)]
        BY <1>1, <3>1, <3>2
      <3> QED
        BY <3>1, <3>3, <3>5, <3>6
    <2>6. Lone(OnItsWay(id)')
      BY <2>5 DEF Lone
    <2> QED
      BY <2>2, <2>4, <2>6
  <1>5. CASE IsForUs(itf[i], copy.frame) \/ \A w \in out : w.dgram.id # id
    <2>1. ASSUME NEW c \in OnItsWay(id)'
          PROVE  c \in OnItsWay(id) \ {copy}
      BY <1>1, <1>5 DEF OnItsWay
    <2> QED
      BY <1>3, <2>1
  <1> QED
    BY <1>4, <1>5

LEMMA InitIsInOnePlace == Init => PlacesOK
  <1> SUFFICES ASSUME Init PROVE PlacesOK
    OBVIOUS
  <1>1. \A i \in Interfaces : itf[i].unknown_eth_addr_ = {}
    BY DEF Init, NewInterface
  <1>2. \A copy \in net : copy.frame.type # "IPv4"
    BY DEF Init, Copies, DummyFrame
  <1>3. \A id \in Nat : Unsent(id)
    BY <1>1, <1>2 DEF Init, Unsent, WaitsFor, OnItsWay, Arrived
  <1> QED
    BY <1>3 DEF Init, PlacesOK, Unsent, Located, InOnePlace, Lone

LEMMA StepsKeepPlaces == StateOK /\ PlacesOK /\ [Next]_vars => PlacesOK'
  <1> SUFFICES ASSUME StateOK, PlacesOK, [Next]_vars PROVE PlacesOK'
    OBVIOUS
  <1>a. handed \in [Hosts -> SUBSET Datagrams]
    BY DEF PlacesOK
  <1>b. \A id \in Nat : Located(id) /\ (id \notin DOMAIN sent => Unsent(id))
    BY DEF PlacesOK
  <1>1. ASSUME UNCHANGED <<handed, sent>>, net' \subseteq net,
               \A i \in Interfaces : itf'[i].unknown_eth_addr_ = itf[i].unknown_eth_addr_
        PROVE  PlacesOK'
    <2>1. ASSUME NEW id \in Nat
          PROVE  /\ WaitsFor(id)' \subseteq WaitsFor(id)
                 /\ OnItsWay(id)' \subseteq OnItsWay(id)
                 /\ Arrived(id)' \subseteq Arrived(id)
      BY <1>1 DEF WaitsFor, OnItsWay, Arrived
    <2>2. \A id \in Nat : Located(id)' /\ (id \notin DOMAIN sent' => Unsent(id)')
      BY <1>1, <1>a, <2>1, OthersStay
    <2> QED
      BY <1>1, <1>a, <2>2 DEF PlacesOK
  <1>2. ASSUME NEW h \in Hosts, NEW packet \in Packets[h], write(h, packet)
        PROVE  PlacesOK'
    <2> DEFINE dgram == [id |-> Len(sent) + 1, ttl |-> packet.ttl, seg |-> packet.seg,
                         src |-> adapter[h].source, dst |-> adapter[h].destination]
    <2>1. h \in Interfaces /\ NextHop[h] \in Addresses /\ dgram \in Datagrams
      BY WrittenIsDatagram
    <2>2. /\ Sends(itf, h, dgram, NextHop[h], net) /\ sent' = Append(sent, dgram)
          /\ UNCHANGED handed
      BY <1>2 DEF write
    <2>3. dgram.id = Len(sent) + 1
      OBVIOUS
    <2> HIDE DEF dgram
    <2>4. /\ DOMAIN sent' = DOMAIN sent \union {dgram.id} /\ dgram.id \notin DOMAIN sent
          /\ dgram.id \in Nat
      BY <2>1, <2>2, <2>3 DEF StateOK
    <2>5. \A id \in Nat : Arrived(id)' = Arrived(id)
      BY <2>2 DEF Arrived
    <2>6. ASSUME NEW id \in Nat
          PROVE  Located(id)' /\ (id \notin DOMAIN sent' => Unsent(id)')
      <3>1. CASE id = dgram.id
        <4>1. Unsent(id)
          BY <1>b, <2>4, <3>1
        <4>2. /\ Lone(WaitsFor(id)') /\ Lone(OnItsWay(id)')
              /\ WaitsFor(id)' = {} \/ OnItsWay(id)' = {}
          BY <2>1, <2>2, <3>1, <4>1, SendsToOnePlace DEF Unsent
        <4> QED
          BY <2>4, <2>5, <3>1, <4>1, <4>2 DEF Located, InOnePlace, Unsent, Lone
      <3>2. CASE id # dgram.id
        <4>1. WaitsFor(id)' \subseteq WaitsFor(id) /\ OnItsWay(id)' \subseteq OnItsWay(id)
          BY <2>1, <2>2, <3>2, SendsToOnePlace
        <4> QED
          BY <1>a, <2>2, <2>4, <2>5, <4>1, OthersStay
      <3> QED
        BY <3>1, <3>2
    <2> QED
      BY <1>a, <2>2, <2>6 DEF PlacesOK
  <1>3. ASSUME NEW copy \in net, Hears(copy.to, copy), UNCHANGED <<handed, sent>>
        PROVE  PlacesOK'
    <2>1. ASSUME NEW id \in Nat
          PROVE  Located(id)' /\ (id \notin DOMAIN sent' => Unsent(id)')
      <3>1. Arrived(id)' = Arrived(id)
        BY <1>3 DEF Arrived
      <3>2. CASE /\ WaitsFor(id)' \subseteq WaitsFor(id)
                 /\ OnItsWay(id)' \subseteq OnItsWay(id) \ {copy}
        BY <1>3, <1>a, <3>1, <3>2, OthersStay
      <3>3. CASE WaitsFor(id) # {} /\ WaitsFor(id)' = {} /\ Lone(OnItsWay(id)')
        <4>1. Arrived(id) = {} /\ id \in DOMAIN sent
          BY <1>b, <3>3 DEF Located, InOnePlace, Unsent
        <4> QED
          BY <1>3, <3>1, <3>3, <4>1 DEF Located, InOnePlace, Lone
      <3> QED
        BY <1>3, <3>2, <3>3, HearsToOnePlace
    <2> QED
      BY <1>3, <1>a, <2>1 DEF PlacesOK
  <1>4. ASSUME NEW copy \in net, copy.to \in Hosts, receive(copy.to, copy)
        PROVE  PlacesOK'
    <2> DEFINE h == copy.to  dgram == copy.frame.dgram
    <2>1. /\ h \in Interfaces /\ IsForUs(itf[h], copy.frame) /\ Hears(h, copy)
          /\ handed' = [handed EXCEPT ![h] = @ \union {dgram}] /\ UNCHANGED sent
      BY <1>4, NetworkAssumption DEF receive, Delivers
    <2>2. /\ dgram \in Datagrams /\ dgram.id \in Nat /\ copy \in OnItsWay(dgram.id)
      BY <2>1, TakenIsOnItsWay
    <2>3. handed' \in [Hosts -> SUBSET Datagrams]
      BY <1>4, <1>a, <2>1, <2>2
    <2>4. ASSUME NEW id \in Nat
          PROVE  WaitsFor(id)' \subseteq WaitsFor(id) /\ OnItsWay(id)' \subseteq OnItsWay(id) \ {copy}
      <3>1. itf' = itf /\ net' \subseteq net \ {copy}
        BY <2>1 DEF Hears, InterfaceAfterReceive, FramesOfReceive, Copies, StateOK
      <3> QED
        BY <3>1 DEF WaitsFor, OnItsWay
    <2>5. ASSUME NEW id \in Nat
          PROVE  Located(id)' /\ (id \notin DOMAIN sent' => Unsent(id)')
      <3>1. CASE id # dgram.id
        <4>1. Arrived(id)' \subseteq Arrived(id)
          BY <1>4, <1>a, <2>1, <3>1 DEF Arrived
        <4> QED
          BY <2>1, <2>3, <2>4, <4>1, OthersStay
      <3>2. CASE id = dgram.id
        <4>1. /\ WaitsFor(id) = {} /\ Arrived(id) = {} /\ OnItsWay(id) \ {copy} = {}
              /\ id \in DOMAIN sent
          BY <1>b, <2>2, <3>2 DEF Located, InOnePlace, Lone, Unsent
        <4>2. WaitsFor(id)' = {} /\ OnItsWay(id)' = {}
          BY <2>4, <4>1
        <4>3. \A k \in Arrived(id)' : k = h
          BY <1>4, <1>a, <2>1, <4>1 DEF Arrived
        <4> QED
          BY <2>1, <4>1, <4>2, <4>3 DEF Located, InOnePlace, Lone
      <3> QED
        BY <3>1, <3>2
    <2> QED
      BY <2>3, <2>5 DEF PlacesOK
  <1>5. ASSUME NEW copy \in net, copy.to \in Interfaces \ Hosts, forward(copy.to, copy)
        PROVE  PlacesOK'
    <2> DEFINE dgram == copy.frame.dgram  table == routing_table_[Node[copy.to]]
    <2>1. PICK k \in DOMAIN table :
             Sends(itf, table[k].interface_num, Decremented(dgram),
                   HopOf(table[k], dgram.dst.ip), net \ {copy})
      BY <1>5 DEF forward
    <2>2. /\ Decremented(dgram) \in Datagrams /\ dgram \in Datagrams
          /\ table[k].interface_num \in Interfaces
          /\ HopOf(table[k], dgram.dst.ip) \in Addresses
      BY <1>5, ForwardedIsDatagram DEF forward
    <2>3. Decremented(dgram).id = dgram.id
      BY <2>2 DEF Decremented, Datagrams
    <2>4. dgram.id \in Nat /\ copy \in OnItsWay(dgram.id)
      BY <1>5, TakenIsOnItsWay DEF forward
    <2>5. UNCHANGED <<handed, sent>>
      BY <1>5 DEF forward
    <2> HIDE DEF dgram, table
    <2>6. ASSUME NEW id \in Nat
          PROVE  Located(id)' /\ (id \notin DOMAIN sent' => Unsent(id)')
      <3>1. Arrived(id)' = Arrived(id)
        BY <2>5 DEF Arrived
      <3>2. CASE id = dgram.id
        <4>1. /\ WaitsFor(id) = {} /\ Arrived(id) = {} /\ OnItsWay(id) \ {copy} = {}
              /\ id \in DOMAIN sent
          BY <1>b, <2>4, <3>2 DEF Located, InOnePlace, Lone, Unsent
        <4>2. /\ Lone(WaitsFor(id)') /\ Lone(OnItsWay(id)')
              /\ WaitsFor(id)' = {} \/ OnItsWay(id)' = {}
          <5>1. (net \ {copy}) \cap OnItsWay(id) = {}
            BY <4>1
          <5> QED
            BY <2>1, <2>2, <2>3, <3>2, <4>1, <5>1, SendsToOnePlace
        <4> QED
          BY <2>5, <3>1, <4>1, <4>2 DEF Located, InOnePlace, Lone
      <3>3. CASE id # dgram.id
        <4>1. WaitsFor(id)' \subseteq WaitsFor(id) /\ OnItsWay(id)' \subseteq OnItsWay(id)
          BY <2>1, <2>2, <2>3, <3>3, SendsToOnePlace
        <4> QED
          BY <1>a, <2>5, <3>1, <4>1, OthersStay
      <3> QED
        BY <3>2, <3>3
    <2> QED
      BY <1>a, <2>5, <2>6 DEF PlacesOK
  <1>6. ASSUME NEW r \in Routers, NEW k \in DOMAIN Routes[r], add_route(r, k)
        PROVE  PlacesOK'
    BY <1>1, <1>6 DEF add_route
  <1>7. ASSUME NEW copy \in net,
               \/ receive_nothing(copy.to, copy) \/ hear(copy.to, copy)
        PROVE  PlacesOK'
    BY <1>3, <1>7 DEF receive_nothing, hear
  <1>8. ASSUME NEW copy \in net, drop(copy.to, copy)
        PROVE  PlacesOK'
    BY <1>1, <1>8 DEF drop
  <1>9. ASSUME NEW n \in Nodes, tick(n)
        PROVE  PlacesOK'
    <2>1. \A i \in Interfaces :
            InterfaceAfterTick(itf[i], 1).unknown_eth_addr_ = itf[i].unknown_eth_addr_
      BY TickIsOK DEF StateOK
    <2> QED
      BY <1>1, <1>9, <2>1 DEF tick
  <1>10. CASE UNCHANGED vars
    BY <1>1, <1>10 DEF vars
  <1> QED
    BY <1>2, <1>4, <1>5, <1>6, <1>7, <1>8, <1>9, <1>10 DEF Next

LEMMA LoneIsOneAtMost ==
    ASSUME NEW S, Lone(S)
    PROVE  Cardinality(S) \in {0, 1} /\ (S = {} => Cardinality(S) = 0)
  <1>1. CASE S = {}
    BY <1>1, FS_EmptySet
  <1>2. CASE S # {}
    <2>1. PICK x \in S : S = {x}
      BY <1>2 DEF Lone
    <2> QED
      BY <2>1, FS_Singleton
  <1> QED
    BY <1>1, <1>2

\* A datagram is dropped, kept or sent on, never two of them (network_interface.cc
\* and router.cc), also when a request is pending, an answer comes in late or a
\* frame is heard by an interface it is not for: so no host takes one twice.
THEOREM DatagramsAreInOnePlace == Spec => []OnePlaceAtATime
  <1>1. StateOK /\ PlacesOK => OnePlaceAtATime
    <2> SUFFICES ASSUME StateOK, PlacesOK, NEW id \in DOMAIN sent
                 PROVE  Cardinality(Waiting(id)) + Cardinality(OnItsWay(id))
                          + Cardinality(Arrived(id)) <= 1
      BY DEF OnePlaceAtATime
    <2>1. Located(id)
      BY DEF PlacesOK, StateOK
    <2>2. Lone(Waiting(id)) /\ (WaitsFor(id) = {} => Waiting(id) = {})
      <3>1. \A i \in Waiting(id) : \E w : <<i, w>> \in WaitsFor(id)
        BY DEF Waiting, WaitsFor, StateOK, InterfaceRecords
      <3> QED
        BY <2>1, <3>1 DEF Located, InOnePlace, Lone
    <2>3. /\ Lone(OnItsWay(id)) /\ Lone(Arrived(id))
          /\ Waiting(id) = {} \/ OnItsWay(id) = {}
          /\ Waiting(id) = {} \/ Arrived(id) = {}
          /\ OnItsWay(id) = {} \/ Arrived(id) = {}
      BY <2>1, <2>2 DEF Located, InOnePlace
    <2>4. /\ Cardinality(Waiting(id)) \in {0, 1}
          /\ Waiting(id) = {} => Cardinality(Waiting(id)) = 0
      BY <2>2, LoneIsOneAtMost
    <2>5. /\ Cardinality(OnItsWay(id)) \in {0, 1}
          /\ OnItsWay(id) = {} => Cardinality(OnItsWay(id)) = 0
      BY <2>3, LoneIsOneAtMost
    <2>6. /\ Cardinality(Arrived(id)) \in {0, 1}
          /\ Arrived(id) = {} => Cardinality(Arrived(id)) = 0
      BY <2>3, LoneIsOneAtMost
    <2> QED
      BY <2>3, <2>4, <2>5, <2>6
  <1> QED
    BY <1>1, InitIsInOnePlace, StepsKeepPlaces, StateIsOK, PTL DEF Spec

-----------------------------------------------------------------------------
\* What arrives

\* The datagram is one that was sent, but for time to live.
Unaltered(dgram) ==
    /\ dgram.id \in DOMAIN sent
    /\ dgram.seg = sent[dgram.id].seg
    /\ dgram.src = sent[dgram.id].src /\ dgram.dst = sent[dgram.id].dst
    /\ dgram.ttl <= sent[dgram.id].ttl

\* How interface i has it, to keep or to send.
Carries(i, dgram) ==
    /\ Unaltered(dgram)
    /\ OneRouter =>
         dgram = IF i \in Hosts THEN sent[dgram.id] ELSE Decremented(sent[dgram.id])

\* How host h has received it.
Received(h, dgram) ==
    /\ Unaltered(dgram)
    /\ ~adapter[h].listening
    /\ dgram.src = adapter[h].destination /\ dgram.dst = adapter[h].source
    /\ OneRouter => dgram = Decremented(sent[dgram.id])

Kept ==
    /\ \A i \in Interfaces : \A w \in itf[i].unknown_eth_addr_ : Carries(i, w.dgram)
    /\ \A copy \in net : copy.frame.type = "IPv4" =>
         Carries(copy.frame.src, copy.frame.dgram)
    /\ \A h \in Hosts : \A dgram \in handed[h] : Received(h, dgram)

\* What is given to a host's TCP is addressed to the address it answers from,
\* comes from its one peer, and is what that peer sent, but for time to live.
ArrivesUnaltered ==
    \A h \in Hosts : \A dgram \in handed[h] :
        /\ ~adapter[h].listening
        /\ dgram.src = adapter[h].destination /\ dgram.dst = adapter[h].source
        /\ Unaltered(dgram)

LEMMA SendsCarries ==
    ASSUME StateOK, Kept, NEW i \in Interfaces, NEW dgram \in Datagrams, NEW hop \in Addresses,
           NEW rest \in SUBSET net, Sends(itf, i, dgram, hop, rest),
           UNCHANGED <<handed, adapter>>,
           Carries(i, dgram)',
           \A d : Unaltered(d) => Unaltered(d)' /\ sent'[d.id] = sent[d.id]
    PROVE  Kept'
  <1>1. \A j, d : Carries(j, d) => Carries(j, d)'
    BY DEF Carries, OneRouter, Segment
  <1>2. \A h, d : Received(h, d) => Received(h, d)'
    BY DEF Received, OneRouter, Segment
  <1>3. \A j \in Interfaces : \A w \in itf'[j].unknown_eth_addr_ :
          \/ w \in itf[j].unknown_eth_addr_
          \/ j = i /\ w.dgram = dgram
    <2> DEFINE new == [hop |-> hop, dgram |-> dgram]
    <2>1. \A j \in Interfaces : \A w \in itf'[j].unknown_eth_addr_ :
            \/ w \in itf[j].unknown_eth_addr_
            \/ j = i /\ w = new
      BY SendsMoves
    <2>2. new.dgram = dgram
      OBVIOUS
    <2> HIDE DEF new
    <2> QED
      BY <2>1, <2>2
  <1>4. \A copy \in net' : copy.frame.type = "IPv4" =>
          \/ copy \in rest
          \/ copy.frame.src = i /\ copy.frame.dgram = dgram
    <2>1. \A copy \in net' : copy.frame.type = "IPv4" =>
            \/ copy \in rest
            \/ /\ copy \in [to : Interfaces, frame : FramesFrom(i)]
               /\ copy.frame = IPv4Frame(i, itf[i].arp_table_[hop].addr, dgram)
               /\ copy.frame.src = i /\ copy.frame.dgram = dgram
               /\ Knows(itf[i], hop)
      BY SendsMoves
    <2> QED
      BY <2>1
  <1>5. \A j \in Interfaces : \A w \in itf'[j].unknown_eth_addr_ : Carries(j, w.dgram)'
    BY <1>1, <1>3 DEF Kept
  <1>6. \A copy \in net' : copy.frame.type = "IPv4" =>
          Carries(copy.frame.src, copy.frame.dgram)'
    BY <1>1, <1>4 DEF Kept
  <1> QED
    BY <1>2, <1>5, <1>6 DEF Kept

LEMMA HearsCarries ==
    ASSUME StateOK, Kept, NEW copy \in net, Hears(copy.to, copy), UNCHANGED sent
    PROVE  /\ \A i \in Interfaces : \A w \in itf'[i].unknown_eth_addr_ : Carries(i, w.dgram)'
           /\ \A c \in net' : c.frame.type = "IPv4" => Carries(c.frame.src, c.frame.dgram)'
  <1>1. \A j, d : Carries(j, d) => Carries(j, d)'
    BY DEF Carries, OneRouter, Segment, Unaltered
  <1>2. /\ copy.to \in Interfaces
        /\ \A j \in Interfaces : \A w \in itf'[j].unknown_eth_addr_ :
             w \in itf[j].unknown_eth_addr_
        /\ \A c \in net' : c.frame.type = "IPv4" =>
             \/ c \in net
             \/ \E w \in itf[copy.to].unknown_eth_addr_ :
                  c.frame.src = copy.to /\ c.frame.dgram = w.dgram
    BY HearsMoves
  <1>3. \A i \in Interfaces : \A w \in itf'[i].unknown_eth_addr_ : Carries(i, w.dgram)'
    BY <1>1, <1>2 DEF Kept
  <1>4. \A c \in net' : c.frame.type = "IPv4" => Carries(c.frame.src, c.frame.dgram)'
    BY <1>1, <1>2 DEF Kept
  <1> QED
    BY <1>3, <1>4

\* With one router on the way, what a host takes was sent by a router's
\* interface, and what a router's interface takes by a host.
LEMMA TakenFromTheOtherSide ==
    ASSUME StateOK, HopsAreTrue, NEW copy \in net, copy.to \in Interfaces,
           IsForUs(itf[copy.to], copy.frame), OneRouter
    PROVE  copy.to \in Hosts <=> copy.frame.src \notin Hosts
  <1> DEFINE i == copy.to  j == copy.frame.src
  <1>1. /\ copy.frame \in FramesFrom(j) /\ j \in Interfaces /\ i \in Segment(j)
        /\ j \in Segment(i) /\ copy.frame.dst = i /\ copy.frame.type = "IPv4"
    BY DEF StateOK, CopyOK, FramesFrom, IsForUs, InterfaceOK, DummyFrame, Segment
  <1>2. Owns(i, NextHopOf(j, copy.frame.dgram), j)
    BY <1>1, NetworkAssumption DEF HopsAreTrue, Reaches
  <1>3. CASE i \in Hosts
    BY <1>1, <1>2, <1>3 DEF OneRouter, NextHopOf, Owns
  <1>4. CASE i \notin Hosts
    BY <1>1, <1>4 DEF OneRouter
  <1> QED
    BY <1>3, <1>4

LEMMA StepsKeepDatagrams ==
    StateOK /\ HopsAreTrue /\ Kept /\ [Next]_vars => Kept'
  <1> SUFFICES ASSUME StateOK, HopsAreTrue, Kept, [Next]_vars PROVE Kept'
    OBVIOUS
  <1>1. ASSUME UNCHANGED <<handed, sent, adapter>>, net' \subseteq net,
               \A i \in Interfaces : itf'[i].unknown_eth_addr_ = itf[i].unknown_eth_addr_
        PROVE  Kept'
    BY <1>1 DEF Kept, Carries, Received, Unaltered, OneRouter, Segment
  <1>2. ASSUME NEW h \in Hosts, NEW packet \in Packets[h], write(h, packet)
        PROVE  Kept'
    <2>0. PICK dgram :
             dgram = [id |-> Len(sent) + 1, ttl |-> packet.ttl, seg |-> packet.seg,
                      src |-> adapter[h].source, dst |-> adapter[h].destination]
      OBVIOUS
    <2>1. h \in Interfaces /\ NextHop[h] \in Addresses /\ dgram \in Datagrams
      BY <2>0, WrittenIsDatagram
    <2>2. /\ Sends(itf, h, dgram, NextHop[h], net) /\ sent' = Append(sent, dgram)
          /\ UNCHANGED <<handed, adapter>>
      BY <1>2, <2>0 DEF write
    <2>3. dgram.id = Len(sent) + 1
      BY <2>0
    <2>4. /\ \A id \in DOMAIN sent : id \in DOMAIN sent' /\ sent'[id] = sent[id]
          /\ dgram.id \in DOMAIN sent' /\ sent'[dgram.id] = dgram
      BY <2>1, <2>2, <2>3 DEF StateOK
    <2>5. \A d : Unaltered(d) => Unaltered(d)' /\ sent'[d.id] = sent[d.id]
      BY <2>4 DEF Unaltered
    <2>6. Carries(h, dgram)'
      BY <2>1, <2>4 DEF Carries, Unaltered, Datagrams
    <2> QED
      BY <2>1, <2>2, <2>5, <2>6, SendsCarries
  <1>3. ASSUME NEW copy \in net, copy.to \in Hosts, receive(copy.to, copy)
        PROVE  Kept'
    <2> DEFINE h == copy.to  dgram == copy.frame.dgram  a == adapter[h]
    <2>1. /\ h \in Interfaces /\ IsForUs(itf[h], copy.frame) /\ Hears(h, copy)
          /\ Admits(a, dgram)
          /\ adapter' = [adapter EXCEPT ![h] = AdapterAfter(a, dgram)]
          /\ handed' = [handed EXCEPT ![h] = @ \union {dgram}] /\ UNCHANGED sent
      BY <1>3, NetworkAssumption DEF receive, Delivers
    <2>2. dgram \in Datagrams /\ a \in Adapters /\ copy.frame.type = "IPv4"
      BY <1>3, <2>1, TakenIsOnItsWay DEF StateOK, IPv4Frames
    <2>3. Carries(copy.frame.src, dgram)
      BY <2>2 DEF Kept
    <2>4. OneRouter => copy.frame.src \notin Hosts
      BY <1>3, <2>1, TakenFromTheOtherSide
    <2>5. /\ ~AdapterAfter(a, dgram).listening
          /\ dgram.src = AdapterAfter(a, dgram).destination
          /\ dgram.dst = AdapterAfter(a, dgram).source
          /\ ~a.listening => AdapterAfter(a, dgram) = a
      <3>1. /\ dgram.dst \in Endpoints /\ dgram.src \in Endpoints
            /\ a.source \in Endpoints /\ a.destination \in Endpoints
        BY <2>2 DEF Datagrams, Adapters
      <3>2. CASE a.listening
        BY <2>1, <3>1, <3>2 DEF Admits, AdapterAfter, Endpoints
      <3>3. CASE ~a.listening
        BY <2>1, <3>1, <3>3 DEF Admits, AdapterAfter, Endpoints
      <3> QED
        BY <3>2, <3>3
    <2>6. /\ adapter'[h] = AdapterAfter(a, dgram)
          /\ \A k \in Hosts : k # h => adapter'[k] = adapter[k]
      BY <1>3, <2>1 DEF StateOK
    <2>7. ASSUME NEW k \in Hosts, NEW d \in handed'[k]
          PROVE  Received(k, d)'
      <3>1. \/ d \in handed[k]
            \/ k = h /\ d = dgram
        BY <1>3, <2>1, <2>7
      <3>2. CASE d \in handed[k]
        <4>1. Received(k, d)
          BY <3>2 DEF Kept
        <4>2. adapter'[k] = adapter[k]
          BY <2>5, <2>6, <4>1 DEF Received
        <4> QED
          BY <2>1, <4>1, <4>2 DEF Received, Unaltered, OneRouter, Segment
      <3>3. CASE k = h /\ d = dgram
        BY <2>1, <2>3, <2>4, <2>5, <2>6, <3>3
           DEF Received, Carries, Unaltered, OneRouter, Segment
      <3> QED
        BY <3>1, <3>2, <3>3
    <2> QED
      BY <2>1, <2>7, HearsCarries DEF Kept
  <1>4. ASSUME NEW copy \in net,
               \/ receive_nothing(copy.to, copy) \/ hear(copy.to, copy)
        PROVE  Kept'
    <2>1. Hears(copy.to, copy) /\ UNCHANGED <<sent, handed, adapter>>
      BY <1>4 DEF receive_nothing, hear
    <2>2. \A h \in Hosts : \A dgram \in handed'[h] : Received(h, dgram)'
      BY <2>1 DEF Kept, Received, Unaltered, OneRouter, Segment
    <2> QED
      BY <2>1, <2>2, HearsCarries DEF Kept
  <1>5. ASSUME NEW copy \in net, copy.to \in Interfaces \ Hosts, forward(copy.to, copy)
        PROVE  Kept'
    <2> DEFINE dgram == copy.frame.dgram  table == routing_table_[Node[copy.to]]
    <2>1. PICK k \in DOMAIN table :
             Sends(itf, table[k].interface_num, Decremented(dgram),
                   HopOf(table[k], dgram.dst.ip), net \ {copy})
      BY <1>5 DEF forward
    <2>2. /\ Decremented(dgram) \in Datagrams /\ dgram \in Datagrams
          /\ table[k].interface_num \in Interfaces \ Hosts
          /\ HopOf(table[k], dgram.dst.ip) \in Addresses
      BY <1>5, ForwardedIsDatagram DEF forward
    <2>3. PICK j, next, hop :
            /\ j = table[k].interface_num /\ next = Decremented(dgram)
            /\ hop = HopOf(table[k], dgram.dst.ip)
      OBVIOUS
    <2>4. /\ next.id = dgram.id /\ next.seg = dgram.seg
          /\ next.src = dgram.src /\ next.dst = dgram.dst
          /\ next.ttl = dgram.ttl - 1
      BY <2>2, <2>3 DEF Decremented, Datagrams
    <2>5. Carries(copy.frame.src, dgram) /\ IsForUs(itf[copy.to], copy.frame)
      BY <1>5 DEF forward, IsForUs, Kept
    <2>6. OneRouter => copy.frame.src \in Hosts
      BY <1>5, <2>5, TakenFromTheOtherSide
    <2>7. UNCHANGED <<handed, sent, adapter>>
      BY <1>5 DEF forward
    <2>8. Unaltered(next)
      <3>1. dgram.ttl \in Nat /\ sent[dgram.id].ttl \in Nat
        <4>1. sent[dgram.id] \in Datagrams
          BY <2>5 DEF Carries, Unaltered, StateOK
        <4> QED
          BY <2>2, <4>1 DEF Datagrams
      <3> HIDE DEF dgram
      <3> QED
        BY <2>4, <2>5, <3>1 DEF Carries, Unaltered
    <2>9. OneRouter => next = Decremented(sent[next.id])
      BY <2>3, <2>4, <2>5, <2>6 DEF Carries
    <2>10. j \in Interfaces /\ j \notin Hosts
      BY <2>2, <2>3
    <2>11. Carries(j, next)'
      BY <2>7, <2>8, <2>9, <2>10 DEF Carries, Unaltered, OneRouter, Segment
    <2>12. \A d : Unaltered(d) => Unaltered(d)' /\ sent'[d.id] = sent[d.id]
      BY <2>7 DEF Unaltered
    <2>13. next \in Datagrams /\ hop \in Addresses /\ Sends(itf, j, next, hop, net \ {copy})
      BY <2>1, <2>2, <2>3
    <2> QED
      BY <2>7, <2>10, <2>11, <2>12, <2>13, SendsCarries
  <1>6. ASSUME NEW r \in Routers, NEW k \in DOMAIN Routes[r], add_route(r, k)
        PROVE  Kept'
    BY <1>1, <1>6 DEF add_route
  <1>7. ASSUME NEW copy \in net, drop(copy.to, copy)
        PROVE  Kept'
    BY <1>1, <1>7 DEF drop
  <1>8. ASSUME NEW n \in Nodes, tick(n)
        PROVE  Kept'
    <2>1. \A i \in Interfaces :
            InterfaceAfterTick(itf[i], 1).unknown_eth_addr_ = itf[i].unknown_eth_addr_
      BY TickIsOK DEF StateOK
    <2> QED
      BY <1>1, <1>8, <2>1 DEF tick
  <1>9. CASE UNCHANGED vars
    BY <1>1, <1>9 DEF vars
  <1> QED
    BY <1>2, <1>3, <1>4, <1>5, <1>6, <1>7, <1>8, <1>9 DEF Next

LEMMA DatagramsAreKept == Spec => []Kept
  <1>1. Init => Kept
    <2> SUFFICES ASSUME Init PROVE Kept
      OBVIOUS
    <2>1. \A i \in Interfaces : itf[i].unknown_eth_addr_ = {}
      BY DEF Init, NewInterface
    <2>2. \A copy \in net : copy.frame.type # "IPv4"
      BY DEF Init, Copies, DummyFrame
    <2> QED
      BY <2>1, <2>2 DEF Init, Kept
  <1> QED
    BY <1>1, StepsKeepDatagrams, StateIsOK, HopsStayTrue, PTL DEF Spec

\* unwrap_tcp_in_ip (tcp_over_ip.cc) admits only what comes from the peer, and
\* nothing below it changes a datagram, whatever routers it passes: a host's
\* TCP is given what its peer sent to it.
THEOREM NothingIsAltered == Spec => []ArrivesUnaltered
  <1>1. Kept => ArrivesUnaltered
    BY DEF Kept, Received, ArrivesUnaltered
  <1> QED
    BY <1>1, DatagramsAreKept, PTL

\* And with one router on every way it has lost exactly one of its time to live.
THEOREM OneRouterTakesOne == Spec => [](OneRouter => ArrivesAsSent)
  <1>1. Kept => (OneRouter => ArrivesAsSent)
    BY DEF Kept, Received, ArrivesAsSent
  <1> QED
    BY <1>1, DatagramsAreKept, PTL
=============================================================================
