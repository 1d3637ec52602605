--------------------------- MODULE InterfaceState ---------------------------
(***************************************************************************)
(* The NetworkInterface of src/src/network_interface.cc: what its methods  *)
(* do to its ARP table and to the datagrams that wait for an address, and  *)
(* which frames they queue, as functions of the interface's record.  Every *)
(* caller empties ready_to_send_ before its handler ends, so the queue is  *)
(* not kept: a method's frames go out with it.  Frames reach the network   *)
(* in no particular order, so the list of waiting datagrams is a set.      *)
(***************************************************************************)
EXTENDS Integers

CONSTANTS
    ETHERNET_BROADCAST,
    PendingTTL,         \* five seconds, in units of the ages
    MappingTTL          \* thirty seconds

ASSUME AgesAssumption ==
    /\ PendingTTL \in Nat \ {0} /\ MappingTTL \in Nat
    /\ PendingTTL <= MappingTTL

NewInterface(eth, ip) ==
    [ethernet_address_ |-> eth, ip_address_ |-> ip,
     arp_table_ |-> [hop \in {} |-> [addr |-> eth, age |-> 0]],
     unknown_eth_addr_ |-> {}]

-----------------------------------------------------------------------------
\* Frames.  An IPv4 frame carries a datagram, an ARP frame a message whose
\* sender has put its own address into the message and into the frame.

IPv4Frame(src, dst, dgram) ==
    [type |-> "IPv4", src |-> src, dst |-> dst, dgram |-> dgram]

ArpFrame(src, dst, opcode, sender, target) ==
    [type |-> "ARP", src |-> src, dst |-> dst, opcode |-> opcode,
     sender_ip_address |-> sender, target_ip_address |-> target]

arp_request(f, hop) ==
    ArpFrame(f.ethernet_address_, ETHERNET_BROADCAST, "REQUEST", f.ip_address_, hop)

arp_reply(f, msg) ==
    ArpFrame(f.ethernet_address_, msg.src, "REPLY", f.ip_address_, msg.sender_ip_address)

-----------------------------------------------------------------------------
\* The ARP table.  An entry with the broadcast address is a request that has
\* not been answered yet.

HasEntry(f, hop) == hop \in DOMAIN f.arp_table_

Knows(f, hop) == HasEntry(f, hop) /\ f.arp_table_[hop].addr # ETHERNET_BROADCAST

\* Mutant: a request is repeated whenever something is sent.
PendingNever(f, hop) == FALSE

Pending(f, hop) ==
    /\ HasEntry(f, hop) /\ f.arp_table_[hop].addr = ETHERNET_BROADCAST
    /\ f.arp_table_[hop].age < PendingTTL

Bind(table, hop, addr) ==
    [h \in DOMAIN table \union {hop} |->
        IF h = hop THEN [addr |-> addr, age |-> 0] ELSE table[h]]

-----------------------------------------------------------------------------
\* send_datagram

\* A datagram for a hop whose request is pending is dropped.
Asks(f, hop) == ~Pending(f, hop) /\ ~Knows(f, hop)

InterfaceAfterSend(f, dgram, hop) ==
    IF Asks(f, hop)
    THEN [f EXCEPT !.arp_table_ = Bind(@, hop, ETHERNET_BROADCAST),
                   !.unknown_eth_addr_ = @ \union {[hop |-> hop, dgram |-> dgram]}]
    ELSE f

FramesOfSend(f, dgram, hop) ==
    IF Knows(f, hop) THEN {IPv4Frame(f.ethernet_address_, f.arp_table_[hop].addr, dgram)}
    ELSE IF Asks(f, hop) THEN {arp_request(f, hop)} ELSE {}

-----------------------------------------------------------------------------
\* recv_frame

\* The datagram of an IPv4 frame for this interface is returned at once,
\* before the part about waiting datagrams.
IsForUs(f, frame) == frame.type = "IPv4" /\ frame.dst = f.ethernet_address_

\* Mutant: the address is noted for the target of the message.
LearnTarget(f, frame) ==
    IF frame.type = "ARP"
    THEN [f EXCEPT !.arp_table_ = Bind(@, frame.target_ip_address, frame.src)]
    ELSE f

\* Every ARP message is learned from.
Learn(f, frame) ==
    IF frame.type = "ARP"
    THEN [f EXCEPT !.arp_table_ = Bind(@, frame.sender_ip_address, frame.src)]
    ELSE f

AsksForUs(f, frame) ==
    /\ frame.type = "ARP" /\ frame.opcode = "REQUEST"
    /\ frame.target_ip_address = f.ip_address_

\* The waiting datagrams whose hop has an entry, a pending one included.
Flushed(f, frame) == {w \in f.unknown_eth_addr_ : HasEntry(f, w.hop)}

\* Mutant: what is sent stays in the list.
FlushNothing(f, frame) == f

Flush(f, frame) == [f EXCEPT !.unknown_eth_addr_ = @ \ Flushed(f, frame)]

\* Mutant: the waiting datagrams are looked at before the address is learned.
FlushThenLearn(f, frame) ==
    IF IsForUs(f, frame) THEN f ELSE Learn(Flush(f, frame), frame)

InterfaceAfterReceive(f, frame) ==
    IF IsForUs(f, frame) THEN f ELSE Flush(Learn(f, frame), frame)

Replies(f, frame) == IF AsksForUs(f, frame) THEN {arp_reply(f, frame)} ELSE {}

FramesOfReceive(f, frame) ==
    IF IsForUs(f, frame) THEN {}
    ELSE LET g == Learn(f, frame)
         IN  Replies(g, frame) \union
             {IPv4Frame(g.ethernet_address_, g.arp_table_[w.hop].addr, w.dgram) :
                w \in Flushed(g, frame)}

-----------------------------------------------------------------------------
\* tick

\* Mutant: entries never expire.
TickKeepsAll(f, ms) ==
    [f EXCEPT !.arp_table_ = [hop \in DOMAIN @ |-> [f.arp_table_[hop] EXCEPT !.age = @ + ms]]]

InterfaceAfterTick(f, ms) ==
    LET kept == {hop \in DOMAIN f.arp_table_ : f.arp_table_[hop].age + ms <= MappingTTL}
    IN  [f EXCEPT !.arp_table_ =
            [hop \in kept |-> [f.arp_table_[hop] EXCEPT !.age = @ + ms]]]
=============================================================================
