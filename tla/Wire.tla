-------------------------------- MODULE Wire --------------------------------
(***************************************************************************)
(* One message from the adapter of one host to that of another, octet by   *)
(* octet: the adapters of src/util/tcp_over_ip.cc and tuntap_adapter.cc    *)
(* below a connection, and a router between two Ethernet segments.  On the *)
(* way one octet may be damaged, or the frame may be cut short or padded.  *)
(* (Network has the rules by which frames are addressed and admitted; here *)
(* all of them are, and what is at stake is what they say.)                *)
(***************************************************************************)
EXTENDS WireFormat

CONSTANTS
    Writer, RouterIn, RouterOut, Reader,    \* Ethernet addresses
    Source, Destination,    \* the writer's and the reader's address and port
    Segments,               \* the segments that are written, without their ports
    ARPMessages,            \* the ARP messages that are written
    Options,                \* TCP options that a kernel's connection has in its segments
    MaxPadding              \* bound: the zeros that are added

Octet == 0 .. 255
Word == 0 .. 65535
EthernetAddress == [1 .. 6 -> Octet]
IPAddress == Word \X Word

\* The fields have their widths, and a payload has at most MAX_PAYLOAD_SIZE
\* octets.
ASSUME WireAssumption ==
    /\ {Writer, RouterIn, RouterOut, Reader} \subseteq EthernetAddress
    /\ {Source, Destination} \subseteq [ip : IPAddress, port : Word]
    /\ \A m \in Segments :
         /\ m \in [seqno : Word \X Word, ackno : (Word \X Word) \union {NoAckno},
                  reset : BOOLEAN, SYN : BOOLEAN, FIN : BOOLEAN,
                  window_size : Word, payload : Seq(Octet)]
         /\ Len(m.payload) <= 1000
    /\ ARPMessages \subseteq
         [opcode : {OPCODE_REQUEST, OPCODE_REPLY},
          sender_ethernet_address : EthernetAddress, sender_ip_address : IPAddress,
          target_ethernet_address : EthernetAddress, target_ip_address : IPAddress]
    /\ Options \in Seq(Octet) /\ Len(Options) \in {4 * k : k \in 0 .. 10}
    /\ MaxPadding \in Nat

VARIABLES
    way,        \* a TUN device, a segment of Ethernet, or two with a router
    sent,       \* what was written
    octets,     \* the frame, or the datagram of a TUN device
    goes,       \* where the octets go
    trouble,    \* what happened to them
    result      \* what was read

vars == <<way, sent, octets, goes, trouble, result>>

Init ==
    /\ way \in {"tun", "segment", "router"}
    /\ sent = Invalid /\ octets = <<>>
    /\ goes = "nowhere" /\ trouble = "none" /\ result = Invalid

-----------------------------------------------------------------------------
\* Writing

WithPorts(m) ==
    [src_port |-> Source.port, dst_port |-> Destination.port, seqno |-> m.seqno,
     ackno |-> m.ackno, reset |-> m.reset, SYN |-> m.SYN, FIN |-> m.FIN,
     window_size |-> m.window_size, cksum |-> 0, payload |-> m.payload]

wrap_tcp_in_ip(m) ==
    LET header == NewIPv4Header(Source.ip, Destination.ip,
                                HeaderLength + 20 + Len(m.payload))
    IN  [header |-> compute_checksum(header),
         payload |-> SerializeTCP(ComputeTCPChecksum(WithPorts(m), pseudo_checksum(header)))]

FirstStop == IF way = "router" THEN "router" ELSE "reader"
EthernetOf(stop) == IF stop = "router" THEN RouterIn ELSE Reader

Frame(dst, src, type, payload) == FlattenSeq(SerializeFrame(dst, src, type, payload))

Writes(message, string) ==
    /\ goes = "nowhere"
    /\ sent' = Valid(message) /\ octets' = string /\ goes' = FirstStop
    /\ UNCHANGED <<way, trouble, result>>

write_segment(m) ==
    LET payload == SerializeDatagram(wrap_tcp_in_ip(m))
    IN  Writes(m, IF way = "tun" THEN FlattenSeq(payload)
                  ELSE Frame(EthernetOf(FirstStop), Writer, TYPE_IPv4, payload))

\* The other end of a TUN device may be the connection of a kernel, whose
\* segments have options behind the header.
TCPWithOptions(s, pseudo) ==
    LET plain  == FlattenSeq(SerializeTCP(s))
        longer == [SubSeq(plain, 1, 20) EXCEPT ![13] = @ + 16 * (Len(Options) \div 4)]
                  \o Options \o s.payload
        cksum  == Octets(Checksum(pseudo, <<longer>>), 2)
    IN  [longer EXCEPT ![17] = cksum[1], ![18] = cksum[2]]

write_with_options(m) ==
    LET header == NewIPv4Header(Source.ip, Destination.ip,
                                HeaderLength + 20 + Len(Options) + Len(m.payload))
    IN  /\ way = "tun"
        /\ Writes(m, SerializeIPv4Header(compute_checksum(header))
                        \o TCPWithOptions(WithPorts(m), pseudo_checksum(header)))

\* A router does not pass these on.
write_arp(m) ==
    /\ way = "segment"
    /\ Writes(m, Frame(Reader, Writer, TYPE_ARP, SerializeARP(m)))

-----------------------------------------------------------------------------
\* What may happen on the way, once

Suffers(what, string) ==
    /\ goes \in {"router", "reader"} /\ trouble = "none"
    /\ trouble' = what /\ octets' = string
    /\ UNCHANGED <<way, sent, goes, result>>

FlipBit(n, bit) == IF Flag(bit, n) THEN n - bit ELSE n + bit
Damaged(n) == {FlipBit(n, bit) : bit \in {1, 2, 4, 8, 16, 32, 64, 128}} \union {255 - n}

damage == \E k \in DOMAIN octets : \E n \in Damaged(octets[k]) :
    Suffers("damaged", [octets EXCEPT ![k] = n])

cut_short == \E n \in 0 .. Len(octets) - 1 : Suffers("cut short", SubSeq(octets, 1, n))

pad ==
    /\ way # "tun"
    /\ \E n \in 1 .. MaxPadding : Suffers("padded", octets \o [k \in 1 .. n |-> 0])

-----------------------------------------------------------------------------
\* Reading

\* FileDescriptor::read into strings of these lengths and a last one that is
\* as long as it must be.  What is not reached is made shorter.
read_strings(lengths) ==
    LET End[k \in 0 .. Len(lengths)] == IF k = 0 THEN 0 ELSE End[k - 1] + lengths[k]
        Reach(n) == IF n < Len(octets) THEN n ELSE Len(octets)
    IN  [k \in 1 .. Len(lengths) |-> SubSeq(octets, End[k - 1] + 1, Reach(End[k]))]
        \o <<SubSeq(octets, End[Len(lengths)] + 1, Len(octets))>>

maybe_receive_frame == ParseFrame(read_strings(<<14, HeaderLength>>))

\* recv_frame of the interface with the address ethernet, as far as it returns
\* a datagram.
Datagram(frame, ethernet) ==
    IF frame.valid /\ frame.object.type = TYPE_IPv4 /\ frame.object.dst = ethernet
    THEN ParseDatagram(frame.object.payload) ELSE Invalid

WithoutPorts(s) ==
    [seqno |-> s.seqno, ackno |-> s.ackno, reset |-> s.reset, SYN |-> s.SYN, FIN |-> s.FIN,
     window_size |-> s.window_size, payload |-> s.payload]

\* unwrap_tcp_in_ip of the reader, whose connection is with the writer.
Unwrapped(dgram) ==
    LET segment == ParseTCP(dgram.payload, pseudo_checksum(dgram.header))
    IN  IF /\ dgram.header.dst = Destination.ip /\ dgram.header.src = Source.ip
           /\ dgram.header.proto = PROTO_TCP
           /\ segment.valid
           /\ segment.object.dst_port = Destination.port
           /\ segment.object.src_port = Source.port
        THEN Valid(WithoutPorts(segment.object)) ELSE Invalid

\* What the handler makes of the octets: the segment for TCP, or the message
\* that the interface learns from.
Result ==
    LET frame == maybe_receive_frame
        dgram == IF way = "tun" THEN ParseDatagram(read_strings(<<HeaderLength>>))
                 ELSE Datagram(frame, Reader)
    IN  IF dgram.valid THEN Unwrapped(dgram.object)
        ELSE IF way # "tun" /\ frame.valid /\ frame.object.type = TYPE_ARP
        THEN ParseARP(frame.object.payload) ELSE Invalid

read ==
    /\ goes = "reader"
    /\ result' = Result /\ goes' = "read"
    /\ UNCHANGED <<way, sent, octets, trouble>>

-----------------------------------------------------------------------------
\* The router

\* Mutant: the checksum stays that of the old time to live.
ForwardedOnlyDecremented(dgram) == [dgram EXCEPT !.header.ttl = @ - 1]

Forwarded(dgram) ==
    LET header == [dgram.header EXCEPT !.ttl = @ - 1]
    IN  [dgram EXCEPT !.header = compute_checksum(header)]

route ==
    LET dgram == Datagram(maybe_receive_frame, RouterIn)
    IN  /\ goes = "router" /\ dgram.valid /\ dgram.object.header.ttl > 1
        /\ octets' = Frame(Reader, RouterOut, TYPE_IPv4,
                           SerializeDatagram(Forwarded(dgram.object)))
        /\ goes' = "reader"
        /\ UNCHANGED <<way, sent, trouble, result>>

\* The frame is not for the router, is no datagram, or is too old.
drop ==
    LET dgram == Datagram(maybe_receive_frame, RouterIn)
    IN  /\ goes = "router" /\ ~(dgram.valid /\ dgram.object.header.ttl > 1)
        /\ goes' = "read"
        /\ UNCHANGED <<way, sent, octets, trouble, result>>

Next ==
    \/ \E m \in Segments : write_segment(m) \/ write_with_options(m)
    \/ \E m \in ARPMessages : write_arp(m)
    \/ damage \/ cut_short \/ pad
    \/ route \/ drop
    \/ read

Spec == Init /\ [][Next]_vars

-----------------------------------------------------------------------------
\* Properties

\* Only the first n octets are left, and the sum does not see it.
Unseen(n, string) ==
    Folded[Sum(0, <<[k \in DOMAIN string |-> IF k <= n THEN 0 ELSE string[k]]>>)] \in {0, 65535}

\* What is missing at the end of a segment may begin in its options.
CutUnseen(payload, whole) ==
    \E options \in IF way = "tun" THEN {<<>>, Options} ELSE {<<>>} :
        \E n \in 0 .. Len(options \o whole) - 1 :
            /\ payload = SubSeq(options \o whole, Len(options) + 1, n)
            /\ Unseen(n, options \o whole)

SameButPayload(m, n) == [m EXCEPT !.payload = <<>>] = [n EXCEPT !.payload = <<>>]

\* An ARP message has no checksum: it says what the octets say.
ARPRead ==
    \/ ~result.valid /\ trouble \in {"cut short", "damaged"}
    \/ /\ result.valid
       /\ SubSeq(octets, 15, 42) = FlattenSeq(SerializeARP(result.object))
       /\ trouble # "damaged" => result = sent

\* What is read is what was written, through all the layers and their
\* checksums and with a router that changes a header on the way.  Of a segment
\* whose frame has suffered, nothing is read, or nothing is different; but the
\* frame's length is taken for the segment's, so octets that the sum does not
\* see may be missing at the end of the payload, and padding is added to it.
ReadsWhatWasWritten ==
    goes = "read" =>
        IF sent.object \in ARPMessages THEN ARPRead
        ELSE \/ result = sent
             \/ trouble # "none" /\ ~result.valid
             \/ /\ result.valid /\ SameButPayload(result.object, sent.object)
                /\ \/ /\ trouble = "cut short"
                      /\ CutUnseen(result.object.payload, sent.object.payload)
                   \/ /\ trouble = "padded"
                      /\ IsPrefix(sent.object.payload, result.object.payload)
                      /\ \A k \in Len(sent.object.payload) + 1 .. Len(result.object.payload) :
                           result.object.payload[k] = 0
=============================================================================
