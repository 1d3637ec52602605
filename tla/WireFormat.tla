----------------------------- MODULE WireFormat -----------------------------
(***************************************************************************)
(* Headers as octets: the Serializer and the Parser of src/util/parser.hh, *)
(* the Internet checksum, and what the Ethernet, ARP, IPv4 and TCP headers *)
(* make of them.  A string is a sequence of octets and a Buffer is one; a  *)
(* 32-bit integer is the pair of its halves.  What a caller does not look  *)
(* at after a parse has failed is not kept: the result is then Invalid.    *)
(***************************************************************************)
EXTENDS Integers, SequencesExt

Invalid == [valid |-> FALSE]
Valid(object) == [valid |-> TRUE, object |-> object]

Flag(bit, octet) == (octet \div bit) % 2 = 1
Raise(bit, flag) == IF flag THEN bit ELSE 0

-----------------------------------------------------------------------------
\* Serializer

\* An integer of so many octets, the most significant one first.
Octets(n, width) ==
    CASE width = 1 -> <<n>>
      [] width = 2 -> <<n \div 256, n % 256>>
      [] width = 4 -> <<n[1] \div 256, n[1] % 256, n[2] \div 256, n[2] % 256>>

Serialized(values, widths) ==
    FlattenSeq([k \in DOMAIN widths |-> Octets(values[k], widths[k])])

\* What a Serializer returns: the integers before each buffer, which are none
\* but before the first, and those after the last.
Output(integers, buffers) ==
    [k \in 1 .. 2 * Len(buffers) + 1 |->
        IF k = 1 THEN integers ELSE IF k % 2 = 0 THEN buffers[k \div 2] ELSE <<>>]

-----------------------------------------------------------------------------
\* Parser: the BufferList, the octets to skip in its first buffer, the error

NewParser(buffers) == [buffers |-> buffers, skip |-> 0, error |-> FALSE]

Size(p) == Len(FlattenSeq(p.buffers)) - p.skip

\* Each round takes a whole buffer or the rest of len.
RemovePrefix(p, len) ==
    LET Round(r) ==
            IF r.len = 0 \/ r.parser.buffers = <<>> THEN r
            ELSE LET front == Len(Head(r.parser.buffers)) - r.parser.skip
                 IN  IF front <= r.len
                     THEN [parser |-> [r.parser EXCEPT !.buffers = Tail(@), !.skip = 0],
                           len |-> r.len - front]
                     ELSE [parser |-> [r.parser EXCEPT !.skip = @ + r.len], len |-> 0]
        After[k \in 0 .. Len(p.buffers)] ==
            IF k = 0 THEN [parser |-> p, len |-> len] ELSE Round(After[k - 1])
    IN  After[Len(p.buffers)].parser

\* all_remaining
Remaining(p) ==
    IF Size(p) = 0 THEN <<>>
    ELSE <<SubSeq(Head(p.buffers), p.skip + 1, Len(Head(p.buffers)))>> \o Tail(p.buffers)

CheckSize(p, size) == [p EXCEPT !.error = @ \/ size > Size(p)]

\* One octet after the other, each from the front buffer.
Peeked(p, n) ==
    [k \in 1 .. n |-> LET q == RemovePrefix(p, k - 1) IN Head(q.buffers)[q.skip + 1]]

Integer(octets) ==
    CASE Len(octets) = 1 -> octets[1]
      [] Len(octets) = 2 -> octets[1] * 256 + octets[2]
      [] Len(octets) = 4 -> <<octets[1] * 256 + octets[2], octets[3] * 256 + octets[4]>>

Read(acc, width) ==
    LET p == CheckSize(acc.parser, width)
    IN  IF p.error THEN [parser |-> p, values |-> acc.values]
        ELSE [parser |-> RemovePrefix(p, width),
              values |-> Append(acc.values, Integer(Peeked(p, width)))]

\* Integers of these widths: those up to the first that is not there, and the
\* parser after them.
Integers_(parser, widths) ==
    LET After[k \in 0 .. Len(widths)] ==
            IF k = 0 THEN [parser |-> parser, values |-> <<>>]
            ELSE Read(After[k - 1], widths[k])
    IN  After[Len(widths)]

-----------------------------------------------------------------------------
\* InternetChecksum.  The parity goes on from one buffer to the next.

Sum(start, buffers) ==
    LET octets == FlattenSeq(buffers)
        Added[k \in 0 .. Len(octets)] ==
            IF k = 0 THEN start
            ELSE Added[k - 1] + (IF k % 2 = 1 THEN 256 * octets[k] ELSE octets[k])
    IN  Added[Len(octets)]

Folded[sum \in Nat] ==
    IF sum > 65535 THEN Folded[(sum \div 65536) + (sum % 65536)] ELSE sum

Checksum(start, buffers) == 65535 - Folded[Sum(start, buffers)]

-----------------------------------------------------------------------------
\* EthernetHeader and EthernetFrame

TYPE_IPv4 == 2048
TYPE_ARP == 2054

EthernetWidths == <<1, 1, 1, 1, 1, 1,  1, 1, 1, 1, 1, 1,  2>>

SerializeFrame(dst, src, type, payload) ==
    Output(Serialized(dst \o src \o <<type>>, EthernetWidths), payload)

ParseFrame(buffers) ==
    LET r == Integers_(NewParser(buffers), EthernetWidths)
        v == r.values
    IN  IF r.parser.error THEN Invalid
        ELSE Valid([dst |-> SubSeq(v, 1, 6), src |-> SubSeq(v, 7, 12), type |-> v[13],
                    payload |-> Remaining(r.parser)])

-----------------------------------------------------------------------------
\* ARPMessage

ARPKind == <<1, TYPE_IPv4, 6, 4>>
OPCODE_REQUEST == 1
OPCODE_REPLY == 2

ARPKindWidths == <<2, 2, 1, 1, 2>>
ARPAddressWidths == <<1, 1, 1, 1, 1, 1, 4,  1, 1, 1, 1, 1, 1, 4>>

supported(kind, opcode) == kind = ARPKind /\ opcode \in {OPCODE_REQUEST, OPCODE_REPLY}

SerializeARP(m) ==
    Output(Serialized(ARPKind \o <<m.opcode>>, ARPKindWidths)
             \o Serialized(m.sender_ethernet_address \o <<m.sender_ip_address>>
                              \o m.target_ethernet_address \o <<m.target_ip_address>>,
                           ARPAddressWidths), <<>>)

\* The kind is looked at before the addresses are read.
ParseARP(buffers) ==
    LET r == Integers_(NewParser(buffers), ARPKindWidths)
        s == Integers_(r.parser, ARPAddressWidths)
        v == s.values
    IN  IF r.parser.error \/ ~supported(SubSeq(r.values, 1, 4), r.values[5]) THEN Invalid
        ELSE IF s.parser.error THEN Invalid
        ELSE Valid([opcode |-> r.values[5],
                    sender_ethernet_address |-> SubSeq(v, 1, 6), sender_ip_address |-> v[7],
                    target_ethernet_address |-> SubSeq(v, 8, 13), target_ip_address |-> v[14]])

-----------------------------------------------------------------------------
\* IPv4Header and IPv4Datagram

PROTO_TCP == 6
HeaderLength == 20

\* The defaults that no caller changes, and what wrap_tcp_in_ip sets.
NewIPv4Header(src, dst, len) ==
    [ver |-> 4, hlen |-> HeaderLength \div 4, tos |-> 0, len |-> len, id |-> 0,
     df |-> TRUE, mf |-> FALSE, offset |-> 0, ttl |-> 128, proto |-> PROTO_TCP,
     cksum |-> 0, src |-> src, dst |-> dst]

IPv4Widths == <<1, 1, 2, 2, 2, 1, 1, 2, 4, 4>>

\* Only headers with ver = 4 come here.
SerializeIPv4Header(h) ==
    Serialized(<<h.ver * 16 + h.hlen, h.tos, h.len, h.id,
                 Raise(16384, h.df) + Raise(8192, h.mf) + h.offset,
                 h.ttl, h.proto, h.cksum, h.src, h.dst>>, IPv4Widths)

compute_checksum(h) ==
    [h EXCEPT !.cksum = Checksum(0, <<SerializeIPv4Header([h EXCEPT !.cksum = 0])>>)]

payload_length(h) == (h.len - 4 * h.hlen) % 65536

pseudo_checksum(h) ==
    h.src[1] + h.src[2] + h.dst[1] + h.dst[2] + h.proto + payload_length(h)

SerializeDatagram(dgram) == Output(SerializeIPv4Header(dgram.header), dgram.payload)

\* Options are skipped, but the checksum is that of the header without them.
ParseDatagram(buffers) ==
    LET r == Integers_(NewParser(buffers), IPv4Widths)
        v == r.values
        h == [ver |-> v[1] \div 16, hlen |-> v[1] % 16, tos |-> v[2], len |-> v[3], id |-> v[4],
              df |-> Flag(16384, v[5]), mf |-> Flag(8192, v[5]), offset |-> v[5] % 8192,
              ttl |-> v[6], proto |-> v[7], cksum |-> v[8], src |-> v[9], dst |-> v[10]]
    IN  IF \/ r.parser.error \/ h.ver # 4 \/ h.hlen < 5
           \/ h # compute_checksum(h) THEN Invalid
        ELSE Valid([header |-> h,
                    payload |-> Remaining(RemovePrefix(r.parser, 4 * h.hlen - HeaderLength))])

-----------------------------------------------------------------------------
\* TCPSegment

NoAckno == <<>>        \* an empty optional
TCPHeaderMinLen == 5

TCPWidths == <<2, 2, 4, 4, 1, 1, 2, 2, 2>>

SerializeTCP(s) ==
    Output(Serialized(<<s.src_port, s.dst_port, s.seqno,
                        IF s.ackno = NoAckno THEN <<0, 0>> ELSE s.ackno,
                        TCPHeaderMinLen * 16,
                        Raise(16, s.ackno # NoAckno) + Raise(4, s.reset)
                          + Raise(2, s.SYN) + Raise(1, s.FIN),
                        s.window_size, s.cksum, 0>>, TCPWidths), <<s.payload>>)

ComputeTCPChecksum(s, pseudo) ==
    [s EXCEPT !.cksum = Checksum(pseudo, SerializeTCP([s EXCEPT !.cksum = 0]))]

\* The checksum is that of everything that is left, of the options and of the
\* payload whatever length the IPv4 header gives.
ParseTCP(buffers, pseudo) ==
    LET r == Integers_(NewParser(buffers), TCPWidths)
        v == r.values
    IN  IF \/ Checksum(pseudo, Remaining(NewParser(buffers))) # 0
           \/ r.parser.error \/ v[5] \div 16 < TCPHeaderMinLen THEN Invalid
        ELSE Valid([src_port |-> v[1], dst_port |-> v[2], seqno |-> v[3],
                    ackno |-> IF Flag(16, v[6]) THEN v[4] ELSE NoAckno,
                    reset |-> Flag(4, v[6]), SYN |-> Flag(2, v[6]), FIN |-> Flag(1, v[6]),
                    window_size |-> v[7], cksum |-> v[8],
                    payload |-> FlattenSeq(Remaining(RemovePrefix(r.parser,
                        (v[5] \div 16) * 4 - TCPHeaderMinLen * 4)))])
=============================================================================
