------------------------------- MODULE MCWire -------------------------------
(***************************************************************************)
(* The addresses and segments of a short connection between the two hosts  *)
(* of src/apps/endtoend.cc.                                                *)
(***************************************************************************)
EXTENDS Wire

MCWriter == <<2, 0, 0, 0, 94, 1>>
MCRouterIn == <<2, 0, 0, 0, 94, 2>>
MCRouterOut == <<2, 0, 0, 0, 94, 3>>
MCReader == <<2, 0, 0, 0, 94, 4>>

\* 192.168.0.50 and 172.16.0.100
MCSource == [ip |-> <<49320, 50>>, port |-> 51234]
MCDestination == [ip |-> <<44048, 100>>, port |-> 1234]

Segment(seqno, ackno, flags, payload) ==
    [seqno |-> seqno, ackno |-> ackno, window_size |-> 1000, payload |-> payload,
     SYN |-> "SYN" \in flags, FIN |-> "FIN" \in flags, reset |-> "RST" \in flags]

\* Payloads of odd and even length, with zeros and ones at their end; sequence
\* numbers near the wrap.
MCSegments ==
    { Segment(<<65535, 65534>>, NoAckno, {"SYN"}, <<>>),
      Segment(<<65535, 65535>>, <<128, 255>>, {}, <<7, 0>>),
      Segment(<<0, 1>>, <<0, 0>>, {"FIN"}, <<9, 255, 255>>),
      Segment(<<0, 1>>, <<0, 0>>, {}, <<248, 71>>),
      Segment(<<0, 0>>, NoAckno, {"RST"}, <<>>) }

\* A maximum segment size of 1460.
MCOptions == <<2, 4, 5, 180>>

MCARPMessages ==
    {[opcode |-> opcode,
      sender_ethernet_address |-> MCWriter, sender_ip_address |-> MCSource.ip,
      target_ethernet_address |-> IF opcode = OPCODE_REPLY THEN MCReader ELSE <<0, 0, 0, 0, 0, 0>>,
      target_ip_address |-> MCDestination.ip] : opcode \in {OPCODE_REQUEST, OPCODE_REPLY}}
=============================================================================
