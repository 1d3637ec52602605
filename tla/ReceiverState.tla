---------------------------- MODULE ReceiverState ---------------------------
(***************************************************************************)
(* The TCPReceiver of src/src/tcp_receiver.cc: what receive makes of a     *)
(* sequence number, and what send tells the peer, as functions of isn_, of *)
(* the reassembler and of the inbound stream.                              *)
(***************************************************************************)
EXTENDS Wrap32, AssemblyState

CONSTANT MaxWindow      \* UINT16_MAX

ASSUME WindowAssumption == MaxWindow \in Nat /\ MaxWindow > 0

None == -1        \* an empty optional<Wrap32>

\* Mutant: the first segment sets the zero point, whatever it is.
IsnOfFirst(isn, msg) == IF isn = None THEN msg.seqno ELSE isn

\* receive: every SYN sets the zero point, also a repeated one.
IsnAfter(isn, msg) == IF msg.SYN THEN msg.seqno ELSE isn

\* Mutant: the SYN's own sequence number is taken off twice.
FirstIndexSynTwice(isn, msg, s) ==
    IF msg.SYN THEN 0 ELSE Unwrap(msg.seqno, isn, s.pushed) - 2

\* Mutant: the SYN's own sequence number is not taken off.
FirstIndexWithSyn(isn, msg, s) ==
    IF msg.SYN THEN 0 ELSE Unwrap(msg.seqno, isn, s.pushed)

\* The stream index of the payload.  A segment with the sequence number of the
\* SYN but no SYN gives -1, in the code 2^64 - 1, which is in no window.
FirstIndex(isn, msg, s) ==
    IF msg.SYN THEN 0 ELSE Unwrap(msg.seqno, isn, s.pushed) - 1

\* A message is handed to the reassembler once there is a zero point, and
\* the reassembler takes it when it begins inside the window.
Reassembles(isn, msg, s) ==
    isn # None /\ InWindow(s, FirstIndex(isn, msg, s))

\* Mutant: the capacity cut to sixteen bits instead of capped.
WindowTruncated(s) == Available(s) % (MaxWindow + 1)

\* send
Window(s) == AtMost(Available(s), MaxWindow)

\* The cumulative acknowledgment: the SYN, the bytes written, and the FIN once
\* the stream is closed.
AbsoluteNext(s) == s.pushed + 1 + One(s.closed)

Ackno(isn, s) == IF isn = None THEN None ELSE Wrap(AbsoluteNext(s), isn)
=============================================================================
