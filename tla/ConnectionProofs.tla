------------------------- MODULE ConnectionProofs ---------------------------
(***************************************************************************)
(* Two TCPPeers over any network, for every payload size, capacity, window *)
(* and pair of zero points: what one delivers the other has sent, and an   *)
(* end is an end.  The streams must be short enough that no segment, which *)
(* the network may keep for ever, can be taken for one of the next round   *)
(* of sequence numbers.                                                    *)
(***************************************************************************)
EXTENDS Connection, Wrap32Proofs, WellFoundedInduction, SequenceTheorems

\* A stream with its SYN and FIN takes less than half of the sequence numbers.
ShortStreams == \A p \in Peers : Total[p] + 2 < Half

-----------------------------------------------------------------------------
\* Types

Messages == [seqno : Raw, SYN : BOOLEAN, first : Nat, len : Nat, FIN : BOOLEAN]

SenderRecords ==
    [isn_ : Raw, syn_ : BOOLEAN, fin_ : BOOLEAN, window_size_ : Nat,
     seqnums_sent_ : Nat, seqnums_in_flight_ : Int,
     outstanding_ : Seq(Messages), ready_to_send_ : Seq(Messages)]

PeerRecords ==
    [snd : SenderRecords, isn : Raw \union {None},
     asm : [held : SUBSET Nat, closing : BOOLEAN],
     outbound : StreamType, inbound : StreamType, need_send_ : BOOLEAN]

Envelopes ==
    [msg : Messages, ackno : Raw \union {None}, window : Nat, reset : BOOLEAN]

\* A message of p, whose sender has taken so many bytes from its stream, and
\* has or has not sent its FIN: the sequence number is that of the payload.
Genuine(p, msg, popped, fin) ==
    /\ msg \in Messages
    /\ msg.SYN => msg.first = 0 /\ msg.seqno = Isn[p]
    /\ ~msg.SYN /\ (msg.len > 0 \/ msg.FIN) => msg.seqno = Wrap(msg.first + 1, Isn[p])
    /\ msg.first + msg.len <= popped
    /\ msg.FIN => fin /\ msg.first + msg.len = popped

\* The sequence number is that of the message's first.
Stamped(p, msg) == msg.seqno = Wrap(Abs(msg), Isn[p])

GenuineQueue(p, q, popped, fin) ==
    /\ q \in Seq(Messages)
    /\ \A i \in 1 .. Len(q) : Genuine(p, q[i], popped, fin) /\ Stamped(p, q[i])

\* The messages of q carry the sequence numbers from .. to - 1, in order.
Chain(q, from, to) ==
    /\ \A i \in 1 .. (Len(q) - 1) : AbsEnd(q[i]) = Abs(q[i + 1])
    /\ IF Len(q) = 0 THEN from = to
       ELSE Abs(q[1]) = from /\ AbsEnd(q[Len(q)]) = to

\* The sender s of p, which reads from stream.
SenderOK(p, s, stream) ==
    /\ s \in SenderRecords /\ s.isn_ = Isn[p]
    /\ StreamOK(stream) /\ stream.pushed <= Total[p]
    /\ s.seqnums_sent_ = One(s.syn_) + stream.popped + One(s.fin_)
    /\ ~s.syn_ => stream.popped = 0 /\ ~s.fin_
    /\ s.fin_ => stream.closed /\ stream.popped = stream.pushed
    /\ GenuineQueue(p, s.outstanding_, stream.popped, s.fin_)
    /\ GenuineQueue(p, s.ready_to_send_, stream.popped, s.fin_)
    /\ Chain(s.outstanding_, s.seqnums_sent_ - s.seqnums_in_flight_, s.seqnums_sent_)

\* The reassembler asm, which writes to stream.
AssemblyOK(asm, stream) ==
    /\ asm \in [held : SUBSET Nat, closing : BOOLEAN]
    /\ StreamOK(stream)
    /\ \A i \in asm.held : stream.pushed < i /\ i < WindowEnd(stream)

PeerOK(p, r) ==
    /\ r \in PeerRecords
    /\ SenderOK(p, r.snd, r.outbound)
    /\ AssemblyOK(r.asm, r.inbound)
    /\ r.isn \in {None, Isn[Other(p)]}

\* A segment of p, when p has become r: the message is genuine, and what it
\* acknowledges has been received.
SegmentOK(p, seg, r) ==
    /\ seg \in Envelopes
    /\ Genuine(p, seg.msg, r.outbound.popped, r.snd.fin_)
    /\ seg.ackno = None \/ \E n \in 1 .. AbsoluteNext(r.inbound) :
                               seg.ackno = Wrap(n, Isn[Other(p)])

\* What r has received is what s has sent, and s has heard of no more than what
\* r has received; ov tells whether a FIN came first.
Agree(r, s, ov) ==
    /\ r.inbound.pushed <= s.outbound.popped
    /\ \A i \in r.asm.held : i < s.outbound.popped
    /\ r.asm.closing => s.snd.fin_
    /\ r.inbound.closed => r.asm.closing
    /\ ~ov /\ r.asm.closing /\ s.outbound.popped > 0 =>
         s.outbound.popped - 1 \in (0 .. (r.inbound.pushed - 1)) \union r.asm.held
    /\ ~ov /\ r.inbound.closed => r.inbound.pushed = s.outbound.popped
    /\ Una(s) <= AbsoluteNext(r.inbound)

\* A sender takes more bytes from its stream, until its FIN; a receiver never
\* takes back what it has acknowledged.
GoesOn(r, q) ==
    /\ r.outbound.popped <= q.outbound.popped
    /\ r.snd.fin_ => q.snd.fin_ /\ q.outbound.popped = r.outbound.popped
    /\ AbsoluteNext(r.inbound) <= AbsoluteNext(q.inbound)

\* Nothing is half sent.
Idle(r) == r.snd.ready_to_send_ = <<>> /\ ~r.need_send_

ConnectionOK ==
    /\ DOMAIN peers = Peers /\ DOMAIN net = Peers /\ overtook \in [Peers -> BOOLEAN]
    /\ \A p \in Peers : PeerOK(p, peers[p]) /\ Idle(peers[p])
    /\ \A p \in Peers : \A seg \in net[p] : SegmentOK(Other(p), seg, peers[Other(p)])
    /\ \A p \in Peers : Agree(peers[p], peers[Other(p)], overtook[p])

-----------------------------------------------------------------------------
\* Numbers

LEMMA LeastNumber ==
    ASSUME NEW T \in SUBSET Nat, T # {}
    PROVE  \E m \in T : \A k \in T : m <= k
  <1> DEFINE R == {ss \in Nat \X Nat : ss[1] < ss[2]}
  <1>1. R = OpToRel(<, Nat)
    BY DEF OpToRel
  <1>2. IsWellFoundedOn(R, Nat)
    BY <1>1, NatLessThanWellFounded
  <1>3. \A x, y \in Nat : <<x, y>> \in R <=> x < y
    OBVIOUS
  <1> HIDE DEF R
  <1>4. PICK m \in T : \A y \in T : ~ (<<y, m>> \in R)
    BY <1>2, WFMin
  <1>5. ASSUME NEW k \in T PROVE m <= k
    <2>1. k \in Nat /\ m \in Nat
      OBVIOUS
    <2>2. ~ (<<k, m>> \in R)
      BY <1>4
    <2> QED
      BY <1>3, <2>1, <2>2
  <1> QED
    BY <1>5

LEMMA WrapZero ==
    ASSUME NEW z \in Raw
    PROVE  Wrap(0, z) = z
  BY ModulusAssumption DEF Wrap, Raw

\* The i-th of the messages that b bytes are cut into begins before their end,
\* and the last one ends there.
LEMMA CutIntoMessages ==
    ASSUME NEW b \in Nat, NEW n, NEW i \in 1 .. n,
           n = IF b > 0 THEN ((b - 1) \div MaxPayload) + 1 ELSE 1
    PROVE  /\ (i - 1) * MaxPayload \in Nat /\ (i - 1) * MaxPayload <= b
           /\ i > 1 => b > 0
           /\ i = n => b - ((i - 1) * MaxPayload) <= MaxPayload
           /\ i = 1 => (i - 1) * MaxPayload = 0
           /\ i < n => ((i - 1) * MaxPayload) + MaxPayload <= b
           /\ ((i + 1) - 1) * MaxPayload = ((i - 1) * MaxPayload) + MaxPayload
  <1> DEFINE P == MaxPayload  q == (b - 1) \div P
  <1>0. P \in Nat /\ P > 0
    BY PayloadAssumption
  <1>1. CASE b > 0
    <2>1. q \in Int /\ P * q <= b - 1 /\ b - 1 < (P * q) + P
      BY <1>0
    <2>2. q >= 0
      BY <1>0, <1>1, <2>1
    <2>3. n = q + 1
      BY <1>1
    <2> HIDE DEF q, P
    <2>4. (i - 1) * P <= P * q
      BY <1>0, <2>1, <2>2, <2>3
    <2>5. (i - 1) * P \in Nat
      BY <1>0, <2>1, <2>3
    <2>6. i = n => (i - 1) * P = P * q
      BY <1>0, <2>1, <2>3
    <2>7. i = 1 => (i - 1) * P = 0
      BY <1>0
    <2>8. ((i + 1) - 1) * P = ((i - 1) * P) + P
      BY <1>0, <2>1, <2>3
    <2>9. i < n => ((i - 1) * P) + P <= b
      <3>1. ASSUME i < n PROVE ((i + 1) - 1) * P <= P * q
        BY <1>0, <2>1, <2>2, <2>3, <3>1
      <3>2. P * q \in Int /\ (i - 1) * P \in Int
        BY <1>0, <2>1, <2>5
      <3> QED
        BY <1>0, <2>1, <2>8, <3>1, <3>2
    <2> QED
      BY <1>0, <1>1, <2>1, <2>4, <2>5, <2>6, <2>7, <2>8, <2>9 DEF P
  <1>2. CASE b = 0
    <2>1. n = 1 /\ i = 1 /\ (i - 1) * P = 0 /\ ((i + 1) - 1) * P = P
      BY <1>0, <1>2
    <2> QED
      BY <1>0, <1>2, <2>1
  <1> QED
    BY <1>1, <1>2

-----------------------------------------------------------------------------
\* Messages

\* What is genuine stays so when the sender goes on.
LEMMA GenuineStays ==
    ASSUME NEW p, NEW msg, NEW a \in Nat, NEW b \in Nat,
           NEW fin \in BOOLEAN, NEW fin2 \in BOOLEAN,
           Genuine(p, msg, a, fin), a <= b, fin => fin2 /\ b = a
    PROVE  Genuine(p, msg, b, fin2)
  BY DEF Genuine, Messages

LEMMA QueueStays ==
    ASSUME NEW p, NEW q, NEW a \in Nat, NEW b \in Nat,
           NEW fin \in BOOLEAN, NEW fin2 \in BOOLEAN,
           GenuineQueue(p, q, a, fin), a <= b, fin => fin2 /\ b = a
    PROVE  GenuineQueue(p, q, b, fin2)
  BY GenuineStays DEF GenuineQueue

LEMMA QueuesJoin ==
    ASSUME NEW p, NEW q, NEW q2, NEW a, NEW fin,
           GenuineQueue(p, q, a, fin), GenuineQueue(p, q2, a, fin)
    PROVE  GenuineQueue(p, q \o q2, a, fin)
  <1>1. q \in Seq(Messages) /\ q2 \in Seq(Messages)
    BY DEF GenuineQueue
  <1>2. /\ q \o q2 \in Seq(Messages) /\ Len(q \o q2) = Len(q) + Len(q2)
        /\ \A i \in 1 .. Len(q) + Len(q2) :
             (q \o q2)[i] = IF i <= Len(q) THEN q[i] ELSE q2[i - Len(q)]
    BY <1>1, ConcatProperties
  <1>3. Len(q) \in Nat /\ Len(q2) \in Nat
    BY <1>1
  <1>4. ASSUME NEW i \in 1 .. Len(q \o q2) PROVE Genuine(p, (q \o q2)[i], a, fin)
    <2>1. CASE i <= Len(q)
      <3>1. (q \o q2)[i] = q[i] /\ i \in 1 .. Len(q)
        BY <1>2, <1>3, <2>1
      <3> QED
        BY <3>1 DEF GenuineQueue
    <2>2. CASE ~(i <= Len(q))
      <3>1. (q \o q2)[i] = q2[i - Len(q)] /\ i - Len(q) \in 1 .. Len(q2)
        BY <1>2, <1>3, <2>2
      <3> QED
        BY <3>1 DEF GenuineQueue
    <2> QED
      BY <2>1, <2>2
  <1> QED
    BY <1>2, <1>4 DEF GenuineQueue

\* Chains join, and a part of a chain at its end is one.
LEMMA ChainsJoin ==
    ASSUME NEW q \in Seq(Messages), NEW q2 \in Seq(Messages), NEW a, NEW b, NEW c,
           Chain(q, a, b), Chain(q2, b, c)
    PROVE  Chain(q \o q2, a, c)
  <1> DEFINE r == q \o q2
             m == Len(q)
             n == Len(q2)
  <1>0. m \in Nat /\ n \in Nat
    OBVIOUS
  <1>1. /\ Len(r) = m + n
        /\ \A i \in 1 .. m + n : r[i] = IF i <= m THEN q[i] ELSE q2[i - m]
    BY ConcatProperties
  <1>2. /\ \A i \in 1 .. (m - 1) : AbsEnd(q[i]) = Abs(q[i + 1])
        /\ IF m = 0 THEN a = b ELSE Abs(q[1]) = a /\ AbsEnd(q[m]) = b
        /\ \A i \in 1 .. (n - 1) : AbsEnd(q2[i]) = Abs(q2[i + 1])
        /\ IF n = 0 THEN b = c ELSE Abs(q2[1]) = b /\ AbsEnd(q2[n]) = c
    BY DEF Chain
  <1> SUFFICES Chain(r, a, c)
    OBVIOUS
  <1> HIDE DEF r, m, n
  <1>3. ASSUME NEW i \in 1 .. (m + n - 1) PROVE AbsEnd(r[i]) = Abs(r[i + 1])
    <2>1. CASE i < m
      <3>1. r[i] = q[i] /\ r[i + 1] = q[i + 1] /\ i \in 1 .. (m - 1)
        BY <1>0, <1>1, <2>1
      <3> QED
        BY <1>2, <3>1
    <2>2. CASE i = m
      <3>1. m > 0 /\ n > 0
        BY <1>0, <2>2
      <3>2. r[i] = q[m] /\ r[i + 1] = q2[1]
        BY <1>0, <1>1, <2>2, <3>1
      <3>3. AbsEnd(q[m]) = b /\ Abs(q2[1]) = b
        BY <1>0, <1>2, <3>1
      <3> QED
        BY <3>2, <3>3
    <2>3. CASE i > m
      <3>1. r[i] = q2[i - m] /\ r[i + 1] = q2[(i - m) + 1] /\ i - m \in 1 .. (n - 1)
        BY <1>0, <1>1, <2>3
      <3> QED
        BY <1>2, <3>1
    <2> QED
      BY <1>0, <2>1, <2>2, <2>3
  <1>4. CASE m + n = 0
    <2>1. m = 0 /\ n = 0
      BY <1>0, <1>4
    <2>2. a = c
      BY <1>2, <2>1
    <2>3. Len(r) = 0 /\ 1 .. (Len(r) - 1) = {}
      BY <1>1, <1>4
    <2> QED
      BY <2>2, <2>3 DEF Chain
  <1>5. CASE m + n # 0
    <2>1. Abs(r[1]) = a
      <3>1. CASE m = 0
        <4>1. r[1] = q2[1] /\ n # 0
          BY <1>0, <1>1, <1>5, <3>1
        <4> QED
          BY <1>2, <3>1, <4>1
      <3>2. CASE m # 0
        <4>1. r[1] = q[1]
          BY <1>0, <1>1, <3>2
        <4> QED
          BY <1>2, <3>2, <4>1
      <3> QED
        BY <3>1, <3>2
    <2>2. AbsEnd(r[m + n]) = c
      <3>1. CASE n = 0
        <4>1. r[m + n] = q[m] /\ m # 0
          BY <1>0, <1>1, <1>5, <3>1
        <4> QED
          BY <1>2, <3>1, <4>1
      <3>2. CASE n # 0
        <4>1. r[m + n] = q2[n]
          BY <1>0, <1>1, <3>2
        <4> QED
          BY <1>2, <3>2, <4>1
      <3> QED
        BY <3>1, <3>2
    <2>3. \A i \in 1 .. (Len(r) - 1) : AbsEnd(r[i]) = Abs(r[i + 1])
      <3> SUFFICES ASSUME NEW i \in 1 .. (Len(r) - 1) PROVE AbsEnd(r[i]) = Abs(r[i + 1])
        OBVIOUS
      <3>1. i \in 1 .. (m + n - 1)
        BY <1>0, <1>1
      <3> QED
        BY <1>3, <3>1
    <2>4. Len(r) # 0 /\ AbsEnd(r[Len(r)]) = c
      BY <1>1, <1>5, <2>2
    <2> QED
      BY <2>1, <2>3, <2>4 DEF Chain
  <1> QED
    BY <1>4, <1>5

LEMMA ChainSuffix ==
    ASSUME NEW q \in Seq(Messages), NEW a, NEW c, Chain(q, a, c), NEW k \in 0 .. Len(q)
    PROVE  LET rest == SubSeq(q, k + 1, Len(q))
           IN  /\ rest \in Seq(Messages)
               /\ \A i \in 1 .. Len(rest) : rest[i] = q[k + i] /\ k + i \in 1 .. Len(q)
               /\ Chain(rest, IF k = 0 THEN a ELSE AbsEnd(q[k]), c)
  <1> DEFINE n == Len(q)
             rest == SubSeq(q, k + 1, n)
             b == IF k = 0 THEN a ELSE AbsEnd(q[k])
  <1>0. n \in Nat /\ k \in Nat /\ k <= n
    OBVIOUS
  <1>1. /\ \A i \in 1 .. (n - 1) : AbsEnd(q[i]) = Abs(q[i + 1])
        /\ IF n = 0 THEN a = c ELSE Abs(q[1]) = a /\ AbsEnd(q[n]) = c
    BY DEF Chain
  <1>2. \A i \in (k + 1) .. n : q[i] \in Messages
    BY <1>0, ElementOfSeq
  <1>3. /\ rest \in Seq(Messages)
        /\ Len(rest) = IF k + 1 <= n THEN n - (k + 1) + 1 ELSE 0
        /\ \A i \in 1 .. n - (k + 1) + 1 : rest[i] = q[(k + 1) + i - 1]
    BY <1>0, <1>2, SubSeqProperties
  <1> HIDE DEF rest, b, n
  <1>4. Len(rest) = n - k
    <2>1. CASE k + 1 <= n
      <3>1. Len(rest) = n - (k + 1) + 1
        BY <1>3, <2>1
      <3> QED
        BY <1>0, <3>1
    <2>2. CASE ~(k + 1 <= n)
      <3>1. Len(rest) = 0
        BY <1>3, <2>2
      <3> QED
        BY <1>0, <2>2, <3>1
    <2> QED
      BY <2>1, <2>2
  <1>5. ASSUME NEW i \in 1 .. Len(rest) PROVE rest[i] = q[k + i] /\ k + i \in 1 .. n
    <2>1. i \in 1 .. n - (k + 1) + 1 /\ i \in Int
      BY <1>0, <1>4
    <2>2. (k + 1) + i - 1 = k + i /\ k + i \in 1 .. n
      BY <1>0, <2>1
    <2> QED
      BY <1>3, <2>1, <2>2
  <1>6. \A i \in 1 .. (Len(rest) - 1) : AbsEnd(rest[i]) = Abs(rest[i + 1])
    <2> SUFFICES ASSUME NEW i \in 1 .. (Len(rest) - 1)
                 PROVE  AbsEnd(rest[i]) = Abs(rest[i + 1])
      OBVIOUS
    <2>1. i \in 1 .. Len(rest) /\ i + 1 \in 1 .. Len(rest) /\ k + i \in 1 .. (n - 1)
      BY <1>0, <1>4
    <2>2. rest[i] = q[k + i] /\ rest[i + 1] = q[k + (i + 1)]
      BY <1>5, <2>1
    <2>3. k + (i + 1) = (k + i) + 1
      BY <1>0, <2>1
    <2> QED
      BY <1>1, <2>1, <2>2, <2>3
  <1>7. CASE k = n
    <2>1. b = c
      BY <1>0, <1>1, <1>7 DEF b
    <2>2. Len(rest) = 0
      BY <1>0, <1>4, <1>7
    <2>3. Chain(rest, b, c)
      BY <1>6, <2>1, <2>2 DEF Chain
    <2> QED
      BY <1>3, <1>5, <2>3 DEF rest, b, n
  <1>8. CASE k # n
    <2>1. Len(rest) # 0 /\ 1 \in 1 .. Len(rest) /\ Len(rest) \in 1 .. Len(rest)
      BY <1>0, <1>4, <1>8
    <2>2. Abs(rest[1]) = b
      <3>1. rest[1] = q[k + 1]
        BY <1>5, <2>1
      <3>2. CASE k = 0
        BY <1>0, <1>1, <1>8, <3>1, <3>2 DEF b
      <3>3. CASE k # 0
        <4>1. k \in 1 .. (n - 1)
          BY <1>0, <1>8, <3>3
        <4> QED
          BY <1>1, <3>1, <3>3, <4>1 DEF b
      <3> QED
        BY <3>2, <3>3
    <2>3. AbsEnd(rest[Len(rest)]) = c
      <3>1. k + Len(rest) = n /\ n # 0
        BY <1>0, <1>4, <1>8
      <3> QED
        BY <1>1, <1>5, <2>1, <3>1
    <2>4. Chain(rest, b, c)
      BY <1>6, <2>1, <2>2, <2>3 DEF Chain
    <2> QED
      BY <1>3, <1>5, <2>4 DEF rest, b, n
  <1> QED
    BY <1>7, <1>8

\* The fields of a peer.
LEMMA PeerFields ==
    ASSUME NEW p \in Peers, NEW r, PeerOK(p, r)
    PROVE  /\ Isn[p] \in Raw /\ Isn[p] \in Nat /\ Total[p] \in Nat
           /\ r \in PeerRecords /\ r.snd \in SenderRecords /\ r.snd.isn_ = Isn[p]
           /\ r.snd.syn_ \in BOOLEAN /\ r.snd.fin_ \in BOOLEAN
           /\ r.snd.window_size_ \in Nat
           /\ r.snd.seqnums_sent_ \in Nat /\ r.snd.seqnums_in_flight_ \in Int
           /\ r.snd.outstanding_ \in Seq(Messages)
           /\ r.snd.ready_to_send_ \in Seq(Messages)
           /\ r.need_send_ \in BOOLEAN
           /\ r.outbound \in StreamType /\ r.inbound \in StreamType
           /\ r.outbound.popped \in Nat /\ r.outbound.pushed \in Nat
           /\ r.outbound.capacity \in Nat
           /\ r.outbound.closed \in BOOLEAN /\ r.outbound.error \in BOOLEAN
           /\ r.outbound.popped <= r.outbound.pushed
           /\ r.outbound.pushed <= r.outbound.popped + r.outbound.capacity
           /\ r.outbound.pushed <= Total[p]
           /\ r.inbound.popped \in Nat /\ r.inbound.pushed \in Nat
           /\ r.inbound.capacity \in Nat
           /\ r.inbound.closed \in BOOLEAN /\ r.inbound.error \in BOOLEAN
           /\ r.inbound.popped <= r.inbound.pushed
           /\ r.inbound.pushed <= r.inbound.popped + r.inbound.capacity
           /\ r.asm \in [held : SUBSET Nat, closing : BOOLEAN]
           /\ r.asm.held \in SUBSET Nat /\ r.asm.closing \in BOOLEAN
           /\ r.isn \in Raw \union {None}
  <1> USE ConnectionAssumption
  <1>1. Isn[p] \in Raw /\ Isn[p] \in Nat /\ Total[p] \in Nat
    BY DEF Raw
  <1>2. /\ r \in PeerRecords /\ r.snd \in SenderRecords /\ r.snd.isn_ = Isn[p]
        /\ StreamOK(r.outbound) /\ StreamOK(r.inbound) /\ r.outbound.pushed <= Total[p]
    BY DEF PeerOK, SenderOK, AssemblyOK
  <1>3. /\ r.snd.syn_ \in BOOLEAN /\ r.snd.fin_ \in BOOLEAN
        /\ r.snd.window_size_ \in Nat
        /\ r.snd.seqnums_sent_ \in Nat /\ r.snd.seqnums_in_flight_ \in Int
        /\ r.snd.outstanding_ \in Seq(Messages)
        /\ r.snd.ready_to_send_ \in Seq(Messages)
    BY <1>2 DEF SenderRecords
  <1>4. /\ r.need_send_ \in BOOLEAN /\ r.isn \in Raw \union {None}
        /\ r.asm \in [held : SUBSET Nat, closing : BOOLEAN]
        /\ r.outbound \in StreamType /\ r.inbound \in StreamType
    BY <1>2 DEF PeerRecords
  <1> QED
    BY <1>1, <1>2, <1>3, <1>4 DEF StreamOK, StreamType

LEMMA NextIsNumber ==
    ASSUME NEW p \in Peers, NEW r, PeerOK(p, r)
    PROVE  /\ AbsoluteNext(r.inbound) \in Nat /\ AbsoluteNext(r.inbound) >= 1
           /\ Una(r) \in Int
  <1>1. /\ r.inbound.pushed \in Nat /\ r.inbound.closed \in BOOLEAN
        /\ r.snd.seqnums_sent_ \in Nat /\ r.snd.seqnums_in_flight_ \in Int
    BY PeerFields
  <1> QED
    BY <1>1 DEF AbsoluteNext, One, Una

-----------------------------------------------------------------------------
\* push

\* What a push takes from the stream, and the messages it makes of it.
LEMMA PushedIsGenuine ==
    ASSUME NEW p \in Peers, NEW r, PeerOK(p, r), CanPush(r.snd)
    PROVE  LET b == Bytes(r.snd, r.outbound)
               f == Finishes(r.snd, r.outbound)
           IN  /\ b \in Nat /\ r.outbound.popped + b <= r.outbound.pushed
               /\ f \in BOOLEAN
               /\ r.snd.fin_ => b = 0 /\ ~f
               /\ f => r.outbound.closed /\ r.outbound.popped + b = r.outbound.pushed
               /\ GenuineQueue(p, Pushed(r.snd, r.outbound), r.outbound.popped + b,
                               r.snd.fin_ \/ f)
               /\ Chain(Pushed(r.snd, r.outbound), r.snd.seqnums_sent_,
                        r.snd.seqnums_sent_ + SeqnumsPushed(r.snd, r.outbound))
  <1> DEFINE s == r.snd
             o == r.outbound
             b == Bytes(s, o)
             f == Finishes(s, o)
             n == Count(s, o)
  <1>0. /\ Isn[p] \in Raw /\ s.isn_ = Isn[p] /\ s.syn_ \in BOOLEAN /\ s.fin_ \in BOOLEAN
        /\ s.window_size_ \in Nat /\ s.seqnums_in_flight_ \in Int
        /\ s.seqnums_sent_ \in Nat /\ o.popped \in Nat /\ o.pushed \in Nat
        /\ o.popped <= o.pushed /\ o.closed \in BOOLEAN
    BY PeerFields
  <1>1. /\ s.seqnums_sent_ = One(s.syn_) + o.popped + One(s.fin_)
        /\ ~s.syn_ => o.popped = 0 /\ ~s.fin_
        /\ s.fin_ => o.closed /\ o.popped = o.pushed
    BY DEF PeerOK, SenderOK
  <1>2. Room(s) \in Int /\ Room(s) > 0
    BY <1>0 DEF CanPush, Room, Usable
  <1>3. b \in Nat /\ b <= Buffered(o)
    BY <1>0, <1>2 DEF Bytes, AtMost, One, Buffered
  <1>4. o.popped + b <= o.pushed /\ f \in BOOLEAN
    BY <1>0, <1>3 DEF Buffered, Finishes
  <1>5. s.fin_ => b = 0 /\ ~f
    BY <1>0, <1>1, <1>3, <1>4 DEF Finishes
  <1>6. f => o.closed /\ o.popped + b = o.pushed
    BY <1>0, <1>3 DEF Finishes, Buffered
  <1>7. n = IF b > 0 THEN ((b - 1) \div MaxPayload) + 1 ELSE One(~s.syn_ \/ f)
    BY DEF Count
  <1>8. ASSUME NEW i \in 1 .. n
        PROVE  /\ (i - 1) * MaxPayload \in Nat /\ (i - 1) * MaxPayload <= b
               /\ i > 1 => b > 0
               /\ i = n => b - ((i - 1) * MaxPayload) <= MaxPayload
               /\ i = 1 => (i - 1) * MaxPayload = 0
               /\ i < n => ((i - 1) * MaxPayload) + MaxPayload <= b
               /\ ((i + 1) - 1) * MaxPayload = ((i - 1) * MaxPayload) + MaxPayload
    <2>1. n = IF b > 0 THEN ((b - 1) \div MaxPayload) + 1 ELSE 1
      BY <1>3, <1>7, <1>8 DEF One
    <2> HIDE DEF b, n
    <2> QED
      BY <1>3, <2>1, CutIntoMessages
  <1>9. n \in Nat
    <2>1. MaxPayload \in Nat /\ MaxPayload > 0
      BY PayloadAssumption
    <2>2. b > 0 => (b - 1) \div MaxPayload \in Nat
      BY <1>3, <2>1
    <2> QED
      BY <1>7, <2>2 DEF One
  <1> DEFINE at(i) == s.seqnums_sent_ + (IF i = 1 THEN 0 ELSE One(~s.syn_))
                        + ((i - 1) * MaxPayload)
             size(i) == AtMost(b - ((i - 1) * MaxPayload), MaxPayload)
  <1>10. ASSUME NEW i \in 1 .. n
         PROVE  /\ Genuine(p, Pushed(s, o)[i], o.popped + b, s.fin_ \/ f)
                /\ Stamped(p, Pushed(s, o)[i])
                /\ Abs(Pushed(s, o)[i]) = at(i)
                /\ sequence_length(Pushed(s, o)[i]) =
                     One(i = 1 /\ ~s.syn_) + size(i) + One(i = n /\ f)
    <2> DEFINE skip == (i - 1) * MaxPayload
               msg == Pushed(s, o)[i]
    <2>1. /\ msg.SYN \in BOOLEAN /\ (msg.SYN <=> (i = 1 /\ ~s.syn_))
          /\ msg.first = o.popped + skip
          /\ msg.len = AtMost(b - skip, MaxPayload)
          /\ msg.FIN \in BOOLEAN /\ (msg.FIN <=> (i = n /\ f))
          /\ msg.seqno = Wrap(s.seqnums_sent_ + (IF i = 1 THEN 0 ELSE One(~s.syn_)) + skip,
                              s.isn_)
          /\ msg = Message(msg.seqno, msg.SYN, msg.first, msg.len, msg.FIN)
      BY DEF Pushed, Message
    <2>2. /\ skip \in Nat /\ skip <= b
          /\ i > 1 => b > 0
          /\ i = n => b - skip <= MaxPayload
          /\ i = 1 => skip = 0
      BY <1>8
    <2> HIDE DEF skip, msg, b, f, n
    <2>3. MaxPayload \in Nat /\ MaxPayload > 0
      BY PayloadAssumption
    <2>4. /\ msg.first \in Nat /\ msg.len \in Nat
          /\ msg.first + msg.len <= o.popped + b
          /\ msg.len > 0 => b > 0
          /\ msg.FIN => msg.first + msg.len = o.popped + b
      <3>1. /\ msg.first = o.popped + skip /\ msg.len = AtMost(b - skip, MaxPayload)
            /\ msg.FIN => i = n
        BY <2>1
      <3> QED
        BY <1>0, <1>3, <2>2, <2>3, <3>1 DEF AtMost
    <2> DEFINE m == s.seqnums_sent_ + (IF i = 1 THEN 0 ELSE One(~s.syn_)) + skip
    <2>5. m \in Nat
      BY <1>0, <2>2 DEF One
    <2>6. msg.seqno = Wrap(m, Isn[p]) /\ Isn[p] \in Int
      BY <1>0, <2>1, ModulusAssumption DEF Raw
    <2>7. msg.SYN => m = 0 /\ msg.first = 0
      BY <1>0, <1>1, <2>1, <2>2 DEF One
    <2>8. ~msg.SYN => m = msg.first + 1
      <3>0. ~s.fin_
        <4>1. s.fin_ => s.syn_ /\ b = 0 /\ ~f
          BY <1>0, <1>1, <1>5
        <4>2. s.fin_ => n = 0
          BY <1>3, <1>7, <4>1 DEF One
        <4> QED
          BY <1>9, <4>2
      <3>1. CASE s.syn_
        BY <1>0, <1>1, <2>1, <2>2, <3>0, <3>1 DEF One
      <3>2. CASE ~s.syn_
        <4>1. ~msg.SYN => i # 1
          BY <2>1, <3>2
        <4> QED
          BY <1>0, <1>1, <2>1, <2>2, <3>2, <4>1 DEF One
      <3> QED
        BY <3>1, <3>2
    <2> HIDE DEF m
    <2>9. msg.seqno \in Raw
      BY <2>5, <2>6, WrapType
    <2>10. Wrap(0, Isn[p]) = Isn[p]
      BY <1>0, WrapZero
    <2>11. msg \in Messages
      BY <2>1, <2>4, <2>9 DEF Message, Messages
    <2>12. msg.FIN => f
      BY <2>1
    <2>13. Genuine(p, msg, o.popped + b, s.fin_ \/ f)
      BY <2>4, <2>6, <2>7, <2>8, <2>10, <2>11, <2>12 DEF Genuine
    <2>14. Abs(msg) = m
      BY <2>1, <2>7, <2>8 DEF Abs
    <2>15. Stamped(p, msg)
      BY <2>6, <2>14 DEF Stamped
    <2>16. sequence_length(msg) = One(i = 1 /\ ~s.syn_) + size(i) + One(i = n /\ f)
      <3>1. msg.len = size(i)
        BY <2>1 DEF skip
      <3>2. One(msg.SYN) = One(i = 1 /\ ~s.syn_) /\ One(msg.FIN) = One(i = n /\ f)
        BY <2>1 DEF One
      <3> QED
        BY <3>1, <3>2 DEF sequence_length
    <2> QED
      BY <2>13, <2>14, <2>15, <2>16 DEF msg, m, skip
  <1>11. GenuineQueue(p, Pushed(s, o), o.popped + b, s.fin_ \/ f)
    <2>1. DOMAIN Pushed(s, o) = 1 .. n /\ Pushed(s, o) = [i \in 1 .. n |-> Pushed(s, o)[i]]
      BY DEF Pushed
    <2>2. \A i \in 1 .. n : Pushed(s, o)[i] \in Messages
      BY <1>10 DEF Genuine
    <2> HIDE DEF n, b, f
    <2>3. Pushed(s, o) \in Seq(Messages) /\ Len(Pushed(s, o)) = n
      BY <1>9, <2>1, <2>2, SeqDef
    <2> QED
      BY <1>10, <2>3 DEF GenuineQueue
  <1>12. Chain(Pushed(s, o), s.seqnums_sent_, s.seqnums_sent_ + SeqnumsPushed(s, o))
    <2> DEFINE q == Pushed(s, o)
               P == MaxPayload
               skip(i) == (i - 1) * P
    <2>0. /\ Len(q) = n
          /\ \A i \in 1 .. n : /\ Abs(q[i]) = at(i)
                               /\ AbsEnd(q[i]) = at(i) + (One(i = 1 /\ ~s.syn_) + size(i)
                                                           + One(i = n /\ f))
      <3>1. Len(q) = n
        BY <1>9 DEF Pushed
      <3> QED
        BY <1>10, <3>1 DEF AbsEnd
    <2>1. SeqnumsPushed(s, o) = One(~s.syn_) + b + One(f)
      BY DEF SeqnumsPushed
    <2>2. P \in Nat /\ P > 0
      BY PayloadAssumption
    <2> HIDE DEF q, b, f, n
    <2>3. \A i \in 1 .. n : /\ skip(i) \in Nat /\ skip(i) <= b
                            /\ i = n => b - skip(i) <= P
                            /\ i = 1 => skip(i) = 0
                            /\ i < n => skip(i) + P <= b
                            /\ skip(i + 1) = skip(i) + P
      BY <1>8
    <2>4. \A i \in 1 .. n : /\ at(i) = s.seqnums_sent_ + (IF i = 1 THEN 0 ELSE One(~s.syn_))
                                        + skip(i)
                            /\ size(i) = AtMost(b - skip(i), P)
      OBVIOUS
    <2> HIDE DEF at, size, skip, P
    <2>5. ASSUME NEW i \in 1 .. (n - 1) PROVE AbsEnd(q[i]) = Abs(q[i + 1])
      <3>1. i \in 1 .. n /\ i + 1 \in 1 .. n /\ i < n /\ i \in Nat
        BY <1>9
      <3>2. size(i) = P
        BY <1>3, <2>2, <2>3, <2>4, <3>1 DEF AtMost
      <3>3. /\ AbsEnd(q[i]) = at(i) + (One(i = 1 /\ ~s.syn_) + P + One(FALSE))
            /\ Abs(q[i + 1]) = at(i + 1)
        <4>1. One(i = n /\ f) = One(FALSE)
          BY <3>1 DEF One
        <4> QED
          BY <2>0, <3>1, <3>2, <4>1
      <3>4. /\ at(i) = s.seqnums_sent_ + (IF i = 1 THEN 0 ELSE One(~s.syn_)) + skip(i)
            /\ at(i + 1) = s.seqnums_sent_ + One(~s.syn_) + (skip(i) + P)
            /\ skip(i) \in Nat
        BY <1>0, <2>3, <2>4, <3>1
      <3>5. One(i = 1 /\ ~s.syn_) = IF i = 1 THEN One(~s.syn_) ELSE 0
        BY DEF One
      <3>6. One(~s.syn_) \in Nat /\ One(FALSE) = 0
        BY DEF One
      <3> DEFINE y == One(~s.syn_)
                 k == skip(i)
                 e == AbsEnd(q[i])
                 a == Abs(q[i + 1])
                 x == One(i = 1 /\ ~s.syn_)
                 z == IF i = 1 THEN 0 ELSE y
      <3>7. /\ e = (s.seqnums_sent_ + z + k) + (x + P + 0)
            /\ a = s.seqnums_sent_ + y + (k + P)
            /\ x = IF i = 1 THEN y ELSE 0
            /\ y \in Nat /\ k \in Nat /\ s.seqnums_sent_ \in Nat
        BY <1>0, <3>3, <3>4, <3>5, <3>6
      <3>8. z + x = y /\ z \in Nat /\ x \in Nat
        BY <3>7
      <3> HIDE DEF x, y, k, e, a, z
      <3>9. e = a
        BY <2>2, <3>7, <3>8
      <3> QED
        BY <3>9 DEF e, a
    <2>6. ASSUME n = 0
          PROVE  Chain(q, s.seqnums_sent_, s.seqnums_sent_ + SeqnumsPushed(s, o))
      <3>1. b = 0 /\ One(~s.syn_) = 0 /\ One(f) = 0
        <4>1. b > 0 => n > 0
          <5>1. b > 0 => (b - 1) \div MaxPayload \in Nat
            BY <1>3, PayloadAssumption
          <5> QED
            BY <1>7, <5>1
        <4> QED
          BY <1>3, <1>7, <2>6, <4>1 DEF One
      <3>2. s.seqnums_sent_ + SeqnumsPushed(s, o) = s.seqnums_sent_
        BY <1>0, <2>1, <3>1
      <3>3. Len(q) = 0 /\ 1 .. (Len(q) - 1) = {}
        BY <2>0, <2>6
      <3> QED
        BY <3>2, <3>3 DEF Chain
    <2>7. ASSUME n # 0
          PROVE  Chain(q, s.seqnums_sent_, s.seqnums_sent_ + SeqnumsPushed(s, o))
      <3>1. 1 \in 1 .. n /\ n \in 1 .. n
        BY <1>9, <2>7
      <3>2. Abs(q[1]) = s.seqnums_sent_
        BY <1>0, <2>0, <2>3, <2>4, <3>1
      <3>3. AbsEnd(q[n]) = s.seqnums_sent_ + SeqnumsPushed(s, o)
        <4>1. size(n) = b - skip(n) /\ skip(n) \in Nat
          BY <1>3, <2>2, <2>3, <2>4, <3>1 DEF AtMost
        <4>2. at(n) = s.seqnums_sent_ + (IF n = 1 THEN 0 ELSE One(~s.syn_)) + skip(n)
          BY <2>4, <3>1
        <4>3. AbsEnd(q[n]) = at(n) + (One(n = 1 /\ ~s.syn_) + size(n) + One(f))
          <5>1. One(n = n /\ f) = One(f)
            BY DEF One
          <5> QED
            BY <2>0, <3>1, <5>1
        <4>4. One(n = 1 /\ ~s.syn_) = IF n = 1 THEN One(~s.syn_) ELSE 0
          BY DEF One
        <4>5. One(~s.syn_) \in Nat /\ One(f) \in Nat
          BY DEF One
        <4> QED
          BY <1>0, <1>3, <2>1, <4>1, <4>2, <4>3, <4>4, <4>5
      <3>4. \A i \in 1 .. (Len(q) - 1) : AbsEnd(q[i]) = Abs(q[i + 1])
        BY <2>0, <2>5
      <3>5. Len(q) # 0 /\ AbsEnd(q[Len(q)]) = s.seqnums_sent_ + SeqnumsPushed(s, o)
        BY <2>0, <2>7, <3>3
      <3> QED
        BY <3>2, <3>4, <3>5 DEF Chain
    <2> QED
      BY <2>6, <2>7 DEF q
  <1> QED
    BY <1>3, <1>4, <1>5, <1>6, <1>11, <1>12

\* The receiver's side of a peer.
SameInbound(r, q) == q.inbound = r.inbound /\ q.asm = r.asm /\ q.isn = r.isn

LEMMA PushKeeps ==
    ASSUME NEW p \in Peers, NEW r, PeerOK(p, r)
    PROVE  /\ PeerOK(p, push(r)) /\ GoesOn(r, push(r)) /\ SameInbound(r, push(r))
           /\ Una(push(r)) = Una(r)
  <1>1. CASE ~CanPush(r.snd)
    <2>1. push(r) = r
      BY <1>1 DEF push
    <2> QED
      BY <2>1, PeerFields, NextIsNumber DEF GoesOn, SameInbound
  <1>2. CASE CanPush(r.snd)
    <2> DEFINE s == r.snd
               o == r.outbound
               b == Bytes(s, o)
               f == Finishes(s, o)
               m == Pushed(s, o)
               t == SenderAfterPush(s, o)
               u == StreamAfterPush(s, o)
    <2>1. /\ b \in Nat /\ o.popped + b <= o.pushed
          /\ f \in BOOLEAN
          /\ s.fin_ => b = 0 /\ ~f
          /\ f => o.closed /\ o.popped + b = o.pushed
          /\ GenuineQueue(p, m, o.popped + b, s.fin_ \/ f)
          /\ Chain(m, s.seqnums_sent_, s.seqnums_sent_ + SeqnumsPushed(s, o))
      BY <1>2, PushedIsGenuine
    <2>2. /\ s \in SenderRecords /\ s.isn_ = Isn[p] /\ s.syn_ \in BOOLEAN /\ s.fin_ \in BOOLEAN
          /\ s.seqnums_sent_ \in Nat /\ s.seqnums_in_flight_ \in Int
          /\ o \in StreamType /\ o.popped \in Nat /\ o.pushed \in Nat /\ o.capacity \in Nat
          /\ o.pushed <= o.popped + o.capacity
          /\ r \in PeerRecords
      BY PeerFields
    <2>3. /\ s.seqnums_sent_ = One(s.syn_) + o.popped + One(s.fin_)
          /\ ~s.syn_ => o.popped = 0 /\ ~s.fin_
          /\ s.fin_ => o.closed /\ o.popped = o.pushed
          /\ GenuineQueue(p, s.outstanding_, o.popped, s.fin_)
          /\ GenuineQueue(p, s.ready_to_send_, o.popped, s.fin_)
          /\ o.pushed <= Total[p]
          /\ Chain(s.outstanding_, s.seqnums_sent_ - s.seqnums_in_flight_, s.seqnums_sent_)
      BY DEF PeerOK, SenderOK
    <2>4. /\ u \in StreamType /\ u.popped = o.popped + b /\ u.pushed = o.pushed
          /\ u.closed = o.closed /\ u.capacity = o.capacity
      BY <2>1, <2>2 DEF StreamAfterPush, PopFrom, StreamType
    <2>5. StreamOK(u)
      BY <2>1, <2>2, <2>4 DEF StreamOK
    <2>6. GenuineQueue(p, s.outstanding_ \o m, o.popped + b, s.fin_ \/ f)
      <3>1. GenuineQueue(p, s.outstanding_, o.popped + b, s.fin_ \/ f)
        BY <2>1, <2>2, <2>3, QueueStays
      <3> QED
        BY <2>1, <3>1, QueuesJoin
    <2>7. GenuineQueue(p, s.ready_to_send_ \o m, o.popped + b, s.fin_ \/ f)
      <3>1. GenuineQueue(p, s.ready_to_send_, o.popped + b, s.fin_ \/ f)
        BY <2>1, <2>2, <2>3, QueueStays
      <3> QED
        BY <2>1, <3>1, QueuesJoin
    <2>8. /\ t.isn_ = s.isn_ /\ t.syn_ = TRUE /\ t.fin_ = (s.fin_ \/ f)
          /\ t.window_size_ = s.window_size_
          /\ t.seqnums_sent_ = s.seqnums_sent_ + SeqnumsPushed(s, o)
          /\ t.seqnums_in_flight_ = s.seqnums_in_flight_ + SeqnumsPushed(s, o)
          /\ t.outstanding_ = s.outstanding_ \o m
          /\ t.ready_to_send_ = s.ready_to_send_ \o m
      BY <2>2 DEF SenderAfterPush, SenderRecords
    <2>9. SeqnumsPushed(s, o) = One(~s.syn_) + b + One(f)
      BY DEF SeqnumsPushed
    <2>10. push(r) = [r EXCEPT !.snd = t, !.outbound = u]
      BY <1>2 DEF push
    <2> HIDE DEF b, f, m, t, u
    <2>11. /\ t.seqnums_sent_ \in Nat /\ t.seqnums_in_flight_ \in Int
           /\ t.seqnums_sent_ = 1 + u.popped + One(s.fin_ \/ f)
      <3>1. t.seqnums_sent_ = s.seqnums_sent_ + One(~s.syn_) + b + One(f)
        <4>1. t.seqnums_sent_ = s.seqnums_sent_ + SeqnumsPushed(s, o)
          BY <2>8
        <4>2. One(~s.syn_) \in Int /\ One(f) \in Int
          BY DEF One
        <4> QED
          BY <2>1, <2>2, <2>9, <4>1, <4>2
      <3>2. SeqnumsPushed(s, o) \in Int
        BY <2>1, <2>2, <2>9 DEF One
      <3>3. t.seqnums_sent_ = 1 + o.popped + b + One(s.fin_ \/ f)
        <4>1. CASE s.syn_
          BY <2>1, <2>2, <2>3, <3>1, <4>1 DEF One
        <4>2. CASE ~s.syn_
          BY <2>1, <2>2, <2>3, <3>1, <4>2 DEF One
        <4> QED
          BY <4>1, <4>2
      <3>4. /\ t.seqnums_sent_ = s.seqnums_sent_ + SeqnumsPushed(s, o)
            /\ t.seqnums_in_flight_ = s.seqnums_in_flight_ + SeqnumsPushed(s, o)
        BY <2>8
      <3>5. t.seqnums_in_flight_ \in Int
        BY <2>2, <3>2, <3>4
      <3>6. One(s.fin_ \/ f) \in Nat /\ u.popped = o.popped + b
        BY <2>4 DEF One
      <3> QED
        BY <2>1, <2>2, <3>3, <3>5, <3>6
    <2>18. t.seqnums_sent_ - t.seqnums_in_flight_
             = s.seqnums_sent_ - s.seqnums_in_flight_
      <3>1. /\ t.seqnums_sent_ = s.seqnums_sent_ + SeqnumsPushed(s, o)
            /\ t.seqnums_in_flight_ = s.seqnums_in_flight_ + SeqnumsPushed(s, o)
        BY <2>8
      <3>2. /\ SeqnumsPushed(s, o) \in Int
            /\ s.seqnums_sent_ \in Int /\ s.seqnums_in_flight_ \in Int
        BY <2>1, <2>2, <2>9 DEF One
      <3> QED
        BY <3>1, <3>2
    <2>12. t \in SenderRecords
      <3>1. t.outstanding_ \in Seq(Messages) /\ t.ready_to_send_ \in Seq(Messages)
        BY <2>6, <2>7, <2>8 DEF GenuineQueue
      <3>2. t.fin_ \in BOOLEAN /\ t.isn_ \in Raw /\ t.window_size_ \in Nat
        BY <2>1, <2>2, <2>8 DEF SenderRecords
      <3> QED
        BY <2>2, <2>8, <2>11, <3>1, <3>2 DEF SenderRecords, SenderAfterPush, t
    <2>13. SenderOK(p, t, u)
      <3>1. t.fin_ => u.closed /\ u.popped = u.pushed
        BY <2>1, <2>2, <2>3, <2>4, <2>8
      <3>2. t.seqnums_sent_ - t.seqnums_in_flight_
              = s.seqnums_sent_ - s.seqnums_in_flight_
        BY <2>18
      <3>3. Chain(t.outstanding_, t.seqnums_sent_ - t.seqnums_in_flight_, t.seqnums_sent_)
        <4>1. s.outstanding_ \in Seq(Messages) /\ m \in Seq(Messages)
          BY <2>1, <2>3 DEF GenuineQueue
        <4>2. Chain(s.outstanding_ \o m, s.seqnums_sent_ - s.seqnums_in_flight_,
                    s.seqnums_sent_ + SeqnumsPushed(s, o))
          BY <2>1, <2>3, <4>1, ChainsJoin
        <4> QED
          BY <2>8, <3>2, <4>2
      <3>4. ~t.syn_ => u.popped = 0 /\ ~t.fin_
        BY <2>8
      <3>5. t.seqnums_sent_ = One(t.syn_) + u.popped + One(t.fin_)
        BY <2>8, <2>11 DEF One
      <3>6. GenuineQueue(p, t.outstanding_, u.popped, t.fin_)
            /\ GenuineQueue(p, t.ready_to_send_, u.popped, t.fin_)
        BY <2>4, <2>6, <2>7, <2>8
      <3> QED
        BY <2>2, <2>3, <2>4, <2>5, <2>8, <2>12, <3>1, <3>3, <3>4, <3>5, <3>6 DEF SenderOK
    <2>14. /\ push(r) \in PeerRecords
           /\ push(r).snd = t /\ push(r).outbound = u
           /\ SameInbound(r, push(r))
      BY <2>2, <2>4, <2>10, <2>12 DEF PeerRecords, SameInbound
    <2>15. PeerOK(p, push(r))
      BY <2>13, <2>14 DEF PeerOK, SameInbound
    <2>16. GoesOn(r, push(r))
      <3>1. r.snd.fin_ => t.fin_ /\ b = 0
        BY <2>1, <2>8
      <3>2. AbsoluteNext(push(r).inbound) = AbsoluteNext(r.inbound)
        BY <2>14 DEF SameInbound
      <3>3. AbsoluteNext(r.inbound) \in Nat
        BY NextIsNumber
      <3> QED
        BY <2>1, <2>2, <2>4, <2>14, <3>1, <3>2, <3>3 DEF GoesOn
    <2>17. Una(push(r)) = Una(r)
      BY <2>14, <2>18 DEF Una
    <2> QED
      BY <2>14, <2>15, <2>16, <2>17
  <1> QED
    BY <1>1, <1>2

-----------------------------------------------------------------------------
\* collect_segments

LEMMA CollectedIsGenuine ==
    ASSUME NEW p \in Peers, NEW r, PeerOK(p, r), NEW seg \in Collected(r)
    PROVE  SegmentOK(p, seg, r)
  <1> DEFINE popped == r.outbound.popped
             fin == r.snd.fin_
  <1>1. ASSUME NEW msg, Genuine(p, msg, popped, fin)
        PROVE  SegmentOK(p, Envelope(r, msg), r)
    <2>1. /\ r.inbound.pushed \in Nat /\ r.inbound.popped \in Nat
          /\ r.inbound.capacity \in Nat
          /\ r.inbound.pushed <= r.inbound.popped + r.inbound.capacity
          /\ r.inbound.closed \in BOOLEAN /\ r.isn \in Raw \union {None}
          /\ r.inbound.error \in BOOLEAN /\ r.outbound.error \in BOOLEAN
      BY PeerFields
    <2>2. Window(r.inbound) \in Nat
      BY <2>1, WindowAssumption DEF Window, AtMost, Available, Buffered
    <2>3. Ackno(r.isn, r.inbound) \in Raw \union {None}
      <3>1. CASE r.isn = None
        BY <3>1 DEF Ackno
      <3>2. CASE r.isn # None
        <4>1. AbsoluteNext(r.inbound) \in Int
          BY <2>1 DEF AbsoluteNext, One
        <4>2. r.isn \in Int
          BY <2>1, <3>2, ModulusAssumption DEF Raw
        <4> QED
          BY <3>2, <4>1, <4>2, WrapType DEF Ackno
      <3> QED
        BY <3>1, <3>2
    <2>4. (r.outbound.error \/ r.inbound.error) \in BOOLEAN
      BY <2>1
    <2>5. msg \in Messages
      BY <1>1 DEF Genuine
    <2>6. Envelope(r, msg) \in Envelopes /\ Envelope(r, msg).msg = msg
      BY <2>2, <2>3, <2>4, <2>5 DEF Envelope, Envelopes
    <2>7. Envelope(r, msg).ackno = Ackno(r.isn, r.inbound)
      BY DEF Envelope
    <2>8. Ackno(r.isn, r.inbound) = None
          \/ \E n \in 1 .. AbsoluteNext(r.inbound) :
                Ackno(r.isn, r.inbound) = Wrap(n, Isn[Other(p)])
      <3>1. r.isn \in {None, Isn[Other(p)]}
        BY DEF PeerOK
      <3>2. AbsoluteNext(r.inbound) \in 1 .. AbsoluteNext(r.inbound)
        BY NextIsNumber
      <3> QED
        BY <3>1, <3>2 DEF Ackno
    <2> QED
      BY <1>1, <2>6, <2>7, <2>8 DEF SegmentOK
  <1>2. CASE HasMessage(r.snd)
    <2> DEFINE q == r.snd.ready_to_send_
    <2>1. PICK i \in DOMAIN q : seg = Envelope(r, q[i])
      BY <1>2 DEF Collected
    <2>2. GenuineQueue(p, q, popped, fin)
      BY DEF PeerOK, SenderOK
    <2>3. DOMAIN q = 1 .. Len(q)
      BY PeerFields
    <2>4. Genuine(p, q[i], popped, fin)
      BY <2>1, <2>2, <2>3 DEF GenuineQueue
    <2> QED
      BY <1>1, <2>1, <2>4
  <1>3. CASE ~HasMessage(r.snd)
    <2>1. seg = Envelope(r, EmptyMessage(r.snd))
      BY <1>3 DEF Collected
    <2>2. Genuine(p, EmptyMessage(r.snd), popped, fin)
      <3>1. r.snd.seqnums_sent_ \in Int /\ r.snd.isn_ \in Int /\ popped \in Nat
        BY PeerFields
      <3>2. Wrap(r.snd.seqnums_sent_, r.snd.isn_) \in Raw
        BY <3>1, WrapType
      <3> QED
        BY <3>1, <3>2 DEF EmptyMessage, Message, Messages, Genuine
    <2> QED
      BY <1>1, <2>1, <2>2
  <1> QED
    BY <1>2, <1>3

LEMMA CollectKeeps ==
    ASSUME NEW p \in Peers, NEW r, PeerOK(p, r)
    PROVE  /\ PeerOK(p, AfterCollect(r)) /\ SameInbound(r, AfterCollect(r))
           /\ AfterCollect(r).outbound = r.outbound
           /\ AfterCollect(r).snd.fin_ = r.snd.fin_
           /\ Una(AfterCollect(r)) = Una(r) /\ Idle(AfterCollect(r))
  <1> DEFINE q == AfterCollect(r)
             t == [r.snd EXCEPT !.ready_to_send_ = <<>>]
  <1>1. r \in PeerRecords /\ r.snd \in SenderRecords /\ SenderOK(p, r.snd, r.outbound)
    BY PeerFields DEF PeerOK
  <1>2. q = [r EXCEPT !.snd = t, !.need_send_ = FALSE]
    BY <1>1 DEF AfterCollect, PeerRecords
  <1>3. <<>> \in Seq(Messages) /\ Len(<<>>) = 0
    BY EmptySeq
  <1>4. /\ t \in SenderRecords /\ t.isn_ = r.snd.isn_ /\ t.syn_ = r.snd.syn_
        /\ t.fin_ = r.snd.fin_ /\ t.seqnums_sent_ = r.snd.seqnums_sent_
        /\ t.outstanding_ = r.snd.outstanding_ /\ t.ready_to_send_ = <<>>
        /\ t.seqnums_in_flight_ = r.snd.seqnums_in_flight_
    BY <1>1, <1>3 DEF SenderRecords
  <1>5. SenderOK(p, t, r.outbound)
    BY <1>1, <1>3, <1>4 DEF SenderOK, GenuineQueue
  <1> HIDE DEF t
  <1>6. /\ q \in PeerRecords /\ q.snd = t /\ q.outbound = r.outbound
        /\ SameInbound(r, q)
    BY <1>1, <1>2, <1>4 DEF PeerRecords, SameInbound
  <1>7. PeerOK(p, q)
    BY <1>5, <1>6 DEF PeerOK, SameInbound
  <1>8. Una(q) = Una(r) /\ Idle(q)
    <2>1. ~q.need_send_
      BY <1>1, <1>2 DEF PeerRecords
    <2> HIDE DEF q
    <2> QED
      BY <1>4, <1>6, <2>1 DEF Una, Idle
  <1> QED
    BY <1>4, <1>6, <1>7, <1>8

-----------------------------------------------------------------------------
\* TCPSender::receive

LEMMA WindowKeeps ==
    ASSUME NEW p \in Peers, NEW s, NEW stream, SenderOK(p, s, stream), NEW window \in Nat
    PROVE  /\ SenderOK(p, SetWindow(s, window), stream)
           /\ SetWindow(s, window).fin_ = s.fin_
           /\ SetWindow(s, window).seqnums_sent_ = s.seqnums_sent_
           /\ SetWindow(s, window).seqnums_in_flight_ = s.seqnums_in_flight_
  <1> DEFINE t == SetWindow(s, window)
  <1>1. s \in SenderRecords
    BY DEF SenderOK
  <1>2. /\ t \in SenderRecords /\ t.isn_ = s.isn_ /\ t.syn_ = s.syn_
        /\ t.fin_ = s.fin_ /\ t.seqnums_sent_ = s.seqnums_sent_
        /\ t.outstanding_ = s.outstanding_ /\ t.ready_to_send_ = s.ready_to_send_
        /\ t.seqnums_in_flight_ = s.seqnums_in_flight_
    BY <1>1 DEF SenderRecords, SetWindow
  <1> HIDE DEF t
  <1> QED
    BY <1>2 DEF SenderOK, t

LEMMA SomePrefixIsAcked ==
    ASSUME NEW p \in Peers, NEW r, PeerOK(p, r), NEW ackno \in Raw
    PROVE  /\ \E k \in 0 .. Len(r.snd.outstanding_) : Acks(r.snd, ackno, k)
           /\ \A i \in 1 .. Len(r.snd.outstanding_) :
                Begin(r.snd, i) \in Int /\ EndOf(r.snd, i) \in Int
  <1> DEFINE s == r.snd
             q == s.outstanding_
             n == Len(q)
             a == AbsoluteAckno(s, ackno)
             T == {k \in 0 .. n : k < n => EndOf(s, k + 1) > a}
  <1>1. s.isn_ \in Raw /\ s.seqnums_sent_ \in Nat /\ q \in Seq(Messages) /\ n \in Nat
    BY PeerFields
  <1>2. a \in Int
    <2>1. ackno \in Raw
      OBVIOUS
    <2>2. Unwrap(ackno, s.isn_, s.seqnums_sent_) \in Nat
      BY <1>1, <2>1, UnwrapSound
    <2> QED
      BY <2>2 DEF AbsoluteAckno
  <1>3. ASSUME NEW i \in 1 .. n PROVE Begin(s, i) \in Int /\ EndOf(s, i) \in Int
    <2>1. q[i] \in Messages
      BY <1>1, <1>3, ElementOfSeq
    <2>2. q[i].seqno \in Raw /\ q[i].SYN \in BOOLEAN /\ q[i].len \in Nat /\ q[i].FIN \in BOOLEAN
      BY <2>1 DEF Messages
    <2>3. Begin(s, i) \in Int
      BY <1>1, <2>2, UnwrapSound DEF Begin
    <2> QED
      BY <2>2, <2>3 DEF EndOf, sequence_length, One
  <1> HIDE DEF s, a, n
  <1>4. T \in SUBSET Nat /\ n \in T
    BY <1>1
  <1>5. PICK m \in T : \A k \in T : m <= k
    <2> HIDE DEF T
    <2> QED
      BY <1>4, LeastNumber
  <1>6. ASSUME NEW i \in 1 .. m PROVE EndOf(s, i) <= a
    <2>1. m \in 0 .. n /\ i \in Nat /\ i - 1 \in 0 .. n /\ i - 1 < n /\ i \in 1 .. n
      BY <1>1, <1>5
    <2>2. i - 1 \notin T
      BY <1>5, <2>1
    <2>3. (i - 1) + 1 = i
      BY <2>1
    <2>4. ~(EndOf(s, (i - 1) + 1) > a)
      BY <2>1, <2>2
    <2> QED
      BY <1>2, <1>3, <2>1, <2>3, <2>4
  <1>7. m \in 0 .. n /\ (m < n => EndOf(s, m + 1) > a)
    BY <1>5
  <1>8. Acks(s, ackno, m)
    BY <1>6, <1>7 DEF Acks, a, n
  <1> QED
    BY <1>3, <1>7, <1>8 DEF s, n

\* An acknowledgment of the other peer is read as the number it was made of,
\* and so are the sequence numbers of the messages it may acknowledge.
LEMMA NumbersAreRead ==
    ASSUME ShortStreams, NEW p \in Peers, NEW r, PeerOK(p, r)
    PROVE  /\ \A n \in Nat : n <= Total[p] + 2 =>
                AbsoluteAckno(r.snd, Wrap(n, Isn[p])) = n
           /\ \A i \in 1 .. Len(r.snd.outstanding_) :
                /\ Begin(r.snd, i) = Abs(r.snd.outstanding_[i])
                /\ EndOf(r.snd, i) = AbsEnd(r.snd.outstanding_[i])
                /\ Abs(r.snd.outstanding_[i]) \in Nat
                /\ AbsEnd(r.snd.outstanding_[i]) \in Nat
  <1> DEFINE s == r.snd
             q == s.outstanding_
             top == Total[p] + 2
  <1>0. Isn[p] \in Raw /\ s.isn_ = Isn[p] /\ q \in Seq(Messages)
    BY PeerFields
  <1>1. /\ s.seqnums_sent_ \in Nat /\ r.outbound.popped \in Nat /\ Total[p] \in Nat
        /\ r.outbound.popped <= Total[p]
    <2>1. r.outbound.pushed \in Nat /\ r.outbound.popped <= r.outbound.pushed
          /\ r.outbound.pushed <= Total[p]
      BY PeerFields
    <2> QED
      BY <2>1, PeerFields
  <1>2. top < Half /\ Half \in Nat /\ top \in Nat
    <2>1. Total[p] + 2 < Half
      BY DEF ShortStreams
    <2> QED
      BY <1>1, <2>1, HalfExact
  <1>3. s.seqnums_sent_ <= top
    <2>1. s.seqnums_sent_ = One(s.syn_) + r.outbound.popped + One(s.fin_)
      BY DEF PeerOK, SenderOK
    <2>2. One(s.syn_) \in 0 .. 1 /\ One(s.fin_) \in 0 .. 1
      BY DEF One
    <2> QED
      BY <1>1, <2>1, <2>2
  <1>4. ASSUME NEW n \in Nat, n <= top
        PROVE  Unwrap(Wrap(n, Isn[p]), Isn[p], s.seqnums_sent_) = n
    <2>1. n - s.seqnums_sent_ <= Half /\ s.seqnums_sent_ - n < Half
      BY <1>1, <1>2, <1>3, <1>4
    <2> QED
      BY <1>0, <1>1, <2>1, UnwrapWrap
  <1>5. ASSUME NEW i \in 1 .. Len(q)
        PROVE  /\ Begin(s, i) = Abs(q[i]) /\ EndOf(s, i) = AbsEnd(q[i])
               /\ Abs(q[i]) \in Nat /\ AbsEnd(q[i]) \in Nat
    <2> DEFINE msg == q[i]
    <2>1. Genuine(p, msg, r.outbound.popped, s.fin_) /\ Stamped(p, msg)
      BY DEF PeerOK, SenderOK, GenuineQueue
    <2>2. msg \in Messages /\ msg.first + msg.len <= r.outbound.popped
      BY <2>1 DEF Genuine
    <2> HIDE DEF msg
    <2>3. msg.first \in Nat /\ msg.len \in Nat /\ msg.SYN \in BOOLEAN /\ msg.FIN \in BOOLEAN
      BY <2>2 DEF Messages
    <2>4. Abs(msg) \in Nat /\ Abs(msg) <= top
      <3>1. Abs(msg) = 0 \/ Abs(msg) = msg.first + 1
        BY DEF Abs
      <3>2. msg.first \in Nat /\ msg.first <= Total[p]
        BY <1>1, <2>2, <2>3
      <3> QED
        BY <1>1, <3>1, <3>2
    <2>5. sequence_length(msg) \in Nat
      BY <2>3 DEF sequence_length, One
    <2>6. Begin(s, i) = Unwrap(msg.seqno, Isn[p], s.seqnums_sent_)
      BY <1>0 DEF Begin, msg
    <2>7. msg.seqno = Wrap(Abs(msg), Isn[p])
      BY <2>1 DEF Stamped
    <2>8. Begin(s, i) = Abs(msg)
      BY <1>4, <2>4, <2>6, <2>7
    <2>9. EndOf(s, i) = AbsEnd(msg)
      BY <2>8 DEF EndOf, AbsEnd, msg
    <2>10. AbsEnd(msg) \in Nat
      BY <2>4, <2>5 DEF AbsEnd
    <2> QED
      BY <2>4, <2>8, <2>9, <2>10 DEF msg
  <1>6. ASSUME NEW n \in Nat, n <= top PROVE AbsoluteAckno(s, Wrap(n, Isn[p])) = n
    BY <1>0, <1>4, <1>6 DEF AbsoluteAckno
  <1> QED
    BY <1>5, <1>6

\* What an acknowledgment makes of the sender: it forgets no more than has been
\* acknowledged, up to next.
LEMMA AckKeeps ==
    ASSUME ShortStreams, NEW p \in Peers, NEW r, PeerOK(p, r),
           NEW ackno, NEW window \in Nat,
           NEW next \in Nat, next <= Total[p] + 2,
           ackno = None \/ \E n \in 1 .. next : ackno = Wrap(n, Isn[p])
    PROVE  LET t == SenderReceive(r.snd, ackno, window)
           IN  /\ SenderOK(p, t, r.outbound) /\ t.fin_ = r.snd.fin_
               /\ \/ t.seqnums_sent_ - t.seqnums_in_flight_ = Una(r)
                  \/ t.seqnums_sent_ - t.seqnums_in_flight_ <= next
  <1> DEFINE s == r.snd
             q == s.outstanding_
             n == Len(q)
  <1>0. SenderOK(p, s, r.outbound)
    BY DEF PeerOK
  <1>1. CASE ackno = None \/ ~Acceptable(s, ackno)
    <2>1. SenderReceive(s, ackno, window) = SetWindow(s, window)
      BY <1>1 DEF SenderReceive
    <2> QED
      BY <1>0, <2>1, WindowKeeps DEF Una
  <1>2. CASE ~(ackno = None \/ ~Acceptable(s, ackno))
    <2> DEFINE k == CHOOSE k \in 0 .. n : Acks(s, ackno, k)
               t == DropAcked(s, k)
               rest == SubSeq(q, k + 1, n)
               una == s.seqnums_sent_ - s.seqnums_in_flight_
    <2>1. SenderReceive(s, ackno, window) = SetWindow(t, window)
      BY <1>2 DEF SenderReceive
    <2>2. PICK a \in 1 .. next : ackno = Wrap(a, Isn[p])
      BY <1>2
    <2>3. /\ s \in SenderRecords /\ q \in Seq(Messages) /\ n \in Nat
          /\ s.seqnums_in_flight_ \in Int /\ s.seqnums_sent_ \in Nat
          /\ Isn[p] \in Raw /\ Isn[p] \in Int
      BY PeerFields
    <2>4. k \in 0 .. n /\ Acks(s, ackno, k)
      <3>1. ackno \in Raw
        BY <2>2, <2>3, WrapType
      <3> QED
        BY <3>1, SomePrefixIsAcked
    <2> HIDE DEF k
    <2>17. k \in Nat /\ k <= n
      BY <2>3, <2>4
    <2>5. /\ Chain(q, una, s.seqnums_sent_)
          /\ GenuineQueue(p, q, r.outbound.popped, s.fin_)
      BY <1>0 DEF SenderOK
    <2>6. /\ rest \in Seq(Messages)
          /\ \A i \in 1 .. Len(rest) : rest[i] = q[k + i] /\ k + i \in 1 .. n
          /\ Chain(rest, IF k = 0 THEN una ELSE AbsEnd(q[k]), s.seqnums_sent_)
      <3> HIDE DEF una
      <3> QED
        BY <2>3, <2>4, <2>5, ChainSuffix
    <2> HIDE DEF rest
    <2>7. Acked(s, k) = IF k = 0 THEN 0 ELSE AbsEnd(q[k]) - una
      <3>1. CASE k # 0
        <4>1. k \in 1 .. n /\ 1 \in 1 .. n /\ n # 0
          BY <2>3, <2>4, <3>1
        <4>2. Abs(q[1]) = una
          BY <2>5, <4>1 DEF Chain
        <4>3. EndOf(s, k) = AbsEnd(q[k]) /\ Begin(s, 1) = Abs(q[1])
          BY <4>1, NumbersAreRead
        <4> QED
          BY <3>1, <4>2, <4>3 DEF Acked
      <3>2. CASE k = 0
        BY <3>2 DEF Acked
      <3> QED
        BY <3>1, <3>2
    <2>8. k # 0 => AbsEnd(q[k]) \in Nat /\ AbsEnd(q[k]) <= next
      <3>1. ASSUME k # 0 PROVE AbsEnd(q[k]) \in Nat /\ AbsEnd(q[k]) <= next
        <4>1. k \in 1 .. n /\ k \in 1 .. k
          BY <2>3, <2>17, <3>1
        <4>2. EndOf(s, k) <= AbsoluteAckno(s, ackno)
          BY <2>4, <4>1 DEF Acks
        <4>3. a \in Nat /\ a <= Total[p] + 2 /\ a <= next
          BY PeerFields
        <4>4. AbsoluteAckno(s, ackno) = a
          BY <2>2, <4>3, NumbersAreRead
        <4>5. EndOf(s, k) = AbsEnd(q[k]) /\ AbsEnd(q[k]) \in Nat
          BY <4>1, NumbersAreRead
        <4> QED
          BY <4>2, <4>3, <4>4, <4>5
      <3> QED
        BY <3>1
    <2>18. una \in Int
      BY <2>3
    <2>9. Acked(s, k) \in Int
      <3> HIDE DEF una
      <3> QED
        BY <2>7, <2>8, <2>18
    <2>10. GenuineQueue(p, rest, r.outbound.popped, s.fin_)
      BY <2>5, <2>6 DEF GenuineQueue
    <2>11. /\ t.seqnums_in_flight_ = s.seqnums_in_flight_ - Acked(s, k)
           /\ t.outstanding_ = rest
           /\ t.isn_ = s.isn_ /\ t.syn_ = s.syn_ /\ t.fin_ = s.fin_
           /\ t.seqnums_sent_ = s.seqnums_sent_ /\ t.ready_to_send_ = s.ready_to_send_
      BY <2>3 DEF DropAcked, SenderRecords, rest
    <2>12. t \in SenderRecords
      <3>1. s.seqnums_in_flight_ - Acked(s, k) \in Int
        BY <2>3, <2>9
      <3> QED
        BY <2>3, <2>6, <3>1 DEF DropAcked, SenderRecords, rest
    <2> HIDE DEF t
    <2>13. t.seqnums_sent_ - t.seqnums_in_flight_ = IF k = 0 THEN una ELSE AbsEnd(q[k])
      <3>1. /\ t.seqnums_in_flight_ = s.seqnums_in_flight_ - Acked(s, k)
            /\ t.seqnums_sent_ = s.seqnums_sent_
        BY <2>11
      <3>2. s.seqnums_in_flight_ \in Int /\ s.seqnums_sent_ \in Int
        BY <2>3
      <3>3. CASE k = 0
        BY <2>7, <3>1, <3>2, <3>3
      <3>4. CASE k # 0
        <4>1. Acked(s, k) = AbsEnd(q[k]) - una /\ AbsEnd(q[k]) \in Int
          BY <2>7, <2>8, <3>4
        <4>2. t.seqnums_sent_ - t.seqnums_in_flight_ = AbsEnd(q[k])
          BY <3>1, <3>2, <4>1
        <4> QED
          BY <3>4, <4>2
      <3> QED
        BY <3>3, <3>4
    <2>14. SenderOK(p, t, r.outbound)
      <3>1. Chain(t.outstanding_, t.seqnums_sent_ - t.seqnums_in_flight_, t.seqnums_sent_)
        <4> HIDE DEF una
        <4> QED
          BY <2>6, <2>11, <2>13
      <3> QED
        BY <1>0, <2>10, <2>11, <2>12, <3>1 DEF SenderOK
    <2>15. /\ SenderOK(p, SetWindow(t, window), r.outbound)
           /\ SetWindow(t, window).fin_ = t.fin_
           /\ SetWindow(t, window).seqnums_sent_ = t.seqnums_sent_
           /\ SetWindow(t, window).seqnums_in_flight_ = t.seqnums_in_flight_
      BY <2>14, WindowKeeps
    <2>16. \/ t.seqnums_sent_ - t.seqnums_in_flight_ = Una(r)
           \/ t.seqnums_sent_ - t.seqnums_in_flight_ <= next
      BY <2>8, <2>13 DEF Una
    <2> QED
      BY <2>1, <2>11, <2>15, <2>16
  <1> QED
    BY <1>1, <1>2

-----------------------------------------------------------------------------
\* TCPReceiver::receive

OtherIs == \A p \in Peers : Other(p) \in Peers /\ Other(p) # p /\ Other(Other(p)) = p

LEMMA TwoPeers == OtherIs
  BY ConnectionAssumption DEF OtherIs, Other, Peers

\* The payload of a genuine message is put where it belongs, and one without
\* a payload brings nothing, wherever it is put.
LEMMA PutInPlace ==
    ASSUME ShortStreams, NEW p \in Peers, NEW r, PeerOK(p, r),
           NEW s, PeerOK(Other(p), s), r.inbound.pushed <= s.outbound.popped,
           NEW msg, Genuine(Other(p), msg, s.outbound.popped, s.snd.fin_)
    PROVE  LET first == FirstIndex(Isn[Other(p)], msg, r.inbound)
           IN  /\ first \in Int
               /\ msg.len > 0 => first = msg.first
               /\ \A i \in Arriving(r.inbound, first, msg.len) :
                    /\ i \in Nat /\ r.inbound.pushed <= i
                    /\ i < WindowEnd(r.inbound) /\ i < s.outbound.popped
  <1> DEFINE o == Other(p)
             pushed == r.inbound.pushed
             popped == s.outbound.popped
             first == FirstIndex(Isn[o], msg, r.inbound)
  <1>1. o \in Peers
    BY TwoPeers DEF OtherIs
  <1>2. pushed \in Nat
    BY PeerFields
  <1>3. /\ Isn[o] \in Raw /\ popped \in Nat /\ Total[o] \in Nat /\ popped <= Total[o]
    <2>1. PeerOK(o, s)
      OBVIOUS
    <2> HIDE DEF o
    <2>2. /\ Isn[o] \in Raw /\ Total[o] \in Nat
          /\ popped \in Nat /\ s.outbound.pushed \in Nat
          /\ popped <= s.outbound.pushed /\ s.outbound.pushed <= Total[o]
      BY <1>1, <2>1, PeerFields
    <2> QED
      BY <2>2
  <1>4. /\ msg.seqno \in Raw /\ msg.SYN \in BOOLEAN /\ msg.FIN \in BOOLEAN
        /\ msg.first \in Nat /\ msg.len \in Nat
    BY DEF Genuine, Messages
  <1>5. /\ msg.SYN => msg.first = 0
        /\ ~msg.SYN /\ msg.len > 0 => msg.seqno = Wrap(msg.first + 1, Isn[o])
        /\ msg.first + msg.len <= popped
    BY DEF Genuine
  <1>6. Total[o] + 2 <= Half /\ Half \in Nat
    <2>1. Total[o] + 2 < Half
      BY <1>1 DEF ShortStreams
    <2> QED
      BY <1>3, <2>1, HalfExact
  <1>7. first = IF msg.SYN THEN 0 ELSE Unwrap(msg.seqno, Isn[o], pushed) - 1
    BY DEF FirstIndex
  <1>8. first \in Int
    <2>1. Unwrap(msg.seqno, Isn[o], pushed) \in Nat
      BY <1>2, <1>3, <1>4, UnwrapSound
    <2> QED
      BY <1>7, <2>1
  <1>9. msg.len > 0 => first = msg.first
    <2>1. CASE msg.SYN
      BY <1>5, <1>7, <2>1
    <2>2. CASE ~msg.SYN /\ msg.len > 0
      <3> DEFINE n == msg.first + 1
      <3>1. /\ n \in Nat /\ n - pushed <= Half /\ pushed - n < Half
            /\ n - 1 = msg.first /\ msg.seqno = Wrap(n, Isn[o])
        BY <1>2, <1>3, <1>4, <1>5, <1>6, <2>2
      <3> HIDE DEF n
      <3>2. Unwrap(Wrap(n, Isn[o]), Isn[o], pushed) = n
        BY <1>2, <1>3, <3>1, UnwrapWrap
      <3> QED
        BY <1>7, <2>2, <3>1, <3>2
    <2> QED
      BY <2>1, <2>2
  <1> HIDE DEF first
  <1>10. WindowEnd(r.inbound) \in Int
    BY PeerFields DEF WindowEnd, Available, Buffered
  <1>11. ASSUME NEW i \in Arriving(r.inbound, first, msg.len)
         PROVE  i \in Nat /\ pushed <= i /\ i < WindowEnd(r.inbound) /\ i < popped
    <2>1. /\ i \in first .. (first + msg.len - 1) /\ pushed <= i
          /\ i < WindowEnd(r.inbound)
      BY <1>11 DEF Arriving
    <2>2. i \in Int /\ i < first + msg.len /\ first <= i
      BY <1>4, <1>8, <2>1
    <2>3. msg.len > 0
      BY <1>4, <1>8, <2>2
    <2> QED
      BY <1>2, <1>3, <1>4, <1>5, <1>9, <2>1, <2>2, <2>3
  <1> QED
    BY <1>8, <1>9, <1>11 DEF first

\* An insert finds the first byte that is missing.
LEMMA NextIsMissing ==
    ASSUME NEW asm, NEW stream, AssemblyOK(asm, stream), NEW first \in Int, NEW len \in Nat
    PROVE  /\ WindowEnd(stream) \in Nat /\ stream.pushed <= WindowEnd(stream)
           /\ \E n \in stream.pushed .. WindowEnd(stream) : Reaches(asm, stream, first, len, n)
  <1> DEFINE e == WindowEnd(stream)
             known == Known(asm, stream, first, len)
             T == {n \in stream.pushed .. e : n \notin known}
  <1>1. /\ stream.pushed \in Nat /\ stream.popped \in Nat /\ stream.capacity \in Nat
        /\ stream.pushed <= stream.popped + stream.capacity
        /\ asm.held \in SUBSET Nat
        /\ \A i \in asm.held : i < e
    BY DEF AssemblyOK, StreamOK, StreamType
  <1>2. e \in Nat /\ stream.pushed <= e
    BY <1>1 DEF WindowEnd, Available, Buffered
  <1> HIDE DEF e
  <1>3. \A i \in known : i < e
    BY <1>1 DEF Known, Arriving, e
  <1> HIDE DEF known
  <1>4. e \in T /\ T \in SUBSET Nat
    BY <1>1, <1>2, <1>3
  <1>5. PICK m \in T : \A k \in T : m <= k
    <2> HIDE DEF T
    <2> QED
      BY <1>4, LeastNumber
  <1>6. m \in stream.pushed .. e /\ m \notin known
    BY <1>5
  <1>7. ASSUME NEW i \in stream.pushed .. (m - 1) PROVE i \in known
    <2>1. i \in stream.pushed .. e /\ i < m
      BY <1>1, <1>2, <1>6
    <2>2. i \notin T
      BY <1>1, <1>2, <1>5, <1>6, <2>1
    <2> QED
      BY <2>1, <2>2
  <1>8. Reaches(asm, stream, first, len, m)
    BY <1>6, <1>7 DEF Reaches, known
  <1> QED
    BY <1>2, <1>6, <1>8 DEF e

\* What a message leaves in the receiver that takes it: new are the bytes that
\* it brings, next is the first one still missing.
Takes(p, r, s, msg, q, new, next) ==
    /\ \A i \in new : /\ r.inbound.pushed <= i /\ i < WindowEnd(r.inbound)
                      /\ i < s.outbound.popped
    /\ r.inbound.pushed <= next /\ next <= WindowEnd(r.inbound)
    /\ \A i \in r.inbound.pushed .. (next - 1) : i \in r.asm.held \union new
    /\ next \notin r.asm.held \union new
    /\ q = [r EXCEPT !.isn = Isn[Other(p)], !.asm = q.asm, !.inbound = q.inbound]
    /\ q.asm \in [held : {{i \in r.asm.held \union new : i > next}}, closing : BOOLEAN]
    /\ q.asm.closing <=> (r.asm.closing \/ msg.FIN)
    /\ q.inbound = [r.inbound EXCEPT !.pushed = next, !.closed = q.inbound.closed]
    /\ q.inbound.closed \in BOOLEAN
    /\ q.inbound.closed <=> (r.inbound.closed \/ (q.asm.closing /\ q.asm.held = {}))

LEMMA TakenIs ==
    ASSUME ShortStreams, NEW p \in Peers, NEW r, PeerOK(p, r),
           NEW s, PeerOK(Other(p), s), r.inbound.pushed <= s.outbound.popped,
           NEW msg, Genuine(Other(p), msg, s.outbound.popped, s.snd.fin_),
           Reassembles(IsnAfter(r.isn, msg), msg, r.inbound)
    PROVE  LET q == ReceiverReceive(r, msg)
           IN  \E new \in SUBSET Nat, next \in Nat : Takes(p, r, s, msg, q, new, next)
  <1> DEFINE isn == IsnAfter(r.isn, msg)
             first == FirstIndex(isn, msg, r.inbound)
             next == CHOOSE n \in r.inbound.pushed .. WindowEnd(r.inbound) :
                        Reaches(r.asm, r.inbound, first, msg.len, n)
             new == Arriving(r.inbound, first, msg.len)
             q == ReceiverReceive(r, msg)
  <1>0. r.isn \in {None, Isn[Other(p)]} /\ AssemblyOK(r.asm, r.inbound)
    BY DEF PeerOK
  <1>1. msg.SYN => msg.seqno = Isn[Other(p)]
    BY DEF Genuine
  <1>2. isn = Isn[Other(p)]
    BY <1>0, <1>1 DEF IsnAfter, Reassembles
  <1>3. /\ first \in Int
        /\ \A i \in new : /\ i \in Nat /\ r.inbound.pushed <= i
                          /\ i < WindowEnd(r.inbound) /\ i < s.outbound.popped
    BY <1>2, PutInPlace
  <1>4. msg.len \in Nat
    BY DEF Genuine, Messages
  <1>5. q = [r EXCEPT !.isn = isn,
                      !.asm = AssemblyAfter(@, r.inbound, first, msg.len, msg.FIN, next),
                      !.inbound = StreamAfter(r.asm, @, first, msg.len, msg.FIN, next)]
    BY DEF ReceiverReceive
  <1> HIDE DEF first
  <1>6. next \in r.inbound.pushed .. WindowEnd(r.inbound)
        /\ Reaches(r.asm, r.inbound, first, msg.len, next)
    BY <1>0, <1>3, <1>4, NextIsMissing
  <1> HIDE DEF next, q, isn
  <1>7. r \in PeerRecords /\ r.inbound.pushed \in Nat /\ r.inbound \in StreamType
    BY PeerFields
  <1>8. next \in Nat /\ r.inbound.pushed <= next /\ next <= WindowEnd(r.inbound)
    <2>1. WindowEnd(r.inbound) \in Nat
      BY <1>0, <1>3, <1>4, NextIsMissing
    <2> QED
      BY <1>6, <1>7, <2>1
  <1>9. Known(r.asm, r.inbound, first, msg.len) = r.asm.held \union new
    BY DEF Known
  <1>10. /\ \A i \in r.inbound.pushed .. (next - 1) : i \in r.asm.held \union new
         /\ next \notin r.asm.held \union new
    BY <1>6, <1>9 DEF Reaches
  <1> HIDE DEF new
  <1>11. /\ q.asm = AssemblyAfter(r.asm, r.inbound, first, msg.len, msg.FIN, next)
         /\ q.inbound = StreamAfter(r.asm, r.inbound, first, msg.len, msg.FIN, next)
         /\ q = [r EXCEPT !.isn = Isn[Other(p)], !.asm = q.asm, !.inbound = q.inbound]
    BY <1>2, <1>5, <1>7 DEF PeerRecords
  <1>12. q.asm = [held |-> {i \in r.asm.held \union new : i > next},
                  closing |-> r.asm.closing \/ msg.FIN]
    BY <1>9, <1>11 DEF AssemblyAfter, StillHeld
  <1>13. q.inbound = [r.inbound EXCEPT !.pushed = next,
             !.closed = @ \/ (q.asm.closing /\ q.asm.held = {})]
    <2>1. StillHeld(r.asm, r.inbound, first, msg.len, next) = q.asm.held
      BY <1>9, <1>12 DEF StillHeld
    <2>2. q.asm.closing = (r.asm.closing \/ msg.FIN)
      BY <1>12
    <2>3. (q.asm.closing /\ q.asm.held = {})
             = ((r.asm.closing \/ msg.FIN)
                 /\ StillHeld(r.asm, r.inbound, first, msg.len, next) = {})
      BY <2>1, <2>2
    <2> QED
      BY <1>11, <2>3 DEF StreamAfter
  <1>14. /\ q.inbound = [r.inbound EXCEPT !.pushed = next, !.closed = q.inbound.closed]
         /\ q.inbound.closed = (r.inbound.closed \/ (q.asm.closing /\ q.asm.held = {}))
    BY <1>7, <1>13 DEF StreamType
  <1>15. new \in SUBSET Nat
    BY <1>3
  <1> QED
    <2>1. /\ q.asm \in [held : {{i \in r.asm.held \union new : i > next}}, closing : BOOLEAN]
          /\ q.asm.closing <=> (r.asm.closing \/ msg.FIN)
      <3> DEFINE z == r.asm.closing \/ msg.FIN
      <3>1. z \in BOOLEAN
        OBVIOUS
      <3>2. q.asm = [held |-> {i \in r.asm.held \union new : i > next}, closing |-> z]
        BY <1>12
      <3> HIDE DEF z
      <3>3. q.asm.closing = z
        BY <3>2
      <3>4. q.asm.closing <=> z
        BY <3>3, Zenon
      <3>5. q.asm \in [held : {{i \in r.asm.held \union new : i > next}}, closing : BOOLEAN]
        BY <3>1, <3>2
      <3> QED
        BY <3>4, <3>5 DEF z
    <2>2. /\ q.inbound.closed \in BOOLEAN
          /\ q.inbound.closed <=> (r.inbound.closed \/ (q.asm.closing /\ q.asm.held = {}))
      BY <1>14
    <2>3. Takes(p, r, s, msg, q, new, next)
      BY <1>3, <1>8, <1>10, <1>11, <1>14, <2>1, <2>2 DEF Takes
    <2> QED
      BY <1>8, <1>15, <2>3 DEF q

\* The sender's side of a peer.
SameOutbound(r, q) ==
    q.snd = r.snd /\ q.outbound = r.outbound /\ q.need_send_ = r.need_send_

LEMMA ReceiverKeepsTypes ==
    ASSUME ShortStreams, NEW p \in Peers, NEW r, PeerOK(p, r),
           NEW s, PeerOK(Other(p), s), r.inbound.pushed <= s.outbound.popped,
           NEW msg, Genuine(Other(p), msg, s.outbound.popped, s.snd.fin_)
    PROVE  LET q == ReceiverReceive(r, msg)
           IN  PeerOK(p, q) /\ SameOutbound(r, q)
  <1> DEFINE q == ReceiverReceive(r, msg)
  <1>0. /\ r \in PeerRecords /\ SenderOK(p, r.snd, r.outbound)
        /\ AssemblyOK(r.asm, r.inbound) /\ r.isn \in {None, Isn[Other(p)]}
    BY PeerFields DEF PeerOK
  <1>1. Isn[Other(p)] \in Raw
    BY TwoPeers, ConnectionAssumption DEF OtherIs
  <1>2. CASE ~Reassembles(IsnAfter(r.isn, msg), msg, r.inbound)
    <2>1. q = [r EXCEPT !.isn = IsnAfter(r.isn, msg)]
      BY <1>2 DEF ReceiverReceive
    <2>2. IsnAfter(r.isn, msg) \in {None, Isn[Other(p)]}
      BY <1>0 DEF IsnAfter, Genuine
    <2> HIDE DEF q
    <2>3. /\ q \in PeerRecords /\ q.isn \in {None, Isn[Other(p)]}
          /\ q.snd = r.snd /\ q.outbound = r.outbound /\ q.need_send_ = r.need_send_
          /\ q.asm = r.asm /\ q.inbound = r.inbound
      BY <1>0, <1>1, <2>1, <2>2 DEF PeerRecords
    <2> QED
      BY <1>0, <2>3 DEF PeerOK, SameOutbound, q
  <1>3. CASE Reassembles(IsnAfter(r.isn, msg), msg, r.inbound)
    <2>0. PICK new \in SUBSET Nat, next \in Nat : Takes(p, r, s, msg, q, new, next)
      BY <1>3, TakenIs
    <2> HIDE DEF q
    <2>1. /\ \A i \in new : i < WindowEnd(r.inbound)
          /\ r.inbound.pushed <= next /\ next <= WindowEnd(r.inbound)
          /\ q = [r EXCEPT !.isn = Isn[Other(p)], !.asm = q.asm, !.inbound = q.inbound]
          /\ q.asm \in [held : {{i \in r.asm.held \union new : i > next}}, closing : BOOLEAN]
          /\ q.inbound = [r.inbound EXCEPT !.pushed = next, !.closed = q.inbound.closed]
          /\ q.inbound.closed \in BOOLEAN
      BY <2>0 DEF Takes
    <2>2. /\ r.asm.held \in SUBSET Nat /\ r.asm.closing \in BOOLEAN /\ msg.FIN \in BOOLEAN
          /\ r.inbound \in StreamType /\ r.inbound.closed \in BOOLEAN
          /\ r.inbound.pushed \in Nat /\ r.inbound.popped \in Nat
          /\ r.inbound.capacity \in Nat /\ r.inbound.popped <= r.inbound.pushed
          /\ \A i \in r.asm.held : i < WindowEnd(r.inbound)
      BY <1>0, PeerFields DEF AssemblyOK, Genuine, Messages
    <2>3. /\ q.asm \in [held : SUBSET Nat, closing : BOOLEAN]
          /\ \A i \in q.asm.held : next < i /\ i < WindowEnd(r.inbound)
      BY <2>1, <2>2
    <2>5. /\ q.inbound \in StreamType /\ q.inbound.pushed = next
          /\ q.inbound.popped = r.inbound.popped
          /\ q.inbound.capacity = r.inbound.capacity
      BY <2>1, <2>2 DEF StreamType
    <2>6. WindowEnd(r.inbound) = r.inbound.popped + r.inbound.capacity
      BY <2>2 DEF WindowEnd, Available, Buffered
    <2>7. WindowEnd(q.inbound) = WindowEnd(r.inbound)
      BY <2>2, <2>5, <2>6 DEF WindowEnd, Available, Buffered
    <2>8. AssemblyOK(q.asm, q.inbound)
      BY <2>1, <2>2, <2>3, <2>5, <2>6, <2>7 DEF AssemblyOK, StreamOK
    <2>9. /\ q \in PeerRecords /\ q.isn = Isn[Other(p)]
          /\ q.snd = r.snd /\ q.outbound = r.outbound /\ q.need_send_ = r.need_send_
      BY <1>0, <1>1, <2>1, <2>3, <2>5 DEF PeerRecords
    <2> QED
      BY <1>0, <2>8, <2>9 DEF PeerOK, SameOutbound, q
  <1> QED
    BY <1>2, <1>3

LEMMA ReceiverAgrees ==
    ASSUME ShortStreams, NEW p \in Peers, NEW r, PeerOK(p, r),
           NEW s, PeerOK(Other(p), s), NEW ov \in BOOLEAN, Agree(r, s, ov),
           NEW msg, Genuine(Other(p), msg, s.outbound.popped, s.snd.fin_)
    PROVE  LET q == ReceiverReceive(r, msg)
           IN  /\ Agree(q, s, ov \/ FinOvertakes(q, msg))
               /\ AbsoluteNext(r.inbound) <= AbsoluteNext(q.inbound)
  <1> DEFINE q == ReceiverReceive(r, msg)
             popped == s.outbound.popped
             have == (0 .. (r.inbound.pushed - 1)) \union r.asm.held
  <1>0. /\ r.inbound.pushed <= popped
        /\ \A i \in r.asm.held : i < popped
        /\ r.asm.closing => s.snd.fin_
        /\ r.inbound.closed => r.asm.closing
        /\ ~ov /\ r.asm.closing /\ popped > 0 => popped - 1 \in have
        /\ ~ov /\ r.inbound.closed => r.inbound.pushed = popped
        /\ Una(s) <= AbsoluteNext(r.inbound)
    BY DEF Agree
  <1>3. AbsoluteNext(r.inbound) \in Nat /\ Una(s) \in Int
    BY TwoPeers, NextIsNumber DEF OtherIs
  <1>1. CASE ~Reassembles(IsnAfter(r.isn, msg), msg, r.inbound)
    <2>1. q = [r EXCEPT !.isn = IsnAfter(r.isn, msg)]
      BY <1>1 DEF ReceiverReceive
    <2> HIDE DEF q
    <2>2. q.asm = r.asm /\ q.inbound = r.inbound
      BY <2>1, PeerFields DEF PeerRecords
    <2>3. Agree(q, s, ov \/ FinOvertakes(q, msg))
      BY <1>0, <2>2 DEF Agree
    <2>4. AbsoluteNext(r.inbound) <= AbsoluteNext(q.inbound)
      BY <1>3, <2>2
    <2> QED
      BY <2>3, <2>4 DEF q
  <1>2. CASE Reassembles(IsnAfter(r.isn, msg), msg, r.inbound)
    <2>0. PICK new \in SUBSET Nat, next \in Nat : Takes(p, r, s, msg, q, new, next)
      BY <1>0, <1>2, TakenIs
    <2> HIDE DEF q
    <2>1. /\ \A i \in new : r.inbound.pushed <= i /\ i < popped
          /\ r.inbound.pushed <= next
          /\ \A i \in r.inbound.pushed .. (next - 1) : i \in r.asm.held \union new
          /\ next \notin r.asm.held \union new
          /\ q.inbound = [r.inbound EXCEPT !.pushed = next, !.closed = q.inbound.closed]
      BY <2>0 DEF Takes
    <2>2. /\ r.asm.held \in SUBSET Nat /\ r.inbound \in StreamType
          /\ r.inbound.pushed \in Nat
      BY PeerFields
    <2>3. popped \in Nat
      BY TwoPeers, PeerFields DEF OtherIs
    <2>4. /\ msg.FIN => s.snd.fin_ /\ msg.first + msg.len = popped
      BY DEF Genuine
    <2>5. q.inbound.pushed = next
      BY <2>1, <2>2 DEF StreamType
    <2>6. /\ q.asm.held = {i \in r.asm.held \union new : i > next}
          /\ q.asm.closing <=> (r.asm.closing \/ msg.FIN)
          /\ q.inbound.closed <=> (r.inbound.closed \/ (q.asm.closing /\ q.asm.held = {}))
      BY <2>0 DEF Takes
    <2> DEFINE known == r.asm.held \union new
    <2>7. \A i \in known : i \in Nat /\ i < popped
      BY <1>0, <2>1, <2>2
    <2>8. next <= popped
      <3>1. CASE next = r.inbound.pushed
        BY <1>0, <3>1
      <3>2. CASE next # r.inbound.pushed
        <4>1. next - 1 \in r.inbound.pushed .. (next - 1)
          BY <2>1, <2>2, <3>2
        <4>2. next - 1 \in known
          BY <2>1, <4>1
        <4> QED
          BY <2>3, <2>7, <4>2
      <3> QED
        BY <3>1, <3>2
    <2>9. \A i \in q.asm.held : i < popped
      BY <2>6, <2>7
    <2> DEFINE now == (0 .. (next - 1)) \union q.asm.held
    <2>10. have \subseteq now
      <3>1. ASSUME NEW i \in have PROVE i \in now
        <4>1. CASE i \in 0 .. (r.inbound.pushed - 1)
          BY <2>1, <2>2, <4>1
        <4>2. CASE i \in r.asm.held
          <5>1. i \in Nat /\ i # next
            BY <2>1, <2>2, <4>2
          <5> QED
            BY <2>6, <4>2, <5>1
        <4> QED
          BY <4>1, <4>2
      <3> QED
        BY <3>1
    <2>11. ASSUME ~ov, ~FinOvertakes(q, msg), q.asm.closing, popped > 0
           PROVE  popped - 1 \in now
      <3>1. CASE msg.FIN
        <4>1. msg.first + msg.len = popped
          BY <2>4, <3>1
        <4> QED
          BY <2>5, <2>11, <3>1, <4>1 DEF FinOvertakes
      <3>2. CASE ~msg.FIN
        <4>1. r.asm.closing
          BY <2>6, <2>11, <3>2
        <4> QED
          BY <1>0, <2>10, <2>11, <4>1
      <3> QED
        BY <3>1, <3>2
    <2>12. ASSUME ~ov, ~FinOvertakes(q, msg), q.inbound.closed
           PROVE  next = popped
      <3>1. CASE r.inbound.closed
        BY <1>0, <2>1, <2>2, <2>3, <2>8, <2>12, <3>1
      <3>2. CASE ~r.inbound.closed
        <4>1. q.asm.closing /\ q.asm.held = {}
          BY <2>6, <2>12, <3>2
        <4>2. popped > 0 => popped - 1 \in 0 .. (next - 1)
          BY <2>11, <2>12, <4>1
        <4> QED
          BY <2>3, <2>8, <4>2
      <3> QED
        BY <3>1, <3>2
    <2>13. q.asm.closing => s.snd.fin_
      BY <1>0, <2>4, <2>6
    <2>14. q.inbound.closed => q.asm.closing
      BY <1>0, <2>6
    <2> HIDE DEF known
    <2>16. AbsoluteNext(r.inbound) <= AbsoluteNext(q.inbound)
           /\ AbsoluteNext(q.inbound) \in Nat
      <3>1. One(r.inbound.closed) <= One(q.inbound.closed)
            /\ One(r.inbound.closed) \in Nat /\ One(q.inbound.closed) \in Nat
        BY <2>6 DEF One
      <3>2. /\ AbsoluteNext(r.inbound) = r.inbound.pushed + 1 + One(r.inbound.closed)
            /\ AbsoluteNext(q.inbound) = next + 1 + One(q.inbound.closed)
        BY <2>5 DEF AbsoluteNext
      <3> QED
        BY <2>1, <2>2, <3>1, <3>2
    <2>17. Una(s) <= AbsoluteNext(q.inbound)
      BY <1>0, <1>3, <2>16
    <2>15. Agree(q, s, ov \/ FinOvertakes(q, msg))
      BY <2>5, <2>8, <2>9, <2>11, <2>12, <2>13, <2>14, <2>17 DEF Agree
    <2> QED
      BY <2>15, <2>16 DEF q
  <1> QED
    BY <1>1, <1>2

LEMMA FailKeeps ==
    ASSUME NEW p \in Peers, NEW r, PeerOK(p, r), NEW s, NEW ov, Agree(r, s, ov),
           NEW x
    PROVE  LET q == [r EXCEPT !.inbound = FailStream(@)]
           IN  /\ PeerOK(p, q) /\ GoesOn(r, q) /\ Agree(q, s, ov \/ x)
               /\ Una(q) = Una(r)
  <1> DEFINE i == FailStream(r.inbound)
             q == [r EXCEPT !.inbound = FailStream(@)]
  <1>1. r \in PeerRecords /\ r.inbound \in StreamType
    BY PeerFields
  <1>2. /\ i \in StreamType /\ i.pushed = r.inbound.pushed /\ i.popped = r.inbound.popped
        /\ i.capacity = r.inbound.capacity /\ i.closed = r.inbound.closed
    BY <1>1 DEF FailStream, StreamType
  <1> HIDE DEF i
  <1>3. q = [r EXCEPT !.inbound = i]
    BY DEF i
  <1> HIDE DEF q
  <1>4. /\ q \in PeerRecords /\ q.snd = r.snd /\ q.outbound = r.outbound
        /\ q.asm = r.asm /\ q.isn = r.isn /\ q.inbound = i
    BY <1>1, <1>2, <1>3 DEF PeerRecords
  <1>5. AssemblyOK(r.asm, i)
    BY <1>2 DEF PeerOK, AssemblyOK, StreamOK, WindowEnd, Available, Buffered
  <1>6. PeerOK(p, q)
    BY <1>4, <1>5 DEF PeerOK
  <1>9. AbsoluteNext(q.inbound) = AbsoluteNext(r.inbound)
    BY <1>2, <1>4 DEF AbsoluteNext
  <1>7. GoesOn(r, q)
    BY <1>4, <1>9, PeerFields, NextIsNumber DEF GoesOn
  <1>8. Agree(q, s, ov \/ x)
    BY <1>2, <1>4, <1>9 DEF Agree
  <1>10. Una(q) = Una(r)
    BY <1>4 DEF Una
  <1> QED
    BY <1>6, <1>7, <1>8, <1>10 DEF q

\* A whole segment.
LEMMA ReceiveKeeps ==
    ASSUME ShortStreams, NEW p \in Peers, NEW r, PeerOK(p, r),
           NEW s, PeerOK(Other(p), s), NEW ov \in BOOLEAN, Agree(r, s, ov),
           NEW ov2, Agree(s, r, ov2),
           NEW seg, SegmentOK(Other(p), seg, s)
    PROVE  LET q == receive(r, seg)
           IN  /\ PeerOK(p, q) /\ GoesOn(r, q)
               /\ Agree(q, s, ov \/ FinOvertakes(q, seg.msg))
               /\ Una(q) <= AbsoluteNext(s.inbound)
  <1> DEFINE q == receive(r, seg)
             t == ReceiverReceive(r, seg.msg)
             snd == SenderReceive(r.snd, seg.ackno, seg.window)
             top == AbsoluteNext(s.inbound)
  <1>0. /\ seg.msg \in Messages /\ seg.ackno \in Raw \union {None} /\ seg.window \in Nat
        /\ Genuine(Other(p), seg.msg, s.outbound.popped, s.snd.fin_)
        /\ r.inbound.pushed <= s.outbound.popped
    BY DEF SegmentOK, Envelopes, Agree
  <1>3. /\ top \in Nat /\ Una(r) \in Int /\ Una(r) <= top /\ top <= Total[p] + 2
        /\ AbsoluteNext(r.inbound) \in Nat
        /\ seg.ackno = None \/ \E n \in 1 .. top : seg.ackno = Wrap(n, Isn[p])
    <2>1. Other(p) \in Peers /\ Other(Other(p)) = p
      BY TwoPeers DEF OtherIs
    <2>2. top \in Nat /\ Una(r) \in Int /\ AbsoluteNext(r.inbound) \in Nat
      BY <2>1, NextIsNumber
    <2>3. Una(r) <= top /\ s.inbound.pushed <= r.outbound.popped
      BY DEF Agree
    <2>4. /\ r.outbound.popped \in Nat /\ r.outbound.pushed \in Nat
          /\ r.outbound.popped <= r.outbound.pushed
          /\ r.outbound.pushed <= Total[p] /\ Total[p] \in Nat
      BY PeerFields
    <2>5. s.inbound.pushed \in Nat
      BY <2>1, PeerFields
    <2>6. One(s.inbound.closed) \in Nat /\ One(s.inbound.closed) <= 1
      BY DEF One
    <2>7. top <= Total[p] + 2
      BY <2>3, <2>4, <2>5, <2>6 DEF AbsoluteNext
    <2>8. seg.ackno = None \/ \E n \in 1 .. top : seg.ackno = Wrap(n, Isn[p])
      BY <2>1 DEF SegmentOK
    <2> QED
      BY <2>2, <2>3, <2>7, <2>8
  <1> HIDE DEF top
  <1>1. CASE seg.reset \/ r.inbound.error
    <2>1. q = [r EXCEPT !.inbound = FailStream(@)]
      BY <1>1 DEF receive
    <2> HIDE DEF q
    <2>2. /\ PeerOK(p, q) /\ GoesOn(r, q) /\ Una(q) = Una(r)
          /\ Agree(q, s, ov \/ FinOvertakes(q, seg.msg))
      BY <2>1, FailKeeps
    <2> QED
      BY <1>3, <2>2 DEF q, top
  <1>2. CASE ~(seg.reset \/ r.inbound.error)
    <2>1. /\ PeerOK(p, t) /\ SameOutbound(r, t)
          /\ Agree(t, s, ov \/ FinOvertakes(t, seg.msg))
          /\ AbsoluteNext(r.inbound) <= AbsoluteNext(t.inbound)
      BY <1>0, ReceiverKeepsTypes, ReceiverAgrees
    <2>2. q = [t EXCEPT !.snd = SenderReceive(@, seg.ackno, seg.window),
                        !.need_send_ = @ \/ AsksReply(r, seg.msg)]
      BY <1>2 DEF receive
    <2>3. /\ SenderOK(p, snd, r.outbound) /\ snd.fin_ = r.snd.fin_
          /\ \/ snd.seqnums_sent_ - snd.seqnums_in_flight_ = Una(r)
             \/ snd.seqnums_sent_ - snd.seqnums_in_flight_ <= top
      <3>1. /\ top \in Nat /\ top <= Total[p] + 2 /\ seg.window \in Nat
            /\ seg.ackno = None \/ \E n \in 1 .. top : seg.ackno = Wrap(n, Isn[p])
        BY <1>0, <1>3
      <3> DEFINE a == seg.ackno
                 w == seg.window
      <3>2. w \in Nat /\ (a = None \/ \E n \in 1 .. top : a = Wrap(n, Isn[p]))
        BY <3>1
      <3> HIDE DEF a, w, t, q, snd
      <3>3. LET z == SenderReceive(r.snd, a, w)
            IN  /\ SenderOK(p, z, r.outbound) /\ z.fin_ = r.snd.fin_
                /\ \/ z.seqnums_sent_ - z.seqnums_in_flight_ = Una(r)
                   \/ z.seqnums_sent_ - z.seqnums_in_flight_ <= top
        BY <3>1, <3>2, AckKeeps
      <3> QED
        BY <3>3 DEF snd, a, w
    <2>4. t \in PeerRecords /\ snd \in SenderRecords
      BY <2>1, <2>3, PeerFields DEF SenderOK
    <2>5. t.snd = r.snd /\ t.outbound = r.outbound
      BY <2>1 DEF SameOutbound
    <2> HIDE DEF t, snd, q
    <2>6. q = [t EXCEPT !.snd = snd, !.need_send_ = @ \/ AsksReply(r, seg.msg)]
      BY <2>2, <2>4, <2>5 DEF snd, PeerRecords
    <2>7. /\ q \in PeerRecords /\ q.snd = snd /\ q.outbound = r.outbound
          /\ q.asm = t.asm /\ q.inbound = t.inbound /\ q.isn = t.isn
      BY <2>4, <2>5, <2>6 DEF PeerRecords
    <2>8. PeerOK(p, q)
      BY <2>1, <2>3, <2>7 DEF PeerOK
    <2>9. GoesOn(r, q)
      BY <2>1, <2>3, <2>7, PeerFields DEF GoesOn
    <2>10. Agree(q, s, ov \/ FinOvertakes(q, seg.msg))
      BY <2>1, <2>7 DEF Agree, FinOvertakes
    <2>11. Una(q) <= top
      BY <1>3, <2>3, <2>7 DEF Una
    <2> QED
      BY <2>8, <2>9, <2>10, <2>11 DEF q, top
  <1> QED
    BY <1>1, <1>2

-----------------------------------------------------------------------------
\* The outbound stream and its owner, the inbound stream and its reader

LEMMA OutboundKeeps ==
    ASSUME NEW p \in Peers, NEW r, PeerOK(p, r), NEW o,
           StreamOK(o), o.pushed <= Total[p], o.popped = r.outbound.popped,
           r.snd.fin_ => o.closed /\ o.pushed = r.outbound.pushed
    PROVE  LET q == [r EXCEPT !.outbound = o]
           IN  PeerOK(p, q) /\ GoesOn(r, q) /\ SameInbound(r, q) /\ q.snd = r.snd
               /\ q.need_send_ = r.need_send_
  <1> DEFINE q == [r EXCEPT !.outbound = o]
  <1>1. r \in PeerRecords /\ o \in StreamType
    BY PeerFields DEF StreamOK
  <1>2. /\ q \in PeerRecords /\ q.snd = r.snd /\ q.outbound = o
        /\ q.asm = r.asm /\ q.isn = r.isn /\ q.inbound = r.inbound
        /\ q.need_send_ = r.need_send_
    BY <1>1 DEF PeerRecords
  <1> HIDE DEF q
  <1>3. PeerOK(p, q)
    BY <1>2 DEF PeerOK, SenderOK
  <1>4. GoesOn(r, q)
    BY <1>2, PeerFields, NextIsNumber DEF GoesOn
  <1> QED
    BY <1>2, <1>3, <1>4 DEF SameInbound, q

LEMMA WriteKeeps ==
    ASSUME NEW p \in Peers, NEW r, PeerOK(p, r), NEW n \in Nat, ~r.outbound.closed,
           n <= Available(r.outbound), r.outbound.pushed + n <= Total[p]
    PROVE  LET q == [r EXCEPT !.outbound = PushTo(@, n)]
           IN  PeerOK(p, q) /\ GoesOn(r, q) /\ SameInbound(r, q) /\ q.snd = r.snd
  <1> DEFINE o == PushTo(r.outbound, n)
  <1>1. /\ r.outbound \in StreamType
        /\ r.outbound.popped \in Nat /\ r.outbound.pushed \in Nat
        /\ r.outbound.capacity \in Nat
        /\ r.outbound.popped <= r.outbound.pushed
    BY PeerFields
  <1>2. Fitting(r.outbound, n) = n
    BY DEF Fitting, AtMost
  <1>3. /\ o \in StreamType /\ o.pushed = r.outbound.pushed + n
        /\ o.popped = r.outbound.popped /\ o.capacity = r.outbound.capacity
    BY <1>1, <1>2 DEF PushTo, StreamType
  <1>4. StreamOK(o) /\ o.pushed <= Total[p]
    BY <1>1, <1>3 DEF StreamOK, Available, Buffered
  <1>5. ~r.snd.fin_
    BY DEF PeerOK, SenderOK
  <1>6. [r EXCEPT !.outbound = PushTo(@, n)] = [r EXCEPT !.outbound = o]
    OBVIOUS
  <1> HIDE DEF o
  <1> QED
    BY <1>3, <1>4, <1>5, <1>6, OutboundKeeps

LEMMA CloseKeeps ==
    ASSUME NEW p \in Peers, NEW r, PeerOK(p, r)
    PROVE  LET q == [r EXCEPT !.outbound = CloseStream(@)]
           IN  PeerOK(p, q) /\ GoesOn(r, q) /\ SameInbound(r, q) /\ q.snd = r.snd
               /\ q.need_send_ = r.need_send_
  <1> DEFINE o == CloseStream(r.outbound)
  <1>1. r.outbound \in StreamType /\ StreamOK(r.outbound) /\ r.outbound.pushed <= Total[p]
    BY PeerFields DEF PeerOK, SenderOK
  <1>2. /\ o \in StreamType /\ o.pushed = r.outbound.pushed /\ o.closed
        /\ o.popped = r.outbound.popped /\ o.capacity = r.outbound.capacity
    BY <1>1 DEF CloseStream, StreamType
  <1>3. StreamOK(o)
    BY <1>1, <1>2 DEF StreamOK
  <1>4. [r EXCEPT !.outbound = CloseStream(@)] = [r EXCEPT !.outbound = o]
    OBVIOUS
  <1> HIDE DEF o
  <1> QED
    BY <1>1, <1>2, <1>3, <1>4, OutboundKeeps

LEMMA ReadKeeps ==
    ASSUME NEW p \in Peers, NEW r, PeerOK(p, r), NEW n \in Nat, n <= Buffered(r.inbound),
           NEW s, NEW ov, Agree(r, s, ov)
    PROVE  LET q == [r EXCEPT !.inbound = PopFrom(@, n)]
           IN  PeerOK(p, q) /\ GoesOn(r, q) /\ Agree(q, s, ov) /\ q.snd = r.snd
               /\ q.need_send_ = r.need_send_
  <1> DEFINE i == PopFrom(r.inbound, n)
             q == [r EXCEPT !.inbound = PopFrom(@, n)]
  <1>1. /\ r \in PeerRecords /\ r.inbound \in StreamType
        /\ r.inbound.pushed \in Nat /\ r.inbound.popped \in Nat
        /\ r.inbound.capacity \in Nat
        /\ r.inbound.pushed <= r.inbound.popped + r.inbound.capacity
        /\ r.asm \in [held : SUBSET Nat, closing : BOOLEAN]
    BY PeerFields
  <1>2. /\ i \in StreamType /\ i.pushed = r.inbound.pushed
        /\ i.popped = r.inbound.popped + n
        /\ i.capacity = r.inbound.capacity /\ i.closed = r.inbound.closed
    BY <1>1 DEF PopFrom, StreamType
  <1> HIDE DEF i
  <1>3. q = [r EXCEPT !.inbound = i]
    BY DEF i
  <1> HIDE DEF q
  <1>4. /\ q \in PeerRecords /\ q.snd = r.snd /\ q.outbound = r.outbound
        /\ q.asm = r.asm /\ q.isn = r.isn /\ q.inbound = i
        /\ q.need_send_ = r.need_send_
    BY <1>1, <1>2, <1>3 DEF PeerRecords
  <1>5. StreamOK(i)
    BY <1>1, <1>2 DEF StreamOK, Buffered
  <1>6. WindowEnd(i) = WindowEnd(r.inbound) + n /\ WindowEnd(r.inbound) \in Nat
    BY <1>1, <1>2 DEF WindowEnd, Available, Buffered
  <1>7. AssemblyOK(r.asm, i)
    <2>1. \A k \in r.asm.held : r.inbound.pushed < k /\ k < WindowEnd(r.inbound)
      BY DEF PeerOK, AssemblyOK
    <2> QED
      BY <1>1, <1>2, <1>5, <1>6, <2>1 DEF AssemblyOK
  <1>8. PeerOK(p, q)
    BY <1>4, <1>7 DEF PeerOK
  <1>11. AbsoluteNext(q.inbound) = AbsoluteNext(r.inbound)
    BY <1>2, <1>4 DEF AbsoluteNext
  <1>9. GoesOn(r, q)
    BY <1>4, <1>11, PeerFields, NextIsNumber DEF GoesOn
  <1>10. Agree(q, s, ov)
    BY <1>2, <1>4, <1>11 DEF Agree
  <1> QED
    BY <1>4, <1>8, <1>9, <1>10 DEF q

LEMMA RetransmitKeeps ==
    ASSUME NEW p \in Peers, NEW r, PeerOK(p, r), r.snd.outstanding_ # <<>>
    PROVE  PeerOK(p, retransmit(r)) /\ GoesOn(r, retransmit(r))
           /\ SameInbound(r, retransmit(r)) /\ Una(retransmit(r)) = Una(r)
  <1> DEFINE s == r.snd
             h == Head(s.outstanding_)
             m == Append(s.ready_to_send_, h)
             t == Requeue(s)
             q == retransmit(r)
  <1>1. /\ r \in PeerRecords /\ s \in SenderRecords
        /\ s.outstanding_ \in Seq(Messages) /\ s.ready_to_send_ \in Seq(Messages)
    BY PeerFields
  <1>2. SenderOK(p, s, r.outbound)
    BY DEF PeerOK
  <1>3. h = s.outstanding_[1] /\ 1 \in 1 .. Len(s.outstanding_)
    BY <1>1, HeadTailProperties
  <1>4. Genuine(p, h, r.outbound.popped, s.fin_) /\ Stamped(p, h)
    BY <1>2, <1>3 DEF SenderOK, GenuineQueue
  <1>5. h \in Messages
    BY <1>4 DEF Genuine
  <1> HIDE DEF h
  <1>6. /\ m \in Seq(Messages) /\ Len(m) = Len(s.ready_to_send_) + 1
        /\ \A i \in 1 .. Len(s.ready_to_send_) : m[i] = s.ready_to_send_[i]
        /\ m[Len(s.ready_to_send_) + 1] = h
    BY <1>1, <1>5, AppendProperties
  <1> HIDE DEF m
  <1>7. ASSUME NEW i \in 1 .. Len(m)
        PROVE  Genuine(p, m[i], r.outbound.popped, s.fin_) /\ Stamped(p, m[i])
    <2>1. CASE i = Len(s.ready_to_send_) + 1
      BY <1>4, <1>6, <2>1
    <2>2. CASE i # Len(s.ready_to_send_) + 1
      <3>1. i \in 1 .. Len(s.ready_to_send_)
        BY <1>1, <1>6, <2>2
      <3> QED
        BY <1>2, <1>6, <3>1 DEF SenderOK, GenuineQueue
    <2> QED
      BY <2>1, <2>2
  <1>8. t = [s EXCEPT !.ready_to_send_ = m]
    BY DEF Requeue, m, h
  <1>9. q = [r EXCEPT !.snd = t]
    BY DEF retransmit
  <1> HIDE DEF t, q
  <1>10. /\ t \in SenderRecords /\ t.isn_ = s.isn_ /\ t.syn_ = s.syn_ /\ t.fin_ = s.fin_
         /\ t.seqnums_sent_ = s.seqnums_sent_ /\ t.outstanding_ = s.outstanding_
         /\ t.ready_to_send_ = m /\ t.seqnums_in_flight_ = s.seqnums_in_flight_
    BY <1>1, <1>6, <1>8 DEF SenderRecords
  <1>11. GenuineQueue(p, m, r.outbound.popped, s.fin_)
    BY <1>6, <1>7 DEF GenuineQueue
  <1>12. SenderOK(p, t, r.outbound)
    BY <1>2, <1>10, <1>11 DEF SenderOK
  <1>13. /\ q \in PeerRecords /\ q.snd = t /\ q.outbound = r.outbound
         /\ q.asm = r.asm /\ q.isn = r.isn /\ q.inbound = r.inbound
    BY <1>1, <1>9, <1>10 DEF PeerRecords
  <1>14. PeerOK(p, q)
    BY <1>12, <1>13 DEF PeerOK
  <1>15. GoesOn(r, q)
    BY <1>10, <1>13, PeerFields, NextIsNumber DEF GoesOn
  <1>16. Una(q) = Una(r)
    BY <1>10, <1>13 DEF Una
  <1> QED
    BY <1>13, <1>14, <1>15, <1>16 DEF SameInbound, q

-----------------------------------------------------------------------------
\* Each action keeps the invariant

LEMMA AgreeStays ==
    ASSUME NEW p \in Peers, NEW r, PeerOK(p, r), NEW r2, SameInbound(r, r2),
           NEW s, PeerOK(Other(p), s), NEW s2, PeerOK(Other(p), s2), GoesOn(s, s2),
           NEW ov, Agree(r, s, ov), Una(s2) <= AbsoluteNext(r.inbound)
    PROVE  Agree(r2, s2, ov)
  <1>1. r2.inbound = r.inbound /\ r2.asm = r.asm
    BY DEF SameInbound
  <1>2. r.inbound.pushed \in Nat /\ r.asm.held \in SUBSET Nat
    BY PeerFields
  <1>3. s.outbound.popped \in Nat /\ s2.outbound.popped \in Nat
    BY TwoPeers, PeerFields DEF OtherIs
  <1>4. /\ s.outbound.popped <= s2.outbound.popped
        /\ s.snd.fin_ => s2.snd.fin_ /\ s2.outbound.popped = s.outbound.popped
    BY DEF GoesOn
  <1>5. /\ r.inbound.pushed <= s.outbound.popped
        /\ \A i \in r.asm.held : i < s.outbound.popped
        /\ r.asm.closing => s.snd.fin_
        /\ r.inbound.closed => r.asm.closing
    BY DEF Agree
  <1>6. CASE s2.outbound.popped = s.outbound.popped
    BY <1>1, <1>4, <1>6 DEF Agree
  <1>7. CASE s2.outbound.popped # s.outbound.popped
    <2>1. ~r.asm.closing /\ ~r.inbound.closed
      BY <1>4, <1>5, <1>7
    <2>2. r.inbound.pushed <= s2.outbound.popped
      BY <1>2, <1>3, <1>4, <1>5
    <2>3. \A i \in r.asm.held : i < s2.outbound.popped
      BY <1>2, <1>3, <1>4, <1>5
    <2> QED
      BY <1>1, <2>1, <2>2, <2>3 DEF Agree
  <1> QED
    BY <1>6, <1>7

LEMMA SegmentStays ==
    ASSUME NEW p \in Peers, NEW r, PeerOK(p, r), NEW r2, PeerOK(p, r2), GoesOn(r, r2),
           NEW seg, SegmentOK(p, seg, r)
    PROVE  SegmentOK(p, seg, r2)
  <1>1. /\ r.outbound.popped \in Nat /\ r2.outbound.popped \in Nat
        /\ r.snd.fin_ \in BOOLEAN /\ r2.snd.fin_ \in BOOLEAN
    BY PeerFields
  <1>2. AbsoluteNext(r.inbound) \in Nat /\ AbsoluteNext(r2.inbound) \in Nat
    BY NextIsNumber
  <1>3. 1 .. AbsoluteNext(r.inbound) \subseteq 1 .. AbsoluteNext(r2.inbound)
    BY <1>2 DEF GoesOn
  <1> QED
    BY <1>1, <1>3, GenuineStays DEF SegmentOK, GoesOn

\* What p takes for acknowledged, the other one has received.
LEMMA SenderHeard ==
    ASSUME ConnectionOK, NEW p \in Peers
    PROVE  Una(peers[p]) <= AbsoluteNext(peers[Other(p)].inbound)
  <1>1. Other(p) \in Peers /\ Other(Other(p)) = p
    BY TwoPeers DEF OtherIs
  <1>2. Agree(peers[Other(p)], peers[Other(Other(p))], overtook[Other(p)])
    BY <1>1 DEF ConnectionOK
  <1> QED
    BY <1>1, <1>2 DEF Agree

\* The peer p has become q, what it still sends goes to the other one.
LEMMA PeerStep ==
    ASSUME ConnectionOK, NEW p \in Peers, NEW q, PeerOK(p, q), GoesOn(peers[p], q),
           Idle(q), Una(q) <= AbsoluteNext(peers[Other(p)].inbound),
           peers' = [peers EXCEPT ![p] = q],
           DOMAIN net' = Peers, net'[p] = net[p],
           \A seg \in net'[Other(p)] : seg \in net[Other(p)] \/ SegmentOK(p, seg, q),
           overtook' \in [Peers -> BOOLEAN], overtook'[Other(p)] = overtook[Other(p)],
           Agree(q, peers[Other(p)], overtook'[p])
    PROVE  ConnectionOK'
  <1> DEFINE o == Other(p)
  <1>0. o \in Peers /\ o # p /\ Other(o) = p /\ \A x \in Peers : x = p \/ x = o
    BY ConnectionAssumption DEF Other, Peers
  <1>1. /\ DOMAIN peers = Peers
        /\ PeerOK(p, peers[p]) /\ PeerOK(o, peers[o]) /\ Idle(peers[o])
        /\ \A seg \in net[p] : SegmentOK(o, seg, peers[o])
        /\ \A seg \in net[o] : SegmentOK(p, seg, peers[p])
        /\ Agree(peers[o], peers[p], overtook[o])
    BY <1>0 DEF ConnectionOK
  <1>2. DOMAIN peers' = Peers /\ peers'[p] = q /\ peers'[o] = peers[o]
    BY <1>0, <1>1
  <1> HIDE DEF o
  <1>3. \A x \in Peers : PeerOK(x, peers'[x]) /\ Idle(peers'[x])
    BY <1>0, <1>1, <1>2
  <1>4. ASSUME NEW x \in Peers, NEW seg \in net'[x]
        PROVE  SegmentOK(Other(x), seg, peers'[Other(x)])
    <2>1. CASE x = p
      BY <1>0, <1>1, <1>2, <1>4, <2>1 DEF o
    <2>2. CASE x = o
      <3>1. seg \in net[o] \/ SegmentOK(p, seg, q)
        BY <1>4, <2>2 DEF o
      <3>2. SegmentOK(p, seg, q)
        BY <1>1, <3>1, SegmentStays
      <3> QED
        BY <1>0, <1>2, <2>2, <3>2
    <2> QED
      BY <1>0, <2>1, <2>2
  <1>5. Agree(peers'[o], peers'[p], overtook'[o])
    <2>1. SameInbound(peers[o], peers[o])
      BY DEF SameInbound
    <2>2. Agree(peers[o], q, overtook[o])
      <3>1. Una(q) <= AbsoluteNext(peers[o].inbound)
        BY DEF o
      <3> QED
        BY <1>0, <1>1, <2>1, <3>1, AgreeStays
    <2> QED
      BY <1>2, <2>2 DEF o
  <1>6. \A x \in Peers : Agree(peers'[x], peers'[Other(x)], overtook'[x])
    <2>1. Agree(peers'[p], peers'[o], overtook'[p])
      BY <1>2 DEF o
    <2> QED
      BY <1>0, <1>5, <2>1 DEF o
  <1> QED
    BY <1>2, <1>3, <1>4, <1>6 DEF ConnectionOK

\* The end of a handler that has turned p into q.
LEMMA FinishStep ==
    ASSUME ConnectionOK, NEW p \in Peers, NEW q, PeerOK(p, q), GoesOn(peers[p], q),
           Una(q) <= AbsoluteNext(peers[Other(p)].inbound),
           NEW must, FinishWith(p, q, must),
           overtook' \in [Peers -> BOOLEAN], overtook'[Other(p)] = overtook[Other(p)],
           Agree(q, peers[Other(p)], overtook'[p])
    PROVE  ConnectionOK'
  <1> DEFINE o == Other(p)
             r == Pushes(q)
             a == AfterCollect(r)
  <1>0. o \in Peers /\ o # p /\ PeerOK(p, peers[p]) /\ PeerOK(o, peers[o])
        /\ DOMAIN net = Peers
    BY TwoPeers DEF OtherIs, ConnectionOK
  <1>1. PeerOK(p, r) /\ GoesOn(q, r) /\ SameInbound(q, r) /\ Una(r) = Una(q)
    <2>1. CASE has_ackno(q)
      BY <2>1, PushKeeps DEF Pushes
    <2>2. CASE ~has_ackno(q)
      BY <2>2, PeerFields, NextIsNumber DEF Pushes, GoesOn, SameInbound
    <2> QED
      BY <2>1, <2>2
  <1>2. peers' = [peers EXCEPT ![p] = a] /\ Carry(o, Collected(r), must)
    BY DEF FinishWith
  <1> HIDE DEF r
  <1>3. /\ PeerOK(p, a) /\ SameInbound(r, a)
        /\ a.outbound = r.outbound /\ a.snd.fin_ = r.snd.fin_
        /\ Una(a) = Una(r) /\ Idle(a)
    BY <1>1, CollectKeeps
  <1>4. \A seg \in Collected(r) : SegmentOK(p, seg, a)
    BY <1>1, <1>3, CollectedIsGenuine DEF SegmentOK, SameInbound
  <1> HIDE DEF a
  <1>5. PICK kept \in SUBSET (net[o] \union Collected(r)) : net' = [net EXCEPT ![o] = kept]
    BY <1>2 DEF Carry
  <1>6. /\ DOMAIN net' = Peers /\ net'[p] = net[p]
        /\ \A seg \in net'[o] : seg \in net[o] \/ SegmentOK(p, seg, a)
    BY <1>0, <1>4, <1>5
  <1>7. GoesOn(peers[p], a)
    <2>1. /\ peers[p].outbound.popped \in Nat /\ q.outbound.popped \in Nat
          /\ r.outbound.popped \in Nat
      BY <1>0, <1>1, PeerFields
    <2>2. a.inbound = q.inbound
      BY <1>1, <1>3 DEF SameInbound
    <2> QED
      BY <1>1, <1>3, <2>1, <2>2 DEF GoesOn
  <1>8. Agree(a, peers[o], overtook'[p])
    BY <1>1, <1>3 DEF SameInbound, Agree
  <1>9. Una(a) <= AbsoluteNext(peers[o].inbound)
    BY <1>1, <1>3
  <1> QED
    BY <1>2, <1>3, <1>6, <1>7, <1>8, <1>9, PeerStep

\* A handler that leaves the receiver's side alone.
LEMMA SenderStep ==
    ASSUME ConnectionOK, NEW p \in Peers, NEW q, PeerOK(p, q), GoesOn(peers[p], q),
           SameInbound(peers[p], q), Una(q) = Una(peers[p]),
           NEW must, FinishWith(p, q, must), UNCHANGED overtook
    PROVE  ConnectionOK'
  <1>1. Agree(peers[p], peers[Other(p)], overtook[p])
    BY DEF ConnectionOK
  <1>2. Agree(q, peers[Other(p)], overtook'[p])
    BY <1>1 DEF Agree, SameInbound
  <1>3. Una(q) <= AbsoluteNext(peers[Other(p)].inbound)
    BY SenderHeard
  <1> QED
    BY <1>2, <1>3, FinishStep DEF ConnectionOK

LEMMA PushedStep ==
    ASSUME ConnectionOK, NEW p \in Peers, NEW w, PeerOK(p, w), GoesOn(peers[p], w),
           SameInbound(peers[p], w), w.snd = peers[p].snd,
           NEW q, PeerOK(p, q), GoesOn(w, q), SameInbound(w, q), Una(q) = Una(w),
           FinishWith(p, q, FALSE), UNCHANGED overtook
    PROVE  ConnectionOK'
  <1>1. PeerOK(p, peers[p])
    BY DEF ConnectionOK
  <1>2. /\ peers[p].outbound.popped \in Nat /\ w.outbound.popped \in Nat
        /\ q.outbound.popped \in Nat
    BY <1>1, PeerFields
  <1>4. SameInbound(peers[p], q)
    BY DEF SameInbound
  <1>3. GoesOn(peers[p], q)
    BY <1>2, <1>4 DEF GoesOn, SameInbound
  <1>5. Una(q) = Una(peers[p])
    BY DEF Una
  <1> QED
    BY <1>3, <1>4, <1>5, SenderStep

LEMMA InitConnectionOK == Init => ConnectionOK
  <1> SUFFICES ASSUME Init PROVE ConnectionOK
    OBVIOUS
  <1> USE ConnectionAssumption
  <1>1. /\ DOMAIN peers = Peers /\ DOMAIN net = Peers /\ overtook \in [Peers -> BOOLEAN]
        /\ \A p \in Peers : net[p] = {} /\ overtook[p] = FALSE
    BY DEF Init
  <1>2. ASSUME NEW p \in Peers PROVE PeerOK(p, peers[p]) /\ Idle(peers[p])
    <2> DEFINE r == peers[p]
               s == NewSender(Isn[p])
    <2>1. r = NewPeer(Isn[p], SendCapacity, RecvCapacity)
      BY DEF Init
    <2>2. <<>> \in Seq(Messages) /\ Len(<<>>) = 0
      BY EmptySeq
    <2>3. Isn[p] \in Raw /\ Total[p] \in Nat
      OBVIOUS
    <2>4. s \in SenderRecords
      BY <2>2, <2>3 DEF NewSender, SenderRecords
    <2>5. /\ s.isn_ = Isn[p] /\ ~s.syn_ /\ ~s.fin_ /\ s.seqnums_sent_ = 0
          /\ s.outstanding_ = <<>> /\ s.ready_to_send_ = <<>>
          /\ s.seqnums_in_flight_ = 0
      BY DEF NewSender
    <2>6. \A c \in Nat : /\ EmptyStream(c) \in StreamType /\ StreamOK(EmptyStream(c))
                         /\ EmptyStream(c).pushed = 0 /\ EmptyStream(c).popped = 0
      BY DEF EmptyStream, StreamType, StreamOK
    <2>7. SenderOK(p, s, EmptyStream(SendCapacity))
      <3>1. Chain(<<>>, 0, 0)
        BY <2>2 DEF Chain
      <3>2. s.seqnums_sent_ - s.seqnums_in_flight_ = 0
        BY <2>5
      <3> QED
        BY <2>2, <2>3, <2>4, <2>5, <2>6, <3>1, <3>2 DEF SenderOK, GenuineQueue, One
    <2>8. AssemblyOK(EmptyAssembly, EmptyStream(RecvCapacity))
      BY <2>6 DEF AssemblyOK, EmptyAssembly
    <2> HIDE DEF r, s
    <2>9. /\ r.snd = s /\ r.isn = None /\ r.asm = EmptyAssembly
          /\ r.outbound = EmptyStream(SendCapacity)
          /\ r.inbound = EmptyStream(RecvCapacity) /\ r.need_send_ = FALSE
      BY <2>1 DEF NewPeer, s
    <2>10. r \in PeerRecords
      BY <2>1, <2>4, <2>6 DEF NewPeer, PeerRecords, EmptyAssembly, s
    <2> QED
      BY <2>5, <2>7, <2>8, <2>9, <2>10 DEF PeerOK, Idle, r
  <1>3. ASSUME NEW p \in Peers PROVE Agree(peers[p], peers[Other(p)], overtook[p])
    <2>1. /\ peers[p] = NewPeer(Isn[p], SendCapacity, RecvCapacity)
          /\ peers[Other(p)] = NewPeer(Isn[Other(p)], SendCapacity, RecvCapacity)
      BY TwoPeers DEF Init, OtherIs
    <2>2. /\ peers[p].inbound.pushed = 0 /\ peers[p].inbound.closed = FALSE
          /\ peers[p].asm.held = {} /\ peers[p].asm.closing = FALSE
          /\ peers[Other(p)].outbound.popped = 0
          /\ peers[Other(p)].snd.seqnums_sent_ = 0
          /\ peers[Other(p)].snd.seqnums_in_flight_ = 0
      BY <2>1 DEF NewPeer, NewSender, EmptyStream, EmptyAssembly
    <2>3. Una(peers[Other(p)]) <= AbsoluteNext(peers[p].inbound)
      BY <2>2 DEF Una, AbsoluteNext, One
    <2> QED
      BY <2>2, <2>3 DEF Agree
  <1> QED
    BY <1>1, <1>2, <1>3 DEF ConnectionOK

LEMMA ReceiveStep ==
    ASSUME ShortStreams, ConnectionOK, NEW p \in Peers, NEW seg \in net[p], NEW must,
           receive_segment(p, seg, must)
    PROVE  ConnectionOK'
  <1> DEFINE o == Other(p)
             q == receive(peers[p], seg)
  <1>1. FinishWith(p, q, must)
        /\ overtook' = [overtook EXCEPT ![p] = @ \/ FinOvertakes(q, seg.msg)]
    BY DEF receive_segment
  <1>2. /\ o \in Peers /\ o # p /\ PeerOK(p, peers[p]) /\ PeerOK(o, peers[o])
        /\ SegmentOK(o, seg, peers[o]) /\ overtook \in [Peers -> BOOLEAN]
        /\ overtook[p] \in BOOLEAN
        /\ Agree(peers[p], peers[o], overtook[p])
        /\ Agree(peers[o], peers[p], overtook[o])
    BY TwoPeers DEF ConnectionOK, OtherIs
  <1>3. /\ PeerOK(p, q) /\ GoesOn(peers[p], q)
        /\ Agree(q, peers[o], overtook[p] \/ FinOvertakes(q, seg.msg))
        /\ Una(q) <= AbsoluteNext(peers[o].inbound)
    BY <1>2, ReceiveKeeps
  <1> HIDE DEF q
  <1>4. /\ overtook' \in [Peers -> BOOLEAN] /\ overtook'[o] = overtook[o]
        /\ overtook'[p] = (overtook[p] \/ FinOvertakes(q, seg.msg))
    BY <1>1, <1>2
  <1>5. Agree(q, peers[o], overtook'[p])
    BY <1>3, <1>4
  <1> QED
    BY <1>1, <1>3, <1>4, <1>5, FinishStep

LEMMA OwnStep ==
    ASSUME ConnectionOK, NEW p \in Peers, NEW q, PeerOK(p, q), GoesOn(peers[p], q),
           q.snd = peers[p].snd, q.need_send_ = peers[p].need_send_,
           peers' = [peers EXCEPT ![p] = q], UNCHANGED <<net, overtook>>,
           Agree(q, peers[Other(p)], overtook[p])
    PROVE  ConnectionOK'
  <1>1. DOMAIN net' = Peers /\ overtook' \in [Peers -> BOOLEAN]
    BY DEF ConnectionOK
  <1>2. Idle(q)
    BY DEF ConnectionOK, Idle
  <1>3. Una(q) <= AbsoluteNext(peers[Other(p)].inbound)
    <2>1. Una(q) = Una(peers[p])
      BY DEF Una
    <2> QED
      BY <2>1, SenderHeard
  <1> QED
    BY <1>1, <1>2, <1>3, PeerStep

LEMMA StepKeeps == ShortStreams /\ ConnectionOK /\ [Next]_vars => ConnectionOK'
  <1> SUFFICES ASSUME ShortStreams, ConnectionOK, [Next]_vars PROVE ConnectionOK'
    OBVIOUS
  <1> USE ConnectionAssumption
  <1>0. ASSUME NEW p \in Peers
        PROVE  PeerOK(p, peers[p]) /\ Agree(peers[p], peers[Other(p)], overtook[p])
    BY DEF ConnectionOK
  <1>1. CASE UNCHANGED vars
    BY <1>1 DEF vars, ConnectionOK
  <1>2. CASE connect
    <2>1. Client \in Peers
      BY DEF Peers
    <2> QED
      BY <1>0, <1>2, <2>1, PushKeeps, SenderStep DEF connect, Finish
  <1>3. ASSUME NEW p \in Peers, NEW n \in 1 .. SendCapacity, write(p, n) PROVE ConnectionOK'
    <2> DEFINE r == peers[p]
               w == [r EXCEPT !.outbound = PushTo(@, n)]
               q == push(w)
    <2>1. /\ n \in Nat /\ ~r.outbound.closed /\ n <= Available(r.outbound)
          /\ r.outbound.pushed + n <= Total[p]
          /\ FinishWith(p, q, FALSE) /\ UNCHANGED overtook
      <3>1. Finish(p, q)
        BY <1>3 DEF write
      <3>2. FinishWith(p, q, FALSE)
        BY <3>1 DEF Finish
      <3>3. n \in Nat
        OBVIOUS
      <3>4. /\ ~r.outbound.closed /\ n <= Available(r.outbound)
            /\ r.outbound.pushed + n <= Total[p] /\ UNCHANGED overtook
        BY <1>3 DEF write
      <3> QED
        BY <3>2, <3>3, <3>4
    <2>2. PeerOK(p, w) /\ GoesOn(r, w) /\ SameInbound(r, w) /\ w.snd = r.snd
      BY <1>0, <2>1, WriteKeeps
    <2> HIDE DEF w
    <2>3. PeerOK(p, q) /\ GoesOn(w, q) /\ SameInbound(w, q) /\ Una(q) = Una(w)
      BY <2>2, PushKeeps
    <2> QED
      BY <1>0, <2>1, <2>2, <2>3, PushedStep
  <1>4. ASSUME NEW p \in Peers, shutdown(p) PROVE ConnectionOK'
    <2> DEFINE r == peers[p]
               w == [r EXCEPT !.outbound = CloseStream(@)]
               q == push(w)
    <2>1. FinishWith(p, q, FALSE) /\ UNCHANGED overtook
      BY <1>4 DEF shutdown, Finish
    <2>2. PeerOK(p, w) /\ GoesOn(r, w) /\ SameInbound(r, w) /\ w.snd = r.snd
          /\ w.need_send_ = r.need_send_
      BY <1>0, CloseKeeps
    <2> HIDE DEF w
    <2>3. PeerOK(p, q) /\ GoesOn(w, q) /\ SameInbound(w, q) /\ Una(q) = Una(w)
      BY <2>2, PushKeeps
    <2> QED
      BY <1>0, <2>1, <2>2, <2>3, PushedStep
  <1>5. ASSUME NEW p \in Peers, cancel(p) PROVE ConnectionOK'
    <2> DEFINE r == peers[p]
               w == [r EXCEPT !.outbound = CloseStream(@)]
    <2>1. peers' = [peers EXCEPT ![p] = w] /\ UNCHANGED <<net, overtook>>
      BY <1>5 DEF cancel, ConnectionOK
    <2>2. PeerOK(p, w) /\ GoesOn(r, w) /\ SameInbound(r, w) /\ w.snd = r.snd
          /\ w.need_send_ = r.need_send_
      BY <1>0, CloseKeeps
    <2> HIDE DEF w
    <2>3. Agree(w, peers[Other(p)], overtook[p])
      BY <1>0, <2>2 DEF Agree, SameInbound
    <2> QED
      BY <2>1, <2>2, <2>3, OwnStep
  <1>6. ASSUME NEW p \in Peers, NEW n \in 1 .. RecvCapacity, read(p, n) PROVE ConnectionOK'
    <2> DEFINE r == peers[p]
               w == [r EXCEPT !.inbound = PopFrom(@, n)]
    <2>1. /\ n \in Nat /\ n <= Buffered(r.inbound)
          /\ peers' = [peers EXCEPT ![p] = w] /\ UNCHANGED <<net, overtook>>
      BY <1>6 DEF read, ConnectionOK
    <2>2. /\ PeerOK(p, w) /\ GoesOn(r, w) /\ Agree(w, peers[Other(p)], overtook[p])
          /\ w.snd = r.snd /\ w.need_send_ = r.need_send_
      BY <1>0, <2>1, ReadKeeps
    <2> HIDE DEF w
    <2> QED
      BY <2>1, <2>2, OwnStep
  <1>7. ASSUME NEW p \in Peers, deliver(p) PROVE ConnectionOK'
    BY <1>7, ReceiveStep DEF deliver
  <1>8. ASSUME NEW p \in Peers, reset(p) PROVE ConnectionOK'
    <2> DEFINE r == peers[p]
               w == [r EXCEPT !.inbound = FailStream(@)]
    <2>1. receive(r, [reset |-> TRUE]) = w
      BY DEF receive
    <2>2. FinishWith(p, w, FALSE) /\ UNCHANGED overtook
      BY <1>8, <2>1 DEF reset, Finish
    <2>3. /\ PeerOK(p, w) /\ GoesOn(r, w) /\ Agree(w, peers[Other(p)], overtook[p] \/ FALSE)
          /\ Una(w) = Una(r)
      BY <1>0, FailKeeps
    <2>5. Una(w) <= AbsoluteNext(peers[Other(p)].inbound)
      BY <2>3, SenderHeard
    <2>4. overtook \in [Peers -> BOOLEAN] /\ (overtook[p] \/ FALSE) = overtook[p]
      BY DEF ConnectionOK
    <2> HIDE DEF w
    <2> QED
      BY <2>2, <2>3, <2>4, <2>5, FinishStep
  <1>9. ASSUME NEW p \in Peers, tick(p) PROVE ConnectionOK'
    <2>1. GoesOn(peers[p], peers[p]) /\ SameInbound(peers[p], peers[p])
      BY <1>0, PeerFields, NextIsNumber DEF GoesOn, SameInbound
    <2> QED
      BY <1>0, <1>9, <2>1, SenderStep DEF tick, Finish
  <1>10. ASSUME NEW p \in Peers, tick_expired(p) PROVE ConnectionOK'
    BY <1>0, <1>10, RetransmitKeeps, SenderStep DEF tick_expired, retransmission
  <1> QED
    BY <1>1, <1>2, <1>3, <1>4, <1>5, <1>6, <1>7, <1>8, <1>9, <1>10 DEF Next

LEMMA Invariance == ASSUME ShortStreams PROVE Spec => []ConnectionOK
  <1>1. ConnectionOK /\ [Next]_vars => ConnectionOK'
    BY StepKeeps
  <1> QED
    BY <1>1, InitConnectionOK, PTL DEF Spec

-----------------------------------------------------------------------------
\* The theorems

\* The first number that is not acknowledged is where the oldest outstanding
\* message begins.
LEMMA UnaIsNat ==
    ASSUME NEW p \in Peers, NEW r, PeerOK(p, r)
    PROVE  Una(r) \in Nat
  <1> DEFINE q == r.snd.outstanding_
  <1>1. r.snd.seqnums_sent_ \in Nat /\ q \in Seq(Messages) /\ Len(q) \in Nat
    BY PeerFields
  <1>2. /\ Chain(q, Una(r), r.snd.seqnums_sent_)
        /\ \A i \in 1 .. Len(q) : q[i] \in Messages
    BY DEF PeerOK, SenderOK, GenuineQueue, Genuine, Una
  <1> HIDE DEF q
  <1>3. CASE Len(q) = 0
    BY <1>1, <1>2, <1>3 DEF Chain
  <1>4. CASE Len(q) # 0
    <2>1. Abs(q[1]) = Una(r) /\ q[1] \in Messages
      BY <1>1, <1>2, <1>4 DEF Chain
    <2> QED
      BY <2>1 DEF Messages, Abs
  <1> QED
    BY <1>3, <1>4

\* The fields of both peers have their types, the numbers a sender takes for
\* acknowledged never go below zero, and no handler leaves a message or a reply
\* behind (tcp_peer.hh, collect_segments of tcp_minnow_socket.cc).
THEOREM FieldsAreTyped == ASSUME ShortStreams PROVE Spec => []TypeOK
  <1>1. ConnectionOK => TypeOK
    <2> SUFFICES ASSUME ConnectionOK, NEW p \in Peers
                 PROVE  /\ StreamOK(peers[p].outbound) /\ StreamOK(peers[p].inbound)
                        /\ peers[p].snd.seqnums_sent_ \in Nat /\ Una(peers[p]) \in Nat
                        /\ peers[p].snd.ready_to_send_ = <<>> /\ ~peers[p].need_send_
                        /\ peers[p].isn \in {None, Isn[Other(p)]}
      BY DEF TypeOK
    <2>1. PeerOK(p, peers[p]) /\ Idle(peers[p])
      BY DEF ConnectionOK
    <2>2. Una(peers[p]) \in Nat /\ peers[p].snd.seqnums_sent_ \in Nat
      BY <2>1, UnaIsNat, PeerFields
    <2> QED
      BY <2>1, <2>2 DEF PeerOK, SenderOK, AssemblyOK, Idle
  <1> QED
    BY <1>1, Invariance, PTL

\* A receiver that takes a payload counts from the other peer's zero point.
LEMMA TakenAtItsPlace ==
    ASSUME ShortStreams, NEW p \in Peers, NEW r, PeerOK(p, r),
           NEW s, PeerOK(Other(p), s), r.inbound.pushed <= s.outbound.popped,
           NEW msg, Genuine(Other(p), msg, s.outbound.popped, s.snd.fin_),
           TakesPayload(r, msg)
    PROVE  PlaceOfPayload(r, msg) = msg.first
  <1>1. msg.len > 0 /\ IsnAfter(r.isn, msg) # None
    BY DEF TakesPayload, Reassembles
  <1>2. r.isn \in {None, Isn[Other(p)]} /\ (msg.SYN => msg.seqno = Isn[Other(p)])
    BY DEF PeerOK, Genuine
  <1>3. IsnAfter(r.isn, msg) = Isn[Other(p)]
    BY <1>1, <1>2 DEF IsnAfter
  <1>4. FirstIndex(Isn[Other(p)], msg, r.inbound) = msg.first
    BY <1>1, PutInPlace
  <1> QED
    BY <1>3, <1>4 DEF PlaceOfPayload

\* tcp_peer.hh, tcp_sender.cc, tcp_receiver.cc, reassembler.cc: whatever the
\* network loses, repeats and reorders, every payload that a peer takes goes to
\* the place that its bytes have in the stream the other peer took them from,
\* and the peer holds no byte that was not taken from there.
THEOREM OnlyWhatWasSent == ASSUME ShortStreams PROVE Spec => []DeliveredWasSent
  <1>1. ConnectionOK => DeliveredWasSent
    <2> SUFFICES ASSUME ConnectionOK, NEW p \in Peers
                 PROVE  /\ \A seg \in net[p] :
                             /\ seg.msg.first + seg.msg.len <= peers[Other(p)].outbound.popped
                             /\ TakesPayload(peers[p], seg.msg)
                                  => PlaceOfPayload(peers[p], seg.msg) = seg.msg.first
                        /\ peers[p].inbound.pushed <= peers[Other(p)].outbound.popped
                        /\ \A i \in peers[p].asm.held : i < peers[Other(p)].outbound.popped
      BY DEF DeliveredWasSent
    <2> DEFINE r == peers[p]
               s == peers[Other(p)]
    <2>1. PeerOK(p, r) /\ PeerOK(Other(p), s)
      BY TwoPeers DEF OtherIs, ConnectionOK
    <2>2. /\ r.inbound.pushed <= s.outbound.popped
          /\ \A i \in r.asm.held : i < s.outbound.popped
      BY DEF ConnectionOK, Agree
    <2>3. ASSUME NEW seg \in net[p]
          PROVE  /\ seg.msg.first + seg.msg.len <= s.outbound.popped
                 /\ TakesPayload(r, seg.msg) => PlaceOfPayload(r, seg.msg) = seg.msg.first
      <3>1. Genuine(Other(p), seg.msg, s.outbound.popped, s.snd.fin_)
        BY DEF ConnectionOK, SegmentOK
      <3>2. seg.msg.first + seg.msg.len <= s.outbound.popped
        BY <3>1 DEF Genuine
      <3> HIDE DEF r, s
      <3>3. TakesPayload(r, seg.msg) => PlaceOfPayload(r, seg.msg) = seg.msg.first
        BY <2>1, <2>2, <3>1, TakenAtItsPlace
      <3> QED
        BY <3>2, <3>3
    <2> QED
      BY <2>2, <2>3
  <1> QED
    BY <1>1, Invariance, PTL

LEMMA ClosedThenComplete ==
    ASSUME ConnectionOK, NEW p \in Peers, peers[p].inbound.closed, ~overtook[p]
    PROVE  Complete(p)
  <1> DEFINE s == peers[Other(p)]
  <1>1. Agree(peers[p], s, overtook[p]) /\ SenderOK(Other(p), s.snd, s.outbound)
    BY TwoPeers DEF ConnectionOK, OtherIs, PeerOK
  <1>2. s.snd.fin_ /\ peers[p].inbound.pushed = s.outbound.popped
    BY <1>1 DEF Agree
  <1> QED
    BY <1>1, <1>2 DEF SenderOK, Complete

\* An inbound stream that is closed is the whole of what the other application
\* wrote, unless a FIN overtook the last byte (reassembler.cc:17, :72).
THEOREM AnEndIsAnEnd == ASSUME ShortStreams PROVE Spec => []ClosedIsComplete
  <1>1. ConnectionOK => ClosedIsComplete
    BY ClosedThenComplete DEF ClosedIsComplete
  <1> QED
    BY <1>1, Invariance, PTL

\* tcp_sender.cc:104-132: the sender forgets a message only when the other
\* stream has all of it, its FIN only when that stream is whole, however old
\* the acknowledgments are that reach it.  If that stream was closed because a
\* FIN overtook the last byte (reassembler.cc:17 and :72, tcp_receiver.cc:30),
\* it forgets at most one byte that the stream does not have.
THEOREM ForgottenIsDelivered == ASSUME ShortStreams PROVE Spec => []AckedIsDelivered
  <1>1. ConnectionOK => AckedIsDelivered
    <2> DEFINE ended(o) == Complete(o) \/ ClosedByOvertaking(o)
    <2> SUFFICES ASSUME ConnectionOK, NEW p \in Peers
                 PROVE  Una(peers[p]) <= 1 + peers[Other(p)].inbound.pushed
                                           + One(ended(Other(p)))
      BY DEF AckedIsDelivered
    <2> DEFINE i == peers[Other(p)].inbound
    <2>1. Other(p) \in Peers /\ PeerOK(p, peers[p]) /\ PeerOK(Other(p), peers[Other(p)])
      BY TwoPeers DEF OtherIs, ConnectionOK
    <2>2. Una(peers[p]) \in Int /\ i.pushed \in Nat
      BY <2>1, UnaIsNat, PeerFields
    <2>3. Una(peers[p]) <= i.pushed + 1 + One(i.closed)
      BY SenderHeard DEF AbsoluteNext
    <2>4. i.closed => ended(Other(p))
      BY <2>1, ClosedThenComplete DEF ClosedByOvertaking
    <2>5. One(i.closed) <= One(ended(Other(p)))
          /\ One(i.closed) \in Nat /\ One(ended(Other(p))) \in Nat
      BY <2>4 DEF One
    <2> HIDE DEF i, ended
    <2>6. Una(peers[p]) <= 1 + i.pushed + One(ended(Other(p)))
      BY <2>2, <2>3, <2>5
    <2> QED
      BY <2>6 DEF i
  <1> QED
    BY <1>1, Invariance, PTL

\* Unless a FIN overtook the last byte of either stream: a peer that is inactive
\* without an error, after its FIN, has the whole of the other's stream, and the
\* other has the whole of its own (TCPPeer::active, tcp_peer.hh, which ends
\* _tcp_loop).
THEOREM TheEndIsClean == ASSUME ShortStreams PROVE Spec => []CleanEndIsComplete
  <1>1. ConnectionOK => CleanEndIsComplete
    <2> SUFFICES ASSUME ConnectionOK, NEW p \in Peers,
                        ~active(peers[p]), ~peers[p].inbound.error, peers[p].snd.fin_,
                        \A x \in Peers : ~overtook[x]
                 PROVE  Complete(p) /\ Complete(Other(p))
      BY DEF CleanEndIsComplete
    <2> DEFINE r == peers[p]
               i == peers[Other(p)].inbound
               popped == r.outbound.popped
    <2>1. /\ Other(p) \in Peers /\ PeerOK(p, r) /\ PeerOK(Other(p), peers[Other(p)])
          /\ Agree(peers[Other(p)], r, overtook[Other(p)])
      BY TwoPeers DEF OtherIs, ConnectionOK
    <2>2. /\ r.snd.seqnums_sent_ \in Nat /\ r.snd.seqnums_in_flight_ \in Int
          /\ popped \in Nat /\ i.pushed \in Nat
      BY <2>1, PeerFields
    <2>3. r.inbound.closed /\ r.outbound.closed /\ ~(r.snd.seqnums_in_flight_ > 0)
      BY DEF active, Finished
    <2>4. Complete(p)
      BY <2>3, ClosedThenComplete
    <2>5. r.snd.seqnums_sent_ = 1 + popped + 1 /\ popped = r.outbound.pushed
      BY <2>1 DEF PeerOK, SenderOK, One
    <2>6. Una(r) <= i.pushed + 1 + One(i.closed)
      BY SenderHeard DEF AbsoluteNext
    <2>7. i.pushed <= popped
      BY <2>1 DEF Agree
    <2>8. i.closed /\ i.pushed = popped
      <3>1. Una(r) >= 1 + popped + 1
        BY <2>2, <2>3, <2>5 DEF Una
      <3>2. Una(r) \in Int
        BY <2>2 DEF Una
      <3> HIDE DEF i, r, popped
      <3>3. CASE i.closed
        BY <2>2, <2>6, <2>7, <3>1, <3>2, <3>3 DEF One
      <3>4. CASE ~i.closed
        BY <2>2, <2>6, <2>7, <3>1, <3>2, <3>4 DEF One
      <3> QED
        BY <3>3, <3>4
    <2>9. Complete(Other(p))
      BY <2>1, <2>8, ClosedThenComplete
    <2> QED
      BY <2>4, <2>9
  <1> QED
    BY <1>1, Invariance, PTL
=============================================================================
