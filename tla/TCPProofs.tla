----------------------------- MODULE TCPProofs ------------------------------
(***************************************************************************)
(* The two halves of a TCPPeer, for every modulus, payload size, window,   *)
(* capacity, stream and sequence of messages: first the sender's           *)
(* bookkeeping, then, below, the receiver, which puts each payload where   *)
(* the peer put it, honours the window it advertises and never goes back   *)
(* on it.  Within half a modulus of the bytes written, unwrap gives a      *)
(* payload its true place (Wrap32Proofs); the rest of the receiver is      *)
(* reassembly over sets of bytes.                                          *)
(***************************************************************************)
EXTENDS MCTCPSender, TCPReceiver, Wrap32Proofs, SequenceTheorems, WellFoundedInduction

IInv == TypeOK /\ OutstandingIsUnacked /\ MessagesFollowStream /\ ReadyIsAccountedFor

LEMMA OneType == ASSUME NEW flag \in BOOLEAN
                 PROVE  One(flag) \in 0 .. 1
  BY DEF One

\* The fields of a state in which the invariant holds.
LEMMA Fields ==
    ASSUME TypeOK
    PROVE  /\ snd.isn_ = Isn /\ Isn \in Raw
           /\ snd.syn_ \in BOOLEAN /\ snd.fin_ \in BOOLEAN
           /\ snd.window_size_ \in Nat /\ snd.window_size_ <= LargestWindow
           /\ snd.seqnums_sent_ \in Nat /\ snd.seqnums_in_flight_ \in Nat
           /\ snd.outstanding_ \in Seq(MessageType)
           /\ snd.ready_to_send_ \in Seq(MessageType)
           /\ outbound \in StreamType
           /\ outbound.popped \in Nat /\ outbound.pushed \in Nat
           /\ outbound.popped <= outbound.pushed
           /\ outbound.closed \in BOOLEAN
           /\ Buffered(outbound) \in Nat
<1> USE SenderAssumption
<1>1. snd \in SenderType /\ snd.isn_ = Isn /\ StreamOK(outbound)
  BY DEF TypeOK
<1>2. outbound \in StreamType /\ outbound.popped <= outbound.pushed
  BY <1>1 DEF StreamOK
<1>3. /\ outbound.popped \in Nat /\ outbound.pushed \in Nat
      /\ outbound.closed \in BOOLEAN
  BY <1>2 DEF StreamType
<1>4. /\ snd.syn_ \in BOOLEAN /\ snd.fin_ \in BOOLEAN
      /\ snd.window_size_ \in 0 .. LargestWindow
      /\ snd.seqnums_sent_ \in Nat /\ snd.seqnums_in_flight_ \in Nat
      /\ snd.outstanding_ \in Seq(MessageType)
      /\ snd.ready_to_send_ \in Seq(MessageType)
  BY <1>1 DEF SenderType
<1> QED BY <1>1, <1>2, <1>3, <1>4 DEF Buffered

-----------------------------------------------------------------------------
\* Queues of messages

LEMMA MessageNumbers ==
    ASSUME NEW msg \in MessageType
    PROVE  /\ Abs(msg) \in Nat /\ AbsEnd(msg) \in Nat
           /\ sequence_length(msg) \in Nat
           /\ AbsEnd(msg) = Abs(msg) + sequence_length(msg)
<1>1. /\ msg.SYN \in BOOLEAN /\ msg.FIN \in BOOLEAN
      /\ msg.first \in Nat /\ msg.len \in Nat
  BY DEF MessageType
<1>2. sequence_length(msg) \in Nat
  BY <1>1 DEF sequence_length, One
<1>3. Abs(msg) \in Nat
  BY <1>1 DEF Abs
<1> QED BY <1>2, <1>3 DEF AbsEnd

\* Every message of a queue lies between the ends of what the queue covers.
LEMMA CoversBounds ==
    ASSUME NEW q \in Seq(MessageType), NEW a \in Int, NEW b \in Int, Covers(q, a, b)
    PROVE  /\ a <= b
           /\ \A i \in 1 .. Len(q) : /\ Abs(q[i]) \in Nat /\ AbsEnd(q[i]) \in Nat
                                     /\ a <= Abs(q[i]) /\ Abs(q[i]) < AbsEnd(q[i])
                                     /\ AbsEnd(q[i]) <= b
<1>0. Len(q) \in Nat
  OBVIOUS
<1>1. ASSUME NEW i \in 1 .. Len(q)
      PROVE  /\ Abs(q[i]) \in Nat /\ AbsEnd(q[i]) \in Nat
             /\ a <= Abs(q[i]) /\ Abs(q[i]) < AbsEnd(q[i])
             /\ AbsEnd(q[i]) <= b
  <2> DEFINE n == Len(q)
  <2>1. i \in Nat /\ n \in Nat /\ 1 \in 1 .. n /\ n \in 1 .. n
    BY <1>0
  <2>2. q[i] \in MessageType /\ q[1] \in MessageType /\ q[n] \in MessageType
    BY <2>1, ElementOfSeq
  <2>3. /\ Abs(q[i]) \in Nat /\ AbsEnd(q[i]) \in Nat
        /\ Abs(q[1]) \in Nat /\ AbsEnd(q[1]) \in Nat
        /\ Abs(q[n]) \in Nat /\ AbsEnd(q[n]) \in Nat
        /\ AbsEnd(q[i]) = Abs(q[i]) + sequence_length(q[i])
        /\ AbsEnd(q[1]) = Abs(q[1]) + sequence_length(q[1])
        /\ AbsEnd(q[n]) = Abs(q[n]) + sequence_length(q[n])
        /\ sequence_length(q[i]) \in Nat
        /\ sequence_length(q[1]) \in Nat
        /\ sequence_length(q[n]) \in Nat
    BY <2>2, MessageNumbers
  <2>4. /\ sequence_length(q[i]) > 0
        /\ Abs(q[1]) = a /\ AbsEnd(q[n]) = b
        /\ 1 < i => AbsEnd(q[1]) <= Abs(q[i])
        /\ i < n => AbsEnd(q[i]) <= Abs(q[n])
    BY <2>1 DEF Covers
  <2> HIDE DEF n
  <2>5. a <= Abs(q[i])
    BY <2>1, <2>3, <2>4, SMTT(30)
  <2>6. AbsEnd(q[i]) <= b
    <3>1. CASE i = n
      BY <2>4, <3>1
    <3>2. CASE i < n
      BY <2>3, <2>4, <3>2
    <3> QED BY <2>1, <3>1, <3>2 DEF n
  <2> QED BY <2>3, <2>4, <2>5, <2>6
<1>2. CASE Len(q) = 0
  BY <1>1, <1>2 DEF Covers
<1>3. CASE Len(q) > 0
  <2>1. 1 \in 1 .. Len(q)
    BY <1>0, <1>3
  <2> QED BY <1>1, <2>1
<1> QED BY <1>0, <1>1, <1>2, <1>3

LEMMA CoversConcat ==
    ASSUME NEW q \in Seq(MessageType), NEW p \in Seq(MessageType),
           NEW a \in Int, NEW b \in Int, NEW c \in Int,
           Covers(q, a, b), Covers(p, b, c)
    PROVE  Covers(q \o p, a, c)
<1> DEFINE r == q \o p
           m == Len(q)
           n == Len(p)
<1>0. m \in Nat /\ n \in Nat
  OBVIOUS
<1>1. /\ r \in Seq(MessageType) /\ Len(r) = m + n
      /\ \A i \in 1 .. m + n : r[i] = IF i <= m THEN q[i] ELSE p[i - m]
  BY ConcatProperties
<1>2. /\ \A i \in 1 .. m : /\ Abs(q[i]) \in Nat /\ AbsEnd(q[i]) \in Nat
                           /\ a <= Abs(q[i]) /\ Abs(q[i]) < AbsEnd(q[i])
                           /\ AbsEnd(q[i]) <= b
      /\ \A i \in 1 .. n : /\ Abs(p[i]) \in Nat /\ AbsEnd(p[i]) \in Nat
                           /\ b <= Abs(p[i]) /\ Abs(p[i]) < AbsEnd(p[i])
                           /\ AbsEnd(p[i]) <= c
  BY CoversBounds
<1>3. /\ \A i \in 1 .. m : sequence_length(q[i]) > 0
      /\ \A i \in 1 .. (m - 1) : AbsEnd(q[i]) = Abs(q[i + 1])
      /\ \A i, j \in 1 .. m : i < j => AbsEnd(q[i]) <= Abs(q[j])
      /\ IF m = 0 THEN a = b ELSE Abs(q[1]) = a /\ AbsEnd(q[m]) = b
  BY DEF Covers
<1>4. /\ \A i \in 1 .. n : sequence_length(p[i]) > 0
      /\ \A i \in 1 .. (n - 1) : AbsEnd(p[i]) = Abs(p[i + 1])
      /\ \A i, j \in 1 .. n : i < j => AbsEnd(p[i]) <= Abs(p[j])
      /\ IF n = 0 THEN b = c ELSE Abs(p[1]) = b /\ AbsEnd(p[n]) = c
  BY DEF Covers
<1> HIDE DEF r, m, n
<1>5. ASSUME NEW i \in 1 .. m + n
      PROVE  sequence_length(r[i]) > 0
  <2>1. CASE i <= m
    <3>1. r[i] = q[i] /\ i \in 1 .. m
      BY <1>0, <1>1, <2>1
    <3> QED BY <1>3, <3>1
  <2>2. CASE i > m
    <3>1. r[i] = p[i - m] /\ i - m \in 1 .. n
      BY <1>0, <1>1, <2>2
    <3> QED BY <1>4, <3>1
  <2> QED BY <1>0, <2>1, <2>2
<1>6. ASSUME NEW i \in 1 .. (m + n - 1)
      PROVE  AbsEnd(r[i]) = Abs(r[i + 1])
  <2>1. CASE i < m
    <3>1. r[i] = q[i] /\ r[i + 1] = q[i + 1] /\ i \in 1 .. (m - 1)
      BY <1>0, <1>1, <2>1
    <3> QED BY <1>3, <3>1
  <2>2. CASE i = m
    <3>1. m > 0 /\ n > 0
      BY <1>0, <2>2
    <3>2. r[i] = q[m] /\ r[i + 1] = p[1]
      BY <1>0, <1>1, <2>2, <3>1
    <3>3. AbsEnd(q[m]) = b /\ Abs(p[1]) = b
      BY <1>0, <1>3, <1>4, <3>1
    <3> QED BY <3>2, <3>3
  <2>3. CASE i > m
    <3>1. r[i] = p[i - m] /\ r[i + 1] = p[(i - m) + 1] /\ i - m \in 1 .. (n - 1)
      BY <1>0, <1>1, <2>3
    <3> QED BY <1>4, <3>1
  <2> QED BY <1>0, <2>1, <2>2, <2>3
<1>7. ASSUME NEW i \in 1 .. m + n, NEW j \in 1 .. m + n, i < j
      PROVE  AbsEnd(r[i]) <= Abs(r[j])
  <2>1. CASE j <= m
    <3>1. r[i] = q[i] /\ r[j] = q[j] /\ i \in 1 .. m /\ j \in 1 .. m
      BY <1>0, <1>1, <1>7, <2>1
    <3> QED BY <1>3, <1>7, <3>1
  <2>2. CASE i <= m /\ j > m
    <3>1. r[i] = q[i] /\ r[j] = p[j - m] /\ i \in 1 .. m /\ j - m \in 1 .. n
      BY <1>0, <1>1, <2>2
    <3> QED BY <1>2, <3>1
  <2>3. CASE i > m
    <3>1. /\ r[i] = p[i - m] /\ r[j] = p[j - m]
          /\ i - m \in 1 .. n /\ j - m \in 1 .. n /\ i - m < j - m
      BY <1>0, <1>1, <1>7, <2>3
    <3> QED BY <1>4, <3>1
  <2> QED BY <1>0, <1>7, <2>1, <2>2, <2>3
<1>8. IF m + n = 0 THEN a = c ELSE Abs(r[1]) = a /\ AbsEnd(r[m + n]) = c
  <2>1. CASE n = 0
    BY <1>0, <1>1, <1>3, <1>4, <2>1
  <2>2. CASE m = 0 /\ n > 0
    BY <1>0, <1>1, <1>3, <1>4, <2>2
  <2>3. CASE m > 0 /\ n > 0
    <3>1. r[1] = q[1] /\ r[m + n] = p[n]
      BY <1>0, <1>1, <2>3
    <3> QED BY <1>0, <1>3, <1>4, <2>3, <3>1
  <2> QED BY <1>0, <2>1, <2>2, <2>3
<1>9. Len(r) = m + n
  BY <1>1
<1>10. \A i \in 1 .. Len(r) : sequence_length(r[i]) > 0
  BY <1>5, <1>9
<1>11. ASSUME NEW i \in 1 .. (Len(r) - 1) PROVE AbsEnd(r[i]) = Abs(r[i + 1])
  <2>1. i \in 1 .. (m + n - 1)
    BY <1>0, <1>9
  <2> QED BY <1>6, <2>1
<1>12. \A i, j \in 1 .. Len(r) : i < j => AbsEnd(r[i]) <= Abs(r[j])
  BY <1>7, <1>9
<1>13. IF Len(r) = 0 THEN a = c ELSE Abs(r[1]) = a /\ AbsEnd(r[Len(r)]) = c
  BY <1>8, <1>9
<1>14. Covers(r, a, c)
  BY <1>10, <1>11, <1>12, <1>13, Zenon DEF Covers
<1> QED BY <1>14 DEF r

LEMMA CoversSuffix ==
    ASSUME NEW q \in Seq(MessageType), NEW a \in Int, NEW b \in Int,
           NEW k \in 0 .. Len(q), Covers(q, a, b)
    PROVE  /\ SubSeq(q, k + 1, Len(q)) \in Seq(MessageType)
           /\ Covers(SubSeq(q, k + 1, Len(q)), IF k = 0 THEN a ELSE AbsEnd(q[k]), b)
<1> DEFINE n == Len(q)
           t == SubSeq(q, k + 1, n)
           from == IF k = 0 THEN a ELSE AbsEnd(q[k])
<1>0. n \in Nat /\ k \in Nat /\ k <= n
  OBVIOUS
<1>1. \A i \in (k + 1) .. n : q[i] \in MessageType
  BY <1>0, ElementOfSeq
<1>2. /\ t \in Seq(MessageType) /\ Len(t) = n - k
      /\ \A i \in 1 .. (n - k) : t[i] = q[k + i]
  <2>1. /\ t \in Seq(MessageType)
        /\ Len(t) = IF k + 1 <= n THEN n - (k + 1) + 1 ELSE 0
        /\ \A i \in 1 .. n - (k + 1) + 1 : t[i] = q[(k + 1) + i - 1]
    BY <1>0, <1>1, SubSeqProperties
  <2> HIDE DEF t
  <2>2. ASSUME NEW i \in 1 .. (n - k) PROVE t[i] = q[k + i]
    <3>1. i \in 1 .. n - (k + 1) + 1 /\ (k + 1) + i - 1 = k + i
      BY <1>0
    <3> QED BY <2>1, <3>1
  <2> QED BY <1>0, <2>1, <2>2
<1>3. /\ \A i \in 1 .. n : sequence_length(q[i]) > 0
      /\ \A i \in 1 .. (n - 1) : AbsEnd(q[i]) = Abs(q[i + 1])
      /\ \A i, j \in 1 .. n : i < j => AbsEnd(q[i]) <= Abs(q[j])
      /\ IF n = 0 THEN a = b ELSE Abs(q[1]) = a /\ AbsEnd(q[n]) = b
  BY DEF Covers
<1> HIDE DEF n, t
<1>4. \A i \in 1 .. (n - k) : sequence_length(t[i]) > 0
  BY <1>0, <1>2, <1>3
<1>5. ASSUME NEW i \in 1 .. (n - k - 1) PROVE AbsEnd(t[i]) = Abs(t[i + 1])
  <2>1. t[i] = q[k + i] /\ t[i + 1] = q[(k + i) + 1] /\ k + i \in 1 .. (n - 1)
    BY <1>0, <1>2
  <2> QED BY <1>3, <2>1
<1>6. ASSUME NEW i \in 1 .. (n - k), NEW j \in 1 .. (n - k), i < j
      PROVE  AbsEnd(t[i]) <= Abs(t[j])
  <2>1. /\ t[i] = q[k + i] /\ t[j] = q[k + j]
        /\ k + i \in 1 .. n /\ k + j \in 1 .. n /\ k + i < k + j
    BY <1>0, <1>2, <1>6
  <2> QED BY <1>3, <2>1
<1>7. IF n - k = 0 THEN from = b ELSE Abs(t[1]) = from /\ AbsEnd(t[n - k]) = b
  <2>1. CASE n - k = 0
    BY <1>0, <1>3, <2>1
  <2>2. CASE n - k > 0
    <3>1. t[1] = q[k + 1] /\ t[n - k] = q[n]
      BY <1>0, <1>2, <2>2
    <3>2. k > 0 => AbsEnd(q[k]) = Abs(q[k + 1])
      BY <1>0, <1>3, <2>2
    <3> QED BY <1>0, <1>3, <2>2, <3>1, <3>2
  <2> QED BY <1>0, <2>1, <2>2
<1> QED BY <1>0, <1>2, <1>4, <1>5, <1>6, <1>7 DEF Covers, t, n

-----------------------------------------------------------------------------
\* push

\* The cut of b bytes into ((b - 1) \div MaxPayload) + 1 messages: every
\* message but the last is full, and the last is not empty.
LEMMA Cut ==
    ASSUME NEW b \in Nat, b > 0, NEW n, n = ((b - 1) \div MaxPayload) + 1
    PROVE  /\ n \in Nat /\ n > 0
           /\ \A i \in 1 .. n : (i - 1) * MaxPayload \in Nat /\ (i - 1) * MaxPayload < b
           /\ \A i, j \in 1 .. n : i < j => ((i - 1) * MaxPayload) + MaxPayload <= (j - 1) * MaxPayload
           /\ \A i \in 1 .. (n - 1) : ((i + 1) - 1) * MaxPayload = ((i - 1) * MaxPayload) + MaxPayload
           /\ b - ((n - 1) * MaxPayload) <= MaxPayload
<1> DEFINE P == MaxPayload
           q == (b - 1) \div P
<1>0. P \in Nat /\ P > 0
  BY PayloadAssumption
<1>1. q \in Int /\ P * q <= b - 1 /\ b - 1 < (P * q) + P
  BY <1>0
<1>2. q >= 0
  BY <1>0, <1>1
<1> HIDE DEF q, P
<1>3. n = q + 1 /\ n \in Nat /\ n > 0
  BY <1>1, <1>2 DEF q, P
<1>4. ASSUME NEW i \in 1 .. n
      PROVE  (i - 1) * P \in Nat /\ (i - 1) * P < b
  <2>1. (i - 1) * P <= P * q
    BY <1>0, <1>1, <1>2, <1>3
  <2> QED BY <1>0, <1>1, <1>3, <2>1
<1>5. ASSUME NEW i \in 1 .. n, NEW j \in 1 .. n, i < j
      PROVE  ((i - 1) * P) + P <= (j - 1) * P
  BY <1>0, <1>3, <1>5
<1>6. \A i \in 1 .. (n - 1) : ((i + 1) - 1) * P = ((i - 1) * P) + P
  BY <1>0, <1>3
<1>7. b - ((n - 1) * P) <= P
  BY <1>0, <1>1, <1>3
<1> QED BY <1>3, <1>4, <1>5, <1>6, <1>7 DEF P
\* How much a push takes, and that it fits the window.
LEMMA PushFits ==
    ASSUME IInv, CanPush(snd)
    PROVE  /\ Room(snd) \in Nat /\ Room(snd) > 0
           /\ snd.seqnums_in_flight_ + Room(snd) = Usable(snd.window_size_)
           /\ Usable(snd.window_size_) <= LargestWindow
           /\ Bytes(snd, outbound) \in Nat
           /\ Bytes(snd, outbound) <= Buffered(outbound)
           /\ Finishes(snd, outbound) \in BOOLEAN
           /\ SeqnumsPushed(snd, outbound) \in Nat
           /\ SeqnumsPushed(snd, outbound) <= Room(snd)
<1> DEFINE y == One(~snd.syn_)
           b == Bytes(snd, outbound)
           f == Finishes(snd, outbound)
<1> USE SenderAssumption
<1>0. TypeOK
  BY DEF IInv
<1>1. /\ snd.window_size_ \in Nat /\ snd.window_size_ <= LargestWindow
      /\ snd.seqnums_in_flight_ \in Nat
      /\ Buffered(outbound) \in Nat
  BY <1>0, Fields
<1>2. /\ Room(snd) \in Nat /\ Room(snd) > 0
      /\ snd.seqnums_in_flight_ + Room(snd) = Usable(snd.window_size_)
      /\ Usable(snd.window_size_) <= LargestWindow
  BY <1>1 DEF CanPush, Room, Usable
<1>3. y \in 0 .. 1
  BY OneType
<1> HIDE DEF y
<1>4. b \in Nat /\ b <= Buffered(outbound) /\ b <= Room(snd) - y
  BY <1>1, <1>2, <1>3 DEF Bytes, AtMost, y
<1>5. f \in BOOLEAN /\ (f => b < Room(snd) - y)
  BY DEF Finishes, y
<1> HIDE DEF b, f
<1>6. One(f) \in 0 .. 1 /\ (One(f) = 1 => f)
  BY <1>5 DEF One
<1>7. y + b + One(f) \in Nat /\ y + b + One(f) <= Room(snd)
  BY <1>2, <1>3, <1>4, <1>5, <1>6
<1> QED BY <1>2, <1>4, <1>5, <1>7 DEF SeqnumsPushed, y, b, f

\* The messages of a push: they take up where the outstanding ones end, follow
\* each other without a gap, and carry the bytes their numbers stand for.
LEMMA PushedMessages ==
    ASSUME IInv, CanPush(snd),
           NEW p, p = Pushed(snd, outbound),
           NEW n, n = Count(snd, outbound),
           NEW b, b = Bytes(snd, outbound)
    PROVE  /\ n \in Nat /\ p \in Seq(MessageType) /\ Len(p) = n
           /\ n = 0 => SeqnumsPushed(snd, outbound) = 0
           /\ n > 0 => /\ Abs(p[1]) = snd.seqnums_sent_
                       /\ AbsEnd(p[n]) = snd.seqnums_sent_ + SeqnumsPushed(snd, outbound)
                       /\ ~snd.fin_
           /\ \A i \in 1 .. n :
                /\ Abs(p[i]) \in Nat /\ AbsEnd(p[i]) \in Nat
                /\ snd.seqnums_sent_ <= Abs(p[i])
                /\ sequence_length(p[i]) > 0
                /\ p[i].seqno = Wrap(Abs(p[i]), Isn)
                /\ p[i].first + p[i].len <= outbound.popped + b
                /\ p[i].SYN => p[i].first = 0
                /\ p[i].FIN => /\ Finishes(snd, outbound)
                               /\ p[i].first + p[i].len = outbound.popped + b
           /\ \A i \in 1 .. (n - 1) : AbsEnd(p[i]) = Abs(p[i + 1])
           /\ \A i, j \in 1 .. n : i < j => AbsEnd(p[i]) <= Abs(p[j])
<1> DEFINE P == MaxPayload
           f == Finishes(snd, outbound)
           skip(i) == (i - 1) * P
           syn(i) == i = 1 /\ ~snd.syn_
           fin(i) == i = n /\ f
           at(i) == snd.seqnums_sent_ + (IF i = 1 THEN 0 ELSE One(~snd.syn_)) + skip(i)
           msg(i) == Message(Wrap(at(i), Isn), syn(i), outbound.popped + skip(i),
                             AtMost(b - skip(i), P), fin(i))
<1> USE SenderAssumption
<1>0. /\ TypeOK /\ P \in Nat /\ P > 0
      /\ snd.isn_ = Isn /\ Isn \in Raw /\ Isn \in Int
      /\ snd.syn_ \in BOOLEAN /\ snd.fin_ \in BOOLEAN
      /\ snd.seqnums_sent_ \in Nat /\ outbound.popped \in Nat
  BY Fields, PayloadAssumption, ModulusAssumption DEF IInv, Raw
<1>1. b \in Nat /\ b <= Buffered(outbound) /\ f \in BOOLEAN
  BY PushFits
<1>2. /\ snd.seqnums_sent_ = IF snd.syn_ THEN 1 + outbound.popped + One(snd.fin_) ELSE 0
      /\ ~snd.syn_ => outbound.popped = 0
      /\ snd.fin_ => snd.syn_ /\ Buffered(outbound) = 0
  BY DEF IInv, MessagesFollowStream
<1>3. SeqnumsPushed(snd, outbound) = One(~snd.syn_) + b + One(f)
  BY DEF SeqnumsPushed
<1>4. n = IF b > 0 THEN ((b - 1) \div P) + 1 ELSE One(~snd.syn_ \/ f)
  BY DEF Count
<1>5. f => ~snd.fin_
  BY DEF Finishes
<1> HIDE DEF P, f
<1>6. /\ n \in Nat
      /\ n = 0 => b = 0 /\ snd.syn_ /\ ~f
      /\ n > 0 /\ b = 0 => n = 1 /\ (~snd.syn_ \/ f)
  <2>1. CASE b > 0
    <3>1. n = ((b - 1) \div MaxPayload) + 1
      BY <1>4, <2>1 DEF P
    <3>2. n \in Nat /\ n > 0
      BY <1>1, <2>1, <3>1, Cut
    <3> QED BY <2>1, <3>2
  <2>2. CASE b = 0
    BY <1>0, <1>1, <1>4, <2>2 DEF One
  <2> QED BY <1>1, <2>1, <2>2
<1>7. /\ \A i \in 1 .. n : skip(i) \in Nat /\ skip(i) <= b /\ (b > 0 => skip(i) < b)
      /\ \A i, j \in 1 .. n : i < j => skip(i) + P <= skip(j)
      /\ \A i \in 1 .. (n - 1) : skip(i + 1) = skip(i) + P
      /\ n > 0 => b - skip(n) <= P
  <2>1. CASE b > 0
    BY <1>1, <1>4, <2>1, Cut DEF P
  <2>2. CASE b = 0
    BY <1>0, <1>6, <2>2
  <2> QED BY <1>1, <2>1, <2>2
<1>8. n > 0 => ~snd.fin_
  <2>1. snd.fin_ => b = 0 /\ snd.syn_ /\ ~f
    BY <1>1, <1>2, <1>5
  <2> QED BY <1>6, <2>1
<1>9. n > 0 => snd.seqnums_sent_ = (IF snd.syn_ THEN 1 ELSE 0) + outbound.popped
  BY <1>0, <1>2, <1>8 DEF One
<1>10. skip(1) = 0
  BY <1>0
<1>11. p = [i \in 1 .. n |-> msg(i)]
  BY <1>0 DEF Pushed, P, f
<1> HIDE DEF skip
<1>12. ASSUME NEW i \in 1 .. n
       PROVE  /\ i \in Nat
              /\ at(i) \in Nat
              /\ at(i) = IF syn(i) THEN 0 ELSE outbound.popped + skip(i) + 1
              /\ AtMost(b - skip(i), P) \in Nat
              /\ skip(i) + AtMost(b - skip(i), P) <= b
              /\ b > 0 => AtMost(b - skip(i), P) > 0
              /\ i < n => AtMost(b - skip(i), P) = P
              /\ i = n => skip(i) + AtMost(b - skip(i), P) = b
  <2>1. i \in Nat /\ n > 0 /\ skip(i) \in Nat /\ skip(i) <= b /\ (b > 0 => skip(i) < b)
    BY <1>6, <1>7
  <2>2. /\ at(i) \in Nat
        /\ at(i) = IF syn(i) THEN 0 ELSE outbound.popped + skip(i) + 1
    BY <1>0, <1>2, <1>9, <1>10, <2>1 DEF One
  <2>3. i < n => skip(i) + P <= b
    BY <1>0, <1>1, <1>6, <1>7, <2>1
  <2> QED BY <1>0, <1>1, <1>7, <2>1, <2>2, <2>3 DEF AtMost
<1>13. ASSUME NEW i \in 1 .. n
       PROVE  /\ msg(i) \in MessageType
              /\ msg(i).seqno = Wrap(at(i), Isn)
              /\ msg(i).SYN = syn(i)
              /\ msg(i).first = outbound.popped + skip(i)
              /\ msg(i).len = AtMost(b - skip(i), P)
              /\ msg(i).FIN = fin(i)
  <2>1. Wrap(at(i), Isn) \in Raw
    BY <1>0, <1>12, WrapType
  <2>2. syn(i) \in BOOLEAN /\ fin(i) \in BOOLEAN
    OBVIOUS
  <2>3. outbound.popped + skip(i) \in Nat /\ AtMost(b - skip(i), P) \in Nat
    BY <1>0, <1>7, <1>12
  <2> HIDE DEF at, syn, fin
  <2> QED BY <2>1, <2>2, <2>3 DEF Message, MessageType
<1> HIDE DEF at, msg, syn, fin
<1>14. p \in Seq(MessageType) /\ Len(p) = n
  BY <1>6, <1>11, <1>13
<1>15. \A i \in 1 .. n : p[i] = msg(i)
  BY <1>11
<1>16. ASSUME NEW i \in 1 .. n
       PROVE  /\ Abs(p[i]) = at(i)
              /\ sequence_length(p[i]) = One(syn(i)) + AtMost(b - skip(i), P) + One(fin(i))
  <2>1. at(i) = IF syn(i) THEN 0 ELSE outbound.popped + skip(i) + 1
    BY <1>12
  <2> QED BY <1>13, <1>15, <2>1 DEF Abs, sequence_length
<1>17. ASSUME NEW i \in 1 .. n
       PROVE  /\ Abs(p[i]) \in Nat /\ AbsEnd(p[i]) \in Nat
              /\ sequence_length(p[i]) > 0
              /\ snd.seqnums_sent_ <= Abs(p[i])
              /\ i = 1 => Abs(p[i]) = snd.seqnums_sent_
              /\ i < n => AbsEnd(p[i]) = Abs(p[i + 1])
              /\ i = n => AbsEnd(p[i]) = snd.seqnums_sent_ + SeqnumsPushed(snd, outbound)
  <2>0. /\ n \in Nat /\ n > 0 /\ i \in Nat /\ skip(i) \in Nat
        /\ AtMost(b - skip(i), P) \in Nat
        /\ at(i) \in Nat
        /\ at(i) = IF syn(i) THEN 0 ELSE outbound.popped + skip(i) + 1
    BY <1>6, <1>7, <1>12
  <2>1. /\ Abs(p[i]) = at(i)
        /\ AbsEnd(p[i]) = at(i) + One(syn(i)) + AtMost(b - skip(i), P) + One(fin(i))
        /\ sequence_length(p[i]) = One(syn(i)) + AtMost(b - skip(i), P) + One(fin(i))
    <3>1. One(syn(i)) \in 0 .. 1 /\ One(fin(i)) \in 0 .. 1
      BY OneType DEF syn, fin
    <3> QED BY <1>16, <2>0, <3>1 DEF AbsEnd
  <2>2. /\ One(syn(i)) = IF syn(i) THEN 1 ELSE 0
        /\ One(fin(i)) = IF fin(i) THEN 1 ELSE 0
        /\ One(f) = IF f THEN 1 ELSE 0
        /\ One(~snd.syn_) = IF snd.syn_ THEN 0 ELSE 1
    BY <1>0 DEF One
  <2>3. /\ syn(i) <=> (i = 1 /\ ~snd.syn_)
        /\ fin(i) <=> (i = n /\ f)
        /\ syn(i) => outbound.popped = 0
    BY <1>2 DEF syn, fin
  <2>4. snd.seqnums_sent_ = (IF snd.syn_ THEN 1 ELSE 0) + outbound.popped
    BY <1>9, <2>0
  <2>5. sequence_length(p[i]) > 0
    BY <1>0, <1>1, <1>6, <1>12, <2>0, <2>1, <2>2, <2>3
  <2>6. snd.seqnums_sent_ <= at(i)
    <3>1. CASE syn(i)
      BY <1>0, <2>0, <2>3, <2>4, <3>1
    <3>2. CASE ~syn(i)
      BY <1>0, <2>0, <2>4, <3>2
    <3> QED BY <3>1, <3>2
  <2>7. i = 1 => at(i) = snd.seqnums_sent_
    <3>1. CASE snd.syn_
      BY <1>0, <1>10, <2>0, <2>3, <2>4, <3>1
    <3>2. CASE ~snd.syn_
      BY <1>0, <1>2, <2>0, <2>3, <2>4, <3>2
    <3> QED BY <3>1, <3>2
  <2>8. ASSUME i < n PROVE AbsEnd(p[i]) = Abs(p[i + 1])
    <3>1. i + 1 \in 1 .. n /\ i \in 1 .. (n - 1)
      BY <2>0, <2>8
    <3>2. /\ Abs(p[i + 1]) = at(i + 1)
          /\ at(i + 1) = IF syn(i + 1) THEN 0 ELSE outbound.popped + skip(i + 1) + 1
      BY <1>12, <1>16, <3>1
    <3>3. ~syn(i + 1)
      BY <2>0 DEF syn
    <3>4. skip(i + 1) = skip(i) + P
      BY <1>7, <3>1
    <3>5. AtMost(b - skip(i), P) = P
      BY <1>12, <2>8
    <3>6. syn(i) => skip(i) = 0 /\ outbound.popped = 0
      BY <1>2, <1>10, <2>3
    <3> QED BY <1>0, <2>0, <2>1, <2>2, <2>3, <2>8, <3>2, <3>3, <3>4, <3>5, <3>6
  <2>9. ASSUME i = n
        PROVE  AbsEnd(p[i]) = snd.seqnums_sent_ + SeqnumsPushed(snd, outbound)
    <3>1. skip(i) + AtMost(b - skip(i), P) = b
      BY <1>12, <2>9
    <3>2. syn(i) => skip(i) = 0 /\ outbound.popped = 0
      BY <1>2, <1>10, <2>3
    <3> QED BY <1>0, <1>1, <1>3, <2>0, <2>1, <2>2, <2>3, <2>4, <2>9, <3>1, <3>2
  <2> QED BY <1>0, <1>3, <2>0, <2>1, <2>2, <2>5, <2>6, <2>7, <2>8, <2>9
<1>18. ASSUME NEW i \in 1 .. n
       PROVE  /\ p[i].seqno = Wrap(Abs(p[i]), Isn)
              /\ p[i].first + p[i].len <= outbound.popped + b
              /\ p[i].SYN => p[i].first = 0
              /\ p[i].FIN => f /\ p[i].first + p[i].len = outbound.popped + b
  <2>1. /\ p[i].seqno = Wrap(Abs(p[i]), Isn)
        /\ p[i].SYN = syn(i) /\ p[i].FIN = fin(i)
        /\ p[i].first = outbound.popped + skip(i)
        /\ p[i].len = AtMost(b - skip(i), P)
    BY <1>13, <1>15, <1>16
  <2>2. /\ skip(i) \in Nat /\ AtMost(b - skip(i), P) \in Nat
        /\ skip(i) + AtMost(b - skip(i), P) <= b
        /\ i = n => skip(i) + AtMost(b - skip(i), P) = b
    BY <1>7, <1>12
  <2>3. /\ syn(i) => skip(i) = 0 /\ outbound.popped = 0
        /\ fin(i) => i = n /\ f
    BY <1>2, <1>10 DEF syn, fin
  <2> QED BY <1>0, <1>1, <2>1, <2>2, <2>3
<1>19. ASSUME NEW i \in 1 .. n, NEW j \in 1 .. n, i < j
       PROVE  AbsEnd(p[i]) <= Abs(p[j])
  <2>1. /\ AbsEnd(p[i]) = Abs(p[i + 1])
        /\ i \in Nat /\ j \in Nat /\ n \in Nat /\ i + 1 \in 1 .. n
    BY <1>6, <1>17, <1>19
  <2>2. /\ Abs(p[i + 1]) = outbound.popped + skip(i + 1) + 1
        /\ Abs(p[j]) = outbound.popped + skip(j) + 1
        /\ skip(i + 1) \in Nat /\ skip(j) \in Nat
    BY <1>7, <1>12, <1>16, <1>19, <2>1 DEF syn
  <2>3. skip(i + 1) <= skip(j)
    <3>1. CASE i + 1 = j
      BY <2>2, <3>1
    <3>2. CASE i + 1 < j
      <4>1. skip(i + 1) + P <= skip(j)
        BY <1>7, <2>1, <3>2
      <4> QED BY <1>0, <2>2, <4>1
    <3> QED BY <1>19, <2>1, <3>1, <3>2
  <2> QED BY <1>0, <2>1, <2>2, <2>3
<1>20. n = 0 => SeqnumsPushed(snd, outbound) = 0
  BY <1>3, <1>6 DEF One
<1>21. n > 0 => 1 \in 1 .. n /\ n \in 1 .. n
  BY <1>6
<1> QED BY <1>6, <1>8, <1>14, <1>17, <1>18, <1>19, <1>20, <1>21 DEF f

LEMMA PushPreserves == IInv /\ push => IInv'
<1> SUFFICES ASSUME IInv, push PROVE IInv'
  OBVIOUS
<1>q. PICK q : q = snd.outstanding_ OBVIOUS
<1>r. PICK r : r = snd.ready_to_send_ OBVIOUS
<1>p. PICK p : p = Pushed(snd, outbound) OBVIOUS
<1>b. PICK b : b = Bytes(snd, outbound) OBVIOUS
<1>f. PICK f : f = Finishes(snd, outbound) OBVIOUS
<1>c. PICK c : c = SeqnumsPushed(snd, outbound) OBVIOUS
<1>n. PICK n : n = Count(snd, outbound) OBVIOUS
<1> USE SenderAssumption
<1>0. /\ TypeOK /\ CanPush(snd)
      /\ snd' = SenderAfterPush(snd, outbound)
      /\ outbound' = PopFrom(outbound, b)
      /\ UNCHANGED timerVars
  BY <1>b DEF IInv, push, StreamAfterPush
<1>1. /\ snd.isn_ = Isn /\ Isn \in Raw
      /\ snd.syn_ \in BOOLEAN /\ snd.fin_ \in BOOLEAN
      /\ snd.seqnums_sent_ \in Nat /\ snd.seqnums_in_flight_ \in Nat
      /\ q \in Seq(MessageType) /\ r \in Seq(MessageType)
      /\ outbound \in StreamType
      /\ outbound.popped \in Nat /\ outbound.pushed \in Nat
      /\ outbound.closed \in BOOLEAN
  BY <1>0, <1>q, <1>r, Fields
<1>2. /\ Room(snd) \in Nat
      /\ snd.seqnums_in_flight_ + Room(snd) = Usable(snd.window_size_)
      /\ Usable(snd.window_size_) <= LargestWindow
      /\ b \in Nat /\ b <= Buffered(outbound)
      /\ f \in BOOLEAN
      /\ c \in Nat /\ c <= Room(snd)
  BY <1>0, <1>b, <1>c, <1>f, PushFits
<1>3. /\ n \in Nat /\ p \in Seq(MessageType) /\ Len(p) = n
      /\ n = 0 => c = 0
      /\ n > 0 => /\ Abs(p[1]) = snd.seqnums_sent_
                  /\ AbsEnd(p[n]) = snd.seqnums_sent_ + c
                  /\ ~snd.fin_
      /\ \A i \in 1 .. n :
           /\ Abs(p[i]) \in Nat /\ AbsEnd(p[i]) \in Nat
           /\ snd.seqnums_sent_ <= Abs(p[i])
           /\ sequence_length(p[i]) > 0
           /\ p[i].seqno = Wrap(Abs(p[i]), Isn)
           /\ p[i].first + p[i].len <= outbound.popped + b
           /\ p[i].SYN => p[i].first = 0
           /\ p[i].FIN => /\ f
                          /\ p[i].first + p[i].len = outbound.popped + b
      /\ \A i \in 1 .. (n - 1) : AbsEnd(p[i]) = Abs(p[i + 1])
      /\ \A i, j \in 1 .. n : i < j => AbsEnd(p[i]) <= Abs(p[j])
  BY <1>0, <1>b, <1>c, <1>f, <1>n, <1>p, PushedMessages
<1>4. f => outbound.closed /\ ~snd.fin_ /\ b = Buffered(outbound)
  BY <1>b, <1>f DEF Finishes
<1>5. c = One(~snd.syn_) + b + One(f)
  BY <1>b, <1>c, <1>f DEF SeqnumsPushed
<1>6. /\ Covers(q, Una, snd.seqnums_sent_)
      /\ snd.seqnums_in_flight_ <= LargestWindow
      /\ snd.seqnums_sent_ = IF snd.syn_ THEN 1 + outbound.popped + One(snd.fin_) ELSE 0
      /\ ~snd.syn_ => outbound.popped = 0
      /\ snd.fin_ => snd.syn_ /\ outbound.closed /\ Buffered(outbound) = 0
      /\ \A i \in 1 .. Len(q) : FollowsStream(q[i])
      /\ \A i \in 1 .. Len(r) : FollowsStream(r[i])
      /\ \A i \in 1 .. Len(r) : \/ \E j \in 1 .. Len(q) : r[i] = q[j]
                               \/ AbsEnd(r[i]) <= Una
  BY <1>q, <1>r DEF IInv, OutstandingIsUnacked, MessagesFollowStream, ReadyIsAccountedFor
<1>7. snd' = [snd EXCEPT !.syn_ = TRUE, !.fin_ = @ \/ f,
                         !.seqnums_sent_ = @ + c,
                         !.seqnums_in_flight_ = @ + c,
                         !.outstanding_ = @ \o p,
                         !.ready_to_send_ = @ \o p]
  BY <1>0, <1>c, <1>f, <1>p DEF SenderAfterPush
<1>8. snd \in SenderType
  BY <1>0 DEF TypeOK
<1>9. /\ q \o p \in Seq(MessageType) /\ Len(q \o p) = Len(q) + Len(p)
      /\ r \o p \in Seq(MessageType) /\ Len(r \o p) = Len(r) + Len(p)
      /\ \A i \in 1 .. Len(q) + Len(p) :
            (q \o p)[i] = IF i <= Len(q) THEN q[i] ELSE p[i - Len(q)]
      /\ \A i \in 1 .. Len(r) + Len(p) :
            (r \o p)[i] = IF i <= Len(r) THEN r[i] ELSE p[i - Len(r)]
  <2>1. p \in Seq(MessageType) /\ q \in Seq(MessageType) /\ r \in Seq(MessageType)
    BY <1>1, <1>3
  <2> QED BY <2>1, ConcatProperties
<1>22. Len(p) = n /\ n \in Nat /\ Len(q) \in Nat /\ Len(r) \in Nat
  BY <1>1, <1>3
<1>23. b \in Nat /\ c \in Nat
  BY <1>2
<1>24. /\ snd.seqnums_sent_ \in Nat /\ snd.seqnums_in_flight_ \in Nat
       /\ outbound.popped \in Nat /\ outbound.pushed \in Nat
       /\ outbound \in StreamType
  BY <1>1
<1>10. /\ snd'.isn_ = Isn /\ snd'.syn_ /\ (snd'.fin_ <=> (snd.fin_ \/ f))
       /\ snd'.window_size_ = snd.window_size_
       /\ snd'.seqnums_sent_ = snd.seqnums_sent_ + c
       /\ snd'.seqnums_in_flight_ = snd.seqnums_in_flight_ + c
       /\ snd'.outstanding_ = q \o p /\ snd'.ready_to_send_ = r \o p
  BY <1>1, <1>7, <1>8, <1>q, <1>r DEF SenderType
<1>11. snd' \in SenderType
  <2> DEFINE syn == TRUE
             fin == snd.fin_ \/ f
             sent == snd.seqnums_sent_ + c
             flight == snd.seqnums_in_flight_ + c
             qq == q \o p
             rr == r \o p
  <2>1. /\ syn \in BOOLEAN /\ fin \in BOOLEAN /\ sent \in Nat /\ flight \in Nat
        /\ qq \in Seq(MessageType) /\ rr \in Seq(MessageType)
    <3>1. fin \in BOOLEAN /\ syn \in BOOLEAN
      OBVIOUS
    <3>2. sent \in Nat /\ flight \in Nat
      BY <1>23, <1>24
    <3> QED BY <1>9, <3>1, <3>2
  <2>2. snd' = [snd EXCEPT !.syn_ = syn, !.fin_ = fin, !.seqnums_sent_ = sent,
                           !.seqnums_in_flight_ = flight,
                           !.outstanding_ = qq, !.ready_to_send_ = rr]
    BY <1>7, <1>q, <1>r
  <2> HIDE DEF syn, fin, sent, flight, qq, rr
  <2> QED BY <1>8, <2>1, <2>2 DEF SenderType
<1>12. /\ outbound'.popped = outbound.popped + b /\ outbound'.pushed = outbound.pushed
       /\ outbound'.closed = outbound.closed
       /\ Buffered(outbound') = Buffered(outbound) - b
       /\ StreamOK(outbound')
  <2>1. /\ outbound.capacity \in Nat /\ outbound.pushed <= outbound.popped + outbound.capacity
        /\ outbound.popped + b <= outbound.pushed
    BY <1>0, <1>1, <1>2 DEF StreamOK, StreamType, Buffered, TypeOK
  <2>2. outbound' = [outbound EXCEPT !.popped = @ + b]
    BY <1>0 DEF PopFrom
  <2>3. /\ outbound'.popped = outbound.popped + b /\ outbound'.pushed = outbound.pushed
        /\ outbound'.closed = outbound.closed /\ outbound'.capacity = outbound.capacity
        /\ outbound' \in StreamType
    <3>1. outbound.popped + b \in Nat
      BY <1>23, <1>24
    <3> QED BY <1>24, <2>2, <3>1 DEF StreamType
  <2>4. /\ outbound'.popped <= outbound'.pushed
        /\ outbound'.pushed <= outbound'.popped + outbound'.capacity
    BY <1>23, <1>24, <2>1, <2>3
  <2>5. Buffered(outbound') = Buffered(outbound) - b
    BY <1>23, <1>24, <2>3 DEF Buffered
  <2> QED BY <2>3, <2>4, <2>5 DEF StreamOK
<1>13. TypeOK'
  BY <1>0, <1>10, <1>11, <1>12 DEF TypeOK, timerVars
<1>14. OutstandingIsUnacked'
  <2>1. Covers(p, snd.seqnums_sent_, snd.seqnums_sent_ + c)
    BY <1>1, <1>2, <1>3 DEF Covers
  <2>2. Una \in Int
    BY <1>1 DEF Una
  <2>3. Covers(q \o p, Una, snd.seqnums_sent_ + c)
    BY <1>1, <1>2, <1>3, <1>6, <2>1, <2>2, CoversConcat
  <2>4. Una' = Una
    BY <1>1, <1>2, <1>10 DEF Una
  <2>5. snd'.seqnums_in_flight_ <= LargestWindow
    BY <1>1, <1>2, <1>10
  <2> QED BY <1>10, <2>3, <2>4, <2>5 DEF OutstandingIsUnacked
<1>15. ASSUME NEW m \in MessageType, FollowsStream(m)
       PROVE  FollowsStream(m)'
  <2>1. /\ m.first \in Nat /\ m.len \in Nat
        /\ m.seqno = Wrap(Abs(m), Isn)
        /\ m.first + m.len <= outbound.popped
        /\ m.SYN => m.first = 0
        /\ m.FIN => snd.fin_ /\ m.first + m.len = outbound.popped
    BY <1>1, <1>15 DEF FollowsStream, MessageType
  <2>2. snd.fin_ => b = 0
    BY <1>2, <1>6
  <2>3. m.seqno = Wrap(Abs(m), snd'.isn_)
    BY <1>10, <2>1
  <2>4. m.first + m.len <= outbound'.popped
    BY <1>12, <1>23, <1>24, <2>1
  <2>5. m.FIN => snd'.fin_ /\ m.first + m.len = outbound'.popped
    <3>1. m.FIN => outbound'.popped = outbound.popped
      BY <1>12, <1>24, <2>1, <2>2
    <3> QED BY <1>10, <2>1, <3>1
  <2> QED BY <2>1, <2>3, <2>4, <2>5 DEF FollowsStream
<1>16. ASSUME NEW i \in 1 .. Len(p)
       PROVE  FollowsStream(p[i])'
  <2> DEFINE m == p[i]
  <2>1. /\ m.seqno = Wrap(Abs(m), Isn)
        /\ m.first + m.len <= outbound.popped + b
        /\ m.SYN => m.first = 0
        /\ m.FIN => f /\ m.first + m.len = outbound.popped + b
    BY <1>3, <1>22
  <2> HIDE DEF m
  <2>2. FollowsStream(m)'
    BY <1>10, <1>12, <2>1 DEF FollowsStream
  <2> QED BY <2>2 DEF m
<1>17. ASSUME NEW s \in Seq(MessageType), \A i \in 1 .. Len(s) : FollowsStream(s[i]),
              NEW i \in 1 .. Len(s \o p)
       PROVE  FollowsStream((s \o p)[i])'
  <2>1. /\ Len(s \o p) = Len(s) + Len(p)
        /\ (s \o p)[i] = IF i <= Len(s) THEN s[i] ELSE p[i - Len(s)]
        /\ Len(s) \in Nat /\ Len(p) \in Nat /\ i \in Nat /\ i >= 1
    <3>1. p \in Seq(MessageType)
      BY <1>3
    <3>2. Len(s \o p) = Len(s) + Len(p) /\ Len(s) \in Nat /\ Len(p) \in Nat
      <4>1. Len(s \o p) = Len(s) + Len(p)
        BY <1>17, <3>1, ConcatProperties
      <4>2. Len(s) \in Nat /\ Len(p) \in Nat
        BY <1>17, <3>1, LenProperties
      <4> QED BY <4>1, <4>2
    <3> QED BY <3>1, <3>2, ConcatProperties
  <2>2. CASE i <= Len(s)
    <3>1. i \in 1 .. Len(s) /\ s[i] \in MessageType
      BY <2>1, <2>2, ElementOfSeq
    <3> QED BY <1>15, <1>17, <2>1, <2>2, <3>1
  <2>3. CASE i > Len(s)
    <3>1. i - Len(s) \in 1 .. Len(p)
      BY <2>1, <2>3
    <3> QED BY <1>16, <2>1, <2>3, <3>1
  <2> QED BY <2>1, <2>2, <2>3
<1>18. MessagesFollowStream'
  <2>1. snd'.seqnums_sent_ = 1 + outbound'.popped + One(snd'.fin_)
    <3>1. CASE snd.syn_ /\ f
      <4>1. One(snd.fin_) = 0 /\ One(~snd.syn_) = 0 /\ One(f) = 1 /\ One(snd'.fin_) = 1
        BY <1>4, <1>10, <3>1 DEF One
      <4>2. snd.seqnums_sent_ = 1 + outbound.popped + One(snd.fin_)
        BY <1>6, <3>1
      <4>3. c = b + 1
        BY <1>2, <1>5, <4>1
      <4>4. snd.seqnums_sent_ = 1 + outbound.popped
        BY <1>1, <4>1, <4>2
      <4>5. snd'.seqnums_sent_ = 1 + outbound'.popped + 1
        <5>1. snd'.seqnums_sent_ = snd.seqnums_sent_ + c
          BY <1>10
        <5>2. outbound'.popped = outbound.popped + b
          BY <1>12
        <5>3. outbound.popped \in Nat /\ b \in Nat
          BY <1>1, <1>2
        <5> QED BY <4>3, <4>4, <5>1, <5>2, <5>3
      <4> QED BY <4>1, <4>5
    <3>2. CASE snd.syn_ /\ ~f
      <4>1. One(~snd.syn_) = 0 /\ One(f) = 0 /\ One(snd'.fin_) = One(snd.fin_)
        BY <1>10, <3>2 DEF One
      <4>2. snd.seqnums_sent_ = 1 + outbound.popped + One(snd.fin_)
        BY <1>6, <3>2
      <4>3. One(snd.fin_) \in 0 .. 1
        BY <1>1, OneType
      <4> QED BY <1>1, <1>2, <1>5, <1>10, <1>12, <4>1, <4>2, <4>3, SMTT(30)
    <3>3. CASE ~snd.syn_
      BY <1>1, <1>2, <1>4, <1>5, <1>6, <1>10, <1>12, <3>3, SMTT(30) DEF One
    <3> QED BY <3>1, <3>2, <3>3
  <2>2. snd'.fin_ => outbound'.closed /\ Buffered(outbound') = 0
    BY <1>1, <1>2, <1>4, <1>6, <1>10, <1>12 DEF Buffered
  <2>3. \A i \in 1 .. Len(q \o p) : FollowsStream((q \o p)[i])'
    BY <1>1, <1>6, <1>17
  <2>4. \A i \in 1 .. Len(r \o p) : FollowsStream((r \o p)[i])'
    BY <1>1, <1>6, <1>17
  <2> QED BY <1>10, <2>1, <2>2, <2>3, <2>4 DEF MessagesFollowStream
<1>19. ASSUME NEW i \in 1 .. Len(r \o p)
       PROVE  \/ \E j \in 1 .. Len(q \o p) : (r \o p)[i] = (q \o p)[j]
              \/ AbsEnd((r \o p)[i]) <= Una
  <2>1. /\ Len(r) \in Nat /\ Len(q) \in Nat /\ Len(p) \in Nat
        /\ i \in 1 .. Len(r) + Len(p)
    BY <1>1, <1>3, <1>9
  <2>2. CASE i <= Len(r)
    <3>1. i \in 1 .. Len(r) /\ (r \o p)[i] = r[i]
      BY <1>9, <2>1, <2>2
    <3>2. CASE AbsEnd(r[i]) <= Una
      BY <3>1, <3>2
    <3>3. CASE \E j \in 1 .. Len(q) : r[i] = q[j]
      <4>1. PICK j \in 1 .. Len(q) : r[i] = q[j]
        BY <3>3
      <4>2. j \in 1 .. Len(q \o p) /\ (q \o p)[j] = q[j]
        BY <1>9, <2>1
      <4> QED BY <3>1, <4>1, <4>2
    <3> QED BY <1>6, <3>1, <3>2, <3>3
  <2>3. CASE i > Len(r)
    <3> DEFINE j == Len(q) + (i - Len(r))
    <3>1. (r \o p)[i] = p[i - Len(r)]
      BY <1>9, <2>1, <2>3
    <3>2. /\ j \in 1 .. Len(q) + Len(p) /\ j > Len(q)
          /\ j - Len(q) = i - Len(r)
      BY <2>1, <2>3
    <3>3. (q \o p)[j] = p[i - Len(r)]
      BY <1>9, <2>1, <3>2
    <3> QED BY <1>9, <3>1, <3>2, <3>3
  <2> QED BY <2>1, <2>2, <2>3
<1>20. Una' = Una
  BY <1>1, <1>2, <1>10 DEF Una
<1>21. ReadyIsAccountedFor'
  BY <1>10, <1>19, <1>20 DEF ReadyIsAccountedFor
<1> QED BY <1>13, <1>14, <1>18, <1>21 DEF IInv
-----------------------------------------------------------------------------
\* The steps that leave the numbers and the messages alone

LEMMA FollowsKept ==
    ASSUME snd'.isn_ = snd.isn_, snd'.fin_ = snd.fin_,
           outbound'.popped = outbound.popped,
           NEW m, FollowsStream(m)
    PROVE  FollowsStream(m)'
  BY DEF FollowsStream

LEMMA QuietPreserves ==
    ASSUME IInv, snd' \in SenderType, StreamOK(outbound'),
           snd'.isn_ = snd.isn_, snd'.syn_ = snd.syn_, snd'.fin_ = snd.fin_,
           snd'.seqnums_sent_ = snd.seqnums_sent_,
           snd'.seqnums_in_flight_ = snd.seqnums_in_flight_,
           snd'.outstanding_ = snd.outstanding_,
           snd'.ready_to_send_ = snd.ready_to_send_,
           outbound'.popped = outbound.popped,
           snd.fin_ => outbound'.closed /\ Buffered(outbound') = 0,
           rto_' \in Nat, time_passage_' \in Nat, retransmissions_' \in Nat
    PROVE  IInv'
<1>1. TypeOK'
  BY DEF IInv, TypeOK
<1>2. Una' = Una
  BY DEF Una
<1>3. OutstandingIsUnacked'
  BY <1>2 DEF IInv, OutstandingIsUnacked
<1>4. PICK q : q = snd.outstanding_
  OBVIOUS
<1>5. PICK r : r = snd.ready_to_send_
  OBVIOUS
<1>6. \A i \in 1 .. Len(q) : FollowsStream(q[i])'
  BY <1>4, FollowsKept DEF IInv, MessagesFollowStream
<1>7. \A i \in 1 .. Len(r) : FollowsStream(r[i])'
  BY <1>5, FollowsKept DEF IInv, MessagesFollowStream
<1>8. /\ snd'.seqnums_sent_ =
           IF snd'.syn_ THEN 1 + outbound'.popped + One(snd'.fin_) ELSE 0
      /\ ~snd'.syn_ => outbound'.popped = 0
      /\ snd'.fin_ => snd'.syn_ /\ outbound'.closed /\ Buffered(outbound') = 0
  BY DEF IInv, MessagesFollowStream
<1>9. MessagesFollowStream'
  BY <1>4, <1>5, <1>6, <1>7, <1>8 DEF MessagesFollowStream
<1>10. ReadyIsAccountedFor'
  BY <1>2 DEF IInv, ReadyIsAccountedFor
<1> QED BY <1>1, <1>3, <1>9, <1>10 DEF IInv

LEMMA WritePreserves ==
    ASSUME IInv, NEW n \in 1 .. Total, write(n)
    PROVE  IInv'
<1> USE SenderAssumption
<1>1. TypeOK /\ snd' = snd /\ snd \in SenderType
      /\ rto_' \in Nat /\ time_passage_' \in Nat /\ retransmissions_' \in Nat
  BY DEF IInv, TypeOK, write, timerVars
<1>2. n \in Nat /\ n <= Available(outbound) /\ ~outbound.closed
  BY DEF write
<1>3. /\ outbound \in StreamType
      /\ outbound.pushed \in Nat /\ outbound.popped \in Nat /\ outbound.capacity \in Nat
      /\ outbound.popped <= outbound.pushed
      /\ outbound.pushed <= outbound.popped + outbound.capacity
  BY <1>1 DEF TypeOK, StreamOK, StreamType
<1>4. outbound' = [outbound EXCEPT !.pushed = @ + n]
  BY <1>2 DEF write, PushTo, Fitting, AtMost
<1>5. outbound.pushed + n <= outbound.popped + outbound.capacity
  BY <1>2, <1>3 DEF Available, Buffered
<1>6. /\ outbound' \in StreamType /\ outbound'.popped = outbound.popped
      /\ outbound'.pushed = outbound.pushed + n
      /\ outbound'.capacity = outbound.capacity
  BY <1>2, <1>3, <1>4 DEF StreamType
<1>7. StreamOK(outbound')
  BY <1>2, <1>3, <1>5, <1>6 DEF StreamOK
<1>8. ~snd.fin_
  BY <1>2 DEF IInv, MessagesFollowStream
<1> QED BY <1>1, <1>6, <1>7, <1>8, QuietPreserves

LEMMA ShutdownPreserves ==
    ASSUME IInv, shutdown
    PROVE  IInv'
<1>1. TypeOK /\ snd' = snd /\ snd \in SenderType
      /\ rto_' \in Nat /\ time_passage_' \in Nat /\ retransmissions_' \in Nat
  BY DEF IInv, TypeOK, shutdown, timerVars
<1>2. /\ StreamOK(outbound') /\ outbound'.popped = outbound.popped
      /\ outbound'.closed /\ Buffered(outbound') = Buffered(outbound)
  <2> DEFINE t == TRUE
  <2>1. t = TRUE
    OBVIOUS
  <2> HIDE DEF t
  <2>2. outbound' = [outbound EXCEPT !.closed = t]
    BY <2>1 DEF shutdown, CloseStream
  <2>3. outbound \in StreamType /\ t \in BOOLEAN
    BY <1>1, <2>1 DEF TypeOK, StreamOK
  <2>4. /\ outbound' \in StreamType /\ outbound'.closed = t
        /\ outbound'.popped = outbound.popped /\ outbound'.pushed = outbound.pushed
        /\ outbound'.capacity = outbound.capacity
    BY <2>2, <2>3 DEF StreamType
  <2>5. StreamOK(outbound)
    BY <1>1 DEF TypeOK
  <2> QED BY <2>1, <2>4, <2>5 DEF StreamOK, Buffered
<1>3. snd.fin_ => Buffered(outbound) = 0
  BY DEF IInv, MessagesFollowStream
<1> QED BY <1>1, <1>2, <1>3, QuietPreserves

LEMMA WindowPreserves ==
    ASSUME IInv, NEW ackno, NEW window \in Windows, receive_window(ackno, window)
    PROVE  IInv'
<1> USE SenderAssumption
<1>1. /\ TypeOK /\ snd \in SenderType /\ outbound' = outbound
      /\ rto_' \in Nat /\ time_passage_' \in Nat /\ retransmissions_' \in Nat
      /\ StreamOK(outbound)
  BY DEF IInv, TypeOK, receive_window, timerVars
<1>2. snd' = [snd EXCEPT !.window_size_ = window] /\ window \in 0 .. LargestWindow
  BY DEF receive_window, SetWindow
<1>3. /\ snd' \in SenderType
      /\ snd'.isn_ = snd.isn_ /\ snd'.syn_ = snd.syn_ /\ snd'.fin_ = snd.fin_
      /\ snd'.seqnums_sent_ = snd.seqnums_sent_
      /\ snd'.seqnums_in_flight_ = snd.seqnums_in_flight_
      /\ snd'.outstanding_ = snd.outstanding_
      /\ snd'.ready_to_send_ = snd.ready_to_send_
  BY <1>1, <1>2 DEF SenderType
<1>4. snd.fin_ => outbound.closed /\ Buffered(outbound) = 0
  BY DEF IInv, MessagesFollowStream
<1> QED BY <1>1, <1>3, <1>4, QuietPreserves

LEMMA TickPreserves ==
    ASSUME IInv, NEW ms \in Ticks, tick_quietly(ms)
    PROVE  IInv'
<1> USE SenderAssumption
<1>1. /\ TypeOK /\ snd \in SenderType /\ snd' = snd /\ outbound' = outbound
      /\ rto_' \in Nat /\ retransmissions_' \in Nat /\ time_passage_ \in Nat
      /\ StreamOK(outbound)
  BY DEF IInv, TypeOK, tick_quietly
<1>2. time_passage_' \in Nat
  BY <1>1 DEF tick_quietly
<1>3. snd.fin_ => outbound.closed /\ Buffered(outbound) = 0
  BY DEF IInv, MessagesFollowStream
<1> QED BY <1>1, <1>2, <1>3, QuietPreserves
-----------------------------------------------------------------------------
\* The steps that change the queues

LEMMA MaybeSendPreserves ==
    ASSUME IInv, maybe_send
    PROVE  IInv'
<1>1. PICK r : r = snd.ready_to_send_
  OBVIOUS
<1>2. PICK q : q = snd.outstanding_
  OBVIOUS
<1>3. /\ TypeOK /\ snd \in SenderType /\ outbound' = outbound
      /\ StreamOK(outbound) /\ snd.isn_ = Isn
      /\ rto_' \in Nat /\ time_passage_' \in Nat /\ retransmissions_' \in Nat
  BY DEF IInv, TypeOK, maybe_send, timerVars
<1>4. /\ snd' = [snd EXCEPT !.ready_to_send_ = Tail(r)] /\ r # <<>>
      /\ r \in Seq(MessageType)
  BY <1>1, <1>3 DEF maybe_send, WithoutNext, HasMessage, SenderType
<1>5. /\ Tail(r) \in Seq(MessageType)
      /\ Len(r) \in Nat /\ Len(Tail(r)) = Len(r) - 1
      /\ \A i \in 1 .. Len(Tail(r)) : Tail(r)[i] = r[i + 1] /\ i + 1 \in 1 .. Len(r)
  <2>1. /\ Tail(r) \in Seq(MessageType) /\ Len(Tail(r)) = Len(r) - 1
        /\ \A i \in 1 .. Len(Tail(r)) : Tail(r)[i] = r[i + 1]
    BY <1>4, HeadTailProperties
  <2>2. Len(r) \in Nat
    BY <1>4, LenProperties
  <2> QED BY <2>1, <2>2
<1>6. /\ snd' \in SenderType
      /\ snd'.isn_ = snd.isn_ /\ snd'.syn_ = snd.syn_ /\ snd'.fin_ = snd.fin_
      /\ snd'.seqnums_sent_ = snd.seqnums_sent_
      /\ snd'.seqnums_in_flight_ = snd.seqnums_in_flight_
      /\ snd'.outstanding_ = q /\ snd'.ready_to_send_ = Tail(r)
  BY <1>2, <1>3, <1>4, <1>5 DEF SenderType
<1>7. Una' = Una
  BY <1>6 DEF Una
<1>8. TypeOK'
  BY <1>3, <1>6 DEF TypeOK
<1>9. OutstandingIsUnacked'
  BY <1>2, <1>6, <1>7 DEF IInv, OutstandingIsUnacked
<1>10. \A i \in 1 .. Len(q) : FollowsStream(q[i])'
  BY <1>2, <1>3, <1>6, FollowsKept DEF IInv, MessagesFollowStream
<1>11. \A i \in 1 .. Len(Tail(r)) : FollowsStream(Tail(r)[i])'
  BY <1>1, <1>3, <1>5, <1>6, FollowsKept DEF IInv, MessagesFollowStream
<1>12. MessagesFollowStream'
  BY <1>3, <1>6, <1>10, <1>11 DEF IInv, MessagesFollowStream
<1>13. \A i \in 1 .. Len(r) : \/ \E j \in 1 .. Len(q) : r[i] = q[j]
                             \/ AbsEnd(r[i]) <= Una
  BY <1>1, <1>2 DEF IInv, ReadyIsAccountedFor
<1>14. ReadyIsAccountedFor'
  BY <1>5, <1>6, <1>7, <1>13 DEF ReadyIsAccountedFor
<1> QED BY <1>8, <1>9, <1>12, <1>14 DEF IInv

LEMMA RetransmitPreserves ==
    ASSUME IInv, NEW ms \in Ticks, retransmit(ms)
    PROVE  IInv'
<1> USE SenderAssumption
<1>1. PICK r : r = snd.ready_to_send_
  OBVIOUS
<1>2. PICK q : q = snd.outstanding_
  OBVIOUS
<1>3. /\ TypeOK /\ snd \in SenderType /\ outbound' = outbound
      /\ StreamOK(outbound) /\ snd.isn_ = Isn
      /\ rto_ \in Nat /\ retransmissions_ \in Nat
      /\ time_passage_' = 0 /\ retransmissions_' = retransmissions_ + 1
      /\ rto_' = rto_ * Backoff(snd.window_size_)
  BY DEF IInv, TypeOK, retransmit
<1>4. rto_' \in Nat
  <2>1. CASE snd.window_size_ = 0
    BY <1>3, <2>1 DEF Backoff
  <2>2. CASE snd.window_size_ # 0
    BY <1>3, <2>2 DEF Backoff
  <2> QED BY <2>1, <2>2
<1>5. PICK t : t = Append(r, Head(q))
  OBVIOUS
<1>6. /\ snd' = [snd EXCEPT !.ready_to_send_ = t] /\ q # <<>>
      /\ r \in Seq(MessageType) /\ q \in Seq(MessageType)
  BY <1>1, <1>2, <1>3, <1>5 DEF retransmit, Requeue, Expires, SenderType
<1>7. /\ Len(q) \in Nat /\ Len(q) > 0 /\ Head(q) = q[1] /\ q[1] \in MessageType
      /\ Len(r) \in Nat /\ 1 \in 1 .. Len(q)
  BY <1>6
<1>8. /\ t \in Seq(MessageType) /\ Len(t) = Len(r) + 1
      /\ t[Len(r) + 1] = q[1]
      /\ \A i \in 1 .. Len(r) : t[i] = r[i]
  BY <1>5, <1>6, <1>7
<1>9. \A i \in 1 .. Len(t) : (i \in 1 .. Len(r) /\ t[i] = r[i]) \/ t[i] = q[1]
  BY <1>7, <1>8
<1>10. /\ snd' \in SenderType
       /\ snd'.isn_ = snd.isn_ /\ snd'.syn_ = snd.syn_ /\ snd'.fin_ = snd.fin_
       /\ snd'.seqnums_sent_ = snd.seqnums_sent_
       /\ snd'.seqnums_in_flight_ = snd.seqnums_in_flight_
       /\ snd'.outstanding_ = q /\ snd'.ready_to_send_ = t
  BY <1>2, <1>3, <1>6, <1>8 DEF SenderType
<1>11. Una' = Una
  BY <1>10 DEF Una
<1>12. TypeOK'
  BY <1>3, <1>4, <1>10 DEF TypeOK
<1>13. OutstandingIsUnacked'
  BY <1>2, <1>10, <1>11 DEF IInv, OutstandingIsUnacked
<1>14. \A i \in 1 .. Len(q) : FollowsStream(q[i])'
  BY <1>2, <1>3, <1>10, FollowsKept DEF IInv, MessagesFollowStream
<1>15. \A i \in 1 .. Len(r) : FollowsStream(r[i])'
  BY <1>1, <1>3, <1>10, FollowsKept DEF IInv, MessagesFollowStream
<1>16. ASSUME NEW i \in 1 .. Len(t)
       PROVE  FollowsStream(t[i])'
  <2>1. CASE t[i] = q[1]
    BY <1>7, <1>14, <2>1
  <2>2. CASE i \in 1 .. Len(r) /\ t[i] = r[i]
    BY <1>15, <2>2
  <2> QED BY <1>9, <2>1, <2>2
<1>17. MessagesFollowStream'
  BY <1>3, <1>10, <1>14, <1>16 DEF IInv, MessagesFollowStream
<1>18. \A i \in 1 .. Len(r) : \/ \E j \in 1 .. Len(q) : r[i] = q[j]
                             \/ AbsEnd(r[i]) <= Una
  BY <1>1, <1>2 DEF IInv, ReadyIsAccountedFor
<1>19. \A i \in 1 .. Len(t) : \/ \E j \in 1 .. Len(q) : t[i] = q[j]
                             \/ AbsEnd(t[i]) <= Una
  BY <1>7, <1>9, <1>18
<1>20. ReadyIsAccountedFor'
  BY <1>10, <1>11, <1>19 DEF ReadyIsAccountedFor
<1> QED BY <1>12, <1>13, <1>17, <1>20 DEF IInv

\* An outstanding message is less than half a modulus behind what is sent, so
\* its absolute sequence number is recovered from the raw one.
LEMMA OutstandingUnwraps ==
    ASSUME IInv, NEW i \in 1 .. Len(snd.outstanding_)
    PROVE  /\ Begin(snd, i) = Abs(snd.outstanding_[i])
           /\ EndOf(snd, i) = AbsEnd(snd.outstanding_[i])
<1> USE SenderAssumption
<1> DEFINE m == snd.outstanding_[i]
<1>1. /\ snd.isn_ = Isn /\ Isn \in Raw
      /\ snd.seqnums_sent_ \in Nat /\ snd.seqnums_in_flight_ \in Nat
      /\ snd.outstanding_ \in Seq(MessageType)
  BY Fields DEF IInv
<1>2. /\ Covers(snd.outstanding_, Una, snd.seqnums_sent_)
      /\ snd.seqnums_in_flight_ <= LargestWindow
      /\ m.seqno = Wrap(Abs(m), Isn)
  BY <1>1 DEF IInv, OutstandingIsUnacked, MessagesFollowStream, FollowsStream
<1>3. Una \in Int /\ Una = snd.seqnums_sent_ - snd.seqnums_in_flight_
  BY <1>1 DEF Una
<1>4. /\ Abs(m) \in Nat /\ Una <= Abs(m) /\ Abs(m) < AbsEnd(m)
      /\ AbsEnd(m) \in Nat /\ AbsEnd(m) <= snd.seqnums_sent_
  BY <1>1, <1>2, <1>3, CoversBounds
<1> HIDE DEF m
<1>5. Abs(m) - snd.seqnums_sent_ <= Half /\ snd.seqnums_sent_ - Abs(m) < Half
  BY <1>1, <1>2, <1>3, <1>4, HalfExact
<1>6. Unwrap(m.seqno, Isn, snd.seqnums_sent_) = Abs(m)
  BY <1>1, <1>2, <1>4, <1>5, UnwrapWrap
<1>7. Begin(snd, i) = Abs(m)
  BY <1>1, <1>6 DEF Begin, m
<1> QED BY <1>7 DEF EndOf, AbsEnd, m

\* What an acknowledgment of the first k messages leaves: it begins where the
\* k-th message ends.
LEMMA AckedPrefix ==
    ASSUME IInv, NEW k \in 0 .. Len(snd.outstanding_),
           NEW una, una = IF k = 0 THEN Una ELSE AbsEnd(snd.outstanding_[k])
    PROVE  /\ una \in Int /\ Una <= una /\ una <= snd.seqnums_sent_
           /\ snd.seqnums_in_flight_ - Acked(snd, k) = snd.seqnums_sent_ - una
           /\ SubSeq(snd.outstanding_, k + 1, Len(snd.outstanding_)) \in Seq(MessageType)
           /\ Covers(SubSeq(snd.outstanding_, k + 1, Len(snd.outstanding_)),
                     una, snd.seqnums_sent_)
           /\ \A i \in 1 .. k : AbsEnd(snd.outstanding_[i]) <= una
<1>1. PICK q : q = snd.outstanding_
  OBVIOUS
<1>2. /\ snd.seqnums_sent_ \in Nat /\ snd.seqnums_in_flight_ \in Nat
      /\ q \in Seq(MessageType) /\ Len(q) \in Nat
      /\ Covers(q, Una, snd.seqnums_sent_)
      /\ k \in 0 .. Len(q)
  BY <1>1, Fields DEF IInv, OutstandingIsUnacked
<1>3. Una \in Int /\ Una = snd.seqnums_sent_ - snd.seqnums_in_flight_
  BY <1>2 DEF Una
<1>4. /\ SubSeq(q, k + 1, Len(q)) \in Seq(MessageType)
      /\ Covers(SubSeq(q, k + 1, Len(q)), una, snd.seqnums_sent_)
  <2>1. /\ SubSeq(q, k + 1, Len(q)) \in Seq(MessageType)
        /\ Covers(SubSeq(q, k + 1, Len(q)),
                  IF k = 0 THEN Una ELSE AbsEnd(q[k]), snd.seqnums_sent_)
    BY <1>2, <1>3, CoversSuffix
  <2> QED BY <1>1, <2>1
<1>5. /\ Una <= snd.seqnums_sent_
      /\ \A i \in 1 .. Len(q) : /\ Abs(q[i]) \in Nat /\ AbsEnd(q[i]) \in Nat
                                /\ Una <= Abs(q[i]) /\ Abs(q[i]) < AbsEnd(q[i])
                                /\ AbsEnd(q[i]) <= snd.seqnums_sent_
  BY <1>2, <1>3, CoversBounds
<1>6. CASE k = 0
  BY <1>1, <1>2, <1>3, <1>4, <1>5, <1>6 DEF Acked
<1>7. CASE k > 0
  <2>1. /\ k \in 1 .. Len(q) /\ 1 \in 1 .. Len(q) /\ k \in Nat
        /\ una = AbsEnd(q[k])
    BY <1>1, <1>2, <1>7
  <2>2. Abs(q[1]) = Una
    BY <1>2, <1>7 DEF Covers
  <2>3. Acked(snd, k) = AbsEnd(q[k]) - Abs(q[1])
    BY <1>1, <1>7, <2>1, OutstandingUnwraps DEF Acked
  <2>4. una \in Nat /\ Una <= una /\ una <= snd.seqnums_sent_
    BY <1>3, <1>5, <2>1
  <2>5. ASSUME NEW i \in 1 .. k
        PROVE  AbsEnd(q[i]) <= una
    <3>1. CASE i = k
      BY <1>5, <2>1, <3>1
    <3>2. CASE i < k
      <4>1. i \in 1 .. Len(q)
        BY <2>1
      <4>2. AbsEnd(q[i]) <= Abs(q[k])
        BY <1>2, <2>1, <3>2, <4>1 DEF Covers
      <4> QED BY <1>5, <2>1, <4>1, <4>2
    <3> QED BY <2>1, <3>1, <3>2
  <2> QED BY <1>1, <1>2, <1>3, <1>4, <2>2, <2>3, <2>1, <2>4, <2>5, SMTT(30)
<1> QED BY <1>6, <1>7
LEMMA AcknoPreserves ==
    ASSUME IInv, NEW ackno, NEW window \in Windows, receive_ackno(ackno, window)
    PROVE  IInv' /\ Una' >= Una
<1> USE SenderAssumption
<1>1. PICK q : q = snd.outstanding_
  OBVIOUS
<1>2. PICK r : r = snd.ready_to_send_
  OBVIOUS
<1>3. PICK k \in 0 .. Len(q) :
        /\ snd' = SetWindow(DropAcked(snd, k), window)
        /\ time_passage_' = IF k > 0 THEN 0 ELSE time_passage_
        /\ rto_' = InitialRTO
  BY <1>1 DEF receive_ackno, TimeAfterAck, RtoAfterAck
<1>4. PICK t : t = SubSeq(q, k + 1, Len(q))
  OBVIOUS
<1>5. PICK una : una = IF k = 0 THEN Una ELSE AbsEnd(q[k])
  OBVIOUS
<1>6. /\ TypeOK /\ snd \in SenderType /\ outbound' = outbound
      /\ StreamOK(outbound) /\ snd.isn_ = Isn
      /\ rto_' \in Nat /\ time_passage_' \in Nat /\ retransmissions_' \in Nat
  BY <1>3 DEF IInv, TypeOK, receive_ackno
<1>7. /\ q \in Seq(MessageType) /\ r \in Seq(MessageType)
      /\ Len(q) \in Nat /\ k \in Nat /\ k <= Len(q)
      /\ snd.seqnums_sent_ \in Nat /\ snd.seqnums_in_flight_ \in Nat
      /\ window \in 0 .. LargestWindow
  BY <1>1, <1>2, <1>6 DEF SenderType
<1>8. /\ una \in Int /\ Una <= una /\ una <= snd.seqnums_sent_
      /\ snd.seqnums_in_flight_ - Acked(snd, k) = snd.seqnums_sent_ - una
      /\ t \in Seq(MessageType)
      /\ Covers(t, una, snd.seqnums_sent_)
      /\ \A i \in 1 .. k : AbsEnd(q[i]) <= una
  BY <1>1, <1>4, <1>5, AckedPrefix
<1>9. PICK flight : flight = snd.seqnums_sent_ - una
  OBVIOUS
<1>10. flight \in Nat /\ flight <= LargestWindow
  BY <1>7, <1>8, <1>9, SMTT(60) DEF IInv, OutstandingIsUnacked, Una
<1>11. snd' = [snd EXCEPT !.seqnums_in_flight_ = flight, !.outstanding_ = t,
                          !.window_size_ = window]
  BY <1>1, <1>3, <1>4, <1>6, <1>8, <1>9 DEF SetWindow, DropAcked, SenderType
<1>12. /\ snd' \in SenderType
       /\ snd'.isn_ = snd.isn_ /\ snd'.syn_ = snd.syn_ /\ snd'.fin_ = snd.fin_
       /\ snd'.seqnums_sent_ = snd.seqnums_sent_
       /\ snd'.seqnums_in_flight_ = flight
       /\ snd'.outstanding_ = t /\ snd'.ready_to_send_ = r
  BY <1>2, <1>6, <1>7, <1>8, <1>10, <1>11 DEF SenderType
<1>13. Una' = una
  BY <1>7, <1>8, <1>9, <1>12 DEF Una
<1>14. TypeOK'
  BY <1>6, <1>12 DEF TypeOK
<1>15. OutstandingIsUnacked'
  BY <1>8, <1>10, <1>12, <1>13 DEF OutstandingIsUnacked
<1>16. /\ Len(t) = Len(q) - k
       /\ \A i \in 1 .. Len(t) : t[i] = q[k + i] /\ k + i \in 1 .. Len(q)
  <2>1. \A i \in (k + 1) .. Len(q) : q[i] \in MessageType
    BY <1>7, ElementOfSeq
  <2>2. /\ Len(t) = IF k + 1 <= Len(q) THEN Len(q) - (k + 1) + 1 ELSE 0
        /\ \A i \in 1 .. Len(q) - (k + 1) + 1 : t[i] = q[(k + 1) + i - 1]
    <3> DEFINE a == k + 1
               n == Len(q)
    <3>1. a \in Int /\ n \in Int /\ (\A i \in a .. n : q[i] \in MessageType) /\ t = SubSeq(q, a, n)
      BY <1>4, <1>7, <2>1
    <3> HIDE DEF a, n
    <3>2. /\ Len(SubSeq(q, a, n)) = IF a <= n THEN n - a + 1 ELSE 0
          /\ \A i \in 1 .. n - a + 1 : SubSeq(q, a, n)[i] = q[a + i - 1]
      BY <3>1, SubSeqProperties, SMTT(60)
    <3>3. /\ Len(t) = IF a <= n THEN n - a + 1 ELSE 0
          /\ \A i \in 1 .. n - a + 1 : t[i] = q[a + i - 1]
      BY <3>1, <3>2, Zenon
    <3> QED
      BY <3>3 DEF a, n
  <2>3. Len(t) = Len(q) - k
    BY <1>7, <2>2
  <2>4. ASSUME NEW i \in 1 .. Len(t)
        PROVE  t[i] = q[k + i] /\ k + i \in 1 .. Len(q)
    <3>1. i \in 1 .. Len(q) - (k + 1) + 1 /\ (k + 1) + i - 1 = k + i
      BY <1>7, <2>3
    <3> QED BY <1>7, <2>2, <2>3, <3>1
  <2> QED BY <2>3, <2>4
<1>17. \A i \in 1 .. Len(q) : FollowsStream(q[i])'
  BY <1>1, <1>6, <1>12, FollowsKept DEF IInv, MessagesFollowStream
<1>18. \A i \in 1 .. Len(t) : FollowsStream(t[i])'
  BY <1>16, <1>17
<1>19. \A i \in 1 .. Len(r) : FollowsStream(r[i])'
  BY <1>2, <1>6, <1>12, FollowsKept DEF IInv, MessagesFollowStream
<1>20. MessagesFollowStream'
  BY <1>6, <1>12, <1>18, <1>19 DEF IInv, MessagesFollowStream
<1>21. ASSUME NEW i \in 1 .. Len(r)
       PROVE  (\E j \in 1 .. Len(t) : r[i] = t[j]) \/ AbsEnd(r[i]) <= una
  <2>1. AbsEnd(r[i]) \in Nat
    BY <1>7, ElementOfSeq, MessageNumbers
  <2>2. CASE AbsEnd(r[i]) <= Una
    <3>1. Una \in Int
      BY <1>7 DEF Una
    <3> QED BY <1>8, <2>1, <2>2, <3>1
  <2>3. CASE \E j \in 1 .. Len(q) : r[i] = q[j]
    <3>1. PICK j \in 1 .. Len(q) : r[i] = q[j]
      BY <2>3
    <3>2. CASE j <= k
      <4>1. j \in 1 .. k
        BY <1>7, <3>2
      <4> QED BY <1>8, <3>1, <4>1
    <3>3. CASE j > k
      <4>1. j - k \in 1 .. Len(t) /\ k + (j - k) = j
        BY <1>7, <1>16, <3>3
      <4>2. t[j - k] = q[j]
        BY <1>16, <4>1
      <4> QED BY <3>1, <4>1, <4>2
    <3> QED BY <1>7, <3>2, <3>3
  <2>4. (\E j \in 1 .. Len(q) : r[i] = q[j]) \/ AbsEnd(r[i]) <= Una
    BY <1>1, <1>2 DEF IInv, ReadyIsAccountedFor
  <2> QED BY <2>2, <2>3, <2>4
<1>22. ReadyIsAccountedFor'
  BY <1>12, <1>13, <1>21 DEF ReadyIsAccountedFor
<1>23. Una' >= Una
  BY <1>7, <1>8, <1>13 DEF Una
<1> QED BY <1>14, <1>15, <1>20, <1>22, <1>23 DEF IInv

-----------------------------------------------------------------------------
\* The theorems

THEOREM InitIInv == Init => IInv
<1> SUFFICES ASSUME Init PROVE IInv
  OBVIOUS
<1> USE SenderAssumption
<1>1. /\ snd.isn_ = Isn /\ snd.syn_ = FALSE /\ snd.fin_ = FALSE
      /\ snd.window_size_ = 1
      /\ snd.seqnums_sent_ = 0 /\ snd.seqnums_in_flight_ = 0
      /\ snd.outstanding_ = <<>> /\ snd.ready_to_send_ = <<>>
  BY DEF Init, NewSender
<1>2. snd \in SenderType
  <2> DEFINE no == FALSE
             none == <<>>
  <2>1. no \in BOOLEAN /\ none \in Seq(MessageType)
    OBVIOUS
  <2>2. snd = [isn_ |-> Isn, syn_ |-> no, fin_ |-> no, window_size_ |-> 1,
               seqnums_sent_ |-> 0, seqnums_in_flight_ |-> 0,
               outstanding_ |-> none, ready_to_send_ |-> none]
    BY DEF Init, NewSender
  <2> HIDE DEF no, none
  <2>3. 1 \in 0 .. LargestWindow
    OBVIOUS
  <2> QED BY <2>1, <2>2, <2>3 DEF SenderType
<1>3. /\ outbound.pushed = 0 /\ outbound.popped = 0 /\ StreamOK(outbound)
  <2> DEFINE no == FALSE
  <2>1. no \in BOOLEAN
    OBVIOUS
  <2>2. outbound = [capacity |-> Capacity, pushed |-> 0, popped |-> 0,
                    closed |-> no, error |-> no]
    BY DEF Init, EmptyStream
  <2> HIDE DEF no
  <2> QED BY <2>1, <2>2 DEF StreamOK, StreamType
<1>4. TypeOK
  BY <1>1, <1>2, <1>3 DEF TypeOK, Init
<1>5. OutstandingIsUnacked
  BY <1>1 DEF OutstandingIsUnacked, Covers, Una
<1>6. MessagesFollowStream
  BY <1>1, <1>3 DEF MessagesFollowStream
<1>7. ReadyIsAccountedFor
  BY <1>1 DEF ReadyIsAccountedFor
<1> QED BY <1>4, <1>5, <1>6, <1>7 DEF IInv

\* Every step of the sender, the application and the network.
THEOREM StepPreserves == IInv /\ [Next]_vars => IInv'
<1> SUFFICES ASSUME IInv, [Next]_vars PROVE IInv'
  OBVIOUS
<1>1. CASE \E n \in 1 .. Total : write(n)
  BY <1>1, WritePreserves
<1>2. CASE shutdown
  BY <1>2, ShutdownPreserves
<1>3. CASE push
  BY <1>3, PushPreserves
<1>4. CASE maybe_send
  BY <1>4, MaybeSendPreserves
<1>5. ASSUME NEW ackno \in Raw \union {NoAckno}, NEW window \in Windows,
             receive(ackno, window)
      PROVE  IInv'
  BY <1>5, WindowPreserves, AcknoPreserves DEF receive
<1>6. ASSUME NEW ms \in Ticks, tick(ms)
      PROVE  IInv'
  BY <1>6, TickPreserves, RetransmitPreserves DEF tick
<1>7. CASE UNCHANGED vars
  <2>1. /\ TypeOK /\ snd \in SenderType /\ StreamOK(outbound)
        /\ rto_' \in Nat /\ time_passage_' \in Nat /\ retransmissions_' \in Nat
        /\ snd' = snd /\ outbound' = outbound
    BY <1>7 DEF IInv, TypeOK, vars
  <2>2. snd.fin_ => outbound.closed /\ Buffered(outbound) = 0
    BY DEF IInv, MessagesFollowStream
  <2> QED BY <2>1, <2>2, QuietPreserves
<1> QED BY <1>1, <1>2, <1>3, <1>4, <1>5, <1>6, <1>7 DEF Next

THEOREM Invariance == Spec => []IInv
  BY InitIInv, StepPreserves, PTL DEF Spec

\* Each field keeps its type whatever the constants: in particular
\* seqnums_in_flight_, from which receive subtracts, never goes below zero.
THEOREM TypeCorrect == Spec => []TypeOK
<1>1. IInv => TypeOK
  BY DEF IInv
<1> QED BY <1>1, Invariance, PTL

\* The outstanding queue is exactly what is sent and unacknowledged, without a
\* gap or an overlap, whatever acknowledgments arrive.
THEOREM OutstandingAlwaysUnacked == Spec => []OutstandingIsUnacked
<1>1. IInv => OutstandingIsUnacked
  BY DEF IInv
<1> QED BY <1>1, Invariance, PTL

\* Every message carries the bytes its sequence number stands for.
THEOREM MessagesAlwaysFollowStream == Spec => []MessagesFollowStream
<1>1. IInv => MessagesFollowStream
  BY DEF IInv
<1> QED BY <1>1, Invariance, PTL

\* What waits to be sent is outstanding still, or acknowledged in full.
THEOREM ReadyAlwaysAccountedFor == Spec => []ReadyIsAccountedFor
<1>1. IInv => ReadyIsAccountedFor
  BY DEF IInv
<1> QED BY <1>1, Invariance, PTL
\* What one step does to what is in flight and to what is acknowledged.
LEMMA StepRespects ==
    ASSUME IInv, [Next]_vars
    PROVE  /\ snd'.seqnums_sent_ # snd.seqnums_sent_ =>
                snd'.seqnums_in_flight_ <= Usable(snd.window_size_)
           /\ Una' >= Una
<1>0. /\ snd \in SenderType
      /\ snd.seqnums_sent_ \in Nat /\ snd.seqnums_in_flight_ \in Nat
      /\ Una \in Int
  BY Fields DEF IInv, TypeOK, Una
<1>1. CASE push
  <2>1. PICK c : c = SeqnumsPushed(snd, outbound)
    OBVIOUS
  <2>2. /\ Room(snd) \in Nat
        /\ snd.seqnums_in_flight_ + Room(snd) = Usable(snd.window_size_)
        /\ c \in Nat /\ c <= Room(snd)
    BY <1>1, <2>1, PushFits DEF push
  <2>3. /\ snd'.seqnums_sent_ = snd.seqnums_sent_ + c
        /\ snd'.seqnums_in_flight_ = snd.seqnums_in_flight_ + c
    BY <1>0, <1>1, <2>1 DEF push, SenderAfterPush, SenderType
  <2>4. Una' = Una
    BY <1>0, <2>2, <2>3 DEF Una
  <2> QED BY <1>0, <2>2, <2>3, <2>4
<1>2. CASE maybe_send
  BY <1>0, <1>2 DEF maybe_send, WithoutNext, SenderType, Una
<1>3. ASSUME NEW ackno, NEW window \in Windows, receive_window(ackno, window)
      PROVE  snd'.seqnums_sent_ = snd.seqnums_sent_ /\ Una' = Una
  BY <1>0, <1>3 DEF receive_window, SetWindow, SenderType, Una
<1>4. ASSUME NEW ackno, NEW window \in Windows, receive_ackno(ackno, window)
      PROVE  snd'.seqnums_sent_ = snd.seqnums_sent_ /\ Una' >= Una
  <2>1. Una' >= Una
    BY <1>4, AcknoPreserves
  <2>2. snd'.seqnums_sent_ = snd.seqnums_sent_
    BY <1>0, <1>4 DEF receive_ackno, SetWindow, DropAcked, SenderType
  <2> QED BY <2>1, <2>2
<1>5. ASSUME NEW ms \in Ticks, tick(ms)
      PROVE  snd'.seqnums_sent_ = snd.seqnums_sent_ /\ Una' = Una
  <2>1. CASE tick_quietly(ms)
    BY <2>1 DEF tick_quietly, Una
  <2>2. CASE retransmit(ms)
    BY <1>0, <2>2 DEF retransmit, Requeue, SenderType, Una
  <2> QED BY <1>5, <2>1, <2>2 DEF tick
<1>6. CASE (\E n \in 1 .. Total : write(n)) \/ shutdown \/ UNCHANGED vars
  <2>1. snd' = snd
    BY <1>6 DEF write, shutdown, vars
  <2> QED BY <1>0, <2>1 DEF Una
<1> QED BY <1>0, <1>1, <1>2, <1>3, <1>4, <1>5, <1>6 DEF Next, receive

\* No push overruns the advertised window, and no acknowledgment is ever taken
\* back.
THEOREM WindowAndAcksAlwaysRespected == Spec => WindowAndAcksRespected
<1>1. IInv /\ [Next]_vars =>
        [ /\ snd'.seqnums_sent_ # snd.seqnums_sent_ =>
               snd'.seqnums_in_flight_ <= Usable(snd.window_size_)
          /\ Una' >= Una ]_vars
  BY StepRespects
<1> QED BY <1>1, Invariance, PTL DEF Spec, WindowAndAcksRespected

-----------------------------------------------------------------------------
\* The timer

\* What holds of zero and is handed on holds up to n.
LEMMA Climb ==
    ASSUME NEW n \in Nat, NEW S, 0 \in S, \A k \in 0 .. n - 1 : k \in S => k + 1 \in S
    PROVE  \A k \in 0 .. n : k \in S
  <1> DEFINE T == {k \in 0 .. n : k \notin S}
             R == {ss \in Nat \X Nat : ss[1] < ss[2]}
  <1> SUFFICES ASSUME T # {} PROVE FALSE
    OBVIOUS
  <1>1. R = OpToRel(<, Nat)
    BY DEF OpToRel
  <1>2. IsWellFoundedOn(R, Nat)
    BY <1>1, NatLessThanWellFounded
  <1>3. \A x, y \in Nat : <<x, y>> \in R <=> x < y
    OBVIOUS
  <1>4. T \in SUBSET Nat
    OBVIOUS
  <1> HIDE DEF R
  <1>5. PICK m \in T : \A y \in T : ~ (<<y, m>> \in R)
    <2> HIDE DEF T
    <2> QED
      BY <1>2, <1>4, WFMin
  <1>6. m \in Nat /\ m # 0 /\ m \in 0 .. n
    BY <1>4, <1>5
  <1>7. m - 1 \in Nat /\ m - 1 \in 0 .. n - 1 /\ m - 1 < m
    BY <1>6
  <1>8. m - 1 \notin T
    BY <1>3, <1>5, <1>6, <1>7
  <1>9. m - 1 \in S
    BY <1>7, <1>8
  <1> QED
    BY <1>5, <1>6, <1>7, <1>9

IsDoubled(n, f) == f = [k \in 0 .. n |-> IF k = 0 THEN InitialRTO ELSE 2 * f[k - 1]]

LEMMA DoubledExists == ASSUME NEW n \in Nat PROVE \E f : IsDoubled(n, f)
<1> DEFINE S == {k \in 0 .. n : \E f : IsDoubled(k, f)}
<1>1. 0 \in S
  <2>1. IsDoubled(0, [k \in 0 .. 0 |-> InitialRTO])
    BY DEF IsDoubled
  <2> QED BY <2>1
<1>2. \A k \in 0 .. n - 1 : k \in S => k + 1 \in S
  <2> SUFFICES ASSUME NEW k \in 0 .. n - 1, k \in S PROVE k + 1 \in S
    OBVIOUS
  <2>1. PICK f : IsDoubled(k, f)
    OBVIOUS
  <2> DEFINE g == [m \in 0 .. k + 1 |-> IF m = k + 1 THEN 2 * f[k] ELSE f[m]]
  <2>2. IsDoubled(k + 1, g)
    BY <2>1 DEF IsDoubled
  <2> QED BY <2>2
<1> HIDE DEF S
<1>3. n \in S
  BY <1>1, <1>2, Climb
<1> QED BY <1>3 DEF S

\* What one doubling does to the timeout.
LEMMA DoubledStep ==
    /\ Doubled[0] = InitialRTO
    /\ \A k \in 0 .. MaxRetx - 1 : Doubled[k + 1] = 2 * Doubled[k]
<1> USE SenderAssumption
<1>1. IsDoubled(MaxRetx, Doubled)
  <2>1. \E f : IsDoubled(MaxRetx, f)
    BY DoubledExists
  <2>2. Doubled = CHOOSE f : IsDoubled(MaxRetx, f)
    BY DEF Doubled, IsDoubled
  <2> QED BY <2>1, <2>2
<1>2. \A k \in 0 .. MaxRetx : Doubled[k] = IF k = 0 THEN InitialRTO ELSE 2 * Doubled[k - 1]
  BY <1>1 DEF IsDoubled
<1>3. ASSUME NEW k \in 0 .. MaxRetx - 1
      PROVE  Doubled[k + 1] = 2 * Doubled[k]
  <2>1. k + 1 \in 0 .. MaxRetx /\ k + 1 # 0 /\ (k + 1) - 1 = k
    OBVIOUS
  <2> QED BY <1>2, <2>1
<1> QED BY <1>2, <1>3

\* The witness of BackoffFollowsRetransmissions is one more after a
\* retransmission into an open window, the same after one into a closed window.
TimerInv ==
    /\ rto_ \in Nat /\ retransmissions_ \in 0 .. MaxRetx
    /\ BackoffFollowsRetransmissions

LEMMA TimerInit == Init => TimerInv
<1> SUFFICES ASSUME Init PROVE TimerInv
  OBVIOUS
<1> USE SenderAssumption
<1>1. rto_ = InitialRTO /\ retransmissions_ = 0
  BY DEF Init
<1>2. 0 \in 0 .. retransmissions_ /\ rto_ = Doubled[0]
  BY <1>1, DoubledStep
<1> QED BY <1>1, <1>2 DEF TimerInv, BackoffFollowsRetransmissions

LEMMA TimerRetransmits ==
    ASSUME TimerInv, NEW ms \in Ticks, retransmit(ms)
    PROVE  TimerInv'
<1> USE SenderAssumption
<1>1. PICK d \in 0 .. retransmissions_ : rto_ = Doubled[d]
  BY DEF TimerInv, BackoffFollowsRetransmissions
<1>2. /\ rto_ \in Nat /\ retransmissions_ \in 0 .. MaxRetx
      /\ retransmissions_ < MaxRetx
      /\ retransmissions_' = retransmissions_ + 1
      /\ rto_' = rto_ * Backoff(snd.window_size_)
  BY DEF TimerInv, retransmit
<1>3. CASE snd.window_size_ = 0
  <2>1. rto_' = Doubled[d] /\ rto_' \in Nat
    BY <1>1, <1>2, <1>3 DEF Backoff
  <2>2. d \in 0 .. retransmissions_' /\ retransmissions_' \in 0 .. MaxRetx
    BY <1>2
  <2> QED BY <2>1, <2>2 DEF TimerInv, BackoffFollowsRetransmissions
<1>4. CASE snd.window_size_ # 0
  <2>1. d \in 0 .. MaxRetx - 1 /\ d + 1 \in 0 .. retransmissions_'
        /\ retransmissions_' \in 0 .. MaxRetx
    BY <1>2
  <2>2. rto_' = 2 * rto_ /\ rto_' \in Nat
    BY <1>2, <1>4 DEF Backoff
  <2>3. rto_' = Doubled[d + 1]
    BY <1>1, <2>1, <2>2, DoubledStep
  <2> QED BY <2>1, <2>2, <2>3 DEF TimerInv, BackoffFollowsRetransmissions
<1> QED BY <1>3, <1>4

LEMMA TimerResets ==
    ASSUME NEW ackno, NEW window, receive_ackno(ackno, window)
    PROVE  TimerInv'
<1> USE SenderAssumption
<1>1. rto_' = InitialRTO /\ retransmissions_' = 0
  BY DEF receive_ackno, RtoAfterAck
<1>2. 0 \in 0 .. retransmissions_' /\ rto_' = Doubled[0]
  BY <1>1, DoubledStep
<1> QED BY <1>1, <1>2 DEF TimerInv, BackoffFollowsRetransmissions

LEMMA TimerPreserved == TimerInv /\ [Next]_vars => TimerInv'
<1> SUFFICES ASSUME TimerInv, [Next]_vars PROVE TimerInv'
  OBVIOUS
<1>1. ASSUME rto_' = rto_, retransmissions_' = retransmissions_ PROVE TimerInv'
  BY <1>1 DEF TimerInv, BackoffFollowsRetransmissions
<1>2. CASE \E n \in 1 .. Total : write(n)
  BY <1>1, <1>2 DEF write, timerVars
<1>3. CASE shutdown \/ push \/ maybe_send
  BY <1>1, <1>3 DEF shutdown, push, maybe_send, timerVars
<1>4. ASSUME NEW ackno \in Raw \union {NoAckno}, NEW window \in Windows,
             receive(ackno, window)
      PROVE  TimerInv'
  BY <1>1, <1>4, TimerResets DEF receive, receive_window, timerVars
<1>5. ASSUME NEW ms \in Ticks, tick(ms)
      PROVE  TimerInv'
  BY <1>1, <1>5, TimerRetransmits DEF tick, tick_quietly
<1>6. CASE UNCHANGED vars
  BY <1>1, <1>6 DEF vars
<1> QED BY <1>2, <1>3, <1>4, <1>5, <1>6 DEF Next

\* The timeout is the initial one doubled at most once for each consecutive
\* retransmission, whatever windows and acknowledgments come between them.
THEOREM BackoffAlwaysFollows == Spec => []BackoffFollowsRetransmissions
<1>1. TimerInv => BackoffFollowsRetransmissions
  BY DEF TimerInv
<1> QED BY <1>1, TimerInit, TimerPreserved, PTL DEF Spec

-----------------------------------------------------------------------------
\* The loop of receive

\* A sender whose first j outstanding messages are dropped.
Dropped(j) ==
    [snd EXCEPT !.seqnums_in_flight_ = @ - Acked(snd, j),
                !.outstanding_ = SubSeq(@, j + 1, Len(@))]

AckStart == [snd |-> snd, looping |-> TRUE]

IsAckLoop(n, a, f) ==
    f = [k \in 0 .. n |-> IF k = 0 THEN AckStart ELSE AckRound(f[k - 1], a)]

LEMMA AckLoopExists == ASSUME NEW a, NEW n \in Nat PROVE \E f : IsAckLoop(n, a, f)
<1> DEFINE S == {k \in 0 .. n : \E f : IsAckLoop(k, a, f)}
<1>1. 0 \in S
  <2>1. IsAckLoop(0, a, [k \in 0 .. 0 |-> AckStart])
    BY DEF IsAckLoop
  <2> QED BY <2>1
<1>2. \A k \in 0 .. n - 1 : k \in S => k + 1 \in S
  <2> SUFFICES ASSUME NEW k \in 0 .. n - 1, k \in S PROVE k + 1 \in S
    OBVIOUS
  <2>1. PICK f : IsAckLoop(k, a, f)
    OBVIOUS
  <2> DEFINE g == [m \in 0 .. k + 1 |-> IF m = k + 1 THEN AckRound(f[k], a) ELSE f[m]]
  <2>2. IsAckLoop(k + 1, a, g)
    BY <2>1 DEF IsAckLoop
  <2> QED BY <2>2
<1> HIDE DEF S
<1>3. n \in S
  BY <1>1, <1>2, Climb
<1> QED BY <1>3 DEF S

\* The rounds of the loop, one by one.
LEMMA AckLoopRounds ==
    ASSUME snd.outstanding_ \in Seq(MessageType), NEW a
    PROVE  \E f : /\ AckLoop(a) = f[Len(snd.outstanding_) + 1]
                  /\ f[0] = AckStart
                  /\ \A k \in 0 .. Len(snd.outstanding_) : f[k + 1] = AckRound(f[k], a)
<1> DEFINE n == Len(snd.outstanding_) + 1
           g == CHOOSE f : IsAckLoop(n, a, f)
<1>0. n \in Nat
  BY LenProperties
<1>1. IsAckLoop(n, a, g)
  <2>1. \E f : IsAckLoop(n, a, f)
    BY <1>0, AckLoopExists
  <2> QED BY <2>1
<1>2. AckLoop(a) = g[n]
  BY DEF AckLoop, IsAckLoop, AckStart
<1> HIDE DEF g
<1>3. \A k \in 0 .. n : g[k] = IF k = 0 THEN AckStart ELSE AckRound(g[k - 1], a)
  BY <1>1 DEF IsAckLoop
<1>4. ASSUME NEW k \in 0 .. n - 1
      PROVE  g[k + 1] = AckRound(g[k], a)
  <2>1. k + 1 \in 0 .. n /\ k + 1 # 0 /\ (k + 1) - 1 = k
    BY <1>0
  <2> QED BY <1>3, <2>1
<1>5. Len(snd.outstanding_) = n - 1
  BY <1>0
<1> QED BY <1>0, <1>2, <1>3, <1>4, <1>5

\* Any ackno divides the outstanding messages: the first k are acknowledged in
\* full, and the next one is not.
LEMMA AcksSome ==
    ASSUME IInv, NEW ackno \in Raw
    PROVE  \E k \in 0 .. Len(snd.outstanding_) : Acks(snd, ackno, k)
<1>1. PICK n : n = Len(snd.outstanding_)
  OBVIOUS
<1>2. PICK A : A = AbsoluteAckno(snd, ackno)
  OBVIOUS
<1>3. /\ snd.outstanding_ \in Seq(MessageType) /\ n \in Nat
      /\ snd.isn_ = Isn /\ Isn \in Raw /\ snd.seqnums_sent_ \in Nat
  BY <1>1, Fields, LenProperties DEF IInv
<1>4. A \in Nat
  BY <1>2, <1>3, UnwrapSound DEF AbsoluteAckno
<1>5. ASSUME NEW i \in 1 .. n
      PROVE  EndOf(snd, i) \in Nat
  BY <1>1, <1>3, <1>5, OutstandingUnwraps, ElementOfSeq, MessageNumbers
<1> DEFINE S == {k \in 0 .. n : \/ \E j \in 0 .. n : Acks(snd, ackno, j)
                               \/ \A i \in 1 .. k : EndOf(snd, i) <= A}
<1>6. 0 \in S
  BY <1>3
<1>7. ASSUME NEW k \in 0 .. n - 1, k \in S
      PROVE  k + 1 \in S
  <2>1. CASE \E j \in 0 .. n : Acks(snd, ackno, j)
    BY <1>3, <2>1
  <2>2. CASE \A i \in 1 .. k : EndOf(snd, i) <= A
    <3>1. k + 1 \in 1 .. n /\ k \in 0 .. n
      BY <1>3
    <3>2. CASE EndOf(snd, k + 1) <= A
      <4>1. \A i \in 1 .. k + 1 : EndOf(snd, i) <= A
        <5> SUFFICES ASSUME NEW i \in 1 .. k + 1 PROVE EndOf(snd, i) <= A
          OBVIOUS
        <5>1. i \in 1 .. k \/ i = k + 1
          BY <1>3
        <5> QED BY <2>2, <3>2, <5>1
      <4> QED BY <1>3, <4>1
    <3>3. CASE EndOf(snd, k + 1) > A
      <4>1. Acks(snd, ackno, k)
        BY <1>2, <2>2, <3>3 DEF Acks
      <4> QED BY <1>3, <3>1, <4>1
    <3> QED BY <1>4, <1>5, <3>1, <3>2, <3>3
  <2> QED BY <1>7, <2>1, <2>2
<1> HIDE DEF S
<1>a. \A k \in 0 .. n - 1 : k \in S => k + 1 \in S
  BY <1>7
<1>8. n \in S
  <2>1. n \in Nat
    BY <1>3
  <2>2. \A k \in 0 .. n : k \in S
    BY <1>6, <1>a, <2>1, Climb
  <2> QED BY <2>1, <2>2
<1>9. CASE \A i \in 1 .. n : EndOf(snd, i) <= A
  <2>1. Acks(snd, ackno, n)
    BY <1>1, <1>2, <1>3, <1>9 DEF Acks
  <2> QED BY <1>1, <1>3, <2>1
<1> QED BY <1>1, <1>8, <1>9 DEF S

\* A round drops the next message if it is acknowledged, else it is the last.
LEMMA AckRoundDrops ==
    ASSUME IInv, NEW A \in Nat, NEW j \in 0 .. Len(snd.outstanding_)
    PROVE  AckRound([snd |-> Dropped(j), looping |-> TRUE], A) =
             IF j < Len(snd.outstanding_) /\ EndOf(snd, j + 1) <= A
             THEN [snd |-> Dropped(j + 1), looping |-> TRUE]
             ELSE [snd |-> Dropped(j), looping |-> FALSE]
<1>1. PICK q : q = snd.outstanding_
  OBVIOUS
<1>2. PICK n : n = Len(q)
  OBVIOUS
<1>3. PICK s : s = Dropped(j)
  OBVIOUS
<1>4. /\ snd \in SenderType /\ q \in Seq(MessageType) /\ n \in Nat /\ j \in 0 .. n
      /\ snd.seqnums_in_flight_ \in Nat
  BY <1>1, <1>2, Fields, LenProperties DEF IInv, TypeOK
<1>5. /\ s.outstanding_ = SubSeq(q, j + 1, n)
      /\ s.seqnums_in_flight_ = snd.seqnums_in_flight_ - Acked(snd, j)
      /\ s.isn_ = snd.isn_ /\ s.seqnums_sent_ = snd.seqnums_sent_
  BY <1>1, <1>2, <1>3, <1>4 DEF Dropped, SenderType
<1> DEFINE at == [snd |-> s, looping |-> TRUE]
<1>6. CASE j = n
  <2>1. s.outstanding_ = <<>>
    BY <1>4, <1>5, <1>6, SubSeqEmpty
  <2>2. AckRound(at, A) = [snd |-> s, looping |-> FALSE]
    BY <2>1 DEF AckRound
  <2> QED BY <1>1, <1>2, <1>3, <1>4, <1>6, <2>2
<1>7. CASE j < n
  <2>1. j + 1 \in 1 .. n /\ n \in j + 1 .. n
    BY <1>4, <1>7
  <2>2. /\ Head(s.outstanding_) = q[j + 1]
        /\ Tail(s.outstanding_) = SubSeq(q, (j + 1) + 1, n)
    BY <1>2, <1>4, <1>5, <2>1, HeadTailOfSubSeq, ZenonT(60)
  <2>3. /\ s.outstanding_ \in Seq(MessageType) /\ s.outstanding_ # <<>>
        /\ s.outstanding_[1] = q[j + 1]
    <3>1. \A i \in j + 1 .. n : q[i] \in MessageType
      BY <1>2, <1>4, ElementOfSeq
    <3>2. /\ SubSeq(q, j + 1, n) \in Seq(MessageType)
          /\ Len(SubSeq(q, j + 1, n)) = n - (j + 1) + 1
          /\ \A i \in 1 .. n - (j + 1) + 1 : SubSeq(q, j + 1, n)[i] = q[(j + 1) + i - 1]
      BY <1>4, <2>1, <3>1, SubSeqProperties
    <3>3. 1 \in 1 .. n - (j + 1) + 1 /\ (j + 1) + 1 - 1 = j + 1
      BY <1>4, <2>1
    <3>4. Len(SubSeq(q, j + 1, n)) # 0
      BY <1>4, <2>1, <3>2
    <3>5. SubSeq(q, j + 1, n) # <<>>
      BY <3>4, EmptySeq
    <3> QED BY <1>5, <3>2, <3>3, <3>5
  <2>4. EndOf(s, 1) = EndOf(snd, j + 1)
    BY <1>1, <1>5, <2>3 DEF EndOf, Begin
  <2>5. EndOf(snd, j + 1) \in Nat /\ EndOf(snd, j + 1) = AbsEnd(q[j + 1])
    BY <1>1, <1>2, <1>4, <2>1, OutstandingUnwraps, ElementOfSeq, MessageNumbers
  <2>6. CASE EndOf(snd, j + 1) <= A
    <3>1. PICK size : size = sequence_length(q[j + 1])
      OBVIOUS
    <3>2. AckRound(at, A) =
            [snd |-> [s EXCEPT !.seqnums_in_flight_ = @ - size,
                               !.outstanding_ = SubSeq(q, (j + 1) + 1, n)],
             looping |-> TRUE]
      <4>1. /\ at.snd = s /\ at.looping = TRUE
        OBVIOUS
      <4>2. ~(s.outstanding_ = <<>> \/ EndOf(s, 1) > A)
        BY <2>3, <2>4, <2>5, <2>6
      <4> HIDE DEF at
      <4>3. AckRound(at, A) =
              [snd |-> [s EXCEPT !.seqnums_in_flight_ = @ - sequence_length(Head(s.outstanding_)),
                                 !.outstanding_ = Tail(@)],
               looping |-> TRUE]
        BY <4>1, <4>2 DEF AckRound
      <4> QED BY <2>2, <3>1, <4>3
    <3>3. Acked(snd, j + 1) = Acked(snd, j) + size /\ Acked(snd, j) \in Int /\ size \in Int
      <4>1. /\ Begin(snd, j + 1) = Abs(q[j + 1])
            /\ EndOf(snd, j + 1) = Abs(q[j + 1]) + size
            /\ Abs(q[j + 1]) \in Nat /\ size \in Nat
        BY <1>1, <1>2, <1>4, <2>1, <3>1, OutstandingUnwraps, ElementOfSeq, MessageNumbers
           DEF AbsEnd
      <4>2. Acked(snd, j + 1) = EndOf(snd, j + 1) - Begin(snd, 1)
        BY <1>4 DEF Acked
      <4>3. CASE j = 0
        BY <4>1, <4>2, <4>3 DEF Acked
      <4>4. CASE j > 0
        <5>1. j \in 1 .. n - 1 /\ j \in 1 .. n /\ 1 \in 1 .. n
          BY <1>4, <2>1, <4>4
        <5>2. EndOf(snd, j) = AbsEnd(q[j]) /\ Begin(snd, 1) = Abs(q[1])
              /\ Abs(q[1]) \in Nat /\ AbsEnd(q[j]) \in Nat
          BY <1>1, <1>2, <1>4, <5>1, OutstandingUnwraps, ElementOfSeq, MessageNumbers
        <5>3. AbsEnd(q[j]) = Abs(q[j + 1])
          BY <1>1, <1>2, <5>1 DEF IInv, OutstandingIsUnacked, Covers
        <5>4. Acked(snd, j) = EndOf(snd, j) - Begin(snd, 1)
          BY <4>4, <1>4 DEF Acked
        <5> QED BY <4>1, <4>2, <5>2, <5>3, <5>4
      <4> QED BY <1>4, <4>3, <4>4
    <3>4. Dropped(j + 1) = [s EXCEPT !.seqnums_in_flight_ = @ - size,
                                     !.outstanding_ = SubSeq(q, (j + 1) + 1, n)]
      <4>1. PICK t : t = SubSeq(q, j + 1, n)
        OBVIOUS
      <4>2. PICK u : u = SubSeq(q, (j + 1) + 1, n)
        OBVIOUS
      <4>3. PICK y : y = snd.seqnums_in_flight_ - Acked(snd, j)
        OBVIOUS
      <4>4. s = [snd EXCEPT !.seqnums_in_flight_ = y, !.outstanding_ = t]
        BY <1>1, <1>2, <1>3, <1>4, <4>1, <4>3 DEF Dropped, SenderType
      <4>5. y - size = snd.seqnums_in_flight_ - Acked(snd, j + 1)
        BY <1>4, <3>3, <4>3
      <4>6. Dropped(j + 1) = [snd EXCEPT !.seqnums_in_flight_ = y - size, !.outstanding_ = u]
        BY <1>1, <1>2, <1>4, <4>2, <4>5 DEF Dropped, SenderType
      <4>7. [s EXCEPT !.seqnums_in_flight_ = @ - size, !.outstanding_ = u]
              = [snd EXCEPT !.seqnums_in_flight_ = y - size, !.outstanding_ = u]
        BY <1>4, <4>4 DEF SenderType
      <4> QED BY <4>2, <4>6, <4>7
    <3>5. AckRound(at, A) = [snd |-> Dropped(j + 1), looping |-> TRUE]
      BY <3>2, <3>4
    <3> QED BY <1>1, <1>2, <1>3, <1>7, <2>6, <3>5
  <2>7. CASE ~(EndOf(snd, j + 1) <= A)
    <3>1. EndOf(s, 1) > A
      BY <2>4, <2>5, <2>7
    <3>2. AckRound(at, A) = [snd |-> s, looping |-> FALSE]
      BY <3>1 DEF AckRound
    <3> QED BY <1>3, <2>7, <3>2
  <2> QED BY <2>6, <2>7
<1> QED BY <1>4, <1>6, <1>7

\* The loop drops the messages acknowledged in full, the first k, and stops.
LEMMA AckLoopDrops ==
    ASSUME IInv, NEW ackno \in Raw
    PROVE  \E k \in 0 .. Len(snd.outstanding_) :
              /\ Acks(snd, ackno, k)
              /\ AckLoop(AbsoluteAckno(snd, ackno))
                   = [snd |-> DropAcked(snd, k), looping |-> FALSE]
<1>1. PICK n : n = Len(snd.outstanding_)
  OBVIOUS
<1>2. PICK A : A = AbsoluteAckno(snd, ackno)
  OBVIOUS
<1>3. /\ snd \in SenderType /\ snd.outstanding_ \in Seq(MessageType) /\ n \in Nat
      /\ A \in Nat
  <2>1. /\ snd.isn_ = Isn /\ Isn \in Raw /\ snd.seqnums_sent_ \in Nat
        /\ snd \in SenderType /\ snd.outstanding_ \in Seq(MessageType)
    BY Fields DEF IInv, TypeOK
  <2>2. A \in Nat
    BY <1>2, <2>1, UnwrapSound DEF AbsoluteAckno
  <2> QED BY <1>1, <2>1, <2>2, LenProperties
<1>4. PICK k \in 0 .. n : Acks(snd, ackno, k)
  BY <1>1, AcksSome
<1>5. /\ \A i \in 1 .. k : EndOf(snd, i) <= A
      /\ k < n => EndOf(snd, k + 1) > A
  BY <1>1, <1>2, <1>4 DEF Acks
<1>6. PICK f : /\ AckLoop(A) = f[n + 1]
               /\ f[0] = AckStart
               /\ \A i \in 0 .. n : f[i + 1] = AckRound(f[i], A)
  BY <1>1, <1>3, AckLoopRounds
<1> DEFINE Going(i) == [snd |-> Dropped(i), looping |-> TRUE]
           last == [snd |-> Dropped(k), looping |-> FALSE]
           S == {i \in 0 .. k : f[i] = Going(i)}
           T == {i \in 0 .. n - k : f[(k + 1) + i] = last}
<1>7. 0 \in S
  <2>1. snd = Dropped(0)
    <3>1. SubSeq(snd.outstanding_, 1, n) = snd.outstanding_
      BY <1>1, <1>3, SubSeqFull
    <3>2. snd.seqnums_in_flight_ - Acked(snd, 0) = snd.seqnums_in_flight_
      BY <1>3 DEF Acked, SenderType
    <3>3. SubSeq(snd.outstanding_, 0 + 1, Len(snd.outstanding_)) = snd.outstanding_
      BY <1>1, <3>1
    <3> QED BY <1>3, <3>2, <3>3 DEF Dropped, SenderType
  <2>2. 0 \in 0 .. k
    BY <1>3, <1>4
  <2> QED BY <1>6, <2>1, <2>2 DEF AckStart
<1>8. ASSUME NEW i \in 0 .. k - 1, i \in S
      PROVE  i + 1 \in S
  <2>1. i \in 0 .. n /\ i < n /\ i + 1 \in 1 .. k /\ i + 1 \in 0 .. k
    BY <1>3, <1>4
  <2>2. f[i + 1] = AckRound(Going(i), A)
    BY <1>6, <1>8, <2>1
  <2>3. AckRound(Going(i), A) = Going(i + 1)
    BY <1>1, <1>3, <1>5, <2>1, AckRoundDrops
  <2> QED BY <2>1, <2>2, <2>3
<1>9. f[k] = Going(k)
  <2> HIDE DEF S, Going
  <2>1. \A i \in 0 .. k - 1 : i \in S => i + 1 \in S
    BY <1>8
  <2>2. k \in Nat
    BY <1>3, <1>4
  <2>3. \A i \in 0 .. k : i \in S
    BY <1>7, <2>1, <2>2, Climb
  <2>4. k \in S
    BY <2>2, <2>3
  <2> QED BY <2>4 DEF S
<1>10. f[k + 1] = last
  <2>1. f[k + 1] = AckRound(Going(k), A)
    BY <1>3, <1>4, <1>6, <1>9
  <2>2. ~(k < n /\ EndOf(snd, k + 1) <= A)
    <3>1. CASE k < n
      <4>1. EndOf(snd, k + 1) > A
        BY <1>5, <3>1
      <4>2. k + 1 \in 1 .. n
        BY <1>3, <1>4, <3>1
      <4>3. EndOf(snd, k + 1) \in Nat
        BY <1>1, <1>3, <4>2, OutstandingUnwraps, ElementOfSeq, MessageNumbers
      <4> QED BY <1>3, <4>1, <4>3
    <3> QED BY <3>1
  <2>3. AckRound(Going(k), A) = last
    BY <1>1, <1>3, <1>4, <2>2, AckRoundDrops
  <2> QED BY <2>1, <2>3
<1>11. 0 \in T
  BY <1>3, <1>4, <1>10
<1>12. ASSUME NEW i \in 0 .. (n - k) - 1, i \in T
       PROVE  i + 1 \in T
  <2>1. (k + 1) + i \in 0 .. n /\ ((k + 1) + i) + 1 = (k + 1) + (i + 1) /\ i + 1 \in 0 .. n - k
    BY <1>3, <1>4
  <2>2. f[(k + 1) + (i + 1)] = AckRound(last, A)
    BY <1>6, <1>12, <2>1
  <2>3. AckRound(last, A) = last
    BY DEF AckRound
  <2> QED BY <2>1, <2>2, <2>3
<1>13. f[n + 1] = last
  <2> HIDE DEF T, last
  <2>1. \A i \in 0 .. (n - k) - 1 : i \in T => i + 1 \in T
    BY <1>12
  <2>2. n - k \in Nat
    BY <1>3, <1>4
  <2>3. n - k \in T
    BY <1>11, <2>1, <2>2, Climb
  <2>4. (k + 1) + (n - k) = n + 1
    BY <1>3, <1>4
  <2> QED BY <2>3, <2>4 DEF T
<1>14. Dropped(k) = DropAcked(snd, k)
  BY DEF Dropped, DropAcked
<1> QED BY <1>1, <1>2, <1>4, <1>6, <1>13, <1>14

-----------------------------------------------------------------------------
\* The loop of push

PushStart == [snd |-> snd, stream |-> outbound, looping |-> TRUE]

IsPushLoop(n, f) ==
    f = [k \in 0 .. n |-> IF k = 0 THEN PushStart ELSE PushRound(f[k - 1])]

LEMMA PushLoopExists == ASSUME NEW n \in Nat PROVE \E f : IsPushLoop(n, f)
<1> DEFINE S == {k \in 0 .. n : \E f : IsPushLoop(k, f)}
<1>1. 0 \in S
  <2>1. IsPushLoop(0, [k \in 0 .. 0 |-> PushStart])
    BY DEF IsPushLoop
  <2> QED BY <2>1
<1>2. \A k \in 0 .. n - 1 : k \in S => k + 1 \in S
  <2> SUFFICES ASSUME NEW k \in 0 .. n - 1, k \in S PROVE k + 1 \in S
    OBVIOUS
  <2>1. PICK f : IsPushLoop(k, f)
    OBVIOUS
  <2> DEFINE g == [m \in 0 .. k + 1 |-> IF m = k + 1 THEN PushRound(f[k]) ELSE f[m]]
  <2>2. IsPushLoop(k + 1, g)
    BY <2>1 DEF IsPushLoop
  <2> QED BY <2>2
<1> HIDE DEF S
<1>3. n \in S
  BY <1>1, <1>2, Climb
<1> QED BY <1>3 DEF S

\* The rounds of the loop, one by one.
LEMMA PushLoopRounds ==
    ASSUME Room(snd) \in Nat
    PROVE  \E f : /\ PushLoop = f[Room(snd) + 1]
                  /\ f[0] = PushStart
                  /\ \A k \in 0 .. Room(snd) : f[k + 1] = PushRound(f[k])
<1> DEFINE n == Room(snd) + 1
           g == CHOOSE f : IsPushLoop(n, f)
<1>0. n \in Nat
  OBVIOUS
<1>1. IsPushLoop(n, g)
  <2>1. \E f : IsPushLoop(n, f)
    BY <1>0, PushLoopExists
  <2> QED BY <2>1
<1>2. PushLoop = g[n]
  BY DEF PushLoop, IsPushLoop, PushStart
<1> HIDE DEF g
<1>3. \A k \in 0 .. n : g[k] = IF k = 0 THEN PushStart ELSE PushRound(g[k - 1])
  BY <1>1 DEF IsPushLoop
<1>4. ASSUME NEW k \in 0 .. n - 1
      PROVE  g[k + 1] = PushRound(g[k])
  <2>1. k + 1 \in 0 .. n /\ k + 1 # 0 /\ (k + 1) - 1 = k
    BY <1>0
  <2> QED BY <1>3, <2>1
<1>5. Room(snd) = n - 1
  OBVIOUS
<1> QED BY <1>0, <1>2, <1>3, <1>4, <1>5

\* A sender that sent something: isn_ and window_size_ are left alone.
Moved(s, syn, fin, sent, flight, out, ready) ==
    [s EXCEPT !.syn_ = syn, !.fin_ = fin,
              !.seqnums_sent_ = sent, !.seqnums_in_flight_ = flight,
              !.outstanding_ = out, !.ready_to_send_ = ready]

LEMMA NotMoved ==
    ASSUME NEW s \in SenderType
    PROVE  s = Moved(s, s.syn_, s.fin_, s.seqnums_sent_, s.seqnums_in_flight_,
                     s.outstanding_, s.ready_to_send_)
  BY DEF SenderType, Moved

LEMMA MovedFields ==
    ASSUME NEW s \in SenderType,
           NEW syn, NEW fin, NEW sent, NEW flight, NEW out, NEW ready,
           NEW t, t = Moved(s, syn, fin, sent, flight, out, ready)
    PROVE  /\ t.isn_ = s.isn_ /\ t.window_size_ = s.window_size_
           /\ t.syn_ = syn /\ t.fin_ = fin
           /\ t.seqnums_sent_ = sent /\ t.seqnums_in_flight_ = flight
           /\ t.outstanding_ = out /\ t.ready_to_send_ = ready
  BY DEF SenderType, Moved

LEMMA Popped ==
    ASSUME NEW s \in StreamType, NEW m \in Nat
    PROVE  /\ PopFrom(s, m) \in StreamType
           /\ PopFrom(s, m).popped = s.popped + m
           /\ PopFrom(s, m).pushed = s.pushed /\ PopFrom(s, m).closed = s.closed
           /\ s.popped \in Nat /\ s.pushed \in Nat
           /\ Buffered(PopFrom(s, m)) = Buffered(s) - m
           /\ PopFrom(s, 0) = s
<1>1. s.popped \in Nat /\ s.pushed \in Nat
  BY DEF StreamType
<1>2. PICK x \in Nat : x = s.popped + m
  BY <1>1
<1>3. PopFrom(s, m) = [s EXCEPT !.popped = x]
  BY <1>2 DEF PopFrom
<1>4. /\ PopFrom(s, m) \in StreamType
      /\ PopFrom(s, m).popped = x
      /\ PopFrom(s, m).pushed = s.pushed /\ PopFrom(s, m).closed = s.closed
  BY <1>3 DEF StreamType
<1>5. Buffered(PopFrom(s, m)) = Buffered(s) - m
  BY <1>1, <1>2, <1>4 DEF Buffered
<1>6. PopFrom(s, 0) = s
  BY <1>1 DEF PopFrom, StreamType
<1> QED BY <1>1, <1>2, <1>4, <1>5, <1>6

LEMMA PoppedTwice ==
    ASSUME NEW s \in StreamType, NEW m \in Nat, NEW k \in Nat
    PROVE  PopFrom(PopFrom(s, m), k) = PopFrom(s, m + k)
<1>1. s.popped \in Nat
  BY DEF StreamType
<1>2. PICK x \in Nat : x = s.popped + m
  BY <1>1
<1>3. PICK z \in Nat : z = s.popped + (m + k)
  BY <1>1
<1>4. PICK t : t = [s EXCEPT !.popped = x]
  OBVIOUS
<1>5. PopFrom(s, m) = t /\ PopFrom(s, m + k) = [s EXCEPT !.popped = z]
  BY <1>2, <1>3, <1>4 DEF PopFrom
<1>6. t.popped = x /\ x + k = z
  BY <1>1, <1>2, <1>3, <1>4 DEF StreamType
<1>7. PopFrom(t, k) = [t EXCEPT !.popped = z]
  BY <1>6 DEF PopFrom
<1>8. [t EXCEPT !.popped = z] = [s EXCEPT !.popped = z]
  BY <1>4 DEF StreamType
<1> QED BY <1>5, <1>7, <1>8

\* What the round computes in a state that does not leave the loop.
IsRound(s, stream, len, rest, f, m, size, looping) ==
    /\ Room(s) > 0 /\ ~(Room(s) <= 0)
    /\ len = AtMost(Buffered(stream), AtMost(MaxPayload, Room(s) - One(~s.syn_)))
    /\ rest = PopFrom(stream, len)
    /\ f = (Finished(rest) /\ One(~s.syn_) + len < Room(s) /\ ~s.fin_)
    /\ m = Message(Wrap(s.seqnums_sent_, s.isn_), ~s.syn_, stream.popped, len, f)
    /\ size = sequence_length(m) /\ size # 0
    /\ looping = (~f /\ Buffered(rest) > 0)

\* The new values of syn_ and fin_.
Flags(s, f, syn, fin) == syn = TRUE /\ fin = (s.fin_ \/ f)

\* What a round does to the fields when it is not the one that leaves the loop.
LEMMA RoundSends ==
    ASSUME NEW s0 \in SenderType, NEW syn0, NEW fin0,
           NEW sent \in Nat, NEW flight \in Nat, NEW out, NEW ready,
           NEW s, s = Moved(s0, syn0, fin0, sent, flight, out, ready),
           NEW stream, NEW len, NEW rest, NEW f, NEW m, NEW size, NEW looping,
           IsRound(s, stream, len, rest, f, m, size, looping),
           NEW syn, NEW fin, Flags(s, f, syn, fin)
    PROVE  PushRound([snd |-> s, stream |-> stream, looping |-> TRUE])
             = [snd |-> Moved(s0, syn, fin, sent + size, flight + size,
                              Append(out, m), Append(ready, m)),
                stream |-> rest, looping |-> looping]
<1>1. /\ s.seqnums_sent_ = sent /\ s.seqnums_in_flight_ = flight
      /\ s.outstanding_ = out /\ s.ready_to_send_ = ready
  BY MovedFields
<1>2. PICK t : t = [s EXCEPT !.syn_ = syn,
                             !.fin_ = fin,
                             !.seqnums_in_flight_ = @ + size,
                             !.seqnums_sent_ = @ + size,
                             !.outstanding_ = Append(@, m),
                             !.ready_to_send_ = Append(@, m)]
  OBVIOUS
<1>3. t = [s EXCEPT !.syn_ = syn,
                    !.fin_ = fin,
                    !.seqnums_in_flight_ = flight + size,
                    !.seqnums_sent_ = sent + size,
                    !.outstanding_ = Append(out, m),
                    !.ready_to_send_ = Append(ready, m)]
  BY <1>1, <1>2
<1>4. t = Moved(s0, syn, fin, sent + size, flight + size, Append(out, m), Append(ready, m))
  BY <1>3 DEF Moved, SenderType
<1>5. PushRound([snd |-> s, stream |-> stream, looping |-> TRUE])
        = [snd |-> [s EXCEPT !.syn_ = syn,
                             !.fin_ = fin,
                             !.seqnums_in_flight_ = @ + size,
                             !.seqnums_sent_ = @ + size,
                             !.outstanding_ = Append(@, m),
                             !.ready_to_send_ = Append(@, m)],
           stream |-> rest, looping |-> looping]
  <2> DEFINE at == [snd |-> s, stream |-> stream, looping |-> TRUE]
  <2>1. at.snd = s /\ at.stream = stream /\ at.looping = TRUE
    OBVIOUS
  <2> HIDE DEF at
  <2>2. PushRound(at)
               = [snd |-> [s EXCEPT !.syn_ = TRUE,
                                    !.fin_ = @ \/ f,
                                    !.seqnums_in_flight_ = @ + size,
                                    !.seqnums_sent_ = @ + size,
                                    !.outstanding_ = Append(@, m),
                                    !.ready_to_send_ = Append(@, m)],
                  stream |-> rest, looping |-> looping]
    BY <2>1, ZenonT(180) DEF PushRound, IsRound
  <2>3. syn = TRUE /\ fin = (s.fin_ \/ f)
    BY DEF Flags
  <2> QED BY <2>2, <2>3, Zenon DEF at
<1> QED BY <1>2, <1>4, <1>5, Zenon

\* Message i of n, counted from 0, when each but the last has P of the b bytes.
Cuts(n, b, P, i) ==
    /\ i * P \in Nat /\ i * P <= b /\ (b > 0 => i * P < b)
    /\ (i + 1) * P = i * P + P
    /\ i + 1 < n => i * P + P < b
    /\ i + 1 = n => b <= i * P + P
    /\ i > 0 => b > 0

Part(p, n, b, f, y, P, i) ==
    p[i + 1] = Message(Wrap(snd.seqnums_sent_ + (IF i = 0 THEN 0 ELSE y) + i * P, Isn),
                       i = 0 /\ ~snd.syn_, outbound.popped + i * P,
                       AtMost(b - i * P, P), i + 1 = n /\ f)

\* The messages of a push, spelled out: where each begins and what it carries.
LEMMA PushPlan ==
    ASSUME IInv, CanPush(snd),
           NEW p, p = Pushed(snd, outbound),
           NEW n, n = Count(snd, outbound),
           NEW b, b = Bytes(snd, outbound),
           NEW f, f = Finishes(snd, outbound),
           NEW y, y = One(~snd.syn_),
           NEW P, P = MaxPayload
    PROVE  /\ n \in Nat /\ b \in Nat /\ f \in BOOLEAN /\ y \in 0 .. 1
           /\ P \in Nat /\ P > 0
           /\ p \in Seq(MessageType) /\ Len(p) = n
           /\ b = AtMost(Buffered(outbound), Room(snd) - y)
           /\ f <=> /\ outbound.closed /\ ~snd.fin_
                    /\ b = Buffered(outbound) /\ b < Room(snd) - y
           /\ n = 0 => b = 0 /\ y = 0 /\ ~f
           /\ n > 0 /\ b = 0 => n = 1 /\ (y = 1 \/ f)
           /\ \A i \in 0 .. n - 1 : Cuts(n, b, P, i) /\ Part(p, n, b, f, y, P, i)
           /\ n <= Room(snd)
<1>0. /\ P \in Nat /\ P > 0 /\ snd.isn_ = Isn /\ y \in 0 .. 1 /\ snd.syn_ \in BOOLEAN
  BY PayloadAssumption, Fields, OneType DEF IInv
<1>1. /\ n \in Nat /\ p \in Seq(MessageType) /\ Len(p) = n
  BY PushedMessages
<1>2. /\ b \in Nat /\ f \in BOOLEAN /\ Room(snd) \in Nat /\ Room(snd) > 0
  BY PushFits
<1>3. b = AtMost(Buffered(outbound), Room(snd) - y)
  BY DEF Bytes
<1>4. f <=> /\ outbound.closed /\ ~snd.fin_
            /\ b = Buffered(outbound) /\ b < Room(snd) - y
  BY DEF Finishes
<1>5. n = IF b > 0 THEN ((b - 1) \div P) + 1 ELSE One(~snd.syn_ \/ f)
  BY DEF Count
<1>6. /\ n = 0 => b = 0 /\ y = 0 /\ ~f
      /\ n > 0 /\ b = 0 => n = 1 /\ (y = 1 \/ f)
  <2>1. CASE b > 0
    <3>1. n = ((b - 1) \div MaxPayload) + 1
      BY <1>5, <2>1
    <3>2. n \in Nat /\ n > 0
      BY <1>2, <2>1, <3>1, Cut
    <3> QED BY <2>1, <3>2
  <2>2. CASE b = 0
    BY <1>0, <1>2, <1>5, <2>2 DEF One
  <2> QED BY <1>2, <2>1, <2>2
<1>7. ASSUME NEW i \in 0 .. n - 1
      PROVE  Cuts(n, b, P, i)
  <2>0. i \in Nat /\ i + 1 \in 1 .. n /\ (i + 1) - 1 = i
    BY <1>1
  <2>1. (i + 1) * P = i * P + P /\ i * P \in Nat
    BY <1>0, <2>0
  <2>2. CASE b > 0
    <3>1. n = ((b - 1) \div MaxPayload) + 1
      BY <1>5, <2>2
    <3>2. /\ \A k \in 1 .. n : (k - 1) * P \in Nat /\ (k - 1) * P < b
          /\ b - ((n - 1) * P) <= P
      BY <1>2, <2>2, <3>1, Cut
    <3>3. i * P < b
      BY <2>0, <3>2
    <3>4. ASSUME i + 1 < n PROVE i * P + P < b
      <4>1. i + 2 \in 1 .. n /\ (i + 2) - 1 = i + 1
        BY <1>1, <2>0, <3>4
      <4>2. (i + 1) * P < b
        BY <3>2, <4>1
      <4> QED BY <2>1, <4>2
    <3>5. ASSUME i + 1 = n PROVE b <= i * P + P
      <4>1. n - 1 = i
        BY <1>1, <2>0, <3>5
      <4>2. b - i * P <= P
        BY <3>2, <4>1
      <4> QED BY <1>0, <1>2, <2>1, <4>2
    <3> QED BY <1>2, <2>1, <2>2, <3>3, <3>4, <3>5 DEF Cuts
  <2>3. CASE b = 0
    <3>1. n = 1 /\ i = 0
      BY <1>1, <1>6, <2>3, <2>0
    <3> QED BY <1>0, <2>3, <3>1 DEF Cuts
  <2> QED BY <1>2, <2>2, <2>3
<1>8. ASSUME NEW i \in 0 .. n - 1
      PROVE  Part(p, n, b, f, y, P, i)
  <2>1. i \in Nat /\ i + 1 \in 1 .. n /\ (i + 1) - 1 = i /\ (i + 1 = 1 <=> i = 0)
    BY <1>1
  <2>2. p = [k \in 1 .. n |->
               Message(Wrap(snd.seqnums_sent_ + (IF k = 1 THEN 0 ELSE y) + (k - 1) * P, Isn),
                       k = 1 /\ ~snd.syn_, outbound.popped + (k - 1) * P,
                       AtMost(b - (k - 1) * P, P), k = n /\ f)]
    BY <1>0 DEF Pushed
  <2>3. p[i + 1] =
          Message(Wrap(snd.seqnums_sent_ + (IF i + 1 = 1 THEN 0 ELSE y) + ((i + 1) - 1) * P, Isn),
                  i + 1 = 1 /\ ~snd.syn_, outbound.popped + ((i + 1) - 1) * P,
                  AtMost(b - ((i + 1) - 1) * P, P), i + 1 = n /\ f)
    BY <2>1, <2>2
  <2>4. (IF i + 1 = 1 THEN 0 ELSE y) = (IF i = 0 THEN 0 ELSE y)
    BY <2>1
  <2>5. (i + 1 = 1 /\ ~snd.syn_) = (i = 0 /\ ~snd.syn_)
    BY <2>1
  <2> QED BY <2>1, <2>3, <2>4, <2>5 DEF Part
<1>9. n <= Room(snd)
  <2>1. CASE b = 0
    BY <1>1, <1>2, <1>6, <2>1
  <2>2. CASE b > 0
    <3>1. n > 0 /\ n - 1 \in 0 .. n - 1
      BY <1>1, <1>6, <2>2
    <3>2. (n - 1) * P < b
      BY <1>7, <2>2, <3>1 DEF Cuts
    <3>3. n - 1 <= (n - 1) * P
      BY <1>0, <1>1, <3>1
    <3>4. b <= Room(snd)
      <4>1. Buffered(outbound) \in Nat
        BY Fields DEF IInv
      <4> QED BY <1>0, <1>2, <1>3, <4>1 DEF AtMost
    <3>5. (n - 1) * P \in Nat
      BY <1>7, <3>1 DEF Cuts
    <3> QED BY <1>1, <1>2, <3>1, <3>2, <3>3, <3>4, <3>5
  <2> QED BY <1>2, <2>1, <2>2
<1> QED BY <1>0, <1>1, <1>2, <1>3, <1>4, <1>6, <1>7, <1>8, <1>9

\* A queue that takes over a list element by element.
LEMMA PrefixGrows ==
    ASSUME NEW S, NEW q \in Seq(S), NEW p \in Seq(S), NEW k \in 0 .. Len(p) - 1
    PROVE  Append(q \o SubSeq(p, 1, k), p[k + 1]) = q \o SubSeq(p, 1, k + 1)
<1>1. Len(p) \in Nat /\ k + 1 \in 1 .. Len(p) /\ p[k + 1] \in S
  <2>1. Len(p) \in Nat
    BY LenProperties
  <2>2. k + 1 \in 1 .. Len(p)
    BY <2>1
  <2> QED BY <2>1, <2>2, ElementOfSeq
<1>2. PICK a : a = SubSeq(p, 1, k)
  OBVIOUS
<1>3. PICK e \in Seq(S) : e = <<p[k + 1]>>
  <2>1. PICK x \in S : x = p[k + 1]
    BY <1>1
  <2>2. <<x>> \in Seq(S)
    OBVIOUS
  <2> QED BY <2>1, <2>2
<1>4. a \in Seq(S)
  <2>1. \A i \in 1 .. k : p[i] \in S
    BY <1>1, ElementOfSeq
  <2> QED BY <1>1, <1>2, <2>1, SubSeqProperties
<1>5. SubSeq(p, 1, k + 1) = a \o e
  <2>1. 1 \in 1 .. Len(p) /\ k + 1 \in 1 .. Len(p) /\ (k + 1) - 1 = k
    BY <1>1
  <2> QED BY <1>2, <1>3, <2>1, SubSeqRecursiveSecond
<1>6. Append(q \o a, p[k + 1]) = (q \o a) \o e
  BY <1>1, <1>3, <1>4, ConcatProperties, AppendIsConcat
<1>7. (q \o a) \o e = q \o (a \o e)
  BY <1>3, <1>4, ConcatAssociative, SMTT(30)
<1> QED BY <1>2, <1>5, <1>6, <1>7

\* The sequence numbers of the first k messages when another one follows.
Skipped(y, P, k) == (IF k = 0 THEN 0 ELSE y) + k * P

\* The sender and the stream in the middle of a push, and at its end.
Midway(k) ==
    LET skip   == Skipped(One(~snd.syn_), MaxPayload, k)
        prefix == SubSeq(Pushed(snd, outbound), 1, k)
    IN  [snd |-> Moved(snd, snd.syn_ \/ k > 0, snd.fin_,
                       snd.seqnums_sent_ + skip, snd.seqnums_in_flight_ + skip,
                       snd.outstanding_ \o prefix, snd.ready_to_send_ \o prefix),
         stream |-> PopFrom(outbound, k * MaxPayload),
         looping |-> TRUE]

Afterwards(looping) ==
    [snd |-> SenderAfterPush(snd, outbound),
     stream |-> StreamAfterPush(snd, outbound),
     looping |-> looping]

\* What a push leaves, field by field.
LEMMA SenderAfterPushIs ==
    ASSUME IInv
    PROVE  SenderAfterPush(snd, outbound)
             = Moved(snd, TRUE, snd.fin_ \/ Finishes(snd, outbound),
                     snd.seqnums_sent_ + SeqnumsPushed(snd, outbound),
                     snd.seqnums_in_flight_ + SeqnumsPushed(snd, outbound),
                     snd.outstanding_ \o Pushed(snd, outbound),
                     snd.ready_to_send_ \o Pushed(snd, outbound))
<1>1. snd \in SenderType
  BY DEF IInv, TypeOK
<1>2. PICK p : p = Pushed(snd, outbound)
  OBVIOUS
<1>3. PICK c : c = SeqnumsPushed(snd, outbound)
  OBVIOUS
<1>4. PICK x : x = (snd.fin_ \/ Finishes(snd, outbound))
  OBVIOUS
<1>5. PICK t : t = TRUE
  OBVIOUS
<1>6. SenderAfterPush(snd, outbound)
        = [snd EXCEPT !.syn_ = t, !.fin_ = x,
                      !.seqnums_sent_ = @ + c, !.seqnums_in_flight_ = @ + c,
                      !.outstanding_ = @ \o p, !.ready_to_send_ = @ \o p]
  BY <1>2, <1>3, <1>4, <1>5, Zenon DEF SenderAfterPush
<1>7. @ = Moved(snd, t, x, snd.seqnums_sent_ + c,
                snd.seqnums_in_flight_ + c, snd.outstanding_ \o p, snd.ready_to_send_ \o p)
  BY <1>1 DEF SenderType, Moved
<1> QED BY <1>2, <1>3, <1>4, <1>5, <1>6, <1>7, Zenon

\* The k-th round sends the k-th message of the plan.
LEMMA PushRoundSends ==
    ASSUME IInv, CanPush(snd), NEW k \in 0 .. Count(snd, outbound) - 1
    PROVE  PushRound(Midway(k)) =
             IF k + 1 < Count(snd, outbound) THEN Midway(k + 1)
             ELSE Afterwards(/\ ~Finishes(snd, outbound)
                             /\ Buffered(outbound) > Bytes(snd, outbound))
<1>p. PICK p : p = Pushed(snd, outbound) OBVIOUS
<1>n. PICK n : n = Count(snd, outbound) OBVIOUS
<1>b. PICK b : b = Bytes(snd, outbound) OBVIOUS
<1>f. PICK f : f = Finishes(snd, outbound) OBVIOUS
<1>y. PICK y : y = One(~snd.syn_) OBVIOUS
<1>P. PICK P : P = MaxPayload OBVIOUS
<1>r. PICK room : room = Room(snd) OBVIOUS
<1>z. PICK buf : buf = Buffered(outbound) OBVIOUS
<1>k. PICK kP : kP = k * P OBVIOUS
<1>1. /\ n \in Nat /\ b \in Nat /\ f \in BOOLEAN /\ y \in 0 .. 1
      /\ P \in Nat /\ P > 0
      /\ p \in Seq(MessageType) /\ Len(p) = n
      /\ b = AtMost(buf, room - y)
      /\ f <=> outbound.closed /\ ~snd.fin_ /\ b = buf /\ b < room - y
      /\ n > 0 /\ b = 0 => n = 1 /\ (y = 1 \/ f)
  BY <1>p, <1>n, <1>b, <1>f, <1>y, <1>P, <1>r, <1>z, PushPlan
<1>0. Cuts(n, b, P, k) /\ Part(p, n, b, f, y, P, k)
  <2>1. \A i \in 0 .. n - 1 : Cuts(n, b, P, i) /\ Part(p, n, b, f, y, P, i)
    BY <1>p, <1>n, <1>b, <1>f, <1>y, <1>P, PushPlan
  <2> QED BY <1>n, <2>1
<1>2. /\ kP \in Nat /\ kP <= b /\ (b > 0 => kP < b)
      /\ (k + 1) * P = kP + P
      /\ k + 1 < n => kP + P < b
      /\ k + 1 = n => b <= kP + P
      /\ k > 0 => b > 0
  BY <1>k, <1>0 DEF Cuts
<1>m. p[k + 1] = Message(Wrap(snd.seqnums_sent_ + (IF k = 0 THEN 0 ELSE y) + kP, Isn),
                         k = 0 /\ ~snd.syn_, outbound.popped + kP,
                         AtMost(b - kP, P), k + 1 = n /\ f)
  BY <1>k, <1>0, Zenon DEF Part
<1>3. /\ k \in Nat /\ k + 1 <= n
      /\ snd \in SenderType
      /\ snd.isn_ = Isn /\ snd.syn_ \in BOOLEAN /\ snd.fin_ \in BOOLEAN
      /\ snd.seqnums_sent_ \in Nat /\ snd.seqnums_in_flight_ \in Nat
      /\ snd.outstanding_ \in Seq(MessageType) /\ snd.ready_to_send_ \in Seq(MessageType)
      /\ outbound \in StreamType /\ buf \in Nat
  BY <1>n, <1>z, <1>1, Fields DEF IInv, TypeOK
<1>4. /\ room \in Nat /\ room > 0
      /\ room = Usable(snd.window_size_) - snd.seqnums_in_flight_
      /\ Usable(snd.window_size_) \in Int
  <2>1. snd.window_size_ \in Nat
    BY Fields DEF IInv
  <2> QED BY <1>r, <2>1, PushFits DEF Room, Usable
<1>d. /\ n \in Nat /\ b \in Nat /\ y \in 0 .. 1 /\ P \in Nat /\ k \in Nat /\ k + 1 <= n
      /\ buf \in Nat /\ room \in Nat /\ kP \in Nat
  BY <1>1, <1>2, <1>3, <1>4
<1>b2. b = AtMost(buf, room - y)
  BY <1>1
<1>5. b <= buf /\ b <= room - y
  BY <1>1, <1>3, <1>4 DEF AtMost
<1>6. PICK syn : syn = (snd.syn_ \/ k > 0) OBVIOUS
<1>7. PICK yk : yk = One(~syn) OBVIOUS
<1>8. PICK skip : skip = Skipped(y, P, k) OBVIOUS
<1>9. PICK stream : stream = PopFrom(outbound, kP) OBVIOUS
<1>10. PICK len : len = AtMost(b - kP, P) OBVIOUS
<1>11. PICK fk : fk = (k + 1 = n /\ f) OBVIOUS
<1>12. PICK rest : rest = PopFrom(stream, len) OBVIOUS
<1>13. PICK looping : looping = (~fk /\ Buffered(rest) > 0) OBVIOUS
<1>14. PICK sent : sent = snd.seqnums_sent_ + skip OBVIOUS
<1>15. PICK flight : flight = snd.seqnums_in_flight_ + skip OBVIOUS
<1>16. PICK m : m = p[k + 1] OBVIOUS
<1>17. PICK size : size = sequence_length(m) OBVIOUS
<1>18. PICK s : s = Moved(snd, syn, snd.fin_, sent, flight,
                          snd.outstanding_ \o SubSeq(p, 1, k),
                          snd.ready_to_send_ \o SubSeq(p, 1, k))
  OBVIOUS
<1>19. Midway(k) = [snd |-> s, stream |-> stream, looping |-> TRUE]
  BY <1>p, <1>y, <1>P, <1>k, <1>6, <1>8, <1>9, <1>14, <1>15, <1>18, Zenon DEF Midway
<1>20. /\ yk = IF k = 0 THEN y ELSE 0
       /\ yk \in 0 .. 1 /\ skip \in Nat /\ skip + yk = y + kP
       /\ syn \in BOOLEAN /\ (~syn <=> (k = 0 /\ ~snd.syn_))
  <2>1. ~syn <=> (k = 0 /\ ~snd.syn_)
    <3>1. k > 0 <=> k # 0
      BY <1>d
    <3>2. CASE k = 0
      <4>1. syn = snd.syn_
        BY <1>3, <1>6, <3>1, <3>2
      <4> QED BY <3>2, <4>1, Zenon
    <3>3. CASE k # 0
      <4>1. syn = TRUE
        BY <1>6, <3>1, <3>3
      <4> QED BY <3>3, <4>1, Zenon
    <3> QED BY <3>2, <3>3
  <2>2. yk = IF k = 0 THEN y ELSE 0
    BY <1>7, <1>y, <2>1 DEF One
  <2>3. skip = (IF k = 0 THEN 0 ELSE y) + kP
    BY <1>8, <1>k DEF Skipped
  <2> QED BY <1>1, <1>2, <1>6, <2>1, <2>2, <2>3
<1>g. /\ yk \in 0 .. 1 /\ skip \in Nat /\ skip + yk = y + kP
      /\ snd.seqnums_sent_ \in Nat /\ snd.seqnums_in_flight_ \in Nat
  BY <1>3, <1>20
<1>21. room - skip > 0 /\ room - skip \in Nat
  <2>1. skip = (IF k = 0 THEN 0 ELSE y) + kP
    BY <1>8, <1>k DEF Skipped
  <2>2. CASE k = 0
    BY <1>k, <1>1, <1>4, <2>1, <2>2
  <2>3. CASE k > 0
    <3>1. kP < b
      BY <1>2, <2>3
    <3> QED BY <1>1, <1>2, <1>4, <1>5, <2>1, <2>3, <3>1
  <2> QED BY <1>3, <2>2, <2>3
<1>22. /\ s.isn_ = Isn /\ s.syn_ = syn /\ s.fin_ = snd.fin_ /\ s.seqnums_sent_ = sent
       /\ Room(s) = room - skip
  <2>1. /\ s.isn_ = Isn /\ s.syn_ = syn /\ s.fin_ = snd.fin_ /\ s.seqnums_sent_ = sent
        /\ s.window_size_ = snd.window_size_ /\ s.seqnums_in_flight_ = flight
    BY <1>3, <1>18, MovedFields
  <2> QED BY <1>3, <1>4, <1>15, <1>20, <2>1 DEF Room
<1>23. /\ stream \in StreamType /\ stream.popped = outbound.popped + kP
       /\ stream.closed = outbound.closed
       /\ Buffered(stream) = buf - kP
  BY <1>2, <1>3, <1>9, <1>z, Popped
<1>24. /\ len \in Nat /\ kP + len <= b
       /\ b > 0 => len > 0
       /\ k + 1 < n => len = P
       /\ k + 1 = n => kP + len = b
  BY <1>1, <1>2, <1>3, <1>10, SMTT(30) DEF AtMost
<1>25. len = AtMost(Buffered(stream), AtMost(P, (room - skip) - yk))
  <2>1. PICK left : left = (room - skip) - yk
    OBVIOUS
  <2>2. left = (room - y) - kP /\ left \in Int
    BY <1>d, <1>g, <2>1
  <2>3. PICK data : data = buf - kP
    OBVIOUS
  <2>4. b - kP = AtMost(data, left) /\ data \in Int
    BY <1>b2, <1>d, <2>2, <2>3 DEF AtMost
  <2>5. AtMost(AtMost(data, left), P) = AtMost(data, AtMost(P, left))
    BY <1>1, <2>2, <2>4 DEF AtMost
  <2> QED BY <1>10, <1>23, <2>1, <2>3, <2>4, <2>5
<1>26. /\ rest \in StreamType /\ rest = PopFrom(outbound, kP + len)
       /\ Buffered(rest) = buf - (kP + len) /\ rest.closed = outbound.closed
  <2>1. rest = PopFrom(outbound, kP + len)
    BY <1>2, <1>3, <1>9, <1>12, <1>24, PoppedTwice
  <2>2. kP + len \in Nat
    BY <1>2, <1>24
  <2> QED BY <1>3, <1>z, <2>1, <2>2, Popped
<1>27. fk = (Finished(rest) /\ yk + len < room - skip /\ ~snd.fin_)
  <2>1. Finished(rest) <=> outbound.closed /\ buf = kP + len
    BY <1>2, <1>3, <1>24, <1>26 DEF Finished
  <2>2. yk + len < room - skip <=> kP + len < room - y
    BY <1>1, <1>2, <1>4, <1>20, <1>24, SMTT(30)
  <2>3. CASE k + 1 = n
    <3>1. fk = f /\ kP + len = b
      BY <1>1, <1>11, <1>24, <2>3
    <3>2. f = (outbound.closed /\ ~snd.fin_ /\ b = buf /\ b < room - y)
      BY <1>1
    <3> QED BY <2>1, <2>2, <3>1, <3>2
  <2>4. CASE k + 1 < n
    <3>1. fk = FALSE /\ kP + len < b /\ buf # kP + len
      BY <1>1, <1>2, <1>3, <1>5, <1>11, <1>24, <2>4
    <3> QED BY <2>1, <3>1
  <2> QED BY <1>1, <1>3, <2>3, <2>4
<1>28. m = Message(Wrap(sent, Isn), ~syn, stream.popped, len, fk)
  <2>1. snd.seqnums_sent_ + (IF k = 0 THEN 0 ELSE y) + kP = sent
    <3>1. skip = (IF k = 0 THEN 0 ELSE y) + kP
      BY <1>8, <1>k DEF Skipped
    <3> QED BY <1>d, <1>g, <1>14, <3>1
  <2>2. (~syn) = (k = 0 /\ ~snd.syn_)
    BY <1>20
  <2> QED BY <1>m, <1>10, <1>11, <1>16, <1>23, <2>1, <2>2, Zenon
<1>29. /\ size = yk + len + One(fk) /\ One(fk) \in 0 .. 1
       /\ size # 0 /\ size \in Nat
  <2>1. One(fk) \in 0 .. 1 /\ (fk => One(fk) = 1)
    BY DEF One
  <2>2. size = yk + len + One(fk)
    <3>1. m.SYN = (~syn) /\ m.len = len /\ m.FIN = fk
      BY <1>28 DEF Message
    <3> QED BY <1>7, <1>17, <3>1 DEF sequence_length
  <2>3. CASE b > 0
    BY <1>20, <1>24, <2>1, <2>2, <2>3
  <2>4. CASE b = 0
    <3>1. k = 0 /\ n = 1 /\ (y = 1 \/ f)
      BY <1>1, <1>2, <1>3, <2>4
    <3>2. yk = y /\ (f => fk)
      <4>1. fk = (1 = 1 /\ f)
        BY <1>11, <3>1
      <4>2. f => fk
        BY <4>1, Zenon
      <4> QED BY <1>20, <3>1, <4>2
    <3> QED BY <1>1, <1>24, <2>1, <2>2, <3>1, <3>2
  <2> QED BY <1>1, <2>1, <2>2, <2>3, <2>4
<1>30. IsRound(s, stream, len, rest, fk, m, size, looping)
  <2>1. Room(s) > 0 /\ ~(Room(s) <= 0)
    BY <1>21, <1>22
  <2>2. PICK rk : rk = Room(s)
    OBVIOUS
  <2>3. /\ len = AtMost(Buffered(stream), AtMost(MaxPayload, rk - One(~s.syn_)))
        /\ fk = (Finished(rest) /\ One(~s.syn_) + len < rk /\ ~s.fin_)
    BY <1>P, <1>7, <1>22, <1>25, <1>27, <2>2, Zenon
  <2>4. m = Message(Wrap(s.seqnums_sent_, s.isn_), ~s.syn_, stream.popped, len, fk)
    BY <1>22, <1>28, Zenon
  <2> QED BY <1>12, <1>13, <1>17, <1>29, <2>1, <2>2, <2>3, <2>4, Zenon DEF IsRound
<1>31. /\ Append(snd.outstanding_ \o SubSeq(p, 1, k), m)
             = snd.outstanding_ \o SubSeq(p, 1, k + 1)
       /\ Append(snd.ready_to_send_ \o SubSeq(p, 1, k), m)
             = snd.ready_to_send_ \o SubSeq(p, 1, k + 1)
  <2>1. k \in 0 .. Len(p) - 1
    BY <1>n, <1>1
  <2> QED BY <1>1, <1>3, <1>16, <2>1, PrefixGrows
<1>32. PICK syn2 : syn2 = TRUE OBVIOUS
<1>33. PICK fin2 : fin2 = (snd.fin_ \/ fk) OBVIOUS
<1>34. PushRound(Midway(k)) =
         [snd |-> Moved(snd, syn2, fin2, sent + size, flight + size,
                        snd.outstanding_ \o SubSeq(p, 1, k + 1),
                        snd.ready_to_send_ \o SubSeq(p, 1, k + 1)),
          stream |-> rest, looping |-> looping]
  <2>1. PICK out : out = snd.outstanding_ \o SubSeq(p, 1, k)
    OBVIOUS
  <2>2. PICK ready : ready = snd.ready_to_send_ \o SubSeq(p, 1, k)
    OBVIOUS
  <2>3. PICK fin : fin = snd.fin_
    OBVIOUS
  <2>4. s = Moved(snd, syn, fin, sent, flight, out, ready)
    BY <1>18, <2>1, <2>2, <2>3, Zenon
  <2>5. Flags(s, fk, syn2, fin2)
    BY <1>22, <1>32, <1>33 DEF Flags
  <2>6. sent \in Nat /\ flight \in Nat
    BY <1>3, <1>14, <1>15, <1>20, SMTT(60)
  <2>7. PushRound([snd |-> s, stream |-> stream, looping |-> TRUE])
          = [snd |-> Moved(snd, syn2, fin2, sent + size, flight + size,
                           Append(out, m), Append(ready, m)),
             stream |-> rest, looping |-> looping]
    BY <1>3, <1>30, <2>4, <2>5, <2>6, RoundSends
  <2> QED BY <1>19, <1>31, <2>1, <2>2, <2>7, Zenon
<1>35. ASSUME k + 1 < n
       PROVE  PushRound(Midway(k)) = Midway(k + 1)
  <2>1. /\ fk = FALSE /\ looping = TRUE /\ len = P /\ One(fk) = 0
    <3>1. fk = FALSE /\ len = P
      <4>1. ~(k + 1 = n) /\ len = P
        BY <1>d, <1>24, <1>35
      <4> QED BY <1>11, <4>1, Zenon
    <3>2. Buffered(rest) > 0
      BY <1>1, <1>2, <1>3, <1>5, <1>26, <1>35, <3>1
    <3> QED BY <1>13, <3>1, <3>2 DEF One
  <2>2. PICK more : more = Skipped(y, P, k + 1)
    OBVIOUS
  <2>3. /\ sent + size = snd.seqnums_sent_ + more
        /\ flight + size = snd.seqnums_in_flight_ + more
    <3>1. more = y + (kP + P)
      <4>1. k + 1 # 0
        BY <1>3
      <4> QED BY <1>2, <2>2, <4>1 DEF Skipped
    <3>2. skip + size = y + (kP + P)
      BY <1>1, <1>2, <1>20, <1>29, <2>1
    <3>3. size \in Nat
      BY <1>29
    <3> QED BY <1>d, <1>g, <1>14, <1>15, <3>1, <3>2, <3>3
  <2>4. rest = PopFrom(outbound, (k + 1) * P)
    BY <1>2, <1>26, <2>1
  <2>5. fin2 = snd.fin_ /\ (snd.syn_ \/ k + 1 > 0) = TRUE
    BY <1>3, <1>33, <2>1
  <2>6. Midway(k + 1) =
          [snd |-> Moved(snd, syn2, fin2,
                         snd.seqnums_sent_ + more, snd.seqnums_in_flight_ + more,
                         snd.outstanding_ \o SubSeq(p, 1, k + 1),
                         snd.ready_to_send_ \o SubSeq(p, 1, k + 1)),
           stream |-> PopFrom(outbound, (k + 1) * P), looping |-> TRUE]
    BY <1>p, <1>y, <1>P, <1>32, <2>2, <2>5, Zenon DEF Midway
  <2> QED BY <1>34, <2>1, <2>3, <2>4, <2>6, Zenon
<1>36. ASSUME k + 1 = n
       PROVE  PushRound(Midway(k)) = Afterwards(~f /\ buf > b)
  <2>1. /\ fk = f /\ kP + len = b
    BY <1>1, <1>11, <1>24, <1>36
  <2>2. looping = (~f /\ buf > b)
    <3>1. Buffered(rest) > 0 <=> buf > b
      BY <1>1, <1>3, <1>26, <2>1
    <3> QED BY <1>13, <2>1, <3>1
  <2>3. PICK c : c = SeqnumsPushed(snd, outbound)
    OBVIOUS
  <2>4. c = y + b + One(f)
    BY <1>y, <1>b, <1>f, <2>3 DEF SeqnumsPushed
  <2>5. sent + size = snd.seqnums_sent_ + c /\ flight + size = snd.seqnums_in_flight_ + c
    <3>1. skip + size = c
      <4>1. PICK o \in 0 .. 1 : o = One(f)
        BY DEF One
      <4>2. size = yk + len + o /\ len \in Nat /\ kP + len = b
        <5>1. One(fk) = o
          BY <2>1, <4>1, Zenon
        <5> QED BY <1>24, <1>29, <1>36, <5>1
      <4> QED BY <1>d, <1>g, <2>4, <4>1, <4>2
    <3>2. size \in Nat
      BY <1>29
    <3> QED BY <1>g, <1>14, <1>15, <3>1, <3>2
  <2>6. SubSeq(p, 1, k + 1) = p
    BY <1>1, <1>36, SubSeqFull
  <2>7. rest = StreamAfterPush(snd, outbound)
    BY <1>b, <1>26, <2>1 DEF StreamAfterPush
  <2>8. Moved(snd, syn2, fin2, snd.seqnums_sent_ + c, snd.seqnums_in_flight_ + c,
              snd.outstanding_ \o p, snd.ready_to_send_ \o p)
          = SenderAfterPush(snd, outbound)
    BY <1>p, <1>f, <1>32, <1>33, <2>1, <2>3, SenderAfterPushIs, Zenon
  <2> QED BY <1>34, <2>2, <2>5, <2>6, <2>7, <2>8, Zenon DEF Afterwards
<1>37. (k + 1 < n) \/ (~(k + 1 < n) /\ k + 1 = n)
  BY <1>1, <1>3
<1> QED BY <1>n, <1>b, <1>f, <1>z, <1>35, <1>36, <1>37, Zenon

\* The round after the last message leaves the loop, if that one did not.
LEMMA PushLoopStops ==
    ASSUME IInv, CanPush(snd), NEW looping \in BOOLEAN,
           looping => /\ ~Finishes(snd, outbound)
                      /\ Buffered(outbound) > Bytes(snd, outbound)
                      /\ Count(snd, outbound) > 0
    PROVE  PushRound(Afterwards(looping)) = Afterwards(FALSE)
<1>1. CASE ~looping
  BY <1>1 DEF PushRound, Afterwards
<1>2. CASE looping
  <2>1. PICK s : s = SenderAfterPush(snd, outbound)
    OBVIOUS
  <2>2. /\ snd.window_size_ \in Nat /\ snd.seqnums_in_flight_ \in Nat
        /\ Buffered(outbound) \in Nat
    BY Fields DEF IInv
  <2>3. /\ Room(snd) \in Nat /\ Room(snd) > 0
        /\ Bytes(snd, outbound) \in Nat
    BY PushFits
  <2>4. /\ s.window_size_ = snd.window_size_
        /\ s.seqnums_in_flight_ = snd.seqnums_in_flight_ + SeqnumsPushed(snd, outbound)
    <3>1. s = Moved(snd, TRUE, snd.fin_ \/ Finishes(snd, outbound),
                    snd.seqnums_sent_ + SeqnumsPushed(snd, outbound),
                    snd.seqnums_in_flight_ + SeqnumsPushed(snd, outbound),
                    snd.outstanding_ \o Pushed(snd, outbound),
                    snd.ready_to_send_ \o Pushed(snd, outbound))
      BY <2>1, SenderAfterPushIs, Zenon
    <3>2. snd \in SenderType
      BY DEF IInv, TypeOK
    <3>3. PICK t : t = TRUE
      OBVIOUS
    <3>4. PICK x : x = (snd.fin_ \/ Finishes(snd, outbound))
      OBVIOUS
    <3>5. PICK c : c = snd.seqnums_sent_ + SeqnumsPushed(snd, outbound)
      OBVIOUS
    <3>6. PICK d : d = snd.seqnums_in_flight_ + SeqnumsPushed(snd, outbound)
      OBVIOUS
    <3>7. PICK o : o = snd.outstanding_ \o Pushed(snd, outbound)
      OBVIOUS
    <3>8. PICK r : r = snd.ready_to_send_ \o Pushed(snd, outbound)
      OBVIOUS
    <3>9. s = Moved(snd, t, x, c, d, o, r)
      BY <3>1, <3>3, <3>4, <3>5, <3>6, <3>7, <3>8, Zenon
    <3> QED BY <3>2, <3>6, <3>9, MovedFields
  <2>5. PICK y : y = One(~snd.syn_)
    OBVIOUS
  <2>6. y \in 0 .. 1 /\ Bytes(snd, outbound) = Room(snd) - y
    <3>1. y \in 0 .. 1
      BY <2>5, Fields, OneType DEF IInv
    <3>2. Bytes(snd, outbound) = AtMost(Buffered(outbound), Room(snd) - y)
      BY <2>5 DEF Bytes
    <3> QED BY <1>2, <2>2, <2>3, <3>1, <3>2 DEF AtMost
  <2>7. SeqnumsPushed(snd, outbound) = Room(snd)
    <3>1. One(Finishes(snd, outbound)) = 0
      BY <1>2 DEF One
    <3> QED BY <2>3, <2>5, <2>6, <3>1 DEF SeqnumsPushed
  <2>8. Room(s) <= 0
    <3>1. Room(s) = Usable(snd.window_size_) - (snd.seqnums_in_flight_ + Room(snd))
      BY <2>4, <2>7 DEF Room
    <3>2. Room(snd) = Usable(snd.window_size_) - snd.seqnums_in_flight_
      BY DEF Room
    <3>3. Usable(snd.window_size_) \in Int
      BY <2>2 DEF Usable
    <3> QED BY <2>2, <2>3, <3>1, <3>2, <3>3
  <2>9. PICK stream : stream = StreamAfterPush(snd, outbound)
    OBVIOUS
  <2> DEFINE at == [snd |-> s, stream |-> stream, looping |-> looping]
  <2>10. at.snd = s /\ at.stream = stream
    OBVIOUS
  <2> HIDE DEF at
  <2>11. PushRound(at) = [snd |-> s, stream |-> stream, looping |-> FALSE]
    BY <2>8, <2>10 DEF PushRound
  <2> QED BY <2>1, <2>9, <2>11 DEF Afterwards, at
<1> QED BY <1>1, <1>2

\* The rounds together make the messages of the plan and stop.
LEMMA PushLoopPushes ==
    ASSUME IInv, CanPush(snd)
    PROVE  PushLoop = Afterwards(FALSE)
<1>1. PICK n : n = Count(snd, outbound)
  OBVIOUS
<1>2. PICK room : room = Room(snd)
  OBVIOUS
<1>3. /\ n \in Nat /\ room \in Nat /\ n <= room
      /\ n = 0 => Bytes(snd, outbound) = 0 /\ snd.syn_ /\ ~Finishes(snd, outbound)
  <2>1. /\ n \in Nat /\ n <= room
        /\ n = 0 => /\ Bytes(snd, outbound) = 0 /\ One(~snd.syn_) = 0
                    /\ ~Finishes(snd, outbound)
    BY <1>1, <1>2, PushPlan
  <2>2. One(~snd.syn_) = 0 => snd.syn_
    BY DEF One
  <2>3. room \in Nat
    BY <1>2, PushFits
  <2>4. ASSUME n = 0
        PROVE  Bytes(snd, outbound) = 0 /\ snd.syn_ /\ ~Finishes(snd, outbound)
    BY <2>1, <2>2, <2>4, Zenon
  <2> QED BY <2>1, <2>3, <2>4
<1>n. n \in Nat /\ room \in Nat /\ n <= room
  BY <1>3
<1>4. PICK f : /\ PushLoop = f[room + 1]
               /\ f[0] = PushStart
               /\ \A k \in 0 .. room : f[k + 1] = PushRound(f[k])
  BY <1>2, <1>3, PushLoopRounds
<1> DEFINE S == {k \in 0 .. n - 1 : f[k] = Midway(k)}
           more == /\ ~Finishes(snd, outbound)
                   /\ Buffered(outbound) > Bytes(snd, outbound)
           T == {k \in 0 .. room - n : f[(n + 1) + k] = Afterwards(FALSE)}
<1>5. f[0] = Midway(0)
  <2>1. /\ snd \in SenderType /\ snd.isn_ = Isn
        /\ snd.syn_ \in BOOLEAN
        /\ snd.seqnums_sent_ \in Nat /\ snd.seqnums_in_flight_ \in Nat
        /\ snd.outstanding_ \in Seq(MessageType) /\ snd.ready_to_send_ \in Seq(MessageType)
        /\ outbound \in StreamType /\ outbound.popped \in Nat
    BY Fields DEF IInv, TypeOK
  <2>2. 0 * MaxPayload = 0
    BY PayloadAssumption
  <2>3. PICK y : y = One(~snd.syn_)
    OBVIOUS
  <2>4. Skipped(y, MaxPayload, 0) = 0
    BY <2>2 DEF Skipped
  <2>5. SubSeq(Pushed(snd, outbound), 1, 0) = <<>>
    BY SubSeqEmpty
  <2>6. /\ snd.outstanding_ \o <<>> = snd.outstanding_
        /\ snd.ready_to_send_ \o <<>> = snd.ready_to_send_
    BY <2>1, ConcatEmptySeq
  <2>7. PopFrom(outbound, 0) = outbound
    BY <2>1, Popped
  <2>8. (snd.syn_ \/ 0 > 0) = snd.syn_
    BY <2>1
  <2>9. snd.seqnums_sent_ + 0 = snd.seqnums_sent_
        /\ snd.seqnums_in_flight_ + 0 = snd.seqnums_in_flight_
    BY <2>1
  <2>10. snd = Moved(snd, snd.syn_, snd.fin_, snd.seqnums_sent_,
                     snd.seqnums_in_flight_, snd.outstanding_, snd.ready_to_send_)
    BY <2>1, NotMoved
  <2>11. Midway(0) = [snd |-> Moved(snd, snd.syn_, snd.fin_, snd.seqnums_sent_,
                                    snd.seqnums_in_flight_, snd.outstanding_,
                                    snd.ready_to_send_),
                      stream |-> outbound, looping |-> TRUE]
    BY <2>2, <2>3, <2>4, <2>5, <2>6, <2>7, <2>8, <2>9, Zenon DEF Midway
  <2> QED BY <1>4, <2>10, <2>11, Zenon DEF PushStart
<1>6. ASSUME n = 0
      PROVE  f[n + 1] = Afterwards(FALSE)
  <2>1. Afterwards(TRUE) = PushStart
    <3>1. snd \in SenderType /\ snd.isn_ = Isn /\ outbound \in StreamType
          /\ snd.fin_ \in BOOLEAN
          /\ snd.seqnums_sent_ \in Nat /\ snd.seqnums_in_flight_ \in Nat
          /\ snd.outstanding_ \in Seq(MessageType) /\ snd.ready_to_send_ \in Seq(MessageType)
          /\ outbound.popped \in Nat
      BY Fields DEF IInv, TypeOK
    <3>2. SeqnumsPushed(snd, outbound) = 0
      BY <1>1, <1>6, PushedMessages
    <3>3. Pushed(snd, outbound) = <<>>
      <4>1. PICK p : p = Pushed(snd, outbound)
        OBVIOUS
      <4>2. p \in Seq(MessageType) /\ Len(p) = 0
        BY <1>1, <1>6, <4>1, PushedMessages
      <4> QED BY <4>1, <4>2, EmptySeq
    <3>4. /\ snd.outstanding_ \o <<>> = snd.outstanding_
          /\ snd.ready_to_send_ \o <<>> = snd.ready_to_send_
      BY <3>1, ConcatEmptySeq
    <3>5. (snd.fin_ \/ Finishes(snd, outbound)) = snd.fin_ /\ snd.syn_ = TRUE
      BY <1>3, <1>6, <3>1, Fields DEF IInv
    <3>6. snd.seqnums_sent_ + 0 = snd.seqnums_sent_
          /\ snd.seqnums_in_flight_ + 0 = snd.seqnums_in_flight_
      BY <3>1
    <3>7. SenderAfterPush(snd, outbound)
            = Moved(snd, snd.syn_, snd.fin_, snd.seqnums_sent_,
                    snd.seqnums_in_flight_, snd.outstanding_, snd.ready_to_send_)
      BY <3>2, <3>3, <3>4, <3>5, <3>6, SenderAfterPushIs, Zenon
    <3>8. SenderAfterPush(snd, outbound) = snd
      BY <3>1, <3>7, NotMoved
    <3>9. StreamAfterPush(snd, outbound) = outbound
      BY <1>3, <1>6, <3>1, Popped DEF StreamAfterPush
    <3> QED BY <3>8, <3>9, Zenon DEF Afterwards, PushStart
  <2>2. PushRound(PushStart) = Afterwards(FALSE)
    <3>1. Bytes(snd, outbound) = 0 /\ snd.syn_ /\ ~Finishes(snd, outbound)
      BY <1>3, <1>6
    <3>2. PICK len : len = AtMost(Buffered(outbound), AtMost(MaxPayload, room - One(~snd.syn_)))
      OBVIOUS
    <3>3. len = 0
      <4>1. One(~snd.syn_) = 0
        BY <3>1 DEF One
      <4>2. AtMost(Buffered(outbound), room) = 0
        BY <1>2, <1>3, <3>1, <4>1 DEF Bytes
      <4>3. Buffered(outbound) \in Nat /\ room > 0
        BY <1>2, Fields DEF IInv, CanPush
      <4> QED BY <1>3, <3>2, <4>1, <4>2, <4>3, PayloadAssumption DEF AtMost
    <3>4. PICK rest : rest = PopFrom(outbound, len)
      OBVIOUS
    <3>5. ~(Finished(rest) /\ One(~snd.syn_) + len < room /\ ~snd.fin_)
      <4>1. rest = outbound
        <5>1. outbound \in StreamType /\ outbound.popped \in Nat
          BY Fields DEF IInv
        <5> QED BY <3>3, <3>4, <5>1, Popped
      <4>2. One(~snd.syn_) = 0
        BY <3>1 DEF One
      <4>3. Finished(outbound) /\ 0 < room /\ ~snd.fin_ => Finishes(snd, outbound)
        BY <1>2, <1>3, <3>1, <4>2 DEF Finishes, Finished
      <4> QED BY <3>1, <3>3, <4>1, <4>2, <4>3
    <3>6. ASSUME NEW first, NEW seqno, NEW fin, fin = FALSE
          PROVE  sequence_length(Message(seqno, ~snd.syn_, first, len, fin)) = 0
      <4>1. PICK m : m = Message(seqno, ~snd.syn_, first, len, fin)
        OBVIOUS
      <4>2. m.SYN = (~snd.syn_) /\ m.len = len /\ m.FIN = fin
        BY <4>1 DEF Message
      <4>3. One(m.SYN) = 0
        BY <3>1, <4>2 DEF One
      <4>4. One(m.FIN) = 0
        BY <3>6, <4>2 DEF One
      <4> QED BY <3>3, <4>1, <4>2, <4>3, <4>4 DEF sequence_length
    <3>7. PushStart.snd = snd /\ PushStart.stream = outbound
      BY DEF PushStart
    <3>8. PushRound(PushStart) = [snd |-> snd, stream |-> outbound, looping |-> FALSE]
      BY <1>2, <3>2, <3>4, <3>5, <3>6, <3>7, ZenonT(60) DEF PushRound
    <3>9. SenderAfterPush(snd, outbound) = snd /\ StreamAfterPush(snd, outbound) = outbound
      BY <2>1 DEF Afterwards, PushStart
    <3> QED BY <3>8, <3>9 DEF Afterwards
  <2>3. f[0 + 1] = PushRound(f[0])
    BY <1>3, <1>4
  <2>4. 0 + 1 = n + 1
    BY <1>6
  <2> QED BY <1>4, <2>2, <2>3, <2>4
<1>7. ASSUME n > 0
      PROVE  f[n] = Afterwards(more)
  <2>1. 0 \in S
    BY <1>3, <1>5, <1>7
  <2>2. ASSUME NEW k \in 0 .. (n - 1) - 1, k \in S
        PROVE  k + 1 \in S
    <3>1. /\ k \in 0 .. room /\ k + 1 \in 0 .. n - 1 /\ k + 1 < n
          /\ k \in 0 .. n - 1
      BY <1>3
    <3>2. f[k + 1] = PushRound(Midway(k))
      BY <1>4, <2>2, <3>1
    <3>3. PushRound(Midway(k)) = Midway(k + 1)
      BY <1>1, <3>1, PushRoundSends
    <3> QED BY <3>1, <3>2, <3>3
  <2>3. \A k \in 0 .. (n - 1) - 1 : k \in S => k + 1 \in S
    BY <2>2
  <2>4. n - 1 \in Nat
    BY <1>3, <1>7
  <2>5. n - 1 \in S
    <3> HIDE DEF S
    <3>1. \A k \in 0 .. n - 1 : k \in S
      BY <2>1, <2>3, <2>4, Climb
    <3> QED BY <2>4, <3>1
  <2>6. f[n] = PushRound(Midway(n - 1))
    <3>1. n - 1 \in 0 .. room /\ (n - 1) + 1 = n
      BY <1>3, <1>7
    <3>2. f[(n - 1) + 1] = PushRound(f[n - 1])
      BY <1>4, <3>1
    <3> QED BY <2>5, <3>1, <3>2
  <2>7. PushRound(Midway(n - 1)) = Afterwards(more)
    <3>1. n - 1 \in 0 .. n - 1 /\ ~((n - 1) + 1 < n)
      BY <1>3, <1>7
    <3> QED BY <1>1, <3>1, PushRoundSends
  <2> QED BY <2>6, <2>7
<1>8. f[n + 1] = Afterwards(FALSE)
  <2>1. CASE n = 0
    BY <1>6, <2>1
  <2>2. CASE n > 0
    <3>1. f[n + 1] = PushRound(f[n])
      BY <1>3, <1>4
    <3>2. PICK x : x = more
      OBVIOUS
    <3>3. x \in BOOLEAN /\ (x => more /\ Count(snd, outbound) > 0)
      BY <1>1, <2>2, <3>2
    <3>4. PushRound(Afterwards(x)) = Afterwards(FALSE)
      BY <3>3, PushLoopStops
    <3> QED BY <1>7, <2>2, <3>1, <3>2, <3>4
  <2>3. n = 0 \/ n > 0
    BY <1>n
  <2> QED BY <2>1, <2>2, <2>3, Zenon
<1>9. ASSUME NEW k \in 0 .. (room - n) - 1, k \in T
      PROVE  k + 1 \in T
  <2>1. /\ (n + 1) + k \in 0 .. room /\ ((n + 1) + k) + 1 = (n + 1) + (k + 1)
        /\ k + 1 \in 0 .. room - n
    BY <1>3
  <2>2. f[(n + 1) + (k + 1)] = PushRound(Afterwards(FALSE))
    BY <1>4, <1>9, <2>1
  <2>3. PushRound(Afterwards(FALSE)) = Afterwards(FALSE)
    BY PushLoopStops
  <2> QED BY <2>1, <2>2, <2>3
<1>10. room - n \in Nat /\ 0 \in T
  <2>1. (n + 1) + 0 = n + 1 /\ 0 \in 0 .. room - n /\ room - n \in Nat
    BY <1>n
  <2> QED BY <1>8, <2>1, Zenon
<1>11. f[room + 1] = Afterwards(FALSE)
  <2> HIDE DEF T
  <2>1. \A k \in 0 .. (room - n) - 1 : k \in T => k + 1 \in T
    BY <1>9
  <2>2. \A k \in 0 .. room - n : k \in T
    BY <1>10, <2>1, Climb
  <2>3. room - n \in T
    BY <1>10, <2>2
  <2>4. (n + 1) + (room - n) = room + 1
    BY <1>3
  <2> QED BY <2>3, <2>4 DEF T
<1> QED BY <1>4, <1>11

\* push and receive leave what their loops leave, and the loops end: in every
\* state the sender can reach, whatever the payload size, window and ackno.
THEOREM LoopsAlwaysMatch == Spec => []LoopsMatch
<1>1. IInv => LoopsMatch
  BY PushLoopPushes, AckLoopDrops DEF LoopsMatch, Afterwards
<1> QED BY <1>1, Invariance, PTL

-----------------------------------------------------------------------------

\* The receiver: the held bytes lie beyond a gap and inside the window.
HeldInWindow == \A i \in asm.held : inbound.pushed < i /\ i < WindowEnd(inbound)

ReceiverIInv ==
    /\ ReceiverTypeOK /\ EveryByteInPlace /\ HeldInWindow
    /\ arrived \in SUBSET Nat

USE ReceiverAssumption, WindowAssumption

\* The counters of the inbound stream, and the window they make.
Bounds ==
    /\ inbound \in StreamType
    /\ inbound.pushed \in Nat /\ inbound.popped \in Nat /\ inbound.capacity \in Nat
    /\ inbound.popped <= inbound.pushed
    /\ WindowEnd(inbound) = inbound.popped + inbound.capacity
    /\ WindowEnd(inbound) \in Nat
    /\ inbound.pushed <= WindowEnd(inbound)
    /\ Available(inbound) = WindowEnd(inbound) - inbound.pushed
    /\ inbound.closed \in BOOLEAN
    /\ asm.held \in SUBSET Nat /\ asm.closing \in BOOLEAN

LEMMA Counters == ReceiverIInv => Bounds
  BY DEF ReceiverIInv, ReceiverTypeOK, StreamOK, StreamType, WindowEnd, Available, Buffered, Bounds

LEMMA MessagesAre ==
    ASSUME NEW msg \in Segments, OfStream(msg)
    PROVE  /\ msg.first \in Nat /\ msg.len \in Nat /\ msg.SYN \in BOOLEAN /\ msg.FIN \in BOOLEAN
           /\ msg.SYN => msg.first = 0 /\ msg.seqno = PeerIsn
           /\ ~msg.SYN => msg.seqno = Wrap(msg.first + 1, PeerIsn)
  <1>1. PICK syn \in BOOLEAN, first \in 0 .. PeerTotal, len \in 0 .. PeerTotal, fin \in BOOLEAN :
          msg = Segment(syn, first, len, fin)
    BY DEF Segments
  <1>2. /\ msg.seqno = Wrap(IF syn THEN 0 ELSE first + 1, PeerIsn)
        /\ msg.SYN = syn /\ msg.first = first /\ msg.len = len /\ msg.FIN = fin
    BY <1>1 DEF Segment
  <1>3. Wrap(0, PeerIsn) = PeerIsn
    BY ModulusAssumption DEF Wrap, Raw
  <1> QED
    BY <1>2, <1>3 DEF OfStream

\* A segment with the peer's zero point is put where it belongs.
LEMMA FirstIndexIsFirst ==
    ASSUME inbound.pushed \in Nat, NEW msg, Recent(msg), msg.first \in Nat,
           msg.SYN => msg.first = 0,
           ~msg.SYN => msg.seqno = Wrap(msg.first + 1, PeerIsn)
    PROVE  FirstIndex(PeerIsn, msg, inbound) = msg.first
  <1>1. CASE msg.SYN
    BY <1>1 DEF FirstIndex
  <1>2. CASE ~msg.SYN
    <2> DEFINE n == msg.first + 1
    <2>1. n \in Nat /\ n - inbound.pushed <= Half /\ inbound.pushed - n < Half
      BY <1>2 DEF Recent
    <2>2. FirstIndex(PeerIsn, msg, inbound) =
            Unwrap(Wrap(n, PeerIsn), PeerIsn, inbound.pushed) - 1
      BY <1>2 DEF FirstIndex
    <2>3. n - 1 = msg.first
      OBVIOUS
    <2> HIDE DEF n
    <2>4. Unwrap(Wrap(n, PeerIsn), PeerIsn, inbound.pushed) = n
      BY <2>1, UnwrapWrap
    <2> QED
      BY <2>2, <2>3, <2>4
  <1> QED
    BY <1>1, <1>2

LEMMA IsnIsThePeers ==
    ASSUME ReceiverIInv, NEW msg \in Segments, OfStream(msg)
    PROVE  /\ IsnAfter(isn_, msg) \in {None, PeerIsn}
           /\ isn_ # None => IsnAfter(isn_, msg) = isn_
           /\ PeerIsn # None
  BY MessagesAre DEF IsnAfter, ReceiverIInv, ReceiverTypeOK, None, Raw

-----------------------------------------------------------------------------
\* Each action keeps the invariant

LEMMA ReceiverInitIInv == ReceiverInit => ReceiverIInv
  <1> SUFFICES ASSUME ReceiverInit PROVE ReceiverIInv
    OBVIOUS
  <1>1. ReceiverTypeOK
    BY DEF ReceiverInit, ReceiverTypeOK, StreamOK, StreamType, EmptyStream, EmptyAssembly
  <1>2. EveryByteInPlace /\ HeldInWindow /\ arrived \in SUBSET Nat
    BY DEF ReceiverInit, EveryByteInPlace, HeldInWindow, EmptyStream, EmptyAssembly
  <1> QED
    BY <1>1, <1>2 DEF ReceiverIInv

\* What an insert leaves behind.
LEMMA InsertIs ==
    ASSUME ReceiverIInv, NEW msg \in Segments, OfStream(msg), Recent(msg), insert(msg)
    PROVE  LET known == asm.held \union Arriving(inbound, msg.first, msg.len)
           IN  \E next \in inbound.pushed .. WindowEnd(inbound) :
                 /\ \A i \in inbound.pushed .. next - 1 : i \in known
                 /\ next \notin known
                 /\ asm'.held = {i \in known : i > next} /\ asm'.closing \in BOOLEAN
                 /\ asm' \in [held : SUBSET Nat, closing : BOOLEAN]
                 /\ inbound'.pushed = next /\ inbound'.popped = inbound.popped
                 /\ inbound'.capacity = inbound.capacity
                 /\ inbound.closed => inbound'.closed
                 /\ inbound' \in StreamType
                 /\ arrived' = arrived \union Arriving(inbound, msg.first, msg.len)
                 /\ isn_' = PeerIsn
  <1> DEFINE known == asm.held \union Arriving(inbound, msg.first, msg.len)
  <1>1. isn_' = PeerIsn
    BY IsnIsThePeers DEF insert, Reassembles
  <1>2. FirstIndex(isn_', msg, inbound) = msg.first
    BY <1>1, Counters, MessagesAre, FirstIndexIsFirst DEF Bounds
  <1>3. PICK next \in inbound.pushed .. WindowEnd(inbound) :
          /\ Reaches(asm, inbound, msg.first, msg.len, next)
          /\ asm' = AssemblyAfter(asm, inbound, msg.first, msg.len, msg.FIN, next)
          /\ inbound' = StreamAfter(asm, inbound, msg.first, msg.len, msg.FIN, next)
    BY <1>2 DEF insert
  <1>4. next \in Nat /\ msg.first \in Nat /\ msg.len \in Nat /\ msg.FIN \in BOOLEAN
    BY <1>3, Counters, MessagesAre DEF Bounds
  <1>5. Known(asm, inbound, msg.first, msg.len) = known
    BY DEF Known
  <1>6. known \in SUBSET Nat
    BY <1>4, Counters DEF Arriving, Bounds
  <1>7. /\ \A i \in inbound.pushed .. next - 1 : i \in known
        /\ next \notin known
    BY <1>3, <1>5 DEF Reaches
  <1>8. /\ asm'.held = {i \in known : i > next} /\ asm'.closing \in BOOLEAN
        /\ asm' \in [held : SUBSET Nat, closing : BOOLEAN]
    BY <1>3, <1>4, <1>5, <1>6, Counters DEF AssemblyAfter, StillHeld, Bounds
  <1>9. /\ inbound'.pushed = next /\ inbound'.popped = inbound.popped
        /\ inbound'.capacity = inbound.capacity
        /\ inbound.closed => inbound'.closed
        /\ inbound' \in StreamType
    BY <1>3, <1>4, Counters DEF StreamAfter, StreamType, Bounds
  <1>10. arrived' = arrived \union Arriving(inbound, msg.first, msg.len)
    BY DEF insert
  <1> QED
    BY <1>1, <1>3, <1>7, <1>8, <1>9, <1>10

LEMMA InsertPreserves ==
    ASSUME ReceiverIInv, NEW msg \in Segments, OfStream(msg), Recent(msg), insert(msg)
    PROVE  ReceiverIInv'
  <1> DEFINE new == Arriving(inbound, msg.first, msg.len)
             known == asm.held \union new
             end == WindowEnd(inbound)
  <1>1. PICK next \in inbound.pushed .. end :
          /\ \A i \in inbound.pushed .. next - 1 : i \in known
          /\ next \notin known
          /\ asm'.held = {i \in known : i > next} /\ asm'.closing \in BOOLEAN
          /\ asm' \in [held : SUBSET Nat, closing : BOOLEAN]
          /\ inbound'.pushed = next /\ inbound'.popped = inbound.popped
          /\ inbound'.capacity = inbound.capacity
          /\ inbound.closed => inbound'.closed
          /\ inbound' \in StreamType
          /\ arrived' = arrived \union new
          /\ isn_' = PeerIsn
    BY InsertIs
  <1>2. next \in Nat /\ inbound.pushed <= next /\ next <= end
    BY <1>1, Counters DEF Bounds
  <1>3. new \in SUBSET Nat /\ \A i \in new : inbound.pushed <= i /\ i < end
    BY Counters, MessagesAre DEF Arriving, Bounds
  <1> HIDE DEF new
  <1>4. WindowEnd(inbound)' = end
    BY <1>1, <1>2, Counters DEF WindowEnd, Available, Buffered, Bounds
  <1> HIDE DEF end
  <1>5. ReceiverTypeOK'
    <2>1. next <= inbound.popped + inbound.capacity /\ inbound.popped <= next
      BY <1>2, Counters DEF end, Bounds
    <2> QED
      BY <1>1, <2>1 DEF ReceiverTypeOK, StreamOK
  <1>6. EveryByteInPlace'
    <2>1. (0 .. (inbound.pushed - 1)) \union asm.held = arrived
      BY DEF ReceiverIInv, EveryByteInPlace
    <2>2. \A i \in known : i \in Nat /\ inbound.pushed <= i
      <3>1. \A i \in asm.held : i \in Nat /\ inbound.pushed < i
        BY Counters DEF ReceiverIInv, HeldInWindow, Bounds
      <3>2. \A i \in new : i \in Nat /\ inbound.pushed <= i
        BY <1>3
      <3>3. inbound.pushed \in Nat
        BY Counters DEF Bounds
      <3> QED
        BY <3>1, <3>2, <3>3
    <2>3. (0 .. (next - 1)) \union {i \in known : i > next}
            = (0 .. (inbound.pushed - 1)) \union known
      BY <1>1, <1>2, <2>2, Counters DEF Bounds
    <2>4. PeerIsn # None
      BY DEF None, Raw
    <2> QED
      BY <1>1, <2>1, <2>3, <2>4 DEF EveryByteInPlace
  <1>7. HeldInWindow'
    <2>1. \A i \in asm.held : i < end
      BY DEF ReceiverIInv, HeldInWindow, end
    <2> QED
      BY <1>1, <1>3, <1>4, <2>1 DEF HeldInWindow
  <1>8. arrived' \in SUBSET Nat
    BY <1>1, <1>3 DEF ReceiverIInv
  <1> QED
    BY <1>5, <1>6, <1>7, <1>8 DEF ReceiverIInv

LEMMA DrainPreserves ==
    ASSUME ReceiverIInv, NEW n \in 1 .. RecvCapacity, drain(n)
    PROVE  ReceiverIInv'
  <1>1. n \in Nat /\ n <= inbound.pushed - inbound.popped
    BY DEF drain, Buffered
  <1>2. /\ inbound'.pushed = inbound.pushed /\ inbound'.popped = inbound.popped + n
        /\ inbound'.capacity = inbound.capacity /\ inbound' \in StreamType
        /\ UNCHANGED <<isn_, asm, arrived>>
    BY <1>1, Counters DEF drain, PopFrom, StreamType, Bounds
  <1>3. ReceiverTypeOK' /\ EveryByteInPlace' /\ arrived' \in SUBSET Nat
    BY <1>1, <1>2, Counters DEF ReceiverIInv, ReceiverTypeOK, StreamOK, EveryByteInPlace, Bounds
  <1>4. HeldInWindow'
    <2>1. WindowEnd(inbound)' = WindowEnd(inbound) + n
      BY <1>1, <1>2, Counters DEF WindowEnd, Available, Buffered, Bounds
    <2> QED
      BY <1>1, <1>2, <2>1, Counters DEF ReceiverIInv, HeldInWindow, Bounds
  <1> QED
    BY <1>3, <1>4 DEF ReceiverIInv

LEMMA ReceiverStepPreserves == ReceiverIInv /\ [ReceiverNext]_receiverVars => ReceiverIInv'
  <1> SUFFICES ASSUME ReceiverIInv, [ReceiverNext]_receiverVars PROVE ReceiverIInv'
    OBVIOUS
  <1>1. CASE UNCHANGED receiverVars
    BY <1>1 DEF receiverVars, ReceiverIInv, ReceiverTypeOK, EveryByteInPlace, HeldInWindow
  <1>2. ASSUME NEW msg \in Segments, receive_message(msg) PROVE ReceiverIInv'
    <2>1. CASE ignore(msg)
      BY <1>1, <2>1 DEF ignore
    <2>2. CASE discard(msg)
      <3>1. isn_' = PeerIsn /\ UNCHANGED <<asm, inbound, arrived>>
        BY <1>2, <2>2, IsnIsThePeers DEF discard, receive_message
      <3>2. PeerIsn # None
        BY DEF None, Raw
      <3> QED
        BY <3>1, <3>2 DEF ReceiverIInv, ReceiverTypeOK, EveryByteInPlace, HeldInWindow
    <2>3. CASE insert(msg)
      BY <1>2, <2>3, InsertPreserves DEF receive_message
    <2> QED
      BY <1>2, <2>1, <2>2, <2>3 DEF receive_message
  <1>3. ASSUME NEW n \in 1 .. RecvCapacity, drain(n) PROVE ReceiverIInv'
    BY <1>3, DrainPreserves
  <1> QED
    BY <1>1, <1>2, <1>3 DEF ReceiverNext

LEMMA ReceiverInvariance == ReceiverSpec => []ReceiverIInv
  BY ReceiverInitIInv, ReceiverStepPreserves, PTL DEF ReceiverSpec

\* tcp_receiver.cc: the counters of the inbound stream never cross, and the
\* zero point is the peer's.
THEOREM AlwaysTyped == ReceiverSpec => []ReceiverTypeOK
  <1>1. ReceiverIInv => ReceiverTypeOK
    BY DEF ReceiverIInv
  <1> QED
    BY <1>1, ReceiverInvariance, PTL

\* tcp_receiver.cc, wrapping_integers.cc: no payload is taken for another part
\* of the stream, however often its sequence numbers have wrapped.
THEOREM EveryByteAlwaysInPlace == ReceiverSpec => []EveryByteInPlace
  <1>1. ReceiverIInv => EveryByteInPlace
    BY DEF ReceiverIInv
  <1> QED
    BY <1>1, ReceiverInvariance, PTL

\* tcp_receiver.cc: a segment that starts inside the window send advertises
\* (a 16-bit field, capped) is kept.
THEOREM WindowAlwaysHonoured == ReceiverSpec => []WindowIsHonoured
  <1>1. ReceiverIInv => WindowIsHonoured
    <2> SUFFICES ASSUME ReceiverIInv, isn_ # None,
                        NEW i \in inbound.pushed .. (inbound.pushed + Window(inbound) - 1),
                        Recent(Segment(FALSE, i, 1, FALSE)), i < PeerTotal
                 PROVE  LET msg == Segment(FALSE, i, 1, FALSE)
                        IN  /\ Reassembles(isn_, msg, inbound)
                            /\ i \in Arriving(inbound, FirstIndex(isn_, msg, inbound), 1)
      BY DEF WindowIsHonoured
    <2> DEFINE msg == Segment(FALSE, i, 1, FALSE)
    <2>1. isn_ = PeerIsn
      BY DEF ReceiverIInv, ReceiverTypeOK
    <2>2. Window(inbound) \in Int /\ Window(inbound) <= Available(inbound)
      BY Counters DEF Window, AtMost, Available, Buffered, Bounds
    <2>3. i \in Nat /\ inbound.pushed <= i /\ i < WindowEnd(inbound)
      BY <2>2, Counters DEF WindowEnd, Available, Buffered, Bounds
    <2>4. msg.first = i /\ msg.SYN = FALSE /\ msg.seqno = Wrap(i + 1, PeerIsn)
      BY DEF Segment
    <2>5. Recent(msg)
      OBVIOUS
    <2> HIDE DEF msg
    <2>6. FirstIndex(isn_, msg, inbound) = i
      BY <2>1, <2>3, <2>4, <2>5, Counters, FirstIndexIsFirst DEF Bounds
    <2>7. i \in Arriving(inbound, i, 1)
      BY <2>3 DEF Arriving
    <2>8. /\ Reassembles(isn_, msg, inbound)
          /\ i \in Arriving(inbound, FirstIndex(isn_, msg, inbound), 1)
      BY <2>3, <2>6, <2>7 DEF Reassembles, InWindow
    <2> QED
      BY <2>8 DEF msg
  <1> QED
    BY <1>1, ReceiverInvariance, PTL

\* send: what the stream took out of the window it added to the acknowledgment.
LEMMA EdgeStays ==
    ASSUME NEW p \in Nat, NEW q \in Nat, NEW d \in Nat, NEW e \in Nat,
           p <= q, q <= e, p <= d, d <= e,
           NEW c \in BOOLEAN, NEW f \in BOOLEAN, c => f
    PROVE  /\ q + 1 + One(f) >= p + 1 + One(c)
           /\ q + 1 + One(f) + AtMost(e - q, MaxWindow)
                >= p + 1 + One(c) + AtMost(d - p, MaxWindow)
  BY DEF One, AtMost

\* tcp_receiver.cc: the acknowledgment and the right edge of the window only
\* move forward, and a repeated SYN does not move the zero point.
THEOREM PromisesAlwaysKept == ReceiverSpec => PromisesAreKept
  <1> DEFINE Kept == /\ Edge' >= Edge
                     /\ AbsoluteNext(inbound)' >= AbsoluteNext(inbound)
                     /\ isn_ # None => isn_' = isn_
  <1>1. ReceiverIInv /\ Bounds /\ Bounds' /\ [ReceiverNext]_receiverVars => [Kept]_receiverVars
    <2> SUFFICES ASSUME ReceiverIInv, Bounds, Bounds', ReceiverNext PROVE Kept
      OBVIOUS
    <2>1. ASSUME inbound.pushed <= inbound'.pushed,
                 WindowEnd(inbound) <= WindowEnd(inbound)',
                 inbound.closed => inbound'.closed
          PROVE  Edge' >= Edge /\ AbsoluteNext(inbound)' >= AbsoluteNext(inbound)
      <3> DEFINE p == inbound.pushed  q == inbound'.pushed
                 d == WindowEnd(inbound)  e == WindowEnd(inbound)'
                 c == inbound.closed  f == inbound'.closed
      <3>1. /\ p \in Nat /\ q \in Nat /\ d \in Nat /\ e \in Nat
            /\ p <= d /\ q <= e /\ c \in BOOLEAN /\ f \in BOOLEAN
        BY DEF Bounds
      <3>2. /\ AbsoluteNext(inbound) = p + 1 + One(c)
            /\ Edge = p + 1 + One(c) + AtMost(d - p, MaxWindow)
        BY DEF Bounds, Edge, Window, AbsoluteNext
      <3>3. /\ AbsoluteNext(inbound)' = q + 1 + One(f)
            /\ Edge' = q + 1 + One(f) + AtMost(e - q, MaxWindow)
        BY DEF Bounds, Edge, Window, AbsoluteNext
      <3>4. p <= q /\ d <= e /\ (c => f)
        BY <2>1
      <3> HIDE DEF p, q, d, e, c, f
      <3>5. /\ q + 1 + One(f) >= p + 1 + One(c)
            /\ q + 1 + One(f) + AtMost(e - q, MaxWindow)
                 >= p + 1 + One(c) + AtMost(d - p, MaxWindow)
        BY <3>1, <3>4, EdgeStays
      <3> QED
        BY <3>2, <3>3, <3>5
    <2>2. ASSUME UNCHANGED inbound
          PROVE  Edge' >= Edge /\ AbsoluteNext(inbound)' >= AbsoluteNext(inbound)
      <3>1. UNCHANGED WindowEnd(inbound)
        BY <2>2 DEF WindowEnd, Available, Buffered
      <3> QED
        BY <2>1, <2>2, <3>1 DEF Bounds
    <2>3. ASSUME NEW msg \in Segments, receive_message(msg) PROVE Kept
      <3>1. isn_ # None => IsnAfter(isn_, msg) = isn_
        BY <2>3, IsnIsThePeers DEF receive_message
      <3>2. CASE ignore(msg)
        BY <2>2, <3>2 DEF ignore, receiverVars
      <3>3. CASE discard(msg)
        BY <2>2, <3>1, <3>3 DEF discard
      <3>4. CASE insert(msg)
        <4>1. \E next \in inbound.pushed .. WindowEnd(inbound) :
                /\ inbound'.pushed = next /\ inbound'.popped = inbound.popped
                /\ inbound'.capacity = inbound.capacity
                /\ inbound.closed => inbound'.closed
          BY <2>3, <3>4, InsertIs DEF receive_message
        <4>2. inbound.pushed <= inbound'.pushed
          BY <4>1 DEF Bounds
        <4>3. WindowEnd(inbound)' = inbound'.popped + inbound'.capacity
          BY DEF Bounds
        <4>4. WindowEnd(inbound) <= WindowEnd(inbound)'
          BY <4>1, <4>3 DEF Bounds
        <4>5. isn_ # None => isn_' = isn_
          BY <3>1, <3>4 DEF insert
        <4> QED
          BY <2>1, <4>1, <4>2, <4>4, <4>5
      <3> QED
        BY <2>3, <3>2, <3>3, <3>4 DEF receive_message
    <2>4. ASSUME NEW n \in 1 .. RecvCapacity, drain(n) PROVE Kept
      <3>1. /\ inbound'.pushed = inbound.pushed /\ inbound'.popped = inbound.popped + n
            /\ inbound'.capacity = inbound.capacity /\ inbound'.closed = inbound.closed
            /\ UNCHANGED isn_
        BY <2>4 DEF drain, PopFrom, StreamType, Bounds
      <3>2. WindowEnd(inbound)' = inbound'.popped + inbound'.capacity
        BY DEF Bounds
      <3>3. WindowEnd(inbound) <= WindowEnd(inbound)'
        BY <3>1, <3>2 DEF Bounds
      <3> QED
        BY <2>1, <3>1, <3>3 DEF Bounds
    <2> QED
      BY <2>3, <2>4 DEF ReceiverNext
  <1> QED
    BY <1>1, Counters, ReceiverInvariance, PTL DEF ReceiverSpec, PromisesAreKept
=============================================================================
