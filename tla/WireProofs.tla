----------------------------- MODULE WireProofs -----------------------------
(***************************************************************************)
(* A message that is read is the one that was written, for every message   *)
(* and all that may happen to its octets on the way of Wire.               *)
(*                                                                         *)
(* The Parser and the Serializer of parser.hh walk over lists of buffers;  *)
(* the lemmas of the first parts reduce both to offsets in one string of   *)
(* octets (IntegersAre, SerializedIs), and the checksum of checksum.hh to  *)
(* a sum modulo 65535 (FoldedFacts, WeightOneOff).  From these follows     *)
(* what each format writes and reads, then what is read of a datagram, a   *)
(* segment, an ARP message or a frame that has suffered, and at the end    *)
(* the inductive invariant of Wire.                                        *)
(***************************************************************************)
EXTENDS Wire, SequenceTheorems, WellFoundedInduction, TLAPS

Strings == Seq(Octet)

Upto(s, n) == SubSeq(s, 1, n)
Beyond(s, n) == SubSeq(s, n + 1, Len(s))

-----------------------------------------------------------------------------
\* Induction and sequences

\* What holds of zero and is handed on holds up to n.
LEMMA Climb ==
    ASSUME NEW n \in Nat, NEW S, 0 \in S, \A k \in 0 .. n - 1 : k \in S => k + 1 \in S
    PROVE  \A k \in 0 .. n : k \in S
<1> DEFINE T == {k \in 0 .. n : k \notin S}
           R == {ss \in Nat \X Nat : ss[1] < ss[2]}
<1> SUFFICES ASSUME T # {} PROVE FALSE
  OBVIOUS
<1>1. R = OpToRel(<, Nat)
  BY DEF OpToRel
<1>2. IsWellFoundedOn(R, Nat)
  BY <1>1, NatLessThanWellFounded
<1>3. \A x, y \in Nat : <<x, y>> \in R <=> x < y
  OBVIOUS
<1>4. T \in SUBSET Nat
  OBVIOUS
<1> HIDE DEF R
<1>5. PICK m \in T : \A y \in T : ~ (<<y, m>> \in R)
  <2> HIDE DEF T
  <2> QED
    BY <1>2, <1>4, WFMin
<1>6. m \in Nat /\ m # 0 /\ m \in 0 .. n
  BY <1>4, <1>5
<1>7. m - 1 \in Nat /\ m - 1 \in 0 .. n - 1 /\ m - 1 < m
  BY <1>6
<1>8. m - 1 \notin T
  BY <1>3, <1>5, <1>6, <1>7
<1>9. m - 1 \in S
  BY <1>7, <1>8
<1> QED
  BY <1>5, <1>6, <1>7, <1>9

\* Two strings are the same if they have the same octets.
LEMMA SameString ==
    ASSUME NEW S, NEW s \in Seq(S), NEW t \in Seq(S),
           Len(s) = Len(t), \A k \in 1 .. Len(s) : s[k] = t[k]
    PROVE  s = t
  BY SeqEqual

LEMMA UptoIs ==
    ASSUME NEW S, NEW s \in Seq(S), NEW n \in 0 .. Len(s)
    PROVE  /\ Upto(s, n) \in Seq(S) /\ Len(Upto(s, n)) = n
           /\ \A k \in 1 .. n : Upto(s, n)[k] = s[k]
  BY DEF Upto

LEMMA BeyondIs ==
    ASSUME NEW S, NEW s \in Seq(S), NEW n \in 0 .. Len(s)
    PROVE  /\ Beyond(s, n) \in Seq(S) /\ Len(Beyond(s, n)) = Len(s) - n
           /\ \A k \in 1 .. Len(s) - n : Beyond(s, n)[k] = s[n + k]
  BY DEF Beyond

LEMMA JoinIs ==
    ASSUME NEW S, NEW s \in Seq(S), NEW t \in Seq(S)
    PROVE  /\ s \o t \in Seq(S) /\ Len(s \o t) = Len(s) + Len(t)
           /\ \A k \in 1 .. Len(s) : (s \o t)[k] = s[k]
           /\ \A k \in 1 .. Len(t) : (s \o t)[Len(s) + k] = t[k]
  OBVIOUS

LEMMA Split ==
    ASSUME NEW S, NEW s \in Seq(S), NEW n \in 0 .. Len(s)
    PROVE  s = Upto(s, n) \o Beyond(s, n)
<1>1. /\ Upto(s, n) \in Seq(S) /\ Beyond(s, n) \in Seq(S)
      /\ Len(Upto(s, n)) = n /\ Len(Beyond(s, n)) = Len(s) - n
      /\ Len(s) \in Nat
  BY UptoIs, BeyondIs
<1>2. Upto(s, n) \o Beyond(s, n) \in Seq(S) /\ Len(Upto(s, n) \o Beyond(s, n)) = Len(s)
  <2>1. /\ Upto(s, n) \o Beyond(s, n) \in Seq(S)
        /\ Len(Upto(s, n) \o Beyond(s, n)) = Len(Upto(s, n)) + Len(Beyond(s, n))
    BY <1>1, JoinIs, Zenon
  <2>2. n + (Len(s) - n) = Len(s)
    BY <1>1
  <2> QED
    BY <1>1, <2>1, <2>2, Zenon
<1>3. \A k \in 1 .. Len(s) : s[k] = (Upto(s, n) \o Beyond(s, n))[k]
  <2> SUFFICES ASSUME NEW k \in 1 .. Len(s) PROVE s[k] = (Upto(s, n) \o Beyond(s, n))[k]
    OBVIOUS
  <2>1. CASE k <= n
    BY <2>1, <1>1, UptoIs, JoinIs, SMTT(60)
  <2>2. CASE k > n
    <3>1. k - n \in 1 .. Len(s) - n /\ n + (k - n) = k
      BY <2>2, <1>1
    <3>2. Beyond(s, n)[k - n] = s[k]
      BY <3>1, BeyondIs
    <3> QED
      BY <3>1, <3>2, <1>1, JoinIs
  <2> QED
    BY <2>1, <2>2, <1>1
<1> QED
  BY <1>2, <1>3, SeqEqual

LEMMA JoinedParts ==
    ASSUME NEW S, NEW s \in Seq(S), NEW t \in Seq(S)
    PROVE  Upto(s \o t, Len(s)) = s /\ Beyond(s \o t, Len(s)) = t
<1>1. /\ s \o t \in Seq(S) /\ Len(s \o t) = Len(s) + Len(t)
      /\ Len(s) \in Nat /\ Len(t) \in Nat
  OBVIOUS
<1>2. Len(s) \in 0 .. Len(s \o t)
  BY <1>1
<1> DEFINE u == s \o t
<1> HIDE DEF u
<1>u. u \in Seq(S) /\ Len(u) = Len(s) + Len(t) /\ Len(s) \in 0 .. Len(u)
  BY <1>1, <1>2 DEF u
<1>3. Upto(u, Len(s)) = s
  <2>1. /\ Upto(u, Len(s)) \in Seq(S) /\ Len(Upto(u, Len(s))) = Len(s)
        /\ \A k \in 1 .. Len(s) : Upto(u, Len(s))[k] = u[k]
    BY <1>u, UptoIs
  <2> QED
    BY <2>1, JoinIs, SeqEqual DEF u
<1>4. /\ Beyond(u, Len(s)) \in Seq(S) /\ Len(Beyond(u, Len(s))) = Len(t)
      /\ \A k \in 1 .. Len(t) : Beyond(u, Len(s))[k] = u[Len(s) + k]
  <2>1. /\ Beyond(u, Len(s)) \in Seq(S) /\ Len(Beyond(u, Len(s))) = Len(u) - Len(s)
        /\ \A k \in 1 .. Len(u) - Len(s) : Beyond(u, Len(s))[k] = u[Len(s) + k]
    BY <1>u, BeyondIs
  <2>2. Len(u) - Len(s) = Len(t)
    BY <1>1, <1>u
  <2> QED
    BY <2>1, <2>2
<1>5. \A k \in 1 .. Len(t) : Beyond(u, Len(s))[k] = t[k]
  BY <1>4, JoinIs DEF u
<1>6. Beyond(u, Len(s)) = t
  BY <1>4, <1>5, SeqEqual
<1> QED
  BY <1>3, <1>6 DEF u

LEMMA JoinAssociates ==
    ASSUME NEW S, NEW s \in Seq(S), NEW t \in Seq(S), NEW u \in Seq(S)
    PROVE  (s \o t) \o u = s \o (t \o u)
  BY ConcatAssociative

Cat(s, t) == s \o t

LEMMA CatStep ==
    ASSUME NEW S, NEW s \in Seq(S), NEW t \in Seq(S), NEW u \in Seq(S),
           NEW x, NEW y, x = Cat(s, t), y = Cat(t, u)
    PROVE  Cat(x, u) = Cat(s, y)
  BY ConcatAssociative DEF Cat

LEMMA BeyondAll ==
    ASSUME NEW S, NEW s \in Seq(S), NEW n \in Nat, n >= Len(s)
    PROVE  Beyond(s, n) = <<>>
<1>1. Len(s) \in Nat
  OBVIOUS
<1> DEFINE t == SubSeq(s, n + 1, Len(s))
<1>2. t = <<>>
  BY <1>1, SubSeqEmpty
<1> QED
  BY <1>2 DEF Beyond

LEMMA BeyondNone ==
    ASSUME NEW S, NEW s \in Seq(S)
    PROVE  Beyond(s, 0) = s
<1>1. Len(s) \in Nat /\ 0 \in 0 .. Len(s)
  OBVIOUS
<1>2. /\ Beyond(s, 0) \in Seq(S) /\ Len(Beyond(s, 0)) = Len(s) - 0
      /\ \A k \in 1 .. Len(s) - 0 : Beyond(s, 0)[k] = s[0 + k]
  BY <1>1, BeyondIs
<1>3. Len(Beyond(s, 0)) = Len(s) /\ \A k \in 1 .. Len(s) : Beyond(s, 0)[k] = s[k]
  BY <1>1, <1>2
<1> QED
  BY <1>2, <1>3, SeqEqual

\* Beyond what is beyond.
LEMMA BeyondBeyond ==
    ASSUME NEW S, NEW s \in Seq(S), NEW m \in Nat, NEW n \in Nat
    PROVE  Beyond(Beyond(s, m), n) = Beyond(s, m + n)
<1>0. Len(s) \in Nat
  OBVIOUS
<1> DEFINE t == Beyond(s, m)
<1> HIDE DEF t
<1>1. CASE m >= Len(s)
  <2>1. t = <<>> /\ Beyond(s, m + n) = <<>>
    BY <1>0, <1>1, BeyondAll DEF t
  <2>2. <<>> \in Seq(S) /\ Len(<<>>) = 0
    OBVIOUS
  <2>3. Beyond(<<>>, n) = <<>>
    <3> DEFINE z == <<>>
    <3> HIDE DEF z
    <3>1. z \in Seq(S) /\ n >= Len(z)
      BY <2>2 DEF z
    <3>2. Beyond(z, n) = <<>>
      BY <3>1, BeyondAll
    <3> QED
      BY <3>2 DEF z
  <2> QED
    BY <2>1, <2>3 DEF t
<1>2. CASE m < Len(s)
  <2>0. m \in 0 .. Len(s)
    BY <1>0, <1>2
  <2>1. /\ t \in Seq(S) /\ Len(t) = Len(s) - m
        /\ \A k \in 1 .. Len(s) - m : t[k] = s[m + k]
    BY <2>0, BeyondIs DEF t
  <2>2. CASE m + n >= Len(s)
    <3>1. n >= Len(t)
      BY <1>0, <2>1, <2>2
    <3>2. Beyond(t, n) = <<>>
      BY <2>1, <3>1, BeyondAll
    <3>3. Beyond(s, m + n) = <<>>
      BY <2>2, BeyondAll
    <3> QED
      BY <3>2, <3>3 DEF t
  <2>3. CASE m + n < Len(s)
    <3>1. n \in 0 .. Len(t) /\ m + n \in 0 .. Len(s)
      BY <1>0, <2>1, <2>3
    <3>2. /\ Beyond(s, m + n) \in Seq(S) /\ Len(Beyond(s, m + n)) = Len(s) - (m + n)
          /\ \A k \in 1 .. Len(s) - (m + n) : Beyond(s, m + n)[k] = s[(m + n) + k]
      BY <3>1, BeyondIs
    <3>3. /\ Beyond(t, n) \in Seq(S) /\ Len(Beyond(t, n)) = Len(t) - n
          /\ \A k \in 1 .. Len(t) - n : Beyond(t, n)[k] = t[n + k]
      BY <2>1, <3>1, BeyondIs
    <3>4. \A k \in 1 .. Len(t) - n : Beyond(t, n)[k] = Beyond(s, m + n)[k]
      <4> SUFFICES ASSUME NEW k \in 1 .. Len(t) - n
                   PROVE  Beyond(t, n)[k] = Beyond(s, m + n)[k]
        OBVIOUS
      <4>1. n + k \in 1 .. Len(s) - m /\ k \in 1 .. Len(s) - (m + n) /\ m + (n + k) = (m + n) + k
        BY <1>0, <2>1
      <4> QED
        BY <4>1, <2>1, <3>2, <3>3
    <3>5. Len(Beyond(t, n)) = Len(Beyond(s, m + n))
      BY <1>0, <2>1, <3>2, <3>3
    <3>6. Beyond(t, n) = Beyond(s, m + n)
      BY <3>2, <3>3, <3>4, <3>5, SeqEqual
    <3> QED
      BY <3>6 DEF t
  <2> QED
    BY <1>0, <2>2, <2>3
<1> QED
  BY <1>0, <1>1, <1>2

LEMMA BeyondJoin ==
    ASSUME NEW S, NEW s \in Seq(S), NEW t \in Seq(S), NEW n \in Nat
    PROVE  Beyond(s \o t, Len(s) + n) = Beyond(t, n)
<1> DEFINE u == s \o t
<1>1. Len(s) \in Nat /\ u \in Seq(S) /\ Beyond(u, Len(s)) = t
  BY JoinedParts
<1> HIDE DEF u
<1>2. Beyond(Beyond(u, Len(s)), n) = Beyond(u, Len(s) + n)
  BY <1>1, BeyondBeyond
<1> QED
  BY <1>1, <1>2 DEF u

-----------------------------------------------------------------------------
\* Buffers that are joined

IsJoined(f, s, n) ==
    f = [i \in 1 .. n |-> IF i = 1 THEN s[i] ELSE f[i - 1] \o s[i]]

LEMMA JoinedExists ==
    ASSUME NEW S, NEW s \in Seq(Seq(S)), NEW n \in Nat
    PROVE  \E f : IsJoined(f, s, n)
<1> DEFINE K == {k \in 0 .. n : \E f : IsJoined(f, s, k)}
<1>1. 0 \in K
  <2>1. IsJoined([i \in 1 .. 0 |-> s], s, 0)
    BY DEF IsJoined
  <2> QED
    BY <2>1
<1>2. \A k \in 0 .. n - 1 : k \in K => k + 1 \in K
  <2> SUFFICES ASSUME NEW k \in 0 .. n - 1, k \in K PROVE k + 1 \in K
    OBVIOUS
  <2>1. PICK f : IsJoined(f, s, k)
    OBVIOUS
  <2> DEFINE g == [i \in 1 .. k + 1 |->
                      IF i = k + 1 THEN (IF i = 1 THEN s[i] ELSE f[k] \o s[i]) ELSE f[i]]
  <2>2. \A i \in 1 .. k : f[i] = IF i = 1 THEN s[i] ELSE f[i - 1] \o s[i]
    BY <2>1 DEF IsJoined
  <2>3. \A i \in 1 .. k + 1 : (IF i = 1 THEN s[i] ELSE g[i - 1] \o s[i]) = g[i]
    <3> SUFFICES ASSUME NEW i \in 1 .. k + 1
                 PROVE  (IF i = 1 THEN s[i] ELSE g[i - 1] \o s[i]) = g[i]
      OBVIOUS
    <3>1. CASE i = 1
      <4>1. CASE k = 0
        BY <3>1, <4>1
      <4>2. CASE k # 0
        BY <3>1, <4>2, <2>2
      <4> QED
        BY <4>1, <4>2
    <3>2. CASE i # 1
      <4>1. i - 1 \in 1 .. k + 1 /\ i - 1 # k + 1 /\ g[i - 1] = f[i - 1]
        BY <3>2
      <4>2. CASE i = k + 1
        <5>1. g[i - 1] = f[k] /\ i \in 1 .. k + 1
          BY <4>1, <4>2
        <5>2. g[i] = f[k] \o s[i]
          BY <3>2, <4>2
        <5> HIDE DEF g
        <5> QED
          BY <3>2, <5>1, <5>2
      <4>3. CASE i # k + 1
        <5>1. i \in 1 .. k
          BY <4>3
        <5> HIDE DEF g
        <5>2. g[i] = f[i]
          BY <4>3 DEF g
        <5> QED
          BY <3>2, <4>1, <5>1, <5>2, <2>2
      <4> QED
        BY <4>2, <4>3
    <3> QED
      BY <3>1, <3>2
  <2>4. IsJoined(g, s, k + 1)
    BY <2>3, Zenon DEF IsJoined
  <2>5. k + 1 \in 0 .. n
    OBVIOUS
  <2> QED
    BY <2>4, <2>5, Zenon
<1> HIDE DEF K
<1>3. \A k \in 0 .. n : k \in K
  BY <1>1, <1>2, Climb
<1>4. n \in K
  BY <1>3
<1> QED
  BY <1>4 DEF K

\* FlattenSeq, step by step.
LEMMA Joining ==
    ASSUME NEW S, NEW s \in Seq(Seq(S)), s # <<>>
    PROVE  \E f : /\ FlattenSeq(s) = f[Len(s)]
                  /\ f[1] = s[1]
                  /\ \A k \in 1 .. Len(s) - 1 : f[k + 1] = f[k] \o s[k + 1]
                  /\ \A k \in 1 .. Len(s) : f[k] \in Seq(S)
<1>1. Len(s) \in Nat /\ Len(s) > 0
  OBVIOUS
<1>2. \E f : IsJoined(f, s, Len(s))
  BY <1>1, JoinedExists
<1> DEFINE f == CHOOSE f : IsJoined(f, s, Len(s))
<1>3. IsJoined(f, s, Len(s))
  BY <1>2
<1>4. FlattenSeq(s) = f[Len(s)]
  BY <1>1 DEF FlattenSeq, IsJoined
<1> HIDE DEF f
<1>5. f[1] = s[1] /\ \A k \in 1 .. Len(s) - 1 : f[k + 1] = f[k] \o s[k + 1]
  <2>1. \A i \in 1 .. Len(s) : f[i] = IF i = 1 THEN s[i] ELSE f[i - 1] \o s[i]
    BY <1>3, Zenon DEF IsJoined
  <2>2. 1 \in 1 .. Len(s)
    BY <1>1
  <2>3. \A k \in 1 .. Len(s) - 1 : k + 1 \in 1 .. Len(s) /\ k + 1 # 1 /\ (k + 1) - 1 = k
    BY <1>1
  <2> QED
    BY <2>1, <2>2, <2>3
<1> DEFINE K == {k \in 0 .. Len(s) - 1 : f[k + 1] \in Seq(S)}
<1>6. 0 \in K
  BY <1>1, <1>5
<1>7. \A k \in 0 .. (Len(s) - 1) - 1 : k \in K => k + 1 \in K
  <2> SUFFICES ASSUME NEW k \in 0 .. (Len(s) - 1) - 1, k \in K PROVE k + 1 \in K
    OBVIOUS
  <2>1. k + 1 \in 1 .. Len(s) - 1 /\ k + 1 \in 0 .. Len(s) - 1 /\ (k + 1) + 1 \in 1 .. Len(s)
    BY <1>1
  <2>2. f[(k + 1) + 1] = f[k + 1] \o s[(k + 1) + 1]
    BY <1>5, <2>1
  <2>3. f[k + 1] \in Seq(S) /\ s[(k + 1) + 1] \in Seq(S)
    BY <2>1
  <2>4. f[(k + 1) + 1] \in Seq(S)
    BY <2>2, <2>3
  <2> QED
    BY <2>1, <2>4
<1>8. Len(s) - 1 \in Nat
  BY <1>1
<1> HIDE DEF K
<1>9. \A k \in 0 .. Len(s) - 1 : k \in K
  BY <1>6, <1>7, <1>8, Climb
<1>10. \A k \in 1 .. Len(s) : f[k] \in Seq(S)
  <2> SUFFICES ASSUME NEW k \in 1 .. Len(s) PROVE f[k] \in Seq(S)
    OBVIOUS
  <2>1. k - 1 \in 0 .. Len(s) - 1 /\ (k - 1) + 1 = k
    BY <1>1
  <2> QED
    BY <2>1, <1>9 DEF K
<1> QED
  BY <1>4, <1>5, <1>10

LEMMA FlatNothing == FlattenSeq(<<>>) = <<>>
  BY DEF FlattenSeq

LEMMA FlatType ==
    ASSUME NEW S, NEW s \in Seq(Seq(S))
    PROVE  FlattenSeq(s) \in Seq(S)
<1>1. CASE s = <<>>
  <2>1. <<>> \in Seq(S)
    OBVIOUS
  <2> QED
    BY <1>1, <2>1, FlatNothing
<1>2. CASE s # <<>>
  <2>1. Len(s) \in 1 .. Len(s)
    BY <1>2
  <2> QED
    BY <1>2, <2>1, Joining
<1> QED
  BY <1>1, <1>2

LEMMA FlatOne ==
    ASSUME NEW S, NEW x \in Seq(S)
    PROVE  FlattenSeq(<<x>>) = x
<1>1. <<x>> \in Seq(Seq(S)) /\ <<x>> # <<>> /\ Len(<<x>>) = 1 /\ <<x>>[1] = x
  OBVIOUS
<1> QED
  BY <1>1, Joining

LEMMA FlatAppend ==
    ASSUME NEW S, NEW s \in Seq(Seq(S)), NEW x \in Seq(S)
    PROVE  FlattenSeq(Append(s, x)) = FlattenSeq(s) \o x
<1>1. CASE s = <<>>
  <2>1. Append(s, x) = <<x>>
    BY <1>1
  <2>2. FlattenSeq(s) \o x = x
    <3>1. <<>> \o x = x
      OBVIOUS
    <3> QED
      BY <1>1, <3>1, FlatNothing
  <2> QED
    BY <2>1, <2>2, FlatOne
<1>2. CASE s # <<>>
  <2> DEFINE t == Append(s, x)
  <2>1. /\ t \in Seq(Seq(S)) /\ t # <<>> /\ Len(t) = Len(s) + 1
        /\ \A k \in 1 .. Len(s) : t[k] = s[k]
        /\ t[Len(s) + 1] = x
        /\ Len(s) \in Nat /\ Len(s) > 0
    <3>1. t \in Seq(Seq(S)) /\ Len(t) = Len(s) + 1 /\ Len(s) \in Nat /\ Len(s) > 0
      BY <1>2
    <3>2. \A k \in 1 .. Len(s) : t[k] = s[k]
      OBVIOUS
    <3>3. t[Len(s) + 1] = x
      OBVIOUS
    <3>4. t # <<>>
      BY <3>1
    <3> QED
      BY <3>1, <3>2, <3>3, <3>4
  <2> HIDE DEF t
  <2>2. PICK f : /\ FlattenSeq(s) = f[Len(s)]
                 /\ f[1] = s[1]
                 /\ \A k \in 1 .. Len(s) - 1 : f[k + 1] = f[k] \o s[k + 1]
    BY <1>2, Joining, ZenonT(60)
  <2>3. PICK g : /\ FlattenSeq(t) = g[Len(t)]
                 /\ g[1] = t[1]
                 /\ \A k \in 1 .. Len(t) - 1 : g[k + 1] = g[k] \o t[k + 1]
    <3> t \in Seq(Seq(S)) /\ t # <<>>
      BY <2>1
    <3> QED
      BY Joining, ZenonT(60)
  <2> DEFINE K == {k \in 0 .. Len(s) - 1 : g[k + 1] = f[k + 1]}
  <2>4. 0 \in K
    BY <2>1, <2>2, <2>3
  <2>5. \A k \in 0 .. (Len(s) - 1) - 1 : k \in K => k + 1 \in K
    <3> SUFFICES ASSUME NEW k \in 0 .. (Len(s) - 1) - 1, k \in K PROVE k + 1 \in K
      OBVIOUS
    <3>1. /\ k + 1 \in 1 .. Len(s) - 1 /\ k + 1 \in 1 .. Len(t) - 1
          /\ k + 1 \in 0 .. Len(s) - 1 /\ (k + 1) + 1 \in 1 .. Len(s)
      BY <2>1
    <3>2. /\ g[(k + 1) + 1] = g[k + 1] \o t[(k + 1) + 1]
          /\ f[(k + 1) + 1] = f[k + 1] \o s[(k + 1) + 1]
      BY <3>1, <2>2, <2>3
    <3>3. t[(k + 1) + 1] = s[(k + 1) + 1]
      BY <3>1, <2>1
    <3> QED
      BY <3>1, <3>2, <3>3
  <2>6. Len(s) - 1 \in Nat /\ Len(s) - 1 \in 0 .. Len(s) - 1 /\ (Len(s) - 1) + 1 = Len(s)
    BY <2>1
  <2> HIDE DEF K
  <2>7. Len(s) - 1 \in K
    BY <2>4, <2>5, <2>6, Climb
  <2>8. g[Len(s)] = f[Len(s)]
    BY <2>6, <2>7 DEF K
  <2>9. g[Len(s) + 1] = g[Len(s)] \o t[Len(s) + 1]
    <3>1. Len(s) \in 1 .. Len(t) - 1
      BY <2>1
    <3> QED
      BY <2>3, <3>1
  <2> QED
    BY <2>1, <2>2, <2>3, <2>8, <2>9 DEF t
<1> QED
  BY <1>1, <1>2

LEMMA FlatHead ==
    ASSUME NEW S, NEW s \in Seq(Seq(S)), s # <<>>
    PROVE  FlattenSeq(s) = Head(s) \o FlattenSeq(Tail(s))
<1>1. /\ Head(s) = s[1] /\ Head(s) \in Seq(S) /\ Tail(s) \in Seq(Seq(S))
      /\ Len(s) \in Nat /\ Len(s) > 0 /\ Len(Tail(s)) = Len(s) - 1
      /\ \A k \in 1 .. Len(s) - 1 : Tail(s)[k] = s[k + 1]
  OBVIOUS
<1>2. PICK f : /\ FlattenSeq(s) = f[Len(s)]
               /\ f[1] = s[1]
               /\ \A k \in 1 .. Len(s) - 1 : f[k + 1] = f[k] \o s[k + 1]
  <2>1. \E f : /\ FlattenSeq(s) = f[Len(s)]
               /\ f[1] = s[1]
               /\ \A k \in 1 .. Len(s) - 1 : f[k + 1] = f[k] \o s[k + 1]
               /\ \A k \in 1 .. Len(s) : f[k] \in Seq(S)
    BY Joining, Zenon
  <2> QED
    BY <2>1, Zenon
<1>3. CASE Tail(s) = <<>>
  <2>1. Len(s) = 1
    <3>1. Len(Tail(s)) = 0
      <4> DEFINE t == Tail(s)
      <4>1. t = <<>>
        BY <1>3
      <4> HIDE DEF t
      <4>2. Len(t) = 0
        BY <4>1
      <4> QED
        BY <4>2 DEF t
    <3>2. Len(Tail(s)) = Len(s) - 1 /\ Len(s) \in Nat
      BY <1>1
    <3> DEFINE m == Len(s)
    <3> HIDE DEF m
    <3>3. m = 1
      BY <3>1, <3>2 DEF m
    <3> QED
      BY <3>3 DEF m
  <2>2. Head(s) \o <<>> = Head(s)
    BY <1>1
  <2> QED
    BY <1>1, <1>2, <1>3, <2>1, <2>2, FlatNothing, Zenon
<1>4. CASE Tail(s) # <<>>
  <2> DEFINE t == Tail(s)
             n == Len(s) - 1
  <2>1. t \in Seq(Seq(S)) /\ t # <<>> /\ Len(t) = n /\ n \in Nat /\ n > 0
        /\ \A k \in 1 .. n : t[k] = s[k + 1]
    BY <1>1, <1>4
  <2> HIDE DEF t, n
  <2>2. PICK g : /\ FlattenSeq(t) = g[n]
                 /\ g[1] = t[1]
                 /\ \A k \in 1 .. n - 1 : g[k + 1] = g[k] \o t[k + 1]
                 /\ \A k \in 1 .. n : g[k] \in Seq(S)
    BY <2>1, Joining
  <2> DEFINE K == {k \in 0 .. n - 1 : f[k + 2] = s[1] \o g[k + 1]}
  <2>3. 0 \in K
    <3>1. 1 \in 1 .. n /\ 1 \in 1 .. Len(s) - 1 /\ 0 \in 0 .. n - 1
      BY <2>1 DEF n
    <3>2. f[1 + 1] = f[1] \o s[1 + 1]
      BY <1>2, <3>1
    <3>3. t[1] = s[1 + 1]
      BY <2>1, <3>1
    <3>4. f[0 + 2] = f[1 + 1] /\ g[0 + 1] = g[1]
      OBVIOUS
    <3>5. f[0 + 2] = s[1] \o g[0 + 1]
      BY <1>2, <2>2, <3>2, <3>3, <3>4, Zenon
    <3> QED
      BY <3>1, <3>5
  <2>4. \A k \in 0 .. (n - 1) - 1 : k \in K => k + 1 \in K
    <3> SUFFICES ASSUME NEW k \in 0 .. (n - 1) - 1, k \in K PROVE k + 1 \in K
      OBVIOUS
    <3>1. /\ k + 1 \in 1 .. n - 1 /\ k + 1 \in 0 .. n - 1 /\ k + 2 \in 1 .. Len(s) - 1
          /\ k + 2 \in 1 .. n /\ (k + 2) + 1 = (k + 1) + 2 /\ k + 1 \in 1 .. n
          /\ (k + 1) + 1 = k + 2
      BY <2>1 DEF n
    <3>2. f[(k + 2) + 1] = f[k + 2] \o s[(k + 2) + 1]
      BY <1>2, <3>1
    <3>3. g[(k + 1) + 1] = g[k + 1] \o t[(k + 1) + 1]
      BY <2>2, <3>1
    <3>4. t[k + 2] = s[(k + 2) + 1]
      BY <2>1, <3>1
    <3>5. g[k + 1] \in Seq(S) /\ t[k + 2] \in Seq(S) /\ s[1] \in Seq(S)
      BY <1>1, <2>1, <2>2, <3>1
    <3>6. f[k + 2] \o t[k + 2] = s[1] \o g[(k + 1) + 1]
      <4>1. f[k + 2] = s[1] \o g[k + 1] /\ g[(k + 1) + 1] = g[k + 1] \o t[k + 2]
        BY <3>1, <3>3
      <4> HIDE DEF K
      <4>2. f[k + 2] = Cat(s[1], g[k + 1]) /\ g[(k + 1) + 1] = Cat(g[k + 1], t[k + 2])
        BY <4>1, Zenon DEF Cat
      <4>3. Cat(f[k + 2], t[k + 2]) = Cat(s[1], g[(k + 1) + 1])
        BY <3>5, <4>2, CatStep
      <4> QED
        BY <4>3, Zenon DEF Cat
    <3> QED
      BY <3>1, <3>2, <3>3, <3>4, <3>6
  <2>5. n - 1 \in Nat /\ n - 1 \in 0 .. n - 1 /\ (n - 1) + 1 = n /\ (n - 1) + 2 = Len(s)
    BY <1>1, <2>1 DEF n
  <2> HIDE DEF K
  <2>6. n - 1 \in K
    BY <2>3, <2>4, <2>5, Climb
  <2>7. f[Len(s)] = s[1] \o g[n]
    BY <2>5, <2>6 DEF K
  <2> QED
    BY <1>1, <1>2, <2>2, <2>7 DEF t
<1> QED
  BY <1>3, <1>4

\* The buffers that a Serializer returns hold its integers and what it was
\* given (parser.hh: buffer and finish).
LEMMA FlatOutput ==
    ASSUME NEW S, NEW i \in Seq(S), NEW b \in Seq(Seq(S))
    PROVE  /\ Output(i, b) \in Seq(Seq(S))
           /\ FlattenSeq(Output(i, b)) = i \o FlattenSeq(b)
<1> DEFINE o == Output(i, b)
           n == Len(b)
<1>1. n \in Nat
  OBVIOUS
<1>2. \A k \in 1 .. 2 * n + 1 :
        o[k] = IF k = 1 THEN i ELSE IF k % 2 = 0 THEN b[k \div 2] ELSE <<>>
  BY DEF Output
<1>3. \A k \in 1 .. 2 * n + 1 : o[k] \in Seq(S)
  <2> SUFFICES ASSUME NEW k \in 1 .. 2 * n + 1 PROVE o[k] \in Seq(S)
    OBVIOUS
  <2>1. k % 2 = 0 => k \div 2 \in 1 .. n
    BY <1>1
  <2>2. k % 2 = 0 => b[k \div 2] \in Seq(S)
    BY <2>1
  <2>3. <<>> \in Seq(S)
    OBVIOUS
  <2> HIDE DEF o
  <2> QED
    BY <1>2, <2>2, <2>3
<1>4. o \in [1 .. 2 * n + 1 -> Seq(S)]
  BY <1>3 DEF Output
<1>5. o \in Seq(Seq(S)) /\ Len(o) = 2 * n + 1
  <2> HIDE DEF o
  <2>1. 2 * n + 1 \in Nat
    BY <1>1
  <2> DEFINE N == 2 * n + 1
  <2> HIDE DEF N
  <2>2. N \in Nat /\ o \in [1 .. N -> Seq(S)]
    BY <1>4, <2>1 DEF N
  <2>3. o \in Seq(Seq(S)) /\ Len(o) = N
    BY <2>2, SeqDef, LenProperties
  <2> QED
    BY <2>3 DEF N
<1> HIDE DEF o
<1>6. PICK f : /\ FlattenSeq(o) = f[Len(o)]
               /\ f[1] = o[1]
               /\ \A k \in 1 .. Len(o) - 1 : f[k + 1] = f[k] \o o[k + 1]
               /\ \A k \in 1 .. Len(o) : f[k] \in Seq(S)
  <2>1. o # <<>>
    BY <1>1, <1>5
  <2> QED
    BY <1>5, <2>1, Joining
<1>7. f[1] = i
  BY <1>1, <1>2, <1>6
<1>8. CASE b = <<>>
  <2>1. Len(o) = 1
    BY <1>5, <1>8
  <2>2. i \o FlattenSeq(b) = i
    BY <1>8, FlatNothing
  <2> QED
    BY <1>5, <1>6, <1>7, <2>1, <2>2 DEF o
<1>9. CASE b # <<>>
  <2>1. n > 0
    BY <1>9
  <2>2. PICK g : /\ FlattenSeq(b) = g[n]
                 /\ g[1] = b[1]
                 /\ \A k \in 1 .. n - 1 : g[k + 1] = g[k] \o b[k + 1]
                 /\ \A k \in 1 .. n : g[k] \in Seq(S)
    BY <1>9, Joining
  <2>3. \A k \in 1 .. n : /\ f[2 * k] = f[2 * k - 1] \o b[k]
                          /\ f[2 * k + 1] = f[2 * k]
    <3> SUFFICES ASSUME NEW k \in 1 .. n
                 PROVE  f[2 * k] = f[2 * k - 1] \o b[k] /\ f[2 * k + 1] = f[2 * k]
      OBVIOUS
    <3>1. /\ 2 * k \in 1 .. 2 * n + 1 /\ 2 * k + 1 \in 1 .. 2 * n + 1
          /\ 2 * k - 1 \in 1 .. Len(o) - 1 /\ (2 * k - 1) + 1 = 2 * k
          /\ 2 * k \in 1 .. Len(o) - 1 /\ 2 * k # 1 /\ 2 * k + 1 # 1
          /\ (2 * k) % 2 = 0 /\ (2 * k) \div 2 = k /\ (2 * k + 1) % 2 = 1
          /\ 2 * k \in 1 .. Len(o)
      BY <1>1, <1>5
    <3>2. o[2 * k] = b[k] /\ o[2 * k + 1] = <<>>
      <4>1. o[2 * k] = IF 2 * k = 1 THEN i ELSE IF (2 * k) % 2 = 0 THEN b[(2 * k) \div 2] ELSE <<>>
        BY <1>2, <3>1, Zenon
      <4>2. o[2 * k + 1] = IF 2 * k + 1 = 1 THEN i ELSE IF (2 * k + 1) % 2 = 0
                                      THEN b[(2 * k + 1) \div 2] ELSE <<>>
        BY <1>2, <3>1, Zenon
      <4>3. (2 * k + 1) % 2 # 0
        BY <3>1
      <4> QED
        BY <3>1, <4>1, <4>2, <4>3, Zenon
    <3>3. f[2 * k] = f[2 * k - 1] \o o[2 * k] /\ f[2 * k + 1] = f[2 * k] \o o[2 * k + 1]
      <4>1. f[(2 * k - 1) + 1] = f[2 * k - 1] \o o[(2 * k - 1) + 1]
        BY <1>6, <3>1, Zenon
      <4>2. f[2 * k + 1] = f[2 * k] \o o[2 * k + 1]
        BY <1>6, <3>1, Zenon
      <4> QED
        BY <4>1, <4>2, <3>1, Zenon
    <3>4. f[2 * k] \in Seq(S)
      BY <1>6, <3>1
    <3> QED
      BY <3>2, <3>3, <3>4
  <2> DEFINE K == {k \in 0 .. n - 1 : f[2 * (k + 1) + 1] = i \o g[k + 1]}
  <2>4. 0 \in K
    <3>1. 1 \in 1 .. n /\ 0 \in 0 .. n - 1
      BY <1>1, <2>1
    <3>2. f[2 * 1] = f[2 * 1 - 1] \o b[1] /\ f[2 * 1 + 1] = f[2 * 1]
      BY <2>3, <3>1
    <3>3. 2 * (0 + 1) = 2 * 1 /\ 2 * 1 - 1 = 1 /\ 0 + 1 = 1
      OBVIOUS
    <3>4. f[2 * (0 + 1) + 1] = i \o g[0 + 1]
      BY <1>7, <2>2, <3>2, <3>3
    <3> QED
      BY <3>1, <3>4
  <2>5. \A k \in 0 .. (n - 1) - 1 : k \in K => k + 1 \in K
    <3> SUFFICES ASSUME NEW k \in 0 .. (n - 1) - 1, k \in K PROVE k + 1 \in K
      OBVIOUS
    <3>1. /\ k + 1 \in 1 .. n - 1 /\ k + 1 \in 0 .. n - 1 /\ (k + 1) + 1 \in 1 .. n
          /\ k + 1 \in 1 .. n
          /\ 2 * ((k + 1) + 1) - 1 = 2 * (k + 1) + 1
      BY <1>1
    <3>2. /\ f[2 * ((k + 1) + 1)] = f[2 * (k + 1) + 1] \o b[(k + 1) + 1]
          /\ f[2 * ((k + 1) + 1) + 1] = f[2 * ((k + 1) + 1)]
      BY <2>3, <3>1
    <3>3. g[(k + 1) + 1] = g[k + 1] \o b[(k + 1) + 1]
      BY <2>2, <3>1
    <3>4. g[k + 1] \in Seq(S) /\ b[(k + 1) + 1] \in Seq(S)
      BY <2>2, <3>1
    <3>5. f[2 * (k + 1) + 1] \o b[(k + 1) + 1] = i \o g[(k + 1) + 1]
      <4>1. f[2 * (k + 1) + 1] = i \o g[k + 1]
        BY <3>1
      <4> HIDE DEF K
      <4>2. /\ f[2 * (k + 1) + 1] = Cat(i, g[k + 1])
            /\ g[(k + 1) + 1] = Cat(g[k + 1], b[(k + 1) + 1])
        BY <3>3, <4>1, Zenon DEF Cat
      <4>3. Cat(f[2 * (k + 1) + 1], b[(k + 1) + 1]) = Cat(i, g[(k + 1) + 1])
        BY <3>4, <4>2, CatStep
      <4> QED
        BY <4>3, Zenon DEF Cat
    <3> QED
      BY <3>1, <3>2, <3>3, <3>5
  <2>6. n - 1 \in Nat /\ n - 1 \in 0 .. n - 1 /\ (n - 1) + 1 = n
    BY <1>1, <2>1
  <2> HIDE DEF K, n
  <2>7. n - 1 \in K
    BY <2>4, <2>5, <2>6, Climb
  <2>8. f[2 * n + 1] = i \o g[n]
    BY <2>6, <2>7 DEF K
  <2> QED
    BY <1>5, <1>6, <2>2, <2>8 DEF o
<1> QED
  BY <1>8, <1>9

LEMMA Pair == ASSUME NEW S, NEW x \in S, NEW y \in S PROVE <<x>> \o <<y>> = <<x, y>>
<1>1. <<x>> \in Seq(S)
  OBVIOUS
<1>2. Append(<<x>>, y) = <<x>> \o <<y>>
  BY <1>1, AppendIsConcat
<1>3. Append(<<x>>, y) = <<x, y>>
  <2> DEFINE s == <<x>>
             t == Append(s, y)
             u == <<x, y>>
  <2>1. s \in Seq(S) /\ Len(s) = 1 /\ s[1] = x
    OBVIOUS
  <2>2. u \in Seq(S) /\ Len(u) = 2 /\ u[1] = x /\ u[2] = y
    OBVIOUS
  <2> HIDE DEF s, u
  <2>3. t \in Seq(S) /\ Len(t) = 2 /\ t[1] = x /\ t[2] = y
    <3> s \in Seq(S)
      BY <2>1
    <3>1. t \in Seq(S) /\ Len(t) = Len(s) + 1
      OBVIOUS
    <3>2. \A i \in 1 .. Len(s) : t[i] = s[i]
      OBVIOUS
    <3>3. t[Len(s) + 1] = y
      OBVIOUS
    <3> HIDE DEF t
    <3> QED
      BY <2>1, <3>1, <3>2, <3>3
  <2> HIDE DEF t
  <2>4. t = u
    BY <2>2, <2>3, SeqEqual
  <2> QED
    BY <2>4 DEF s, t, u
<1> QED
  BY <1>2, <1>3

LEMMA Triple ==
    ASSUME NEW S, NEW x \in S, NEW y \in S, NEW z \in S
    PROVE  <<x, y>> \o <<z>> = <<x, y, z>>
<1>1. <<x, y>> \in Seq(S)
  OBVIOUS
<1>2. Append(<<x, y>>, z) = <<x, y>> \o <<z>>
  BY <1>1, AppendIsConcat
<1>3. Append(<<x, y>>, z) = <<x, y, z>>
  <2> DEFINE s == <<x, y>>
             t == Append(s, z)
             u == <<x, y, z>>
  <2>1. s \in Seq(S) /\ Len(s) = 2 /\ s[1] = x /\ s[2] = y
    OBVIOUS
  <2>2. u \in Seq(S) /\ Len(u) = 3 /\ u[1] = x /\ u[2] = y /\ u[3] = z
    OBVIOUS
  <2> HIDE DEF s, u
  <2>3. t \in Seq(S) /\ Len(t) = 3 /\ t[1] = x /\ t[2] = y /\ t[3] = z
    <3> s \in Seq(S)
      BY <2>1
    <3>1. t \in Seq(S) /\ Len(t) = Len(s) + 1
      OBVIOUS
    <3>2. \A i \in 1 .. Len(s) : t[i] = s[i]
      OBVIOUS
    <3>3. t[Len(s) + 1] = z
      OBVIOUS
    <3> HIDE DEF t
    <3> QED
      BY <2>1, <3>1, <3>2, <3>3
  <2> HIDE DEF t
  <2>4. t = u
    BY <2>2, <2>3, SeqEqual
  <2> QED
    BY <2>4 DEF s, t, u
<1> QED
  BY <1>2, <1>3

\* read_strings cuts the octets and leaves none out (file_descriptor.cc).
LEMMA ReadTwo ==
    ASSUME octets \in Strings, NEW a \in Nat
    PROVE  read_strings(<<a>>) =
             <<SubSeq(octets, 1, IF a < Len(octets) THEN a ELSE Len(octets)),
               SubSeq(octets, a + 1, Len(octets))>>
<1> DEFINE e == [k \in 0 .. 1 |-> IF k = 0 THEN 0 ELSE a]
           l == <<a>>
           IsEnd(f) == f = [k \in 0 .. Len(l) |-> IF k = 0 THEN 0 ELSE f[k - 1] + l[k]]
<1>1. Len(l) = 1 /\ l[1] = a
  OBVIOUS
<1> HIDE DEF l
<1>2. IsEnd(e)
  <2>1. \A k \in 0 .. 1 : e[k] = IF k = 0 THEN 0 ELSE e[k - 1] + l[k]
    BY <1>1
  <2> HIDE DEF e
  <2>2. e = [k \in 0 .. 1 |-> e[k]]
    BY DEF e
  <2> QED
    BY <1>1, <2>1, <2>2
<1> DEFINE f == CHOOSE f : IsEnd(f)
<1>3. IsEnd(f)
  BY <1>2
<1> HIDE DEF f
<1>4. f[0] = 0 /\ f[1] = a
  BY <1>1, <1>3
<1>5. read_strings(l) =
        [k \in 1 .. Len(l) |->
           SubSeq(octets, f[k - 1] + 1, IF f[k] < Len(octets) THEN f[k] ELSE Len(octets))]
        \o <<SubSeq(octets, f[Len(l)] + 1, Len(octets))>>
  BY DEF read_strings, f
<1> DEFINE x == SubSeq(octets, 1, IF a < Len(octets) THEN a ELSE Len(octets))
           y == SubSeq(octets, a + 1, Len(octets))
           b == [k \in 1 .. 1 |->
           SubSeq(octets, f[k - 1] + 1, IF f[k] < Len(octets) THEN f[k] ELSE Len(octets))]
<1>6. b = <<x>>
  BY <1>4
<1>7. read_strings(l) = b \o <<y>>
  BY <1>1, <1>4, <1>5
<1> HIDE DEF b, x, y
<1>8. read_strings(l) = <<x, y>>
  <2> DEFINE S == {x, y}
  <2>1. x \in S /\ y \in S
    OBVIOUS
  <2> HIDE DEF S
  <2>2. <<x>> \o <<y>> = <<x, y>>
    BY <2>1, Pair
  <2> QED
    BY <1>6, <1>7, <2>2, Zenon
<1> QED
  BY <1>8 DEF l, x, y

LEMMA ReadThree ==
    ASSUME octets \in Strings, NEW a \in Nat, NEW c \in Nat
    PROVE  read_strings(<<a, c>>) =
             <<SubSeq(octets, 1, IF a < Len(octets) THEN a ELSE Len(octets)),
               SubSeq(octets, a + 1, IF a + c < Len(octets) THEN a + c ELSE Len(octets)),
               SubSeq(octets, (a + c) + 1, Len(octets))>>
<1> DEFINE e == [k \in 0 .. 2 |-> IF k = 0 THEN 0 ELSE IF k = 1 THEN a ELSE a + c]
           l == <<a, c>>
           IsEnd(f) == f = [k \in 0 .. Len(l) |-> IF k = 0 THEN 0 ELSE f[k - 1] + l[k]]
<1>1. Len(l) = 2 /\ l[1] = a /\ l[2] = c
  OBVIOUS
<1> HIDE DEF l
<1>2. IsEnd(e)
  <2>1. \A k \in 0 .. 2 : e[k] = IF k = 0 THEN 0 ELSE e[k - 1] + l[k]
    BY <1>1
  <2> HIDE DEF e
  <2>2. e = [k \in 0 .. 2 |-> e[k]]
    BY DEF e
  <2> QED
    BY <1>1, <2>1, <2>2
<1> DEFINE f == CHOOSE f : IsEnd(f)
<1>3. IsEnd(f)
  BY <1>2
<1> HIDE DEF f
<1>4. f[0] = 0 /\ f[1] = a /\ f[2] = a + c
  BY <1>1, <1>3
<1>5. read_strings(l) =
        [k \in 1 .. Len(l) |->
           SubSeq(octets, f[k - 1] + 1, IF f[k] < Len(octets) THEN f[k] ELSE Len(octets))]
        \o <<SubSeq(octets, f[Len(l)] + 1, Len(octets))>>
  BY DEF read_strings, f
<1> DEFINE x == SubSeq(octets, 1, IF a < Len(octets) THEN a ELSE Len(octets))
           y == SubSeq(octets, a + 1, IF a + c < Len(octets) THEN a + c ELSE Len(octets))
           z == SubSeq(octets, (a + c) + 1, Len(octets))
           b == [k \in 1 .. 2 |->
           SubSeq(octets, f[k - 1] + 1, IF f[k] < Len(octets) THEN f[k] ELSE Len(octets))]
<1>6. b = <<x, y>>
  <2>1. b[1] = x /\ b[2] = y
    <3>1. f[1 - 1] = 0 /\ f[2 - 1] = a /\ f[1] = a /\ f[2] = a + c /\ 0 + 1 = 1
      BY <1>4
    <3>0. 1 \in 1 .. 2 /\ 2 \in 1 .. 2
      OBVIOUS
    <3>2. b[1] = SubSeq(octets, f[1 - 1] + 1, IF f[1] < Len(octets) THEN f[1] ELSE Len(octets))
      BY <3>0, Zenon
    <3>3. b[2] = SubSeq(octets, f[2 - 1] + 1, IF f[2] < Len(octets) THEN f[2] ELSE Len(octets))
      BY <3>0, Zenon
    <3> HIDE DEF b
    <3> QED
      BY <3>1, <3>2, <3>3
  <2> HIDE DEF b, x, y
  <2>2. b = [k \in 1 .. 2 |-> b[k]]
    BY DEF b
  <2> QED
    BY <2>1, <2>2
<1>7. read_strings(l) = b \o <<z>>
  BY <1>1, <1>4, <1>5
<1> HIDE DEF b, x, y, z
<1>8. read_strings(l) = <<x, y, z>>
  <2> DEFINE S == {x, y, z}
  <2>1. x \in S /\ y \in S /\ z \in S
    OBVIOUS
  <2> HIDE DEF S
  <2>2. <<x, y>> \o <<z>> = <<x, y, z>>
    BY <2>1, Triple
  <2> QED
    BY <1>6, <1>7, <2>2, Zenon
<1> QED
  BY <1>8 DEF l, x, y, z

-----------------------------------------------------------------------------
\* The Parser

Packed(b) == \A i, j \in 1 .. Len(b) : i < j /\ b[i] = <<>> => b[j] = <<>>

\* What FileDescriptor::read fills: an empty string is only followed by empty
\* ones.
Buffers == {b \in Seq(Strings) : Packed(b)}

\* A parser whose front buffer has an octet, if anything is left.
Parser(p) ==
    /\ p \in [buffers : Seq(Strings), skip : Nat, error : BOOLEAN]
    /\ Packed(p.buffers)
    /\ p.skip # 0 => p.buffers # <<>> /\ p.skip < Len(p.buffers[1])

Rest(p) == Beyond(FlattenSeq(p.buffers), p.skip)

LEMMA PackedTail ==
    ASSUME NEW b \in Buffers, b # <<>>
    PROVE  Tail(b) \in Buffers
<1>1. /\ Tail(b) \in Seq(Strings) /\ Len(Tail(b)) = Len(b) - 1 /\ Len(b) \in Nat
      /\ \A k \in 1 .. Len(b) - 1 : Tail(b)[k] = b[k + 1]
  BY DEF Buffers
<1>2. \A i, j \in 1 .. Len(b) : i < j /\ b[i] = <<>> => b[j] = <<>>
  BY DEF Buffers, Packed
<1>3. Packed(Tail(b))
  <2> SUFFICES ASSUME NEW i \in 1 .. Len(Tail(b)), NEW j \in 1 .. Len(Tail(b)),
                      i < j, Tail(b)[i] = <<>>
               PROVE  Tail(b)[j] = <<>>
    BY DEF Packed
  <2>1. /\ i + 1 \in 1 .. Len(b) /\ j + 1 \in 1 .. Len(b) /\ i + 1 < j + 1
        /\ i \in 1 .. Len(b) - 1 /\ j \in 1 .. Len(b) - 1
    BY <1>1
  <2>2. Tail(b)[i] = b[i + 1] /\ Tail(b)[j] = b[j + 1]
    BY <1>1, <2>1
  <2> QED
    BY <1>2, <2>1, <2>2
<1> QED
  BY <1>1, <1>3 DEF Buffers

\* If the first buffer is empty, nothing is left.
LEMMA EmptyFront ==
    ASSUME NEW b \in Buffers, b # <<>>, b[1] = <<>>
    PROVE  FlattenSeq(b) = <<>>
<1>1. b \in Seq(Strings) /\ Len(b) \in Nat /\ Len(b) > 0
  BY DEF Buffers
<1>2. \A k \in 1 .. Len(b) : b[k] = <<>>
  <2>1. \A i, j \in 1 .. Len(b) : i < j /\ b[i] = <<>> => b[j] = <<>>
    BY DEF Buffers, Packed
  <2>2. 1 \in 1 .. Len(b) /\ \A k \in 1 .. Len(b) : k = 1 \/ 1 < k
    BY <1>1
  <2> QED
    BY <2>1, <2>2
<1>3. PICK f : /\ FlattenSeq(b) = f[Len(b)]
               /\ f[1] = b[1]
               /\ \A k \in 1 .. Len(b) - 1 : f[k + 1] = f[k] \o b[k + 1]
  <2>1. b \in Seq(Seq(Octet)) /\ b # <<>>
    BY <1>1 DEF Strings
  <2>2. \E f : /\ FlattenSeq(b) = f[Len(b)]
               /\ f[1] = b[1]
               /\ \A k \in 1 .. Len(b) - 1 : f[k + 1] = f[k] \o b[k + 1]
               /\ \A k \in 1 .. Len(b) : f[k] \in Seq(Octet)
    BY <2>1, Joining, Zenon
  <2> QED
    BY <2>2
<1> DEFINE n == Len(b)
           K == {k \in 0 .. n - 1 : f[k + 1] = <<>>}
<1>4. 0 \in K
  BY <1>1, <1>3
<1>5. \A k \in 0 .. (n - 1) - 1 : k \in K => k + 1 \in K
  <2> SUFFICES ASSUME NEW k \in 0 .. (n - 1) - 1, k \in K PROVE k + 1 \in K
    OBVIOUS
  <2>1. k + 1 \in 1 .. n - 1 /\ (k + 1) + 1 \in 1 .. n /\ k + 1 \in 0 .. n - 1
    BY <1>1
  <2>2. f[(k + 1) + 1] = f[k + 1] \o b[(k + 1) + 1]
    BY <1>3, <2>1
  <2>3. f[k + 1] = <<>> /\ b[(k + 1) + 1] = <<>>
    BY <1>2, <2>1
  <2>4. <<>> \o <<>> = <<>>
    OBVIOUS
  <2>5. f[(k + 1) + 1] = <<>>
    BY <2>2, <2>3, <2>4, Zenon
  <2> QED
    BY <2>1, <2>5
<1>6. n - 1 \in Nat /\ n - 1 \in 0 .. n - 1 /\ (n - 1) + 1 = n
  BY <1>1
<1> HIDE DEF K, n
<1>7. n - 1 \in K
  BY <1>4, <1>5, <1>6, Climb
<1>8. f[n] = <<>>
  BY <1>6, <1>7 DEF K
<1> QED
  BY <1>3, <1>8 DEF n


LEMMA ParserFacts ==
    ASSUME NEW p, Parser(p)
    PROVE  /\ p.buffers \in Seq(Strings) /\ p.buffers \in Buffers /\ p.skip \in Nat
           /\ p.error \in BOOLEAN /\ FlattenSeq(p.buffers) \in Strings
           /\ p.skip <= Len(FlattenSeq(p.buffers))
           /\ Rest(p) \in Strings /\ Size(p) = Len(Rest(p)) /\ Size(p) \in Nat
           /\ p.buffers = <<>> => Rest(p) = <<>> /\ p.skip = 0
<1>1. /\ p.buffers \in Seq(Strings) /\ p.buffers \in Buffers /\ p.skip \in Nat
      /\ p.error \in BOOLEAN
  BY DEF Parser, Buffers
<1> DEFINE b == p.buffers
           s == FlattenSeq(b)
<1>2. s \in Seq(Octet)
  BY <1>1, FlatType DEF Strings
<1>3. p.skip <= Len(s)
  <2>1. CASE p.skip = 0
    BY <1>2, <2>1
  <2>2. CASE p.skip # 0
    <3>1. b # <<>> /\ p.skip < Len(b[1])
      BY <2>2 DEF Parser
    <3>2. b \in Seq(Seq(Octet)) /\ Head(b) = b[1] /\ Head(b) \in Seq(Octet) /\ Tail(b) \in Seq(Seq(Octet))
      BY <1>1, <3>1 DEF Strings
    <3>3. s = Head(b) \o FlattenSeq(Tail(b)) /\ FlattenSeq(Tail(b)) \in Seq(Octet)
      BY <3>1, <3>2, FlatHead, FlatType
    <3>4. Len(s) = Len(Head(b)) + Len(FlattenSeq(Tail(b)))
      BY <3>2, <3>3
    <3> HIDE DEF s, b
    <3>5. Len(Head(b)) \in Nat /\ Len(FlattenSeq(Tail(b))) \in Nat
      BY <3>2, <3>3
    <3> QED
      BY <1>1, <3>1, <3>2, <3>4, <3>5
  <2> QED
    BY <2>1, <2>2
<1> HIDE DEF s, b
<1>4. p.skip \in 0 .. Len(s)
  BY <1>1, <1>2, <1>3
<1>5. Beyond(s, p.skip) \in Seq(Octet) /\ Len(Beyond(s, p.skip)) = Len(s) - p.skip
  BY <1>2, <1>4, BeyondIs
<1>6. Rest(p) = Beyond(s, p.skip)
  BY DEF Rest, s, b
<1>7. Size(p) = Len(s) - p.skip
  BY DEF Size, s, b
<1>8. ASSUME b = <<>> PROVE Rest(p) = <<>> /\ p.skip = 0
  <2>1. p.skip = 0
    BY <1>8 DEF Parser, b
  <2>2. s = <<>>
    BY <1>8, FlatNothing DEF s
  <2>3. Beyond(s, 0) = s
    BY <1>2, BeyondNone
  <2> QED
    BY <1>6, <2>1, <2>2, <2>3
<1> QED
  BY <1>1, <1>2, <1>3, <1>4, <1>5, <1>6, <1>7, <1>8 DEF s, b, Strings

\* The front buffer and the others.
LEMMA ParserFront ==
    ASSUME NEW p, Parser(p), p.buffers # <<>>
    PROVE  /\ Head(p.buffers) = p.buffers[1] /\ Head(p.buffers) \in Seq(Octet)
           /\ Len(Head(p.buffers)) \in Nat /\ p.skip \in 0 .. Len(Head(p.buffers))
           /\ Tail(p.buffers) \in Buffers /\ Tail(p.buffers) \in Seq(Seq(Octet))
           /\ Len(Tail(p.buffers)) = Len(p.buffers) - 1
           /\ FlattenSeq(Tail(p.buffers)) \in Seq(Octet)
           /\ FlattenSeq(p.buffers) = Head(p.buffers) \o FlattenSeq(Tail(p.buffers))
<1> DEFINE b == p.buffers
<1>1. b \in Seq(Seq(Octet)) /\ b \in Buffers /\ p.skip \in Nat /\ b # <<>>
  BY ParserFacts DEF Strings
<1>2. p.skip # 0 => p.skip < Len(b[1])
  BY DEF Parser
<1> HIDE DEF b
<1>3. Head(b) = b[1] /\ Head(b) \in Seq(Octet) /\ Len(Head(b)) \in Nat
      /\ Tail(b) \in Seq(Seq(Octet)) /\ Len(Tail(b)) = Len(b) - 1
  BY <1>1
<1>4. p.skip \in 0 .. Len(Head(b))
  <2> DEFINE n == Len(Head(b))
             m == p.skip
  <2>1. n \in Nat /\ m \in Nat /\ (m # 0 => m < n)
    BY <1>1, <1>2, <1>3
  <2> HIDE DEF n, m
  <2>2. m \in 0 .. n
    BY <2>1
  <2> QED
    BY <2>2 DEF n, m
<1>5. Tail(b) \in Buffers
  BY <1>1, PackedTail
<1>6. FlattenSeq(Tail(b)) \in Seq(Octet) /\ FlattenSeq(b) = Head(b) \o FlattenSeq(Tail(b))
  BY <1>1, <1>3, FlatHead, FlatType
<1> QED
  BY <1>3, <1>4, <1>5, <1>6 DEF b

RoundOf(r) ==
    IF r.len = 0 \/ r.parser.buffers = <<>> THEN r
    ELSE LET front == Len(Head(r.parser.buffers)) - r.parser.skip
         IN  IF front <= r.len
             THEN [parser |-> [r.parser EXCEPT !.buffers = Tail(@), !.skip = 0],
                   len |-> r.len - front]
             ELSE [parser |-> [r.parser EXCEPT !.skip = @ + r.len], len |-> 0]

Advanced(p, n, q, m) ==
    /\ Parser(q) /\ m \in Nat /\ q.error = p.error
    /\ Beyond(Rest(q), m) = Beyond(Rest(p), n)
    /\ \/ m = 0 \/ q.buffers = <<>>
       \/ p.buffers # <<>> /\ Len(q.buffers) = Len(p.buffers) - 1

\* A round leaves what is beyond len where it is.
LEMMA RoundKeeps ==
    ASSUME NEW p, Parser(p), NEW n \in Nat
    PROVE  \E q, m : RoundOf([parser |-> p, len |-> n]) = [parser |-> q, len |-> m]
                      /\ Advanced(p, n, q, m)
<1> DEFINE q == [parser |-> p, len |-> n]
           r == RoundOf(q)
           b == p.buffers
           front == Len(Head(b)) - p.skip
<1>0. p \in [buffers : Seq(Strings), skip : Nat, error : BOOLEAN]
  BY DEF Parser
<1>f. /\ b \in Seq(Strings) /\ b \in Buffers /\ p.skip \in Nat /\ p.error \in BOOLEAN
      /\ FlattenSeq(b) \in Seq(Octet) /\ Rest(p) \in Seq(Octet)
  BY ParserFacts DEF Strings
<1>1. CASE n = 0 \/ b = <<>>
  <2>1. r = q
    BY <1>1 DEF RoundOf
  <2>2. Advanced(p, n, p, n)
    BY <1>1 DEF Advanced
  <2> QED
    BY <2>1, <2>2
<1>2. CASE n # 0 /\ b # <<>> /\ front <= n
  <2> DEFINE t == [p EXCEPT !.buffers = Tail(b), !.skip = 0]
  <2>1. r = [parser |-> t, len |-> n - front]
    BY <1>2 DEF RoundOf
  <2>2. /\ Head(b) \in Seq(Octet) /\ Len(Head(b)) \in Nat /\ p.skip \in 0 .. Len(Head(b))
        /\ Tail(b) \in Buffers /\ Len(Tail(b)) = Len(b) - 1
        /\ FlattenSeq(Tail(b)) \in Seq(Octet)
        /\ FlattenSeq(b) = Head(b) \o FlattenSeq(Tail(b))
    BY <1>2, ParserFront
  <2>3. t.buffers = Tail(b) /\ t.skip = 0 /\ t.error = p.error
        /\ t \in [buffers : Seq(Strings), skip : Nat, error : BOOLEAN]
    BY <1>0, <2>2 DEF Buffers
  <2> HIDE DEF t
  <2>4. Parser(t)
    BY <2>2, <2>3 DEF Parser, Buffers
  <2>5. front \in Nat /\ n - front \in Nat /\ p.skip + n = Len(Head(b)) + (n - front)
    BY <1>2, <2>2, SMTT(60)
  <2>6. Rest(t) = FlattenSeq(Tail(b))
    BY <2>2, <2>3, BeyondNone DEF Rest
  <2>7. Beyond(Rest(p), n) = Beyond(FlattenSeq(b), p.skip + n)
    BY <1>f, BeyondBeyond DEF Rest
  <2>8. Beyond(FlattenSeq(b), Len(Head(b)) + (n - front)) = Beyond(FlattenSeq(Tail(b)), n - front)
    <3> DEFINE x == Head(b)
               y == FlattenSeq(Tail(b))
               m == n - front
    <3>1. x \in Seq(Octet) /\ y \in Seq(Octet) /\ m \in Nat
      BY <2>2, <2>5
    <3> HIDE DEF x, y, m
    <3>2. Beyond(x \o y, Len(x) + m) = Beyond(y, m)
      BY <3>1, BeyondJoin
    <3> QED
      BY <2>2, <3>2 DEF x, y, m
  <2> DEFINE m == n - front
  <2>9. Beyond(Rest(t), m) = Beyond(Rest(p), n)
    BY <2>5, <2>6, <2>7, <2>8
  <2>10. m \in Nat /\ r = [parser |-> t, len |-> m]
    BY <2>1, <2>5
  <2> HIDE DEF r, front, m
  <2>11. Advanced(p, n, t, m)
    BY <1>2, <2>2, <2>3, <2>4, <2>9, <2>10 DEF Advanced
  <2> QED
    BY <2>10, <2>11 DEF r
<1>3. CASE n # 0 /\ b # <<>> /\ ~(front <= n)
  <2> DEFINE t == [p EXCEPT !.skip = p.skip + n]
  <2>1. r = [parser |-> t, len |-> 0]
    BY <1>3 DEF RoundOf
  <2>2. /\ Head(b) = b[1] /\ Len(Head(b)) \in Nat
    BY <1>3, ParserFront
  <2>3. t.buffers = b /\ t.skip = p.skip + n /\ t.error = p.error
        /\ t \in [buffers : Seq(Strings), skip : Nat, error : BOOLEAN]
    <3> DEFINE k == p.skip + n
    <3>1. k \in Nat
      BY <1>f
    <3> HIDE DEF k
    <3> QED
      BY <1>0, <3>1
  <2> HIDE DEF t
  <2>4. p.skip + n < Len(b[1]) /\ p.skip + n # 0
    BY <1>f, <1>3, <2>2
  <2>5. Packed(b)
    BY <1>f DEF Buffers
  <2>6. Parser(t)
    BY <1>3, <2>3, <2>4, <2>5 DEF Parser
  <2>7. Rest(t) = Beyond(FlattenSeq(b), p.skip + n)
    BY <2>3 DEF Rest
  <2>8. Beyond(Rest(p), n) = Beyond(FlattenSeq(b), p.skip + n)
    BY <1>f, BeyondBeyond DEF Rest
  <2>9. Beyond(Rest(t), 0) = Rest(t)
    BY <2>6, ParserFacts, BeyondNone DEF Strings
  <2> HIDE DEF r, front
  <2>10. Advanced(p, n, t, 0)
    BY <2>3, <2>6, <2>7, <2>8, <2>9 DEF Advanced
  <2> QED
    BY <2>1, <2>10 DEF r
<1> QED
  BY <1>1, <1>2, <1>3
IsRounds(f, p, n, l) ==
    f = [k \in 0 .. l |-> IF k = 0 THEN [parser |-> p, len |-> n] ELSE RoundOf(f[k - 1])]

LEMMA RoundsExist ==
    ASSUME NEW p, NEW n, NEW l \in Nat
    PROVE  \E f : IsRounds(f, p, n, l)
<1> DEFINE K == {k \in 0 .. l : \E f : IsRounds(f, p, n, k)}
<1>1. 0 \in K
  <2>1. IsRounds([k \in 0 .. 0 |-> [parser |-> p, len |-> n]], p, n, 0)
    BY DEF IsRounds
  <2> QED
    BY <2>1
<1>2. \A k \in 0 .. l - 1 : k \in K => k + 1 \in K
  <2> SUFFICES ASSUME NEW k \in 0 .. l - 1, k \in K PROVE k + 1 \in K
    OBVIOUS
  <2>1. PICK f : IsRounds(f, p, n, k)
    OBVIOUS
  <2> DEFINE g == [m \in 0 .. k + 1 |-> IF m = k + 1 THEN RoundOf(f[k]) ELSE f[m]]
  <2>2. IsRounds(g, p, n, k + 1)
    BY <2>1 DEF IsRounds
  <2> QED
    BY <2>2
<1> HIDE DEF K
<1>3. l \in K
  BY <1>1, <1>2, Climb
<1> QED
  BY <1>3 DEF K

\* remove_prefix takes the first octets of what is left, or all of it.
LEMMA RemovesFirst ==
    ASSUME NEW p, Parser(p), NEW n \in Nat
    PROVE  /\ Parser(RemovePrefix(p, n))
           /\ RemovePrefix(p, n).error = p.error
           /\ Rest(RemovePrefix(p, n)) = Beyond(Rest(p), n)
<1> DEFINE l == Len(p.buffers)
           f == CHOOSE f : IsRounds(f, p, n, l)
<1>0. l \in Nat
  BY ParserFacts
<1>1. IsRounds(f, p, n, l)
  BY <1>0, RoundsExist
<1>2. RemovePrefix(p, n) = f[l].parser
  BY DEF RemovePrefix, IsRounds, RoundOf
<1> HIDE DEF f
<1>3. f[0] = [parser |-> p, len |-> n] /\ \A k \in 0 .. l - 1 : f[k + 1] = RoundOf(f[k])
  BY <1>0, <1>1 DEF IsRounds
<1> DEFINE Good(k, q, m) ==
             /\ f[k] = [parser |-> q, len |-> m]
             /\ Parser(q) /\ m \in Nat /\ q.error = p.error
             /\ Beyond(Rest(q), m) = Beyond(Rest(p), n)
             /\ m = 0 \/ q.buffers = <<>> \/ Len(q.buffers) = l - k
           K == {k \in 0 .. l : \E q, m : Good(k, q, m)}
<1>4. 0 \in K
  <2>1. Good(0, p, n)
    BY <1>0, <1>3
  <2> HIDE DEF Good
  <2> QED
    BY <1>0, <2>1
<1>5. \A k \in 0 .. l - 1 : k \in K => k + 1 \in K
  <2> SUFFICES ASSUME NEW k \in 0 .. l - 1, k \in K PROVE k + 1 \in K
    OBVIOUS
  <2>1. PICK q, m : Good(k, q, m)
    OBVIOUS
  <2>2. PICK t, h : /\ RoundOf([parser |-> q, len |-> m]) = [parser |-> t, len |-> h]
                    /\ Advanced(q, m, t, h)
    BY <2>1, RoundKeeps
  <2>3. f[k + 1] = [parser |-> t, len |-> h]
    BY <1>3, <2>1, <2>2
  <2>4. /\ Parser(t) /\ h \in Nat /\ t.error = p.error
        /\ Beyond(Rest(t), h) = Beyond(Rest(p), n)
    BY <2>1, <2>2 DEF Advanced
  <2>5. h = 0 \/ t.buffers = <<>> \/ Len(t.buffers) = l - (k + 1)
    <3>1. CASE m = 0
      <4>1. h = 0
        BY <2>2, <3>1 DEF RoundOf
      <4> QED
        BY <4>1
    <3>2. CASE q.buffers = <<>>
      BY <2>2, <3>2 DEF Advanced
    <3>3. CASE Len(q.buffers) = l - k
      <4>1. Len(q.buffers) - 1 = l - (k + 1)
        BY <1>0, <3>3
      <4> HIDE DEF l
      <4> QED
        BY <2>2, <4>1 DEF Advanced
    <3> QED
      BY <2>1, <3>1, <3>2, <3>3
  <2>6. Good(k + 1, t, h)
    BY <2>3, <2>4, <2>5
  <2>7. k + 1 \in 0 .. l
    BY <1>0
  <2> HIDE DEF Good
  <2> QED
    BY <2>6, <2>7
<1> HIDE DEF K, l
<1>6. \A k \in 0 .. l : k \in K
  BY <1>0, <1>4, <1>5, Climb
<1>7. l \in K
  BY <1>0, <1>6
<1>8. PICK q, m : Good(l, q, m)
  BY <1>7 DEF K
<1>9. Beyond(Rest(q), m) = Rest(q)
  <2>1. Rest(q) \in Seq(Octet)
    BY <1>8, ParserFacts DEF Strings
  <2>2. CASE m = 0
    BY <2>1, <2>2, BeyondNone
  <2>3. CASE q.buffers = <<>>
    <3>1. Rest(q) = <<>>
      BY <1>8, <2>3, ParserFacts
    <3>2. Len(Rest(q)) = 0 /\ m >= Len(Rest(q))
      <4>1. Len(<<>>) = 0
        OBVIOUS
      <4> QED
        BY <1>8, <3>1, <4>1
    <3> QED
      BY <1>8, <2>1, <3>1, <3>2, BeyondAll
  <2>4. CASE Len(q.buffers) = l - l
    <3>1. q.buffers \in Seq(Strings) /\ Len(q.buffers) = 0
      BY <1>0, <1>8, <2>4, ParserFacts
    <3>2. q.buffers = <<>>
      BY <3>1
    <3> QED
      BY <2>3, <3>2
  <2> QED
    BY <1>8, <2>2, <2>3, <2>4
<1>10. RemovePrefix(p, n) = q
  BY <1>2, <1>8
<1> QED
  BY <1>8, <1>9, <1>10

\* peek reads what is left from its front.
LEMMA PeekFront ==
    ASSUME NEW p, Parser(p), Rest(p) # <<>>
    PROVE  Head(p.buffers)[p.skip + 1] = Rest(p)[1]
<1> DEFINE b == p.buffers
           x == Head(b)
           y == FlattenSeq(Tail(b))
           k == p.skip
<1>1. b # <<>>
  BY ParserFacts
<1>2. /\ x = b[1] /\ x \in Seq(Octet) /\ y \in Seq(Octet) /\ Len(x) \in Nat
      /\ FlattenSeq(b) = x \o y /\ k \in 0 .. Len(x)
  BY <1>1, ParserFront
<1>3. k < Len(x)
  <2>1. CASE k = 0
    <3>1. x # <<>>
      <4>1. ASSUME x = <<>> PROVE FALSE
        <5>1. FlattenSeq(b) = <<>>
          BY <1>1, <1>2, <4>1, EmptyFront, ParserFacts
        <5>2. Rest(p) = Beyond(FlattenSeq(b), 0)
          BY <2>1 DEF Rest
        <5>3. Beyond(FlattenSeq(b), 0) = FlattenSeq(b)
          BY ParserFacts, BeyondNone DEF Strings
        <5> QED
          BY <5>1, <5>2, <5>3
      <4> QED
        BY <4>1
    <3> HIDE DEF x, k
    <3>2. Len(x) # 0
      BY <1>2, <3>1
    <3> QED
      BY <1>2, <2>1, <3>2
  <2>2. CASE k # 0
    BY <1>2, <2>2 DEF Parser
  <2> QED
    BY <2>1, <2>2
<1> HIDE DEF x, y, k
<1>4. Rest(p) = Beyond(x \o y, k)
  BY <1>2 DEF Rest, k
<1>5. x \o y \in Seq(Octet) /\ Len(x \o y) = Len(x) + Len(y) /\ Len(y) \in Nat
      /\ k \in Nat /\ k + 1 \in 1 .. Len(x)
  BY <1>2, <1>3
<1>6. (x \o y)[k + 1] = x[k + 1]
  BY <1>2, <1>5, JoinIs
<1> DEFINE s == x \o y
<1> HIDE DEF s
<1>7. s \in Seq(Octet) /\ k \in 0 .. Len(s) /\ 1 \in 1 .. Len(s) - k
  BY <1>5 DEF s
<1>8. Beyond(s, k)[1] = s[k + 1]
  BY <1>7, BeyondIs
<1> QED
  BY <1>4, <1>6, <1>8 DEF s, x, k

LEMMA PeekedIs ==
    ASSUME NEW p, Parser(p), NEW n \in Nat, n <= Len(Rest(p))
    PROVE  Peeked(p, n) = Upto(Rest(p), n)
<1> DEFINE s == Rest(p)
<1>1. s \in Seq(Octet) /\ Len(s) \in Nat
  BY ParserFacts DEF Strings
<1>2. \A k \in 1 .. n : Head(RemovePrefix(p, k - 1).buffers)[RemovePrefix(p, k - 1).skip + 1] = s[k]
  <2> SUFFICES ASSUME NEW k \in 1 .. n
               PROVE  Head(RemovePrefix(p, k - 1).buffers)[RemovePrefix(p, k - 1).skip + 1] = s[k]
    OBVIOUS
  <2> DEFINE q == RemovePrefix(p, k - 1)
  <2>1. k - 1 \in Nat /\ k - 1 \in 0 .. Len(s) /\ (k - 1) + 1 = k /\ 1 \in 1 .. Len(s) - (k - 1)
    BY <1>1
  <2>2. Parser(q) /\ Rest(q) = Beyond(s, k - 1)
    BY <2>1, RemovesFirst
  <2> HIDE DEF q, s
  <2>3. Beyond(s, k - 1)[1] = s[(k - 1) + 1] /\ Len(Beyond(s, k - 1)) = Len(s) - (k - 1)
    BY <1>1, <2>1, BeyondIs
  <2>4. Rest(q) # <<>>
    <3>1. Len(Rest(q)) > 0
      BY <1>1, <2>1, <2>2, <2>3
    <3>2. Len(<<>>) = 0
      OBVIOUS
    <3> QED
      BY <3>1, <3>2
  <2>5. Head(q.buffers)[q.skip + 1] = Rest(q)[1]
    BY <2>2, <2>4, PeekFront
  <2> QED
    BY <2>1, <2>2, <2>3, <2>5 DEF q
<1> HIDE DEF s
<1>3. Peeked(p, n) = [k \in 1 .. n |-> s[k]]
  BY <1>2, Zenon DEF Peeked
<1>4. Upto(s, n) = [k \in 1 .. n |-> s[k]]
  <2>1. n \in 0 .. Len(s)
    BY <1>1 DEF s
  <2>2. Upto(s, n) \in Seq(Octet) /\ Len(Upto(s, n)) = n /\ \A k \in 1 .. n : Upto(s, n)[k] = s[k]
    BY <1>1, <2>1, UptoIs
  <2> QED
    BY <2>2
<1> QED
  BY <1>3, <1>4 DEF s

\* all_remaining.
LEMMA RemainingIs ==
    ASSUME NEW p, Parser(p)
    PROVE  Remaining(p) \in Buffers /\ FlattenSeq(Remaining(p)) = Rest(p)
<1>0. Rest(p) \in Seq(Octet) /\ Size(p) = Len(Rest(p))
  BY ParserFacts DEF Strings
<1>1. CASE Size(p) = 0
  <2>1. Rest(p) = <<>>
    <3> DEFINE s == Rest(p)
    <3>1. s \in Seq(Octet) /\ Len(s) = 0
      BY <1>0, <1>1
    <3> HIDE DEF s
    <3>2. s = <<>>
      BY <3>1
    <3> QED
      BY <3>2 DEF s
  <2>2. Remaining(p) = <<>>
    BY <1>1 DEF Remaining
  <2>3. <<>> \in Buffers
    BY DEF Buffers, Packed
  <2> QED
    BY <2>1, <2>2, <2>3, FlatNothing
<1>2. CASE Size(p) # 0
  <2> DEFINE b == p.buffers
             x == Beyond(Head(b), p.skip)
             t == Tail(b)
             c == <<x>> \o t
  <2>1. Remaining(p) = c
    BY <1>2 DEF Remaining, Beyond
  <2>2. Rest(p) # <<>>
    <3>1. Len(<<>>) = 0
      OBVIOUS
    <3> QED
      BY <1>0, <1>2, <3>1
  <2>3. b # <<>>
    BY <2>2, ParserFacts
  <2>4. /\ Head(b) \in Seq(Octet) /\ Len(Head(b)) \in Nat /\ p.skip \in 0 .. Len(Head(b))
        /\ t \in Buffers /\ t \in Seq(Seq(Octet)) /\ FlattenSeq(t) \in Seq(Octet)
        /\ FlattenSeq(b) = Head(b) \o FlattenSeq(t)
    BY <2>3, ParserFront
  <2>5. x \in Seq(Octet)
    BY <2>4, BeyondIs
  <2>6. c \in Seq(Seq(Octet)) /\ c # <<>> /\ Head(c) = x /\ Tail(c) = t
    <3> HIDE DEF x, t
    <3> QED
      BY <2>4, <2>5
  <2>7. FlattenSeq(c) = x \o FlattenSeq(t)
    <3> HIDE DEF c
    <3> QED
      BY <2>6, FlatHead
  <2>8. Rest(p) = x \o FlattenSeq(t)
    <3> DEFINE h == Head(b)
               y == FlattenSeq(t)
               k == p.skip
    <3>1. h \in Seq(Octet) /\ y \in Seq(Octet) /\ k \in 0 .. Len(h) /\ FlattenSeq(b) = h \o y
      BY <2>4
    <3>2. Rest(p) = Beyond(h \o y, k)
      BY <3>1 DEF Rest
    <3> HIDE DEF h, y, k
    <3>3. Beyond(h \o y, k) = Beyond(h, k) \o y
      <4>1. /\ Beyond(h, k) \in Seq(Octet) /\ Len(Beyond(h, k)) = Len(h) - k
            /\ \A j \in 1 .. Len(h) - k : Beyond(h, k)[j] = h[k + j]
        BY <3>1, BeyondIs
      <4>2. /\ h \o y \in Seq(Octet) /\ Len(h \o y) = Len(h) + Len(y)
            /\ \A j \in 1 .. Len(h) : (h \o y)[j] = h[j]
            /\ \A j \in 1 .. Len(y) : (h \o y)[Len(h) + j] = y[j]
        BY <3>1, JoinIs
      <4>3. Len(h) \in Nat /\ Len(y) \in Nat /\ k \in Nat
        BY <3>1
      <4> DEFINE s == h \o y
                 u == Beyond(h, k) \o y
      <4> HIDE DEF s
      <4>4. /\ Beyond(s, k) \in Seq(Octet) /\ Len(Beyond(s, k)) = Len(s) - k
            /\ \A j \in 1 .. Len(s) - k : Beyond(s, k)[j] = s[k + j]
        <5>1. s \in Seq(Octet) /\ k \in 0 .. Len(s)
          BY <3>1, <4>2, <4>3 DEF s
        <5> QED
          BY <5>1, BeyondIs
      <4>5. /\ u \in Seq(Octet) /\ Len(u) = (Len(h) - k) + Len(y)
            /\ \A j \in 1 .. Len(h) - k : u[j] = Beyond(h, k)[j]
            /\ \A j \in 1 .. Len(y) : u[(Len(h) - k) + j] = y[j]
        <5>1. /\ u \in Seq(Octet) /\ Len(u) = Len(Beyond(h, k)) + Len(y)
              /\ \A j \in 1 .. Len(Beyond(h, k)) : u[j] = Beyond(h, k)[j]
              /\ \A j \in 1 .. Len(y) : u[Len(Beyond(h, k)) + j] = y[j]
          <6> DEFINE v == Beyond(h, k)
          <6>1. v \in Seq(Octet) /\ y \in Seq(Octet)
            BY <3>1, <4>1
          <6> HIDE DEF v
          <6>2. /\ v \o y \in Seq(Octet) /\ Len(v \o y) = Len(v) + Len(y)
                /\ \A j \in 1 .. Len(v) : (v \o y)[j] = v[j]
                /\ \A j \in 1 .. Len(y) : (v \o y)[Len(v) + j] = y[j]
            BY <6>1, JoinIs
          <6> QED
            BY <6>2 DEF v
        <5> HIDE DEF u
        <5> QED
          BY <4>1, <5>1
      <4> HIDE DEF u
      <4>6. Len(u) = Len(s) - k
        BY <4>2, <4>3, <4>5 DEF s
      <4>7. \A j \in 1 .. Len(u) : u[j] = Beyond(s, k)[j]
        <5> SUFFICES ASSUME NEW j \in 1 .. Len(u) PROVE u[j] = Beyond(s, k)[j]
          OBVIOUS
        <5>1. Beyond(s, k)[j] = s[k + j]
          BY <4>4, <4>6
        <5>2. CASE j <= Len(h) - k
          <6>1. j \in 1 .. Len(h) - k /\ k + j \in 1 .. Len(h)
            BY <3>1, <4>3, <5>2
          <6>2. s[k + j] = h[k + j] /\ u[j] = h[k + j]
            BY <4>1, <4>2, <4>5, <6>1 DEF s
          <6> QED
            BY <5>1, <6>2
        <5>3. CASE j > Len(h) - k
          <6> DEFINE i == j - (Len(h) - k)
          <6>1. i \in 1 .. Len(y) /\ (Len(h) - k) + i = j /\ Len(h) + i = k + j
            BY <3>1, <4>3, <4>5, <5>3
          <6>2. s[Len(h) + i] = y[i] /\ u[(Len(h) - k) + i] = y[i]
            BY <4>2, <4>5, <6>1 DEF s
          <6> QED
            BY <5>1, <6>1, <6>2
        <5> QED
          BY <4>3, <5>2, <5>3
      <4>8. Beyond(s, k) = u
        BY <4>4, <4>5, <4>6, <4>7, SeqEqual
      <4> QED
        BY <4>8 DEF s, u
    <3> QED
      BY <3>2, <3>3 DEF h, y, k
  <2>9. x # <<>>
    <3>1. ASSUME x = <<>> PROVE FALSE
      <4>1. Len(x) = 0
        <5>1. Len(<<>>) = 0
          OBVIOUS
        <5> QED
          BY <3>1, <5>1
      <4>2. Len(x) = Len(Head(b)) - p.skip
        BY <2>4, BeyondIs
      <4>3. p.skip = Len(Head(b))
        BY <2>4, <4>1, <4>2
      <4>4. p.skip = 0
        BY <2>3, <2>4, <4>3, ParserFront DEF Parser
      <4>5. Head(b) = <<>>
        BY <2>4, <4>3, <4>4
      <4>6. FlattenSeq(b) = <<>>
        BY <2>3, <4>5, ParserFront, ParserFacts, EmptyFront
      <4>7. Rest(p) = Beyond(FlattenSeq(b), 0) /\ Beyond(FlattenSeq(b), 0) = FlattenSeq(b)
        BY <4>4, ParserFacts, BeyondNone DEF Rest, Strings
      <4> QED
        BY <2>2, <4>6, <4>7
    <3> QED
      BY <3>1
  <2>10. Packed(c)
    <3> HIDE DEF x, t
    <3>1. Len(t) \in Nat /\ Len(c) = Len(t) + 1 /\ c[1] = x /\ \A j \in 1 .. Len(t) : c[j + 1] = t[j]
      BY <2>4, <2>5, SMTT(60)
    <3>2. \A i, j \in 1 .. Len(t) : i < j /\ t[i] = <<>> => t[j] = <<>>
      BY <2>4 DEF Buffers, Packed
    <3> HIDE DEF c
    <3> SUFFICES ASSUME NEW i \in 1 .. Len(c), NEW j \in 1 .. Len(c), i < j, c[i] = <<>>
                 PROVE  c[j] = <<>>
      BY DEF Packed
    <3>3. i # 1
      BY <2>9, <3>1
    <3>4. /\ i - 1 \in 1 .. Len(t) /\ j - 1 \in 1 .. Len(t) /\ i - 1 < j - 1
          /\ (i - 1) + 1 = i /\ (j - 1) + 1 = j
      BY <3>1, <3>3
    <3>5. c[i] = t[i - 1] /\ c[j] = t[j - 1]
      BY <3>1, <3>4
    <3> QED
      BY <3>2, <3>4, <3>5
  <2> HIDE DEF c
  <2> QED
    BY <2>1, <2>6, <2>7, <2>8, <2>10 DEF Buffers, Strings
<1> QED
  BY <1>1, <1>2

-----------------------------------------------------------------------------
\* Integers in a string

Width == {1, 2, 4}
Value == Word \union (Word \X Word)

\* Where each of the integers begins.
Offsets(off, widths) ==
    /\ off \in [1 .. Len(widths) + 1 -> Nat] /\ off[1] = 0
    /\ \A k \in 1 .. Len(widths) : off[k + 1] = off[k] + widths[k]

\* The integer of so many octets behind the first o.
At(s, o, width) ==
    IF width = 1 THEN s[o + 1]
    ELSE IF width = 2 THEN s[o + 1] * 256 + s[o + 2]
    ELSE <<s[o + 1] * 256 + s[o + 2], s[o + 3] * 256 + s[o + 4]>>

LEMMA UpTo ==
    ASSUME NEW m \in Int, NEW x
    PROVE  x \in 0 .. m <=> x \in Int /\ 0 <= x /\ x <= m
  OBVIOUS

LEMMA WordIs ==
    ASSUME NEW x
    PROVE  x \in Word <=> x \in Int /\ 0 <= x /\ x <= 65535
<1>1. PICK m \in Int : m = 65535
  OBVIOUS
<1>2. Word = 0 .. m
  BY <1>1, SMT DEF Word
<1>3. x \in Word <=> x \in Int /\ 0 <= x /\ x <= m
  BY <1>2, UpTo, SMT
<1> QED
  BY <1>1, <1>3, SMT

LEMMA OctetIsWord ==
    ASSUME NEW a \in Octet
    PROVE  a \in Word
  BY WordIs, SMT DEF Octet

LEMMA TwoOctets ==
    ASSUME NEW a \in Octet, NEW b \in Octet
    PROVE  a * 256 + b \in Word
  BY WordIs, SMT DEF Octet

LEMMA SameTwoOctets ==
    ASSUME NEW a \in Octet, NEW b \in Octet, NEW c \in Octet, NEW d \in Octet,
           a * 256 + b = c * 256 + d
    PROVE  a = c /\ b = d
  BY SMT DEF Octet

LEMMA AtType ==
    ASSUME NEW s \in Strings, NEW w \in Width, NEW o \in Nat, o + w <= Len(s)
    PROVE  /\ At(s, o, w) \in Value
           /\ w = 1 => At(s, o, w) \in Octet
           /\ w = 2 => At(s, o, w) \in Word
           /\ w = 4 => At(s, o, w) \in Word \X Word
<1>0. Len(s) \in Nat /\ s \in [1 .. Len(s) -> Octet]
  BY DEF Strings
<1>1. CASE w = 1
  <2>1. o + 1 \in 1 .. Len(s)
    BY <1>0, <1>1
  <2>2. s[o + 1] \in Octet /\ At(s, o, w) = s[o + 1]
    BY <1>0, <1>1, <2>1 DEF At
  <2> QED
    BY <1>1, <2>2, OctetIsWord, SMT DEF Value
<1>2. CASE w = 2
  <2>1. o + 1 \in 1 .. Len(s) /\ o + 2 \in 1 .. Len(s)
    BY <1>0, <1>2
  <2>2. s[o + 1] \in Octet /\ s[o + 2] \in Octet
    BY <1>0, <2>1
  <2>3. At(s, o, w) = s[o + 1] * 256 + s[o + 2]
    BY <1>2 DEF At
  <2>4. At(s, o, w) \in Word
    BY <2>2, <2>3, TwoOctets
  <2> QED
    BY <1>2, <2>4 DEF Value
<1>3. CASE w = 4
  <2>1. /\ o + 1 \in 1 .. Len(s) /\ o + 2 \in 1 .. Len(s)
        /\ o + 3 \in 1 .. Len(s) /\ o + 4 \in 1 .. Len(s)
    BY <1>0, <1>3
  <2>2. /\ s[o + 1] \in Octet /\ s[o + 2] \in Octet
        /\ s[o + 3] \in Octet /\ s[o + 4] \in Octet
    BY <1>0, <2>1
  <2>3. At(s, o, w) = <<s[o + 1] * 256 + s[o + 2], s[o + 3] * 256 + s[o + 4]>>
    BY <1>3 DEF At
  <2>4. s[o + 1] * 256 + s[o + 2] \in Word /\ s[o + 3] * 256 + s[o + 4] \in Word
    BY <2>2, TwoOctets
  <2> QED
    BY <1>3, <2>3, <2>4 DEF Value
<1> QED
  BY <1>1, <1>2, <1>3 DEF Width

LEMMA IntegerIs ==
    ASSUME NEW s \in Strings, NEW w \in Width, w <= Len(s)
    PROVE  Integer(Upto(s, w)) = At(s, 0, w)
<1>0. Len(s) \in Nat /\ w \in 0 .. Len(s) /\ s \in Seq(Octet)
  BY DEF Width, Strings
<1> DEFINE u == Upto(s, w)
<1>1. Len(u) = w /\ \A k \in 1 .. w : u[k] = s[k]
  BY <1>0, UptoIs
<1> HIDE DEF u
<1>2. CASE w = 1
  BY <1>1, <1>2 DEF At, Integer, u
<1>3. CASE w = 2
  <2>1. u[1] = s[1] /\ u[2] = s[2]
    BY <1>1, <1>3
  <2>2. Integer(u) = u[1] * 256 + u[2]
    BY <1>1, <1>3 DEF Integer
  <2> QED
    BY <1>3, <2>1, <2>2 DEF At, u
<1>4. CASE w = 4
  <2>1. u[1] = s[1] /\ u[2] = s[2] /\ u[3] = s[3] /\ u[4] = s[4]
    BY <1>1, <1>4
  <2>2. Integer(u) = <<u[1] * 256 + u[2], u[3] * 256 + u[4]>>
    BY <1>1, <1>4 DEF Integer
  <2> QED
    BY <1>4, <2>1, <2>2 DEF At, u
<1> QED
  BY <1>2, <1>3, <1>4 DEF Width

LEMMA AtBeyond ==
    ASSUME NEW s \in Strings, NEW w \in Width, NEW o \in Nat, o + w <= Len(s)
    PROVE  At(Beyond(s, o), 0, w) = At(s, o, w)
<1>0. Len(s) \in Nat /\ o \in 0 .. Len(s) /\ s \in Seq(Octet)
  BY DEF Width, Strings
<1> DEFINE u == Beyond(s, o)
<1>1. \A k \in 1 .. Len(s) - o : u[k] = s[o + k]
  BY <1>0, BeyondIs
<1> HIDE DEF u
<1>2. CASE w = 1
  <2>1. 1 \in 1 .. Len(s) - o
    BY <1>0, <1>2
  <2> QED
    BY <1>1, <1>2, <2>1 DEF At, u
<1>3. CASE w = 2
  <2>1. 1 \in 1 .. Len(s) - o /\ 2 \in 1 .. Len(s) - o
    BY <1>0, <1>3
  <2>2. u[1] = s[o + 1] /\ u[2] = s[o + 2]
    BY <1>1, <2>1
  <2> QED
    BY <1>3, <2>2 DEF At, u
<1>4. CASE w = 4
  <2>1. 1 \in 1 .. Len(s) - o /\ 2 \in 1 .. Len(s) - o /\ 3 \in 1 .. Len(s) - o
        /\ 4 \in 1 .. Len(s) - o
    BY <1>0, <1>4
  <2>2. u[1] = s[o + 1] /\ u[2] = s[o + 2] /\ u[3] = s[o + 3] /\ u[4] = s[o + 4]
    BY <1>1, <2>1
  <2> QED
    BY <1>4, <2>2 DEF At, u
<1> QED
  BY <1>2, <1>3, <1>4 DEF Width

\* What an offset table says.
LEMMA OffsetsGrow ==
    ASSUME NEW widths \in Seq(Width), NEW off, Offsets(off, widths)
    PROVE  /\ \A k \in 1 .. Len(widths) + 1 : off[k] \in Nat /\ off[k] <= off[Len(widths) + 1]
           /\ \A k \in 1 .. Len(widths) :
                /\ widths[k] \in Width /\ off[k] + widths[k] = off[k + 1]
                /\ off[k] + widths[k] <= off[Len(widths) + 1]
<1> DEFINE n == Len(widths)
           K == {k \in 0 .. n : off[n + 1 - k] <= off[n + 1]}
<1>0. n \in Nat /\ \A k \in 1 .. n : widths[k] \in Width /\ widths[k] \in Nat
  BY DEF Width
<1>1. /\ \A k \in 1 .. n + 1 : off[k] \in Nat
      /\ \A k \in 1 .. n : off[k + 1] = off[k] + widths[k]
  BY DEF Offsets
<1> HIDE DEF n
<1>2. 0 \in K
  BY <1>0, <1>1
<1>3. \A k \in 0 .. n - 1 : k \in K => k + 1 \in K
  <2> SUFFICES ASSUME NEW k \in 0 .. n - 1, k \in K PROVE k + 1 \in K
    OBVIOUS
  <2> DEFINE j == n + 1 - (k + 1)
  <2>1. j \in 1 .. n /\ j \in 1 .. n + 1 /\ j + 1 \in 1 .. n + 1 /\ n + 1 \in 1 .. n + 1
        /\ j + 1 = n + 1 - k /\ k + 1 \in 0 .. n
    BY <1>0
  <2>2. off[j + 1] = off[j] + widths[j] /\ widths[j] \in Nat /\ off[j] \in Nat /\ off[n + 1] \in Nat
    BY <1>0, <1>1, <2>1
  <2>3. off[j + 1] <= off[n + 1]
    BY <2>1
  <2>4. off[j] <= off[n + 1]
    BY <2>2, <2>3
  <2> QED
    BY <2>1, <2>4
<1> HIDE DEF K
<1>4. \A k \in 0 .. n : k \in K
  BY <1>0, <1>2, <1>3, Climb
<1>5. \A k \in 1 .. n + 1 : off[k] <= off[n + 1]
  <2> SUFFICES ASSUME NEW k \in 1 .. n + 1 PROVE off[k] <= off[n + 1]
    OBVIOUS
  <2>1. n + 1 - k \in 0 .. n /\ n + 1 - (n + 1 - k) = k
    BY <1>0
  <2>2. n + 1 - k \in K
    BY <1>4, <2>1
  <2>3. off[n + 1 - (n + 1 - k)] <= off[n + 1]
    BY <2>2, Zenon DEF K
  <2> QED
    BY <2>1, <2>3
<1>6. \A k \in 1 .. n : k + 1 \in 1 .. n + 1
  BY <1>0
<1> QED
  BY <1>0, <1>1, <1>5, <1>6 DEF n

\* Two strings with the same integers are the same.
LEMMA SameIntegers ==
    ASSUME NEW widths \in Seq(Width), NEW off, Offsets(off, widths),
           NEW s \in Strings, NEW t \in Strings,
           Len(s) = off[Len(widths) + 1], Len(t) = off[Len(widths) + 1],
           \A k \in 1 .. Len(widths) : At(s, off[k], widths[k]) = At(t, off[k], widths[k])
    PROVE  s = t
<1> DEFINE n == Len(widths)
           K == {k \in 0 .. n : \A i \in 1 .. off[k + 1] : s[i] = t[i]}
<1>0. /\ n \in Nat /\ off[1] = 0
      /\ \A k \in 1 .. n + 1 : off[k] \in Nat /\ off[k] <= off[n + 1]
      /\ \A k \in 1 .. n : /\ widths[k] \in Width /\ off[k] + widths[k] = off[k + 1]
                           /\ off[k] + widths[k] <= off[n + 1]
  <2>1. off[1] = 0 /\ n \in Nat
    BY DEF Offsets
  <2> QED
    BY <2>1, OffsetsGrow
<1>1. /\ Len(s) = off[n + 1] /\ Len(t) = off[n + 1] /\ off[n + 1] \in Nat
      /\ \A i \in 1 .. off[n + 1] : s[i] \in Octet /\ t[i] \in Octet
      /\ \A k \in 1 .. n : At(s, off[k], widths[k]) = At(t, off[k], widths[k])
  BY <1>0 DEF Strings
<1> HIDE DEF n
<1>2. 0 \in K
  BY <1>0
<1>3. \A k \in 0 .. n - 1 : k \in K => k + 1 \in K
  <2> SUFFICES ASSUME NEW k \in 0 .. n - 1, k \in K PROVE k + 1 \in K
    OBVIOUS
  <2> DEFINE o == off[k + 1]
             w == widths[k + 1]
  <2>1. k + 1 \in 1 .. n /\ k + 1 \in 0 .. n /\ k + 1 \in 1 .. n + 1
    BY <1>0
  <2>2. o \in Nat /\ w \in Width /\ off[(k + 1) + 1] = o + w /\ o + w <= off[n + 1]
    BY <1>0, <2>1
  <2>3. \A i \in 1 .. o : s[i] = t[i]
    OBVIOUS
  <2>4. At(s, o, w) = At(t, o, w)
    BY <1>1, <2>1
  <2> HIDE DEF o, w, K
  <2>5. \A i \in 1 .. off[n + 1] : s[i] \in Octet /\ t[i] \in Octet
    BY <1>1
  <2>6. \A i \in 1 .. o + w : s[i] = t[i]
    <3>1. CASE w = 1
      <4>1. s[o + 1] = t[o + 1]
        BY <2>4, <3>1 DEF At
      <4>2. \A i \in 1 .. o + 1 : i \in 1 .. o \/ i = o + 1
        BY <2>2
      <4> QED
        BY <2>3, <3>1, <4>1, <4>2
    <3>2. CASE w = 2
      <4>1. s[o + 1] * 256 + s[o + 2] = t[o + 1] * 256 + t[o + 2]
        BY <2>4, <3>2 DEF At
      <4>2. o + 1 \in 1 .. off[n + 1] /\ o + 2 \in 1 .. off[n + 1]
        BY <1>1, <2>2, <3>2
      <4>3. s[o + 1] \in Octet /\ t[o + 1] \in Octet /\ s[o + 2] \in Octet /\ t[o + 2] \in Octet
        BY <2>5, <4>2
      <4>4. s[o + 1] = t[o + 1] /\ s[o + 2] = t[o + 2]
        BY <4>1, <4>3, SameTwoOctets, SMT
      <4>5. \A i \in 1 .. o + 2 : i \in 1 .. o \/ i = o + 1 \/ i = o + 2
        BY <2>2
      <4> QED
        BY <2>3, <3>2, <4>4, <4>5
    <3>3. CASE w = 4
      <4>1. /\ s[o + 1] * 256 + s[o + 2] = t[o + 1] * 256 + t[o + 2]
            /\ s[o + 3] * 256 + s[o + 4] = t[o + 3] * 256 + t[o + 4]
        BY <2>4, <3>3 DEF At
      <4>2. /\ o + 1 \in 1 .. off[n + 1] /\ o + 2 \in 1 .. off[n + 1]
            /\ o + 3 \in 1 .. off[n + 1] /\ o + 4 \in 1 .. off[n + 1]
        BY <1>1, <2>2, <3>3
      <4>3. /\ s[o + 1] \in Octet /\ t[o + 1] \in Octet
            /\ s[o + 2] \in Octet /\ t[o + 2] \in Octet
            /\ s[o + 3] \in Octet /\ t[o + 3] \in Octet
            /\ s[o + 4] \in Octet /\ t[o + 4] \in Octet
        BY <2>5, <4>2
      <4>4. s[o + 1] = t[o + 1] /\ s[o + 2] = t[o + 2]
        BY <4>1, <4>3, SameTwoOctets, SMT
      <4>5. s[o + 3] = t[o + 3] /\ s[o + 4] = t[o + 4]
        BY <4>1, <4>3, SameTwoOctets, SMT
      <4>6. \A i \in 1 .. o + 4 : i \in 1 .. o \/ i = o + 1 \/ i = o + 2 \/ i = o + 3 \/ i = o + 4
        BY <2>2
      <4> QED
        BY <2>3, <3>3, <4>4, <4>5, <4>6
    <3> QED
      BY <2>2, <3>1, <3>2, <3>3 DEF Width
  <2>7. \A i \in 1 .. off[(k + 1) + 1] : s[i] = t[i]
    BY <2>2, <2>6
  <2> QED
    BY <2>1, <2>7 DEF K
<1> HIDE DEF K
<1>4. \A k \in 0 .. n : k \in K
  BY <1>0, <1>2, <1>3, Climb
<1>5. n \in K
  BY <1>0, <1>4
<1>6. \A i \in 1 .. off[n + 1] : s[i] = t[i]
  BY <1>5 DEF K
<1>7. s \in Seq(Octet) /\ t \in Seq(Octet)
  BY DEF Strings
<1> QED
  BY <1>1, <1>6, <1>7, SeqEqual
-----------------------------------------------------------------------------
\* Reading integers

\* One integer is read if it is there (parser.hh: integer).
LEMMA ReadIs ==
    ASSUME NEW p, Parser(p), ~p.error, NEW v, NEW w \in Width, w <= Len(Rest(p))
    PROVE  \E q : /\ Read([parser |-> p, values |-> v], w) =
                       [parser |-> q, values |-> Append(v, At(Rest(p), 0, w))]
                  /\ Parser(q) /\ ~q.error /\ Rest(q) = Beyond(Rest(p), w)
<1> DEFINE c == CheckSize(p, w)
<1>0. p \in [buffers : Seq(Strings), skip : Nat, error : BOOLEAN] /\ w \in Nat
  BY DEF Parser, Width
<1>1. Size(p) = Len(Rest(p)) /\ Len(Rest(p)) \in Nat /\ Rest(p) \in Strings
  BY ParserFacts
<1>2. ~(w > Size(p))
  BY <1>0, <1>1
<1>3. c = p
  BY <1>0, <1>2 DEF CheckSize
<1>4. Peeked(p, w) = Upto(Rest(p), w) /\ Integer(Upto(Rest(p), w)) = At(Rest(p), 0, w)
  BY <1>0, <1>1, PeekedIs, IntegerIs
<1> DEFINE q == RemovePrefix(p, w)
<1>5. Parser(q) /\ q.error = p.error /\ Rest(q) = Beyond(Rest(p), w)
  BY <1>0, RemovesFirst
<1>6. Read([parser |-> p, values |-> v], w) =
        [parser |-> q, values |-> Append(v, Integer(Peeked(p, w)))]
  BY <1>3, Zenon DEF Read
<1> HIDE DEF q
<1> QED
  BY <1>4, <1>5, <1>6

LEMMA ReadFails ==
    ASSUME NEW p, Parser(p), NEW v, NEW w \in Width, p.error \/ w > Len(Rest(p))
    PROVE  \E q : /\ Read([parser |-> p, values |-> v], w) = [parser |-> q, values |-> v]
                  /\ Parser(q) /\ q.error /\ Rest(q) = Rest(p)
<1> DEFINE c == CheckSize(p, w)
<1>0. p \in [buffers : Seq(Strings), skip : Nat, error : BOOLEAN] /\ w \in Nat
  BY DEF Parser, Width
<1>1. Size(p) = Len(Rest(p)) /\ Len(Rest(p)) \in Nat /\ Rest(p) \in Strings
  BY ParserFacts
<1>2. (p.error \/ w > Size(p)) = TRUE
  BY <1>0, <1>1
<1>3. c = [p EXCEPT !.error = TRUE]
  BY <1>2, Zenon DEF CheckSize
<1>4. /\ c \in [buffers : Seq(Strings), skip : Nat, error : BOOLEAN]
      /\ c.buffers = p.buffers /\ c.skip = p.skip /\ c.error = TRUE
  BY <1>0, <1>3
<1>5. Read([parser |-> p, values |-> v], w) = [parser |-> c, values |-> v]
  BY <1>4, Zenon DEF Read
<1> HIDE DEF c
<1>6. Parser(c) /\ Rest(c) = Rest(p)
  BY <1>4 DEF Parser, Rest
<1> QED
  BY <1>4, <1>5, <1>6

IsReading(f, p, widths, n) ==
    f = [k \in 0 .. n |-> IF k = 0 THEN [parser |-> p, values |-> <<>>]
                          ELSE Read(f[k - 1], widths[k])]

LEMMA ReadingExists ==
    ASSUME NEW p, NEW widths, NEW n \in Nat
    PROVE  \E f : IsReading(f, p, widths, n)
<1> DEFINE K == {k \in 0 .. n : \E f : IsReading(f, p, widths, k)}
<1>1. 0 \in K
  <2>1. IsReading([k \in 0 .. 0 |-> [parser |-> p, values |-> <<>>]], p, widths, 0)
    BY DEF IsReading
  <2> QED
    BY <2>1
<1>2. \A k \in 0 .. n - 1 : k \in K => k + 1 \in K
  <2> SUFFICES ASSUME NEW k \in 0 .. n - 1, k \in K PROVE k + 1 \in K
    OBVIOUS
  <2>1. PICK f : IsReading(f, p, widths, k)
    OBVIOUS
  <2> DEFINE g == [m \in 0 .. k + 1 |-> IF m = k + 1 THEN Read(f[k], widths[k + 1]) ELSE f[m]]
  <2>2. IsReading(g, p, widths, k + 1)
    BY <2>1 DEF IsReading
  <2> QED
    BY <2>2
<1> HIDE DEF K
<1>3. n \in K
  BY <1>1, <1>2, Climb
<1> QED
  BY <1>3 DEF K

LEMMA IntegersByStep ==
    ASSUME NEW p, NEW widths \in Seq(Width)
    PROVE  \E f : /\ Integers_(p, widths) = f[Len(widths)]
                  /\ f[0] = [parser |-> p, values |-> <<>>]
                  /\ \A k \in 0 .. Len(widths) - 1 : f[k + 1] = Read(f[k], widths[k + 1])
<1> DEFINE n == Len(widths)
           f == CHOOSE f : IsReading(f, p, widths, n)
<1>0. n \in Nat
  OBVIOUS
<1>1. IsReading(f, p, widths, n)
  BY <1>0, ReadingExists
<1>2. Integers_(p, widths) = f[n]
  BY DEF Integers_, IsReading
<1> HIDE DEF f
<1>3. f[0] = [parser |-> p, values |-> <<>>] /\ \A k \in 0 .. n - 1 : f[k + 1] = Read(f[k], widths[k + 1])
  BY <1>0, <1>1 DEF IsReading
<1> QED
  BY <1>2, <1>3

\* The integers of a string that has them all are read in their order from
\* front to back, each at its offset, however the string is cut into buffers
\* (parser.hh:120-140, Parser::integer).
THEOREM IntegersAre ==
    ASSUME NEW p, Parser(p), ~p.error, NEW widths \in Seq(Width),
           NEW off, Offsets(off, widths), off[Len(widths) + 1] <= Len(Rest(p))
    PROVE  \E q, v : /\ Integers_(p, widths) = [parser |-> q, values |-> v]
                     /\ Parser(q) /\ ~q.error
                     /\ Rest(q) = Beyond(Rest(p), off[Len(widths) + 1])
                     /\ v \in Seq(Value) /\ Len(v) = Len(widths)
                     /\ \A k \in 1 .. Len(widths) : v[k] = At(Rest(p), off[k], widths[k])
<1> DEFINE n == Len(widths)
           s == Rest(p)
<1>0. /\ n \in Nat /\ off[1] = 0
      /\ \A k \in 1 .. n + 1 : off[k] \in Nat /\ off[k] <= off[n + 1]
      /\ \A k \in 1 .. n : /\ widths[k] \in Width /\ off[k] + widths[k] = off[k + 1]
                           /\ off[k] + widths[k] <= off[n + 1]
  <2>1. off[1] = 0 /\ n \in Nat
    BY DEF Offsets
  <2> QED
    BY <2>1, OffsetsGrow
<1>1. s \in Strings /\ Len(s) \in Nat /\ off[n + 1] <= Len(s)
  BY ParserFacts
<1>2. PICK f : /\ Integers_(p, widths) = f[n]
               /\ f[0] = [parser |-> p, values |-> <<>>]
               /\ \A k \in 0 .. n - 1 : f[k + 1] = Read(f[k], widths[k + 1])
  BY IntegersByStep
<1> DEFINE Good(k, q, v) ==
             /\ f[k] = [parser |-> q, values |-> v]
             /\ Parser(q) /\ ~q.error /\ Rest(q) = Beyond(s, off[k + 1])
             /\ v \in Seq(Value) /\ Len(v) = k
             /\ \A i \in 1 .. k : v[i] = At(s, off[i], widths[i])
           K == {k \in 0 .. n : \E q, v : Good(k, q, v)}
<1>3. 0 \in K
  <2>1. Beyond(s, 0) = s
    BY <1>1, BeyondNone DEF Strings
  <2>2. Good(0, p, <<>>)
    BY <1>0, <1>2, <2>1
  <2> HIDE DEF Good
  <2> QED
    BY <1>0, <2>2
<1> HIDE DEF n, s
<1>4. \A k \in 0 .. n - 1 : k \in K => k + 1 \in K
  <2> SUFFICES ASSUME NEW k \in 0 .. n - 1, k \in K PROVE k + 1 \in K
    OBVIOUS
  <2>1. PICK q, v : Good(k, q, v)
    OBVIOUS
  <2> HIDE DEF K
  <2> DEFINE o == off[k + 1]
             w == widths[k + 1]
             x == At(s, o, w)
  <2>2. k + 1 \in 1 .. n /\ k + 1 \in 0 .. n /\ k + 1 \in 1 .. n + 1 /\ k \in Nat
    BY <1>0
  <2>3. o \in Nat /\ w \in Width /\ off[(k + 1) + 1] = o + w /\ o + w <= Len(s) /\ w \in Nat
    <3>1. o \in Nat /\ w \in Width /\ off[(k + 1) + 1] = o + w /\ o + w <= off[n + 1] /\ off[n + 1] \in Nat
      BY <1>0, <2>2
    <3> HIDE DEF o, w
    <3> QED
      BY <1>1, <3>1 DEF Width
  <2> HIDE DEF o, w
  <2>4. Rest(q) = Beyond(s, o)
    BY <2>1 DEF o
  <2>5. Rest(q) \in Strings /\ Len(Rest(q)) = Len(s) - o
    <3>1. s \in Seq(Octet) /\ o \in 0 .. Len(s)
      BY <1>1, <2>3 DEF Strings
    <3>2. Len(Beyond(s, o)) = Len(s) - o
      BY <3>1, BeyondIs
    <3> QED
      BY <2>1, <2>4, <3>2, ParserFacts
  <2>6. w <= Len(Rest(q))
    BY <1>1, <2>3, <2>5
  <2>7. At(Rest(q), 0, w) = x
    BY <1>1, <2>3, <2>4, AtBeyond
  <2>8. x \in Value
    BY <1>1, <2>3, AtType
  <2> HIDE DEF x
  <2>9. PICK t : /\ Read([parser |-> q, values |-> v], w) = [parser |-> t, values |-> Append(v, x)]
                 /\ Parser(t) /\ ~t.error /\ Rest(t) = Beyond(Rest(q), w)
    <3>1. Parser(q) /\ ~q.error /\ w \in Width /\ w <= Len(Rest(q))
      BY <2>1, <2>3, <2>6
    <3>2. \E t : /\ Read([parser |-> q, values |-> v], w) =
                      [parser |-> t, values |-> Append(v, At(Rest(q), 0, w))]
                 /\ Parser(t) /\ ~t.error /\ Rest(t) = Beyond(Rest(q), w)
      BY <3>1, ReadIs, Zenon
    <3> QED
      BY <2>7, <3>2, Zenon
  <2>10. f[k + 1] = [parser |-> t, values |-> Append(v, x)]
    BY <1>2, <2>1, <2>9 DEF w
  <2>11. Rest(t) = Beyond(s, off[(k + 1) + 1])
    <3>1. s \in Seq(Octet)
      BY <1>1 DEF Strings
    <3>2. Beyond(Beyond(s, o), w) = Beyond(s, o + w)
      BY <2>3, <3>1, BeyondBeyond
    <3> QED
      BY <2>3, <2>4, <2>9, <3>2
  <2> DEFINE u == Append(v, x)
  <2>12. u \in Seq(Value) /\ Len(u) = k + 1 /\ u[k + 1] = x /\ \A i \in 1 .. k : u[i] = v[i]
    <3> v \in Seq(Value) /\ Len(v) = k
      BY <2>1
    <3>1. u \in Seq(Value) /\ Len(u) = k + 1
      BY <2>8
    <3>2. \A i \in 1 .. Len(v) : u[i] = v[i]
      OBVIOUS
    <3>3. u[Len(v) + 1] = x
      OBVIOUS
    <3> QED
      BY <3>1, <3>2, <3>3
  <2> HIDE DEF u
  <2>13. \A i \in 1 .. k + 1 : u[i] = At(s, off[i], widths[i])
    <3>1. \A i \in 1 .. k : u[i] = At(s, off[i], widths[i])
      BY <2>1, <2>12
    <3>2. u[k + 1] = At(s, off[k + 1], widths[k + 1])
      BY <2>12 DEF x, o, w
    <3>3. \A i \in 1 .. k + 1 : i \in 1 .. k \/ i = k + 1
      BY <2>2
    <3> QED
      BY <3>1, <3>2, <3>3
  <2>14. Good(k + 1, t, u)
    BY <2>9, <2>10, <2>11, <2>12, <2>13 DEF u
  <2> HIDE DEF Good
  <2> QED
    BY <2>2, <2>14 DEF K
<1> HIDE DEF K
<1>5. \A k \in 0 .. n : k \in K
  BY <1>0, <1>3, <1>4, Climb
<1>6. n \in K
  BY <1>0, <1>5
<1>7. PICK q, v : Good(n, q, v)
  BY <1>6 DEF K
<1> QED
  BY <1>2, <1>7 DEF n, s

\* If they are not all there, the parser has an error afterwards.
LEMMA IntegersMissing ==
    ASSUME NEW p, Parser(p), NEW widths \in Seq(Width),
           NEW off, Offsets(off, widths), off[Len(widths) + 1] > Len(Rest(p))
    PROVE  Integers_(p, widths).parser.error
<1> DEFINE n == Len(widths)
           s == Rest(p)
<1>0. /\ n \in Nat /\ off[1] = 0
      /\ \A k \in 1 .. n + 1 : off[k] \in Nat /\ off[k] <= off[n + 1]
      /\ \A k \in 1 .. n : /\ widths[k] \in Width /\ off[k] + widths[k] = off[k + 1]
                           /\ off[k] + widths[k] <= off[n + 1]
  <2>1. off[1] = 0 /\ n \in Nat
    BY DEF Offsets
  <2> QED
    BY <2>1, OffsetsGrow
<1>1. s \in Strings /\ Len(s) \in Nat /\ off[n + 1] > Len(s)
  BY ParserFacts
<1>2. PICK f : /\ Integers_(p, widths) = f[n]
               /\ f[0] = [parser |-> p, values |-> <<>>]
               /\ \A k \in 0 .. n - 1 : f[k + 1] = Read(f[k], widths[k + 1])
  BY IntegersByStep
<1> DEFINE Good(k, q, v) ==
             /\ f[k] = [parser |-> q, values |-> v] /\ Parser(q)
             /\ q.error \/ (Rest(q) = Beyond(s, off[k + 1]) /\ off[k + 1] <= Len(s))
           K == {k \in 0 .. n : \E q, v : Good(k, q, v)}
<1>3. 0 \in K
  <2>1. Beyond(s, 0) = s
    BY <1>1, BeyondNone DEF Strings
  <2>2. Good(0, p, <<>>)
    BY <1>0, <1>1, <1>2, <2>1
  <2> HIDE DEF Good
  <2> QED
    BY <1>0, <2>2
<1> HIDE DEF n, s
<1>4. \A k \in 0 .. n - 1 : k \in K => k + 1 \in K
  <2> SUFFICES ASSUME NEW k \in 0 .. n - 1, k \in K PROVE k + 1 \in K
    OBVIOUS
  <2>1. PICK q, v : Good(k, q, v)
    OBVIOUS
  <2> HIDE DEF K
  <2> DEFINE o == off[k + 1]
             w == widths[k + 1]
  <2>2. k + 1 \in 1 .. n /\ k + 1 \in 0 .. n /\ k + 1 \in 1 .. n + 1 /\ k \in Nat
    BY <1>0
  <2>3. o \in Nat /\ w \in Width /\ off[(k + 1) + 1] = o + w /\ w \in Nat
    <3>1. o \in Nat /\ w \in Width /\ off[(k + 1) + 1] = o + w
      BY <1>0, <2>2
    <3> HIDE DEF o, w
    <3> QED
      BY <3>1 DEF Width
  <2>10. f[k + 1] = Read([parser |-> q, values |-> v], w)
    BY <1>2, <2>1
  <2> HIDE DEF o, w
  <2>4. CASE q.error \/ w > Len(Rest(q))
    <3>1. PICK t : /\ Read([parser |-> q, values |-> v], w) = [parser |-> t, values |-> v]
                   /\ Parser(t) /\ t.error
      <4>1. Parser(q) /\ w \in Width /\ (q.error \/ w > Len(Rest(q)))
        BY <2>1, <2>3, <2>4
      <4>2. \E t : /\ Read([parser |-> q, values |-> v], w) = [parser |-> t, values |-> v]
                   /\ Parser(t) /\ t.error /\ Rest(t) = Rest(q)
        BY <4>1, ReadFails, Zenon
      <4> QED
        BY <4>2, Zenon
    <3>2. Good(k + 1, t, v)
      BY <2>10, <3>1
    <3> HIDE DEF Good
    <3> QED
      BY <2>2, <3>2 DEF K
  <2>5. CASE ~q.error /\ ~(w > Len(Rest(q)))
    <3>1. Rest(q) = Beyond(s, o) /\ o <= Len(s)
      BY <2>1, <2>5 DEF o
    <3>2. s \in Seq(Octet) /\ o \in 0 .. Len(s)
      BY <1>1, <2>3, <3>1 DEF Strings
    <3>3. Len(Rest(q)) = Len(s) - o
      BY <3>1, <3>2, BeyondIs
    <3>4. o + w <= Len(s) /\ w <= Len(Rest(q))
      BY <1>1, <2>3, <2>5, <3>3
    <3>5. PICK t : /\ Read([parser |-> q, values |-> v], w) =
                        [parser |-> t, values |-> Append(v, At(Rest(q), 0, w))]
                   /\ Parser(t) /\ Rest(t) = Beyond(Rest(q), w)
      <4>1. Parser(q) /\ ~q.error /\ w \in Width /\ w <= Len(Rest(q))
        BY <2>1, <2>3, <2>5, <3>4
      <4>2. \E t : /\ Read([parser |-> q, values |-> v], w) =
                        [parser |-> t, values |-> Append(v, At(Rest(q), 0, w))]
                   /\ Parser(t) /\ ~t.error /\ Rest(t) = Beyond(Rest(q), w)
        BY <4>1, ReadIs, Zenon
      <4> QED
        BY <4>2, Zenon
    <3>6. Beyond(Beyond(s, o), w) = Beyond(s, o + w)
      BY <2>3, <3>2, BeyondBeyond
    <3>7. Rest(t) = Beyond(s, off[(k + 1) + 1]) /\ off[(k + 1) + 1] <= Len(s)
      BY <2>3, <3>1, <3>4, <3>5, <3>6
    <3>8. Good(k + 1, t, Append(v, At(Rest(q), 0, w)))
      BY <2>10, <3>5, <3>7
    <3> HIDE DEF Good
    <3> QED
      BY <2>2, <3>8 DEF K
  <2> QED
    BY <2>4, <2>5
<1> HIDE DEF K
<1>5. \A k \in 0 .. n : k \in K
  BY <1>0, <1>3, <1>4, Climb
<1>6. n \in K
  BY <1>0, <1>5
<1>7. PICK q, v : Good(n, q, v)
  BY <1>6 DEF K
<1>8. q.error
  BY <1>0, <1>1, <1>7
<1> QED
  BY <1>2, <1>7, <1>8 DEF n

-----------------------------------------------------------------------------
\* Writing integers

LEMMA AtSame ==
    ASSUME NEW s, NEW t, NEW o \in Int, NEW u \in Int, NEW w \in Width,
           \A k \in 1 .. w : s[o + k] = t[u + k]
    PROVE  At(s, o, w) = At(t, u, w)
<1>1. CASE w = 1
  <2>1. s[o + 1] = t[u + 1]
    BY <1>1
  <2> QED
    BY <1>1, <2>1, Zenon DEF At
<1>2. CASE w = 2
  <2>1. s[o + 1] = t[u + 1] /\ s[o + 2] = t[u + 2]
    BY <1>2
  <2> QED
    BY <1>2, <2>1, SMT DEF At
<1>3. CASE w = 4
  <2>1. s[o + 1] = t[u + 1] /\ s[o + 2] = t[u + 2] /\ s[o + 3] = t[u + 3] /\ s[o + 4] = t[u + 4]
    BY <1>3
  <2> QED
    BY <1>3, <2>1, SMT DEF At
<1> QED
  BY <1>1, <1>2, <1>3 DEF Width

LEMMA AtLeft ==
    ASSUME NEW s \in Strings, NEW t \in Strings, NEW w \in Width, NEW o \in Nat,
           o + w <= Len(s)
    PROVE  At(s \o t, o, w) = At(s, o, w)
<1>0. Len(s) \in Nat /\ w \in Nat /\ \A k \in 1 .. Len(s) : (s \o t)[k] = s[k]
  BY JoinIs DEF Strings, Width
<1> DEFINE u == s \o t
<1> HIDE DEF u
<1>1. \A k \in 1 .. w : u[o + k] = s[o + k]
  <2>1. \A k \in 1 .. w : o + k \in 1 .. Len(s)
    BY <1>0
  <2> QED
    BY <1>0, <2>1 DEF u
<1>2. At(u, o, w) = At(s, o, w)
  BY <1>1, AtSame
<1> QED
  BY <1>2 DEF u

LEMMA AtRight ==
    ASSUME NEW s \in Strings, NEW t \in Strings, NEW w \in Width, NEW o \in Nat,
           o + w <= Len(t)
    PROVE  At(s \o t, Len(s) + o, w) = At(t, o, w)
<1>0. /\ Len(s) \in Nat /\ Len(t) \in Nat /\ w \in Nat
      /\ \A k \in 1 .. Len(t) : (s \o t)[Len(s) + k] = t[k]
  BY JoinIs DEF Strings, Width
<1> DEFINE u == s \o t
           l == Len(s)
<1> HIDE DEF u, l
<1>1. \A k \in 1 .. w : u[(l + o) + k] = t[o + k]
  <2> SUFFICES ASSUME NEW k \in 1 .. w PROVE u[(l + o) + k] = t[o + k]
    OBVIOUS
  <2>1. o + k \in 1 .. Len(t) /\ (l + o) + k = l + (o + k)
    BY <1>0 DEF l
  <2> QED
    BY <1>0, <2>1 DEF u, l
<1>2. At(u, l + o, w) = At(t, o, w)
  <2>1. l + o \in Int /\ o \in Int
    BY <1>0 DEF l
  <2> QED
    BY <1>1, <2>1, AtSame
<1> QED
  BY <1>2 DEF u, l

Fits(v, w) ==
    /\ w = 1 => v \in Octet
    /\ w = 2 => v \in Word
    /\ w = 4 => v \in Word \X Word

LEMMA HalvesOfWord ==
    ASSUME NEW n \in Word
    PROVE  n \div 256 \in Octet /\ n % 256 \in Octet /\ (n \div 256) * 256 + (n % 256) = n
<1>1. n \in Int /\ 0 <= n /\ n <= 65535
  BY WordIs
<1> DEFINE a == n \div 256
           b == n % 256
<1>2. a \in Int /\ b \in Int /\ 0 <= b /\ b <= 255 /\ n = 256 * a + b
  BY <1>1, SMTT(30)
<1> HIDE DEF a, b
<1>3. 0 <= a /\ a <= 255 /\ a * 256 + b = n
  BY <1>1, <1>2, SMTT(30)
<1>4. a \in 0 .. 255 /\ b \in 0 .. 255
  BY <1>2, <1>3, SMT
<1> QED
  BY <1>3, <1>4 DEF a, b, Octet

LEMMA OctetsAre ==
    ASSUME NEW w \in Width, NEW v, Fits(v, w)
    PROVE  Octets(v, w) \in Strings /\ Len(Octets(v, w)) = w /\ At(Octets(v, w), 0, w) = v
<1>1. CASE w = 1
  <2>1. Octets(v, w) = <<v>> /\ v \in Octet
    BY <1>1 DEF Octets, Fits
  <2>2. <<v>> \in Seq(Octet) /\ Len(<<v>>) = 1 /\ <<v>>[0 + 1] = v
    BY <2>1
  <2> QED
    BY <1>1, <2>1, <2>2 DEF Strings, At
<1>2. CASE w = 2
  <2> DEFINE a == v \div 256
             b == v % 256
  <2>1. v \in Word /\ Octets(v, w) = <<a, b>>
    BY <1>2 DEF Octets, Fits
  <2>2. a \in Octet /\ b \in Octet /\ a * 256 + b = v
    BY <2>1, HalvesOfWord
  <2> HIDE DEF a, b
  <2>3. <<a, b>> \in Seq(Octet) /\ Len(<<a, b>>) = 2 /\ <<a, b>>[0 + 1] = a /\ <<a, b>>[0 + 2] = b
    BY <2>2
  <2> DEFINE s == <<a, b>>
  <2> HIDE DEF s
  <2>4. At(s, 0, w) = s[0 + 1] * 256 + s[0 + 2]
    BY <1>2 DEF At
  <2> QED
    BY <1>2, <2>1, <2>2, <2>3, <2>4 DEF Strings, s
<1>3. CASE w = 4
  <2> DEFINE a == v[1] \div 256
             b == v[1] % 256
             c == v[2] \div 256
             d == v[2] % 256
  <2>1. v \in Word \X Word /\ Octets(v, w) = <<a, b, c, d>>
    BY <1>3 DEF Octets, Fits
  <2>2. v[1] \in Word /\ v[2] \in Word /\ v = <<v[1], v[2]>>
    BY <2>1
  <2>3. a \in Octet /\ b \in Octet /\ a * 256 + b = v[1]
    BY <2>2, HalvesOfWord
  <2>4. c \in Octet /\ d \in Octet /\ c * 256 + d = v[2]
    BY <2>2, HalvesOfWord
  <2> HIDE DEF a, b, c, d
  <2> DEFINE s == <<a, b, c, d>>
  <2>5. s \in Seq(Octet) /\ Len(s) = 4
        /\ s[0 + 1] = a /\ s[0 + 2] = b /\ s[0 + 3] = c /\ s[0 + 4] = d
    BY <2>3, <2>4
  <2> HIDE DEF s
  <2>6. At(s, 0, w) = <<s[0 + 1] * 256 + s[0 + 2], s[0 + 3] * 256 + s[0 + 4]>>
    BY <1>3 DEF At
  <2>7. At(s, 0, w) = v
    BY <2>2, <2>3, <2>4, <2>5, <2>6
  <2> QED
    BY <1>3, <2>1, <2>5, <2>7 DEF Strings, s
<1> QED
  BY <1>1, <1>2, <1>3 DEF Width

\* Each integer is in its place in what a Serializer makes of them
\* (parser.hh: integer).
LEMMA SerializedIs ==
    ASSUME NEW widths \in Seq(Width), widths # <<>>, NEW off, Offsets(off, widths),
           NEW values, \A k \in 1 .. Len(widths) : Fits(values[k], widths[k])
    PROVE  /\ Serialized(values, widths) \in Strings
           /\ Len(Serialized(values, widths)) = off[Len(widths) + 1]
           /\ \A k \in 1 .. Len(widths) :
                At(Serialized(values, widths), off[k], widths[k]) = values[k]
<1> DEFINE n == Len(widths)
           b == [k \in 1 .. n |-> Octets(values[k], widths[k])]
<1>0. /\ n \in Nat /\ n > 0 /\ off[1] = 0 /\ DOMAIN widths = 1 .. n
      /\ \A k \in 1 .. n + 1 : off[k] \in Nat /\ off[k] <= off[n + 1]
      /\ \A k \in 1 .. n : /\ widths[k] \in Width /\ off[k] + widths[k] = off[k + 1]
                           /\ off[k] + widths[k] <= off[n + 1]
  <2>1. off[1] = 0 /\ n \in Nat /\ n > 0 /\ DOMAIN widths = 1 .. n
    BY DEF Offsets
  <2> QED
    BY <2>1, OffsetsGrow
<1>1. Serialized(values, widths) = FlattenSeq(b)
  BY <1>0, Zenon DEF Serialized
<1>2. \A k \in 1 .. n : /\ b[k] \in Strings /\ Len(b[k]) = widths[k]
                        /\ At(b[k], 0, widths[k]) = values[k]
  <2> SUFFICES ASSUME NEW k \in 1 .. n
               PROVE  /\ b[k] \in Strings /\ Len(b[k]) = widths[k]
                      /\ At(b[k], 0, widths[k]) = values[k]
    OBVIOUS
  <2>1. b[k] = Octets(values[k], widths[k])
    OBVIOUS
  <2>2. widths[k] \in Width /\ Fits(values[k], widths[k])
    BY <1>0
  <2>3. /\ Octets(values[k], widths[k]) \in Strings /\ Len(Octets(values[k], widths[k])) = widths[k]
        /\ At(Octets(values[k], widths[k]), 0, widths[k]) = values[k]
    BY <2>2, OctetsAre
  <2> HIDE DEF b
  <2> QED
    BY <2>1, <2>3, Zenon
<1>3. b \in [1 .. n -> Strings]
  <2>1. \A k \in 1 .. n : Octets(values[k], widths[k]) \in Strings
    BY <1>2
  <2> QED
    BY <2>1
<1> HIDE DEF n, b
<1>4. b \in Seq(Seq(Octet)) /\ Len(b) = n /\ b # <<>>
  BY <1>0, <1>3 DEF Strings
<1>5. PICK f : /\ FlattenSeq(b) = f[n]
               /\ f[1] = b[1]
               /\ \A k \in 1 .. n - 1 : f[k + 1] = f[k] \o b[k + 1]
  <2>1. \E f : /\ FlattenSeq(b) = f[Len(b)]
               /\ f[1] = b[1]
               /\ \A k \in 1 .. Len(b) - 1 : f[k + 1] = f[k] \o b[k + 1]
               /\ \A k \in 1 .. Len(b) : f[k] \in Seq(Octet)
    BY <1>4, Joining, Zenon
  <2> QED
    BY <1>4, <2>1
<1> DEFINE Good(k, s) ==
             /\ s \in Strings /\ Len(s) = off[k + 1]
             /\ \A i \in 1 .. k : At(s, off[i], widths[i]) = values[i]
           K == {k \in 0 .. n - 1 : Good(k + 1, f[k + 1])}
<1>6. 0 \in K
  <2>1. 1 \in 1 .. n /\ 0 \in 0 .. n - 1
    BY <1>0
  <2>2. f[1] \in Strings /\ Len(f[1]) = widths[1] /\ At(f[1], 0, widths[1]) = values[1]
    BY <1>2, <1>5, <2>1
  <2>3. off[1] = 0 /\ off[1 + 1] = widths[1]
    <3>1. off[1] + widths[1] = off[1 + 1] /\ widths[1] \in Nat
      BY <1>0, <2>1 DEF Width
    <3> QED
      BY <1>0, <3>1
  <2>4. \A i \in 1 .. 1 : i = 1
    OBVIOUS
  <2>5. Good(1, f[1])
    BY <2>2, <2>3, <2>4
  <2> HIDE DEF Good
  <2> QED
    BY <2>1, <2>5
<1>7. \A k \in 0 .. (n - 1) - 1 : k \in K => k + 1 \in K
  <2> SUFFICES ASSUME NEW k \in 0 .. (n - 1) - 1, k \in K PROVE k + 1 \in K
    OBVIOUS
  <2> DEFINE s == f[k + 1]
             j == k + 2
             t == b[j]
             w == widths[j]
  <2>1. /\ k + 1 \in 1 .. n - 1 /\ k + 1 \in 0 .. n - 1 /\ j \in 1 .. n /\ j \in 1 .. n + 1
        /\ (k + 1) + 1 = j /\ k \in Nat /\ j + 1 \in 1 .. n + 1
    BY <1>0
  <2>2. f[(k + 1) + 1] = s \o t
    BY <1>5, <2>1
  <2>3. Good(k + 1, s)
    OBVIOUS
  <2>4. s \in Strings /\ Len(s) = off[j] /\ \A i \in 1 .. k + 1 : At(s, off[i], widths[i]) = values[i]
    BY <2>1, <2>3
  <2>5. t \in Strings /\ Len(t) = w /\ At(t, 0, w) = values[j] /\ w \in Width
        /\ off[j] + w = off[j + 1] /\ w \in Nat /\ off[j] \in Nat
    BY <1>0, <1>2, <2>1 DEF Width
  <2> DEFINE u == s \o t
  <2>6. u \in Strings /\ Len(u) = off[j + 1]
    <3> HIDE DEF s, t, w
    <3>1. Len(u) = Len(s) + Len(t) /\ u \in Strings
      BY <2>4, <2>5, JoinIs DEF Strings
    <3> QED
      BY <2>4, <2>5, <3>1
  <2>7. \A i \in 1 .. k + 1 : At(u, off[i], widths[i]) = values[i]
    <3> SUFFICES ASSUME NEW i \in 1 .. k + 1 PROVE At(u, off[i], widths[i]) = values[i]
      OBVIOUS
    <3>1. off[i] \in Nat /\ widths[i] \in Width /\ off[i] + widths[i] <= Len(s)
      <4>1. i \in 1 .. j - 1 /\ i \in 1 .. n /\ j - 1 \in 1 .. n /\ i \in 1 .. n + 1
        BY <1>0, <2>1
      <4> DEFINE g == Upto(widths, k + 1)
      <4>2. widths \in Seq(Width) /\ k + 1 \in 0 .. Len(widths)
        BY <1>0, <2>1 DEF n
      <4>3. g \in Seq(Width) /\ Len(g) = k + 1 /\ \A m \in 1 .. k + 1 : g[m] = widths[m]
        BY <4>2, UptoIs
      <4> HIDE DEF g
      <4> DEFINE h == [m \in 1 .. (k + 1) + 1 |-> off[m]]
      <4>4. Offsets(h, g)
        <5>1. \A m \in 1 .. (k + 1) + 1 : m \in 1 .. n + 1 /\ off[m] \in Nat
          BY <1>0, <2>1
        <5>2. h \in [1 .. (k + 1) + 1 -> Nat] /\ h[1] = 0
          BY <1>0, <2>1, <5>1
        <5>3. \A m \in 1 .. k + 1 : h[m + 1] = h[m] + g[m]
          <6> SUFFICES ASSUME NEW m \in 1 .. k + 1 PROVE h[m + 1] = h[m] + g[m]
            OBVIOUS
          <6>1. m \in 1 .. n /\ m \in 1 .. (k + 1) + 1 /\ m + 1 \in 1 .. (k + 1) + 1
            BY <1>0, <2>1
          <6>2. off[m + 1] = off[m] + widths[m]
            BY <1>0, <6>1
          <6> QED
            BY <4>3, <6>1, <6>2
        <5> HIDE DEF h
        <5> QED
          BY <4>3, <5>2, <5>3 DEF Offsets
      <4>5. h[i] + g[i] <= h[(k + 1) + 1]
        BY <4>3, <4>4, OffsetsGrow
      <4>6. h[i] = off[i] /\ h[(k + 1) + 1] = off[j] /\ g[i] = widths[i]
        BY <4>1, <4>3, <2>1
      <4> QED
        BY <1>0, <2>4, <4>1, <4>5, <4>6
    <3> HIDE DEF s, t
    <3>2. At(u, off[i], widths[i]) = At(s, off[i], widths[i])
      BY <2>4, <2>5, <3>1, AtLeft
    <3> QED
      BY <2>4, <3>2
  <2>8. At(u, off[j], w) = values[j]
    <3> HIDE DEF s, t, w
    <3>1. At(s \o t, Len(s) + 0, w) = At(t, 0, w)
      <4>1. 0 \in Nat /\ 0 + w <= Len(t)
        BY <2>5
      <4> QED
        BY <2>4, <2>5, <4>1, AtRight
    <3>2. Len(s) + 0 = off[j]
      BY <2>4, <2>5
    <3> QED
      BY <2>5, <3>1, <3>2
  <2>9. \A i \in 1 .. j : At(u, off[i], widths[i]) = values[i]
    <3>1. \A i \in 1 .. j : i \in 1 .. k + 1 \/ i = j
      BY <2>1
    <3> QED
      BY <2>7, <2>8, <3>1
  <2>10. Good(j, u)
    BY <2>6, <2>9
  <2> HIDE DEF Good, u
  <2> QED
    BY <2>1, <2>2, <2>10 DEF u
<1>8. n - 1 \in Nat /\ n - 1 \in 0 .. n - 1 /\ (n - 1) + 1 = n
  BY <1>0
<1> HIDE DEF K
<1>9. \A k \in 0 .. n - 1 : k \in K
  BY <1>6, <1>7, <1>8, Climb
<1>10. n - 1 \in K
  BY <1>8, <1>9
<1>11. Good(n, f[n])
  BY <1>8, <1>10 DEF K
<1> QED
  BY <1>1, <1>5, <1>11 DEF n

-----------------------------------------------------------------------------
\* The sum and how it is folded

Modulus == 65535
Congruent(n, r) == \E q \in Nat : n = r + Modulus * q
Vanishes(n) == \E q \in Nat : n = Modulus * q

\* What folding comes to.
Rest16(n) == IF n = 0 THEN 0 ELSE 1 + ((n - 1) % 65535)

LEMMA RestOf16 ==
    ASSUME NEW n \in Nat
    PROVE  /\ Rest16(n) \in Nat /\ Rest16(n) <= 65535
           /\ Rest16(n) = 0 <=> n = 0
           /\ Congruent(n, Rest16(n))
           /\ n <= 65535 => Rest16(n) = n
<1>1. CASE n = 0
  <2>1. Rest16(n) = 0 /\ n = 0 + Modulus * 0 /\ 0 \in Nat
    BY <1>1, SMT DEF Rest16, Modulus
  <2>2. Congruent(n, 0)
    BY <2>1, Zenon DEF Congruent
  <2> QED
    BY <1>1, <2>1, <2>2
<1>2. CASE n # 0
  <2> DEFINE a == n - 1
             r == a % 65535
             q == a \div 65535
  <2>1. a \in Nat /\ Rest16(n) = 1 + r /\ n = a + 1
    BY <1>2 DEF Rest16
  <2> HIDE DEF a
  <2>2. r \in Int /\ 0 <= r /\ r <= 65534 /\ q \in Int /\ a = 65535 * q + r
    BY <2>1, SMTT(30)
  <2> HIDE DEF r, q
  <2>3. q \in Nat
    BY <2>1, <2>2, SMTT(30)
  <2>4. n <= 65535 => r = a
    BY <2>1, <2>2, <2>3, SMTT(30)
  <2>5. n = (1 + r) + Modulus * q
    BY <2>1, <2>2, <2>3, SMT DEF Modulus
  <2>6. Congruent(n, 1 + r)
    BY <2>3, <2>5, Zenon DEF Congruent
  <2> QED
    BY <1>2, <2>1, <2>2, <2>3, <2>4, <2>6, SMT
<1> QED
  BY <1>1, <1>2

LEMMA SameRest ==
    ASSUME NEW r \in Nat, NEW t \in Nat, NEW q \in Int, NEW n \in Nat,
           r <= 65535, t <= 65535, r = 0 <=> t = 0, r - t = 65535 * q
    PROVE  r = t
  BY SMT

Carried(n) == (n \div 65536) + (n % 65536)
Large(n) == n > 65535

LEMMA FoldingKeeps ==
    ASSUME NEW n \in Nat, n > 65535
    PROVE  Carried(n) \in Nat /\ Carried(n) < n /\ Rest16(Carried(n)) = Rest16(n)
<1> DEFINE a == n \div 65536
           b == n % 65536
           m == a + b
<1>1. a \in Int /\ b \in Int /\ 0 <= b /\ b <= 65535 /\ n = 65536 * a + b
  BY SMTT(30)
<1> HIDE DEF a, b
<1>2. a \in Nat /\ a > 0 /\ b \in Nat
  BY <1>1, SMTT(30)
<1>3. m \in Nat /\ m < n /\ m > 0 /\ n - m = 65535 * a
  BY <1>1, <1>2, SMT
<1> HIDE DEF m
<1>4. PICK q \in Nat : n = Rest16(n) + 65535 * q
  <2>1. Congruent(n, Rest16(n))
    BY RestOf16
  <2> QED
    BY <2>1, SMT DEF Congruent, Modulus
<1>5. PICK t \in Nat : m = Rest16(m) + 65535 * t
  <2>1. m \in Nat
    BY <1>3
  <2>2. Congruent(m, Rest16(m))
    BY <2>1, RestOf16
  <2> QED
    BY <2>2, SMT DEF Congruent, Modulus
<1> DEFINE x == Rest16(n)
           y == Rest16(m)
<1>6. x \in Nat /\ y \in Nat /\ x <= 65535 /\ y <= 65535 /\ x # 0 /\ y # 0
  <2>1. m \in Nat /\ m # 0 /\ n # 0
    BY <1>3
  <2>2. Rest16(n) \in Nat /\ Rest16(n) <= 65535 /\ (Rest16(n) = 0 <=> n = 0)
    BY RestOf16
  <2>3. Rest16(m) \in Nat /\ Rest16(m) <= 65535 /\ (Rest16(m) = 0 <=> m = 0)
    BY <2>1, RestOf16
  <2> QED
    BY <2>1, <2>2, <2>3
<1> HIDE DEF x, y
<1>7. n = x + 65535 * q /\ m = y + 65535 * t
  BY <1>4, <1>5 DEF x, y
<1>8. x - y = 65535 * (a - q + t) /\ a - q + t \in Int
  BY <1>2, <1>3, <1>6, <1>7, SMT
<1>9. x = y
  BY <1>6, <1>8, SameRest
<1> QED
  BY <1>3, <1>9 DEF x, y, m, a, b, Carried

IsFolded(f) ==
    f = [n \in Nat |-> IF Large(n) THEN f[Carried(n)] ELSE n]

LEMMA FoldedExists == \E f : IsFolded(f)
<1> DEFINE f == [n \in Nat |-> Rest16(n)]
           g == [n \in Nat |-> IF Large(n) THEN f[Carried(n)] ELSE n]
<1>1. \A n \in Nat : Rest16(n) = IF Large(n) THEN f[Carried(n)] ELSE n
  <2> SUFFICES ASSUME NEW n \in Nat
               PROVE  Rest16(n) = IF Large(n) THEN f[Carried(n)] ELSE n
    OBVIOUS
  <2>1. CASE Large(n)
    <3> DEFINE m == Carried(n)
    <3>1. m \in Nat /\ Rest16(m) = Rest16(n)
      BY <2>1, FoldingKeeps, SMT DEF Large
    <3> HIDE DEF m
    <3>2. f[m] = Rest16(n)
      BY <3>1, Zenon
    <3> QED
      BY <2>1, <3>2 DEF m
  <2>2. CASE ~Large(n)
    <3>1. n <= 65535
      BY <2>2, SMT DEF Large
    <3> QED
      BY <2>2, <3>1, RestOf16
  <2> QED
    BY <2>1, <2>2
<1>2. f = g
  BY <1>1, Zenon
<1> HIDE DEF f, g
<1>3. IsFolded(f)
  BY <1>2, Zenon DEF IsFolded, g
<1> QED
  BY <1>3

LEMMA FoldedIs ==
    ASSUME NEW n \in Nat
    PROVE  Folded[n] = Rest16(n)
<1>1. IsFolded(Folded)
  <2>1. Folded = CHOOSE f : IsFolded(f)
    BY SMT DEF Folded, IsFolded, Large, Carried
  <2> QED
    BY <2>1, FoldedExists, Zenon
<1>2. \A m \in Nat : Folded[m] = IF Large(m) THEN Folded[Carried(m)] ELSE m
  BY <1>1, Zenon DEF IsFolded
<1> DEFINE K == {k \in 0 .. n : \A m \in 0 .. k : Folded[m] = Rest16(m)}
<1>3. 0 \in K
  <2>1. \A m \in 0 .. 0 : m = 0
    OBVIOUS
  <2>2. Folded[0] = 0 /\ Rest16(0) = 0
    BY <1>2, SMT DEF Rest16, Large
  <2> QED
    BY <2>1, <2>2
<1>4. \A k \in 0 .. n - 1 : k \in K => k + 1 \in K
  <2> SUFFICES ASSUME NEW k \in 0 .. n - 1, k \in K PROVE k + 1 \in K
    OBVIOUS
  <2> DEFINE j == k + 1
  <2>1. j \in Nat /\ j \in 0 .. n /\ \A m \in Nat : m < j => m \in 0 .. k
    OBVIOUS
  <2>2. \A m \in 0 .. k : Folded[m] = Rest16(m)
    OBVIOUS
  <2> HIDE DEF K
  <2>3. Folded[j] = Rest16(j)
    <3> HIDE DEF j
    <3>1. CASE Large(j)
      <4> DEFINE m == Carried(j)
      <4>1. m \in Nat /\ m < j /\ Rest16(m) = Rest16(j)
        BY <2>1, <3>1, FoldingKeeps, SMT DEF Large
      <4>2. Folded[j] = Folded[m]
        BY <1>2, <2>1, <3>1
      <4> HIDE DEF m
      <4> QED
        BY <2>1, <2>2, <4>1, <4>2
    <3>2. CASE ~Large(j)
      <4>1. Folded[j] = j /\ j <= 65535
        BY <1>2, <2>1, <3>2, SMT DEF Large
      <4> QED
        BY <2>1, <4>1, RestOf16
    <3> QED
      BY <3>1, <3>2
  <2>4. \A m \in 0 .. k + 1 : m \in 0 .. k \/ m = j
    OBVIOUS
  <2>5. \A m \in 0 .. k + 1 : Folded[m] = Rest16(m)
    BY <2>2, <2>3, <2>4, Zenon
  <2> QED
    BY <2>1, <2>5 DEF K
<1> HIDE DEF K
<1>5. \A k \in 0 .. n : k \in K
  BY <1>3, <1>4, Climb
<1>6. n \in 0 .. n
  OBVIOUS
<1> QED
  BY <1>5, <1>6 DEF K

\* The complement is zero for a sum that vanishes (checksum.hh: value).
LEMMA FoldedFacts ==
    ASSUME NEW n \in Nat
    PROVE  /\ Folded[n] \in Word /\ 65535 - Folded[n] \in Word
           /\ n > 0 => (Folded[n] = 65535 <=> Vanishes(n))
           /\ Folded[n] = 65535 => n > 0 /\ Vanishes(n)
           /\ Vanishes(n) => Folded[n] \in {0, 65535}
           /\ Vanishes(n + (65535 - Folded[n])) /\ n + (65535 - Folded[n]) > 0
<1> DEFINE r == Rest16(n)
<1>1. Folded[n] = r
  BY FoldedIs
<1>2. PICK q \in Nat : n = r + 65535 * q
  <2>1. Congruent(n, r)
    BY RestOf16
  <2> QED
    BY <2>1, SMT DEF Congruent, Modulus
<1>3. r \in Nat /\ r <= 65535 /\ (r = 0 <=> n = 0)
  BY RestOf16
<1> HIDE DEF r
<1>4. r \in Word /\ 65535 - r \in Word
  <2>1. r \in Int /\ 0 <= r /\ 65535 - r \in Int /\ 0 <= 65535 - r /\ 65535 - r <= 65535
    BY <1>3, SMT
  <2> QED
    BY <1>3, <2>1, WordIs
<1>5. r = 65535 => n > 0 /\ Vanishes(n)
  <2>1. r = 65535 => n = 65535 * (q + 1) /\ q + 1 \in Nat /\ n > 0
    BY <1>2, <1>3, SMT
  <2> QED
    <3>1. r = 65535 => n = Modulus * (q + 1) /\ q + 1 \in Nat
      BY <2>1, SMT DEF Modulus
    <3>2. r = 65535 => Vanishes(n)
      <4> HIDE DEF r
      <4> QED
        BY <3>1, SMT DEF Vanishes
    <3> QED
      BY <2>1, <3>2
<1>6. Vanishes(n) /\ n > 0 => r = 65535
  <2> SUFFICES ASSUME Vanishes(n), n > 0 PROVE r = 65535
    OBVIOUS
  <2>1. PICK t \in Nat : n = 65535 * t
    BY SMT DEF Vanishes, Modulus
  <2>2. r = 65535 * (t - q) /\ t - q \in Int
    BY <1>2, <1>3, <2>1, SMT
  <2>3. r # 0
    BY <1>3
  <2> QED
    BY <1>3, <2>2, <2>3, SMTT(30)
<1>7. n = 0 => r = 0
  BY <1>3
<1>8. Vanishes(n + (65535 - r)) /\ n + (65535 - r) > 0
  <2>1. n + (65535 - r) = 65535 * (q + 1) /\ q + 1 \in Nat
    BY <1>2, <1>3, SMT
  <2>2. n + (65535 - r) > 0
    BY <1>2, <1>3, <2>1, SMT
  <2> QED
    <3> DEFINE z == n + (65535 - r)
    <3>1. z = Modulus * (q + 1)
      BY <2>1, SMT DEF Modulus
    <3>2. Vanishes(z)
      <4> DEFINE t == q + 1
      <4>1. t \in Nat /\ z = Modulus * t
        BY <2>1, <3>1
      <4> HIDE DEF z, t
      <4> QED
        BY <4>1, Zenon DEF Vanishes
    <3> QED
      BY <2>2, <3>2
<1>9. Vanishes(n) => r \in {0, 65535}
  BY <1>6, <1>7
<1> QED
  BY <1>1, <1>4, <1>5, <1>6, <1>8, <1>9

-----------------------------------------------------------------------------
\* The weight of a string: what it adds to a sum

Weight(s) == Sum(0, <<s>>)
Weighed(octet, k) == IF k % 2 = 1 THEN 256 * octet ELSE octet

IsAdded(f, start, s, n) ==
    f = [k \in 0 .. n |-> IF k = 0 THEN start ELSE f[k - 1] + Weighed(s[k], k)]

LEMMA OctetIs ==
    ASSUME NEW a
    PROVE  a \in Octet <=> a \in Int /\ 0 <= a /\ a <= 255
  BY SMT DEF Octet

LEMMA WeighedIs ==
    ASSUME NEW a \in Octet, NEW k \in Nat
    PROVE  Weighed(a, k) \in Nat
<1>1. a \in Int /\ 0 <= a
  BY DEF Octet
<1> QED
  BY <1>1, SMT DEF Weighed

LEMMA AddedExists ==
    ASSUME NEW start, NEW s, NEW n \in Nat
    PROVE  \E f : IsAdded(f, start, s, n)
<1> DEFINE K == {k \in 0 .. n : \E f : IsAdded(f, start, s, k)}
<1>1. 0 \in K
  <2>1. IsAdded([k \in 0 .. 0 |-> start], start, s, 0)
    BY DEF IsAdded
  <2> QED
    BY <2>1
<1>2. \A k \in 0 .. n - 1 : k \in K => k + 1 \in K
  <2> SUFFICES ASSUME NEW k \in 0 .. n - 1, k \in K PROVE k + 1 \in K
    OBVIOUS
  <2>1. PICK f : IsAdded(f, start, s, k)
    OBVIOUS
  <2> DEFINE g == [m \in 0 .. k + 1 |-> IF m = k + 1 THEN f[k] + Weighed(s[k + 1], k + 1) ELSE f[m]]
  <2>2. IsAdded(g, start, s, k + 1)
    BY <2>1 DEF IsAdded
  <2> QED
    BY <2>2
<1> HIDE DEF K
<1>3. n \in K
  BY <1>1, <1>2, Climb
<1> QED
  BY <1>3 DEF K

LEMMA SumByStep ==
    ASSUME NEW start \in Nat, NEW b, FlattenSeq(b) \in Strings
    PROVE  \E f : /\ Sum(start, b) = f[Len(FlattenSeq(b))]
                  /\ f[0] = start
                  /\ \A k \in 0 .. Len(FlattenSeq(b)) - 1 :
                       f[k + 1] = f[k] + Weighed(FlattenSeq(b)[k + 1], k + 1)
                  /\ \A k \in 0 .. Len(FlattenSeq(b)) : f[k] \in Nat
<1> DEFINE s == FlattenSeq(b)
           n == Len(s)
           f == CHOOSE f : IsAdded(f, start, s, n)
<1>0. n \in Nat /\ s \in Seq(Octet)
  BY DEF Strings
<1>1. IsAdded(f, start, s, n)
  BY <1>0, AddedExists
<1>2. Sum(start, b) = f[n]
  BY DEF Sum, IsAdded, Weighed
<1> HIDE DEF f
<1> HIDE DEF s
<1>3. f[0] = start /\ \A k \in 0 .. n - 1 : f[k + 1] = f[k] + Weighed(s[k + 1], k + 1)
  BY <1>0, <1>1 DEF IsAdded
<1> DEFINE K == {k \in 0 .. n : f[k] \in Nat}
<1>4. 0 \in K
  BY <1>0, <1>3
<1>5. \A k \in 0 .. n - 1 : k \in K => k + 1 \in K
  <2> SUFFICES ASSUME NEW k \in 0 .. n - 1, k \in K PROVE k + 1 \in K
    OBVIOUS
  <2>1. k + 1 \in 1 .. n /\ k + 1 \in Nat /\ k + 1 \in 0 .. n /\ f[k] \in Nat
    BY <1>0
  <2>2. s[k + 1] \in Octet
    BY <1>0, <2>1
  <2>3. Weighed(s[k + 1], k + 1) \in Nat
    BY <2>1, <2>2, WeighedIs
  <2> QED
    BY <1>3, <2>1, <2>3
<1> HIDE DEF K
<1>6. \A k \in 0 .. n : k \in K
  BY <1>0, <1>4, <1>5, Climb
<1>7. \A k \in 0 .. n : f[k] \in Nat
  BY <1>6 DEF K
<1> QED
  BY <1>2, <1>3, <1>7 DEF s

LEMMA WeightByStep ==
    ASSUME NEW s \in Strings
    PROVE  \E f : /\ Weight(s) = f[Len(s)]
                  /\ f[0] = 0
                  /\ \A k \in 0 .. Len(s) - 1 : f[k + 1] = f[k] + Weighed(s[k + 1], k + 1)
                  /\ \A k \in 0 .. Len(s) : f[k] \in Nat
<1>1. FlattenSeq(<<s>>) = s
  BY FlatOne DEF Strings
<1> DEFINE b == <<s>>
<1>2. FlattenSeq(b) \in Strings /\ FlattenSeq(b) = s /\ 0 \in Nat
  BY <1>1
<1>3. Weight(s) = Sum(0, b)
  BY DEF Weight
<1> HIDE DEF b
<1>4. \E f : /\ Sum(0, b) = f[Len(FlattenSeq(b))]
             /\ f[0] = 0
             /\ \A k \in 0 .. Len(FlattenSeq(b)) - 1 :
                  f[k + 1] = f[k] + Weighed(FlattenSeq(b)[k + 1], k + 1)
             /\ \A k \in 0 .. Len(FlattenSeq(b)) : f[k] \in Nat
  BY <1>2, SumByStep, Zenon
<1> QED
  BY <1>2, <1>3, <1>4

\* A sum goes on from where it starts, from one buffer to the next
\* (checksum.hh: add).
LEMMA SumIs ==
    ASSUME NEW start \in Nat, NEW b, FlattenSeq(b) \in Strings
    PROVE  /\ Weight(FlattenSeq(b)) \in Nat
           /\ Sum(start, b) = start + Weight(FlattenSeq(b))
<1> DEFINE s == FlattenSeq(b)
           n == Len(s)
<1>0. n \in Nat /\ s \in Seq(Octet)
  BY DEF Strings
<1>1. PICK f : /\ Sum(start, b) = f[n] /\ f[0] = start
               /\ \A k \in 0 .. n - 1 : f[k + 1] = f[k] + Weighed(s[k + 1], k + 1)
               /\ \A k \in 0 .. n : f[k] \in Nat
  <2>1. \E f : /\ Sum(start, b) = f[n] /\ f[0] = start
               /\ \A k \in 0 .. n - 1 : f[k + 1] = f[k] + Weighed(s[k + 1], k + 1)
               /\ \A k \in 0 .. n : f[k] \in Nat
    BY SumByStep, Zenon
  <2> QED
    BY <2>1
<1> HIDE DEF s
<1>2. PICK g : /\ Weight(s) = g[n] /\ g[0] = 0
               /\ \A k \in 0 .. n - 1 : g[k + 1] = g[k] + Weighed(s[k + 1], k + 1)
               /\ \A k \in 0 .. n : g[k] \in Nat
  <2>1. s \in Strings
    BY DEF s
  <2>2. \E g : /\ Weight(s) = g[n] /\ g[0] = 0
               /\ \A k \in 0 .. n - 1 : g[k + 1] = g[k] + Weighed(s[k + 1], k + 1)
               /\ \A k \in 0 .. n : g[k] \in Nat
    BY <2>1, WeightByStep, Zenon
  <2> QED
    BY <2>2
<1> DEFINE K == {k \in 0 .. n : f[k] = start + g[k]}
<1>3. 0 \in K
  BY <1>0, <1>1, <1>2
<1>4. \A k \in 0 .. n - 1 : k \in K => k + 1 \in K
  <2> SUFFICES ASSUME NEW k \in 0 .. n - 1, k \in K PROVE k + 1 \in K
    OBVIOUS
  <2>1. k + 1 \in 1 .. n /\ k + 1 \in Nat /\ k + 1 \in 0 .. n /\ f[k] = start + g[k] /\ g[k] \in Nat
    BY <1>0, <1>2
  <2>2. s[k + 1] \in Octet
    BY <1>0, <2>1
  <2>3. Weighed(s[k + 1], k + 1) \in Nat
    BY <2>1, <2>2, WeighedIs
  <2> QED
    BY <1>1, <1>2, <2>1, <2>3
<1> HIDE DEF K
<1>5. n \in K
  <2>1. \A k \in 0 .. n : k \in K
    BY <1>0, <1>3, <1>4, Climb
  <2> QED
    BY <1>0, <2>1
<1>6. f[n] = start + g[n] /\ g[n] \in Nat
  BY <1>0, <1>2, <1>5 DEF K
<1> QED
  BY <1>1, <1>2, <1>6 DEF s

LEMMA WeightType == ASSUME NEW s \in Strings PROVE Weight(s) \in Nat
<1>1. PICK f : Weight(s) = f[Len(s)] /\ \A k \in 0 .. Len(s) : f[k] \in Nat
  BY WeightByStep
<1>2. Len(s) \in 0 .. Len(s)
  BY DEF Strings
<1> QED
  BY <1>1, <1>2

\* The weights of two strings add up to that of a third if their octets do.
LEMMA WeightAdds ==
    ASSUME NEW s \in Strings, NEW t \in Strings, NEW u \in Strings,
           Len(s) = Len(u), Len(t) = Len(u), \A k \in 1 .. Len(u) : u[k] = s[k] + t[k]
    PROVE  Weight(u) = Weight(s) + Weight(t)
<1> DEFINE n == Len(u)
<1>0. n \in Nat /\ s \in Seq(Octet) /\ t \in Seq(Octet) /\ u \in Seq(Octet)
  BY DEF Strings
<1>1. PICK f : /\ Weight(s) = f[n] /\ f[0] = 0
               /\ \A k \in 0 .. n - 1 : f[k + 1] = f[k] + Weighed(s[k + 1], k + 1)
               /\ \A k \in 0 .. n : f[k] \in Nat
  BY WeightByStep
<1>2. PICK g : /\ Weight(t) = g[n] /\ g[0] = 0
               /\ \A k \in 0 .. n - 1 : g[k + 1] = g[k] + Weighed(t[k + 1], k + 1)
               /\ \A k \in 0 .. n : g[k] \in Nat
  BY WeightByStep
<1>3. PICK h : /\ Weight(u) = h[n] /\ h[0] = 0
               /\ \A k \in 0 .. n - 1 : h[k + 1] = h[k] + Weighed(u[k + 1], k + 1)
               /\ \A k \in 0 .. n : h[k] \in Nat
  BY WeightByStep
<1> DEFINE K == {k \in 0 .. n : h[k] = f[k] + g[k]}
<1>4. 0 \in K
  BY <1>0, <1>1, <1>2, <1>3
<1>5. \A k \in 0 .. n - 1 : k \in K => k + 1 \in K
  <2> SUFFICES ASSUME NEW k \in 0 .. n - 1, k \in K PROVE k + 1 \in K
    OBVIOUS
  <2>1. /\ k + 1 \in 1 .. n /\ k + 1 \in Nat /\ k + 1 \in 0 .. n
        /\ h[k] = f[k] + g[k] /\ f[k] \in Nat /\ g[k] \in Nat
    BY <1>0, <1>1, <1>2
  <2>2. s[k + 1] \in Octet /\ t[k + 1] \in Octet /\ u[k + 1] = s[k + 1] + t[k + 1]
    BY <1>0, <2>1
  <2> DEFINE a == s[k + 1]
             c == t[k + 1]
  <2>3. a \in Nat /\ c \in Nat /\ u[k + 1] = a + c
    <3>1. s[k + 1] \in Int /\ 0 <= s[k + 1] /\ t[k + 1] \in Int /\ 0 <= t[k + 1]
      BY <2>2, OctetIs
    <3> QED
      BY <2>2, <3>1
  <2>4. /\ h[k + 1] = h[k] + Weighed(a + c, k + 1)
        /\ f[k + 1] = f[k] + Weighed(a, k + 1) /\ g[k + 1] = g[k] + Weighed(c, k + 1)
    BY <1>1, <1>2, <1>3, <2>3
  <2> HIDE DEF a, c
  <2>5. /\ Weighed(a + c, k + 1) = Weighed(a, k + 1) + Weighed(c, k + 1)
        /\ Weighed(a, k + 1) \in Nat /\ Weighed(c, k + 1) \in Nat
    BY <2>3, SMT DEF Weighed
  <2>6. h[k + 1] = f[k + 1] + g[k + 1]
    BY <2>1, <2>4, <2>5
  <2> QED
    BY <2>1, <2>6
<1> HIDE DEF K
<1>6. n \in K
  <2>1. \A k \in 0 .. n : k \in K
    BY <1>0, <1>4, <1>5, Climb
  <2> QED
    BY <1>0, <2>1
<1> QED
  BY <1>1, <1>2, <1>3, <1>6 DEF K

LEMMA WeightOneOff ==
    ASSUME NEW s \in Strings, NEW t \in Strings, Len(s) = Len(t), NEW i \in 1 .. Len(s),
           \A k \in 1 .. Len(s) : k # i => s[k] = t[k]
    PROVE  Weight(t) - Weight(s) = Weighed(t[i], i) - Weighed(s[i], i)
<1> DEFINE n == Len(s)
<1>0. n \in Nat /\ s \in Seq(Octet) /\ t \in Seq(Octet) /\ i \in 1 .. n
  BY DEF Strings
<1>1. PICK f : /\ Weight(s) = f[n] /\ f[0] = 0
               /\ \A k \in 0 .. n - 1 : f[k + 1] = f[k] + Weighed(s[k + 1], k + 1)
               /\ \A k \in 0 .. n : f[k] \in Nat
  BY WeightByStep
<1>2. PICK g : /\ Weight(t) = g[n] /\ g[0] = 0
               /\ \A k \in 0 .. n - 1 : g[k + 1] = g[k] + Weighed(t[k + 1], k + 1)
               /\ \A k \in 0 .. n : g[k] \in Nat
  BY WeightByStep
<1> DEFINE d == Weighed(t[i], i) - Weighed(s[i], i)
           K == {k \in 0 .. n : g[k] = f[k] + IF k < i THEN 0 ELSE d}
<1>3. d \in Int
  <2>1. t[i] \in Octet /\ s[i] \in Octet /\ i \in Nat
    BY <1>0
  <2>2. Weighed(t[i], i) \in Nat /\ Weighed(s[i], i) \in Nat
    BY <2>1, WeighedIs
  <2> QED
    BY <2>2
<1>4. 0 \in K
  BY <1>0, <1>1, <1>2
<1>5. \A k \in 0 .. n - 1 : k \in K => k + 1 \in K
  <2> SUFFICES ASSUME NEW k \in 0 .. n - 1, k \in K PROVE k + 1 \in K
    OBVIOUS
  <2> DEFINE j == k + 1
  <2>1. /\ j \in 1 .. n /\ j \in Nat /\ j \in 0 .. n /\ f[k] \in Nat /\ g[k] \in Nat
        /\ g[k] = f[k] + IF k < i THEN 0 ELSE d
    BY <1>0, <1>1, <1>2
  <2>2. s[j] \in Octet /\ t[j] \in Octet
    BY <1>0, <2>1
  <2>3. Weighed(s[j], j) \in Nat /\ Weighed(t[j], j) \in Nat
    BY <2>1, <2>2, WeighedIs
  <2>4. f[j] = f[k] + Weighed(s[j], j) /\ g[j] = g[k] + Weighed(t[j], j)
    BY <1>1, <1>2
  <2>5. CASE j = i
    <3>1. k < i /\ ~(j < i)
      BY <2>1, <2>5
    <3>2. g[k] = f[k] /\ Weighed(t[j], j) = Weighed(s[j], j) + d
      BY <2>1, <2>3, <2>5, <3>1
    <3> HIDE DEF d, j
    <3>3. g[j] = f[j] + d
      BY <1>3, <2>1, <2>3, <2>4, <3>2
    <3> QED
      BY <2>1, <3>1, <3>3 DEF j
  <2>6. CASE j # i
    <3>1. s[j] = t[j]
      BY <2>1, <2>6
    <3>2. j < i <=> k < i
      BY <2>1, <2>6
    <3> DEFINE e == IF k < i THEN 0 ELSE d
    <3>3. e \in Int /\ g[k] = f[k] + e
      BY <1>3, <2>1
    <3> HIDE DEF e
    <3>4. g[j] = f[j] + e
      BY <2>1, <2>3, <2>4, <3>1, <3>3
    <3>5. e = IF j < i THEN 0 ELSE d
      BY <3>2 DEF e
    <3> QED
      BY <2>1, <3>4, <3>5
  <2> QED
    BY <2>5, <2>6
<1> HIDE DEF K
<1>6. n \in K
  <2>1. \A k \in 0 .. n : k \in K
    BY <1>0, <1>4, <1>5, Climb
  <2> QED
    BY <1>0, <2>1
<1>7. g[n] = f[n] + d /\ f[n] \in Nat /\ g[n] \in Nat
  BY <1>0, <1>1, <1>2, <1>6 DEF K
<1> QED
  BY <1>1, <1>2, <1>3, <1>7

LEMMA JoinOctets ==
    ASSUME NEW s \in Strings, NEW t \in Strings
    PROVE  /\ s \o t \in Seq(Octet) /\ Len(s \o t) = Len(s) + Len(t)
           /\ \A k \in 1 .. Len(s) : (s \o t)[k] = s[k]
           /\ \A k \in 1 .. Len(t) : (s \o t)[Len(s) + k] = t[k]
<1>1. s \in Seq(Octet) /\ t \in Seq(Octet)
  BY DEF Strings
<1> QED
  BY <1>1, JoinIs

LEMMA WeightTail ==
    ASSUME NEW u \in Strings, NEW m \in 0 .. Len(u), \A k \in m + 1 .. Len(u) : u[k] = 0
    PROVE  Weight(u) = Weight(Upto(u, m))
<1> DEFINE n == Len(u)
           s == Upto(u, m)
<1>0. n \in Nat /\ m \in Nat /\ m <= n /\ u \in Seq(Octet)
  BY DEF Strings
<1>1. s \in Strings /\ Len(s) = m /\ \A k \in 1 .. m : s[k] = u[k]
  BY <1>0, UptoIs DEF Strings
<1> HIDE DEF s
<1>2. PICK f : /\ Weight(s) = f[m] /\ f[0] = 0
               /\ \A k \in 0 .. m - 1 : f[k + 1] = f[k] + Weighed(s[k + 1], k + 1)
               /\ \A k \in 0 .. m : f[k] \in Nat
  BY <1>1, WeightByStep
<1>3. PICK g : /\ Weight(u) = g[n] /\ g[0] = 0
               /\ \A k \in 0 .. n - 1 : g[k + 1] = g[k] + Weighed(u[k + 1], k + 1)
               /\ \A k \in 0 .. n : g[k] \in Nat
  BY WeightByStep
<1> DEFINE K == {k \in 0 .. n : g[k] = IF k <= m THEN f[k] ELSE f[m]}
<1>4. 0 \in K
  BY <1>0, <1>2, <1>3
<1>5. \A k \in 0 .. n - 1 : k \in K => k + 1 \in K
  <2> SUFFICES ASSUME NEW k \in 0 .. n - 1, k \in K PROVE k + 1 \in K
    OBVIOUS
  <2>1. /\ k + 1 \in 0 .. n /\ k \in Nat /\ g[k + 1] = g[k] + Weighed(u[k + 1], k + 1)
        /\ g[k] = (IF k <= m THEN f[k] ELSE f[m]) /\ g[k] \in Nat
    BY <1>0, <1>3
  <2>2. CASE k + 1 <= m
    <3>1. k \in 0 .. m - 1 /\ k + 1 \in 1 .. m /\ k <= m
      BY <1>0, <2>1, <2>2
    <3>2. s[k + 1] = u[k + 1]
      BY <1>1, <3>1
    <3>3. g[k + 1] = f[k + 1]
      BY <1>2, <2>1, <3>1, <3>2
    <3> QED
      BY <2>1, <2>2, <3>3
  <2>3. CASE ~(k + 1 <= m)
    <3>1. k + 1 \in m + 1 .. n /\ ~(k < m)
      BY <1>0, <2>1, <2>3
    <3>2. u[k + 1] = 0 /\ Weighed(0, k + 1) = 0
      BY <3>1, SMT DEF Weighed
    <3>3. g[k + 1] = g[k]
      BY <2>1, <3>2
    <3>4. g[k] = f[m]
      <4>1. k <= m => k = m
        BY <1>0, <2>1, <3>1
      <4> QED
        BY <2>1, <4>1
    <3> QED
      BY <2>1, <2>3, <3>3, <3>4
  <2> QED
    BY <2>2, <2>3
<1> HIDE DEF K
<1>6. n \in K
  <2>1. \A k \in 0 .. n : k \in K
    BY <1>0, <1>4, <1>5, Climb
  <2> QED
    BY <1>0, <2>1
<1>7. g[n] = IF n <= m THEN f[n] ELSE f[m]
  BY <1>6 DEF K
<1>8. g[n] = f[m]
  <2>1. n <= m => n = m
    BY <1>0
  <2> QED
    BY <1>7, <2>1
<1> QED
  BY <1>2, <1>3, <1>8 DEF s

LEMMA WeightJoin ==
    ASSUME NEW s \in Strings, NEW t \in Strings, NEW e \in Nat, Len(s) = 2 * e
    PROVE  Weight(s \o t) = Weight(s) + Weight(t)
<1> DEFINE m == Len(s)
           n == Len(t)
           u == s \o t
<1>0. n \in Nat /\ m \in Nat /\ s \in Seq(Octet) /\ t \in Seq(Octet)
  BY DEF Strings
<1>1. /\ u \in Strings /\ Len(u) = m + n /\ \A k \in 1 .. m : u[k] = s[k]
      /\ \A k \in 1 .. n : u[m + k] = t[k]
  <2>1. /\ s \o t \in Seq(Octet) /\ Len(s \o t) = Len(s) + Len(t)
        /\ \A k \in 1 .. Len(s) : (s \o t)[k] = s[k]
        /\ \A k \in 1 .. Len(t) : (s \o t)[Len(s) + k] = t[k]
    BY JoinOctets, Zenon
  <2> QED
    BY <2>1, Zenon DEF Strings
<1> HIDE DEF u
<1>2. PICK f : /\ Weight(s) = f[m] /\ f[0] = 0
               /\ \A k \in 0 .. m - 1 : f[k + 1] = f[k] + Weighed(s[k + 1], k + 1)
               /\ \A k \in 0 .. m : f[k] \in Nat
  BY <1>1, WeightByStep
<1>3. PICK g : /\ Weight(t) = g[n] /\ g[0] = 0
               /\ \A k \in 0 .. n - 1 : g[k + 1] = g[k] + Weighed(t[k + 1], k + 1)
               /\ \A k \in 0 .. n : g[k] \in Nat
  BY WeightByStep
<1>4. PICK h : /\ Weight(u) = h[m + n] /\ h[0] = 0
               /\ \A k \in 0 .. m + n - 1 : h[k + 1] = h[k] + Weighed(u[k + 1], k + 1)
               /\ \A k \in 0 .. m + n : h[k] \in Nat
  <2>1. \E h : /\ Weight(u) = h[Len(u)] /\ h[0] = 0
               /\ \A k \in 0 .. Len(u) - 1 : h[k + 1] = h[k] + Weighed(u[k + 1], k + 1)
               /\ \A k \in 0 .. Len(u) : h[k] \in Nat
    BY <1>1, WeightByStep, Zenon
  <2>2. Len(u) = m + n
    BY <1>1
  <2> QED
    BY <2>1, <2>2
<1> DEFINE K == {k \in 0 .. m : h[k] = f[k]}
           L == {k \in 0 .. n : h[m + k] = f[m] + g[k]}
<1>5. 0 \in K
  BY <1>0, <1>2, <1>4
<1>6. \A k \in 0 .. m - 1 : k \in K => k + 1 \in K
  <2> SUFFICES ASSUME NEW k \in 0 .. m - 1, k \in K PROVE k + 1 \in K
    OBVIOUS
  <2>1. k + 1 \in 0 .. m /\ k + 1 \in 1 .. m /\ k \in 0 .. m + n - 1
    BY <1>0
  <2>2. h[k + 1] = f[k + 1]
    BY <1>1, <1>2, <1>4, <2>1
  <2> QED
    BY <2>1, <2>2
<1> HIDE DEF K
<1>7. m \in K
  <2>1. \A k \in 0 .. m : k \in K
    BY <1>0, <1>5, <1>6, Climb
  <2> QED
    BY <1>0, <2>1
<1>8. h[m] = f[m] /\ f[m] \in Nat
  BY <1>0, <1>2, <1>7 DEF K
<1>9. 0 \in L
  BY <1>0, <1>3, <1>8
<1>10. \A k \in 0 .. n - 1 : k \in L => k + 1 \in L
  <2> SUFFICES ASSUME NEW k \in 0 .. n - 1, k \in L PROVE k + 1 \in L
    OBVIOUS
  <2>1. /\ k + 1 \in 0 .. n /\ k + 1 \in 1 .. n /\ m + k \in 0 .. m + n - 1 /\ k \in Nat
        /\ (m + k) + 1 = m + (k + 1) /\ h[m + k] = f[m] + g[k] /\ g[k] \in Nat
    BY <1>0, <1>3
  <2> DEFINE x == t[k + 1]
  <2>2. h[m + (k + 1)] = h[m + k] + Weighed(u[m + (k + 1)], m + (k + 1))
    BY <1>4, <2>1
  <2>3. u[m + (k + 1)] = x /\ x \in Octet
    BY <1>0, <1>1, <2>1
  <2>4. g[k + 1] = g[k] + Weighed(x, k + 1)
    BY <1>3
  <2> HIDE DEF x
  <2>5. Weighed(x, m + (k + 1)) = Weighed(x, k + 1)
    <3>1. \A j \in Nat : (2 * e + j) % 2 = j % 2
      BY SMTT(30)
    <3>2. (m + (k + 1)) % 2 = (k + 1) % 2
      <4>1. k + 1 \in Nat
        BY <2>1
      <4> QED
        BY <3>1, <4>1
    <3> QED
      BY <3>2, SMT DEF Weighed
  <2>6. Weighed(x, k + 1) \in Nat
    BY <2>1, <2>3, WeighedIs
  <2> QED
    BY <1>8, <2>1, <2>2, <2>3, <2>4, <2>5, <2>6
<1> HIDE DEF L
<1>11. n \in L
  <2>1. \A k \in 0 .. n : k \in L
    BY <1>0, <1>9, <1>10, Climb
  <2> QED
    BY <1>0, <2>1
<1> QED
  BY <1>2, <1>3, <1>4, <1>11 DEF L, u

\* The Internet checksum sees every change of one octet: two strings of the
\* same length that both add up to nothing and differ in at most one octet do
\* not differ (checksum.hh:18-36).
THEOREM OneOctet ==
    ASSUME NEW s \in Strings, NEW t \in Strings, Len(s) = Len(t), NEW i \in 1 .. Len(s),
           \A k \in 1 .. Len(s) : k # i => s[k] = t[k],
           NEW c \in Nat, Vanishes(c + Weight(s)), Vanishes(c + Weight(t))
    PROVE  s = t
<1>0. s \in Seq(Octet) /\ t \in Seq(Octet) /\ i \in Nat /\ Weight(s) \in Nat /\ Weight(t) \in Nat
      /\ s[i] \in Octet /\ t[i] \in Octet
  BY WeightType DEF Strings
<1>1. Weight(t) - Weight(s) = Weighed(t[i], i) - Weighed(s[i], i)
  BY WeightOneOff
<1> DEFINE a == s[i]
           b == t[i]
           x == Weight(s)
           y == Weight(t)
<1>2. a \in Int /\ 0 <= a /\ a <= 255 /\ b \in Int /\ 0 <= b /\ b <= 255
  BY <1>0, OctetIs
<1>3. PICK p \in Nat : c + x = 65535 * p
  BY SMT DEF Vanishes, Modulus
<1>4. PICK q \in Nat : c + y = 65535 * q
  BY SMT DEF Vanishes, Modulus
<1>5. x \in Nat /\ y \in Nat /\ y - x = Weighed(b, i) - Weighed(a, i)
  BY <1>0, <1>1
<1> HIDE DEF a, b, x, y
<1>6. y - x = 65535 * (q - p)
  BY <1>3, <1>4, <1>5, SMT
<1>7. a = b
  <2>1. Weighed(b, i) - Weighed(a, i) \in {b - a, 256 * b - 256 * a}
    BY <1>2, SMT DEF Weighed
  <2>2. y - x \in Int /\ -65280 <= y - x /\ y - x <= 65280 /\ (y - x = 0 => a = b)
    BY <1>2, <1>5, <2>1, SMT
  <2>3. y - x = 0
    <3>1. q - p \in Int
      OBVIOUS
    <3> QED
      BY <1>6, <2>2, <3>1, SMT
  <2> QED
    BY <2>2, <2>3
<1>8. \A k \in 1 .. Len(s) : s[k] = t[k]
  BY <1>7 DEF a, b
<1> QED
  BY <1>0, <1>8, SameString

-----------------------------------------------------------------------------
\* Where the integers of a header are

EthernetOffsets == <<0, 1, 2, 3, 4, 5, 6, 7, 8, 9, 10, 11, 12, 14>>
ARPKindOffsets == <<0, 2, 4, 5, 6, 8>>
ARPAddressOffsets == <<0, 1, 2, 3, 4, 5, 6, 10, 11, 12, 13, 14, 15, 16, 20>>
IPv4Offsets == <<0, 1, 2, 4, 6, 8, 9, 10, 12, 16, 20>>
TCPOffsets == <<0, 2, 4, 8, 12, 13, 14, 16, 18, 20>>

LEMMA EthernetTable ==
    /\ EthernetWidths \in Seq(Width) /\ Len(EthernetWidths) = 13
    /\ Offsets(EthernetOffsets, EthernetWidths) /\ EthernetOffsets[14] = 14
    /\ \A k \in 1 .. 12 : EthernetOffsets[k] = k - 1 /\ EthernetWidths[k] = 1
    /\ EthernetOffsets[13] = 12 /\ EthernetWidths[13] = 2
<1>1. EthernetWidths \in Seq(Width) /\ Len(EthernetWidths) = 13
  BY DEF EthernetWidths, Width
<1>2. EthernetOffsets \in [1 .. 14 -> Nat]
  BY DEF EthernetOffsets
<1>3. \A k \in 1 .. 13 : EthernetOffsets[k + 1] = EthernetOffsets[k] + EthernetWidths[k]
  BY SMTT(30) DEF EthernetOffsets, EthernetWidths
<1>4. EthernetOffsets[1] = 0 /\ EthernetOffsets[14] = 14 /\ EthernetOffsets[13] = 12
      /\ EthernetWidths[13] = 2
  BY DEF EthernetOffsets, EthernetWidths
<1>5. \A k \in 1 .. 12 : EthernetOffsets[k] = k - 1 /\ EthernetWidths[k] = 1
  BY SMTT(30) DEF EthernetOffsets, EthernetWidths
<1> QED
  BY <1>1, <1>2, <1>3, <1>4, <1>5 DEF Offsets

LEMMA ARPKindTable ==
    /\ ARPKindWidths \in Seq(Width) /\ Len(ARPKindWidths) = 5
    /\ Offsets(ARPKindOffsets, ARPKindWidths)
<1>1. ARPKindWidths \in Seq(Width) /\ Len(ARPKindWidths) = 5
  BY DEF ARPKindWidths, Width
<1>2. ARPKindOffsets \in [1 .. 6 -> Nat] /\ ARPKindOffsets[1] = 0
  BY DEF ARPKindOffsets
<1>3. \A k \in 1 .. 5 : ARPKindOffsets[k + 1] = ARPKindOffsets[k] + ARPKindWidths[k]
  BY SMTT(30) DEF ARPKindOffsets, ARPKindWidths
<1> QED
  BY <1>1, <1>2, <1>3 DEF Offsets

LEMMA ARPAddressTable ==
    /\ ARPAddressWidths \in Seq(Width) /\ Len(ARPAddressWidths) = 14
    /\ Offsets(ARPAddressOffsets, ARPAddressWidths)
<1>1. ARPAddressWidths \in Seq(Width) /\ Len(ARPAddressWidths) = 14
  BY DEF ARPAddressWidths, Width
<1>2. ARPAddressOffsets \in [1 .. 15 -> Nat] /\ ARPAddressOffsets[1] = 0
  BY DEF ARPAddressOffsets
<1>3. \A k \in 1 .. 14 : ARPAddressOffsets[k + 1] = ARPAddressOffsets[k] + ARPAddressWidths[k]
  BY SMTT(30) DEF ARPAddressOffsets, ARPAddressWidths
<1> QED
  BY <1>1, <1>2, <1>3 DEF Offsets

LEMMA IPv4Table ==
    /\ IPv4Widths \in Seq(Width) /\ Len(IPv4Widths) = 10
    /\ Offsets(IPv4Offsets, IPv4Widths)
<1>1. IPv4Widths \in Seq(Width) /\ Len(IPv4Widths) = 10
  BY DEF IPv4Widths, Width
<1>2. IPv4Offsets \in [1 .. 11 -> Nat] /\ IPv4Offsets[1] = 0
  BY DEF IPv4Offsets
<1>3. \A k \in 1 .. 10 : IPv4Offsets[k + 1] = IPv4Offsets[k] + IPv4Widths[k]
  BY SMTT(30) DEF IPv4Offsets, IPv4Widths
<1> QED
  BY <1>1, <1>2, <1>3 DEF Offsets

LEMMA TCPTable ==
    /\ TCPWidths \in Seq(Width) /\ Len(TCPWidths) = 9
    /\ Offsets(TCPOffsets, TCPWidths)
<1>1. TCPWidths \in Seq(Width) /\ Len(TCPWidths) = 9
  BY DEF TCPWidths, Width
<1>2. TCPOffsets \in [1 .. 10 -> Nat] /\ TCPOffsets[1] = 0
  BY DEF TCPOffsets
<1>3. \A k \in 1 .. 9 : TCPOffsets[k + 1] = TCPOffsets[k] + TCPWidths[k]
  BY SMTT(30) DEF TCPOffsets, TCPWidths
<1> QED
  BY <1>1, <1>2, <1>3 DEF Offsets

-----------------------------------------------------------------------------
\* Ethernet

LEMMA SequenceOf ==
    ASSUME NEW S, NEW T, NEW u \in Seq(S), \A k \in 1 .. Len(u) : u[k] \in T
    PROVE  u \in Seq(T)
<1>1. Len(u) \in Nat /\ u \in [1 .. Len(u) -> S]
  OBVIOUS
<1>2. u \in [1 .. Len(u) -> T]
  BY <1>1
<1> QED
  BY <1>1, <1>2

LEMMA Elements ==
    ASSUME NEW S, NEW u \in Seq(S)
    PROVE  \A k \in 1 .. Len(u) : u[k] \in S
  OBVIOUS

LEMMA JoinAt ==
    ASSUME NEW S, NEW s \in Seq(S), NEW t \in Seq(S)
    PROVE  /\ s \o t \in Seq(S) /\ Len(s \o t) = Len(s) + Len(t)
           /\ \A k \in 1 .. Len(s) + Len(t) :
                /\ (s \o t)[k] \in S
                /\ (s \o t)[k] = IF k <= Len(s) THEN s[k] ELSE t[k - Len(s)]
<1>1. Len(s) \in Nat /\ Len(t) \in Nat /\ s \o t \in Seq(S) /\ Len(s \o t) = Len(s) + Len(t)
  OBVIOUS
<1>2. \A k \in 1 .. Len(s) + Len(t) : (s \o t)[k] = IF k <= Len(s) THEN s[k] ELSE t[k - Len(s)]
  BY <1>1
<1>3. \A k \in 1 .. Len(s) + Len(t) : (s \o t)[k] \in S
  BY <1>1
<1> QED
  BY <1>1, <1>2, <1>3

LEMMA JoinOne ==
    ASSUME NEW S, NEW s \in Seq(S), NEW x \in S
    PROVE  /\ s \o <<x>> \in Seq(S) /\ Len(s \o <<x>>) = Len(s) + 1
           /\ \A k \in 1 .. Len(s) : (s \o <<x>>)[k] = s[k]
           /\ (s \o <<x>>)[Len(s) + 1] = x
<1>1. Len(s) \in Nat /\ <<x>> \in Seq(S) /\ Len(<<x>>) = 1 /\ <<x>>[1] = x
  OBVIOUS
<1>2. /\ s \o <<x>> \in Seq(S) /\ Len(s \o <<x>>) = Len(s) + 1
      /\ \A k \in 1 .. Len(s) : (s \o <<x>>)[k] = s[k]
  BY <1>1
<1>3. (s \o <<x>>)[Len(s) + 1] = x
  BY <1>1
<1> QED
  BY <1>2, <1>3

LEMMA SixOctets == ASSUME NEW a \in EthernetAddress PROVE a \in Seq(Octet) /\ Len(a) = 6
<1> DEFINE n == 6
<1>1. n \in Nat /\ a \in [1 .. n -> Octet]
  BY DEF EthernetAddress
<1> HIDE DEF n
<1>2. a \in Seq(Octet) /\ Len(a) = n
  BY <1>1
<1> QED
  BY <1>2 DEF n

LEMMA NewParserIs ==
    ASSUME NEW b \in Buffers
    PROVE  /\ Parser(NewParser(b)) /\ ~NewParser(b).error
           /\ FlattenSeq(b) \in Strings /\ Rest(NewParser(b)) = FlattenSeq(b)
<1> DEFINE p == NewParser(b)
<1>1. p.buffers = b /\ p.skip = 0 /\ p.error = FALSE
      /\ p \in [buffers : Seq(Strings), skip : Nat, error : BOOLEAN]
  BY DEF NewParser, Buffers
<1>2. Packed(b)
  BY DEF Buffers
<1>3. Parser(p)
  BY <1>1, <1>2 DEF Parser
<1>4. FlattenSeq(b) \in Seq(Octet)
  BY FlatType DEF Buffers, Strings
<1>5. Rest(p) = Beyond(FlattenSeq(b), 0)
  BY <1>1 DEF Rest
<1>6. Rest(p) = FlattenSeq(b)
  BY <1>4, <1>5, BeyondNone
<1> QED
  BY <1>1, <1>3, <1>4, <1>6 DEF Strings

LEMMA FrameShort ==
    ASSUME NEW b \in Buffers, Len(FlattenSeq(b)) < 14
    PROVE  ParseFrame(b) = Invalid
<1>1. Parser(NewParser(b)) /\ Rest(NewParser(b)) = FlattenSeq(b) /\ Len(FlattenSeq(b)) \in Nat
  BY NewParserIs DEF Strings
<1>2. Integers_(NewParser(b), EthernetWidths).parser.error
  <2>1. EthernetOffsets[Len(EthernetWidths) + 1] > Len(Rest(NewParser(b)))
    BY <1>1, EthernetTable
  <2> QED
    BY <1>1, <2>1, EthernetTable, IntegersMissing
<1> QED
  BY <1>2 DEF ParseFrame

\* What is read of a frame (ethernet_header.cc: parse).
LEMMA FrameRead ==
    ASSUME NEW b \in Buffers, Len(FlattenSeq(b)) >= 14
    PROVE  \E src, p :
             /\ ParseFrame(b) = Valid([dst |-> Upto(FlattenSeq(b), 6), src |-> src,
                                       type |-> At(FlattenSeq(b), 12, 2), payload |-> p])
             /\ p \in Buffers /\ FlattenSeq(p) = Beyond(FlattenSeq(b), 14)
<1> DEFINE s == FlattenSeq(b)
           np == NewParser(b)
<1>1. Parser(np) /\ ~np.error /\ Rest(np) = s /\ s \in Strings
  BY NewParserIs
<1> HIDE DEF np
<1> DEFINE n == Len(EthernetWidths)
           l == EthernetOffsets[n + 1]
<1>a. n = 13 /\ l = 14
  BY EthernetTable
<1>b. PICK q, v : /\ Integers_(np, EthernetWidths) = [parser |-> q, values |-> v]
                  /\ Parser(q) /\ ~q.error /\ Rest(q) = Beyond(Rest(np), l)
                  /\ v \in Seq(Value) /\ Len(v) = n
                  /\ \A k \in 1 .. n : v[k] = At(Rest(np), EthernetOffsets[k], EthernetWidths[k])
  <2>1. EthernetWidths \in Seq(Width) /\ Offsets(EthernetOffsets, EthernetWidths)
    BY EthernetTable
  <2>2. EthernetOffsets[Len(EthernetWidths) + 1] <= Len(Rest(np))
    BY <1>1, <1>a
  <2>3. \E q, v : /\ Integers_(np, EthernetWidths) = [parser |-> q, values |-> v]
                  /\ Parser(q) /\ ~q.error
                  /\ Rest(q) = Beyond(Rest(np), EthernetOffsets[Len(EthernetWidths) + 1])
                  /\ v \in Seq(Value) /\ Len(v) = Len(EthernetWidths)
                  /\ \A k \in 1 .. Len(EthernetWidths) :
                       v[k] = At(Rest(np), EthernetOffsets[k], EthernetWidths[k])
    BY <1>1, <2>1, <2>2, IntegersAre, Zenon
  <2> QED
    BY <2>3
<1> HIDE DEF n, l
<1>2. /\ Integers_(np, EthernetWidths) = [parser |-> q, values |-> v]
      /\ Parser(q) /\ ~q.error /\ Rest(q) = Beyond(s, 14)
      /\ v \in Seq(Value) /\ Len(v) = 13
      /\ \A k \in 1 .. 13 : v[k] = At(s, EthernetOffsets[k], EthernetWidths[k])
  BY <1>1, <1>a, <1>b
<1> HIDE DEF s
<1>3. SubSeq(v, 1, 6) = Upto(s, 6)
  <2>0. s \in Seq(Octet) /\ 6 \in 0 .. Len(s) /\ v \in Seq(Value) /\ 6 \in 0 .. Len(v)
    BY <1>1, <1>2 DEF Strings, s
  <2>1. Upto(v, 6) \in Seq(Value) /\ Len(Upto(v, 6)) = 6 /\ \A k \in 1 .. 6 : Upto(v, 6)[k] = v[k]
    BY <2>0, UptoIs
  <2>2. Upto(s, 6) \in Seq(Octet) /\ Len(Upto(s, 6)) = 6 /\ \A k \in 1 .. 6 : Upto(s, 6)[k] = s[k]
    BY <2>0, UptoIs
  <2>3. \A k \in 1 .. 6 : v[k] = s[k]
    <3> SUFFICES ASSUME NEW k \in 1 .. 6 PROVE v[k] = s[k]
      OBVIOUS
    <3>1. v[k] = At(s, k - 1, 1)
      BY <1>2, EthernetTable, SMTT(60)
    <3>2. At(s, k - 1, 1) = s[(k - 1) + 1] /\ (k - 1) + 1 = k
      BY DEF At
    <3> QED
      BY <3>1, <3>2
  <2>4. Upto(v, 6) \in Seq(Octet)
    <3>1. \A k \in 1 .. 6 : Upto(v, 6)[k] \in Octet
      BY <2>1, <2>2, <2>3, <2>0
    <3> QED
      <4> DEFINE u == Upto(v, 6)
      <4>1. u \in Seq(Value) /\ Len(u) = 6 /\ \A k \in 1 .. Len(u) : u[k] \in Octet
        BY <2>1, <3>1
      <4> HIDE DEF u
      <4>2. u \in Seq(Octet)
        BY <4>1, SequenceOf
      <4> QED
        BY <4>2 DEF u
  <2>5. Upto(v, 6) = Upto(s, 6)
    <3> DEFINE x == Upto(v, 6)
               y == Upto(s, 6)
    <3>1. x \in Seq(Octet) /\ y \in Seq(Octet) /\ Len(x) = 6 /\ Len(y) = 6
          /\ \A k \in 1 .. 6 : x[k] = v[k] /\ y[k] = s[k] /\ v[k] = s[k]
      BY <2>1, <2>2, <2>3, <2>4, Zenon
    <3> HIDE DEF x, y
    <3>2. Len(x) = Len(y) /\ \A k \in 1 .. Len(x) : x[k] = y[k]
      BY <3>1
    <3>3. x = y
      BY <3>1, <3>2, SameString, Zenon
    <3> QED
      BY <3>3 DEF x, y
  <2> QED
    BY <2>5 DEF Upto
<1>4. v[13] = At(s, 12, 2)
  BY <1>2, EthernetTable
<1>5. Remaining(q) \in Buffers /\ FlattenSeq(Remaining(q)) = Beyond(s, 14)
  BY <1>2, RemainingIs
<1> DEFINE src == SubSeq(v, 7, 12)
           p == Remaining(q)
<1>6. ParseFrame(b) = Valid([dst |-> Upto(s, 6), src |-> src, type |-> At(s, 12, 2), payload |-> p])
  <2>1. ParseFrame(b) = Valid([dst |-> SubSeq(v, 1, 6), src |-> src, type |-> v[13], payload |-> p])
    <3> DEFINE r == Integers_(np, EthernetWidths)
    <3>1. r.parser = q /\ r.values = v /\ ~r.parser.error
      BY <1>2
    <3> HIDE DEF r
    <3>2. ParseFrame(b) = IF r.parser.error THEN Invalid
                          ELSE Valid([dst |-> SubSeq(r.values, 1, 6), src |-> SubSeq(r.values, 7, 12),
                                      type |-> r.values[13], payload |-> Remaining(r.parser)])
      BY Zenon DEF ParseFrame, r, np
    <3> QED
      BY <3>1, <3>2, Zenon
  <2> QED
    BY <1>3, <1>4, <2>1, Zenon
<1> HIDE DEF src, p
<1>7. p \in Buffers /\ FlattenSeq(p) = Beyond(s, 14)
  BY <1>5 DEF p
<1> QED
  BY <1>6, <1>7, Zenon DEF s

EthernetHeader(dst, src, type) == Serialized(dst \o src \o <<type>>, EthernetWidths)

\* What is written of a frame (ethernet_header.cc: serialize).
LEMMA FrameWritten ==
    ASSUME NEW dst \in EthernetAddress, NEW src \in EthernetAddress, NEW type \in Word,
           NEW payload \in Seq(Strings)
    PROVE  /\ Frame(dst, src, type, payload) = EthernetHeader(dst, src, type) \o FlattenSeq(payload)
           /\ EthernetHeader(dst, src, type) \in Strings
           /\ Len(EthernetHeader(dst, src, type)) = 14
           /\ Upto(EthernetHeader(dst, src, type), 6) = dst
           /\ At(EthernetHeader(dst, src, type), 12, 2) = type
<1> DEFINE v == dst \o src \o <<type>>
           e == Serialized(v, EthernetWidths)
<1>1. dst \in Seq(Octet) /\ Len(dst) = 6 /\ src \in Seq(Octet) /\ Len(src) = 6
  BY SixOctets
<1>2. /\ \A k \in 1 .. 6 : v[k] = dst[k]
      /\ \A k \in 1 .. 12 : v[k] \in Octet
      /\ v[13] = type
  <2> DEFINE a == dst \o src
  <2>1. /\ a \in Seq(Octet) /\ Len(a) = Len(dst) + Len(src)
        /\ \A k \in 1 .. Len(dst) : a[k] = dst[k]
    <3>1. dst \in Seq(Octet) /\ src \in Seq(Octet)
      BY <1>1, Zenon
    <3> QED
      BY <3>1, JoinIs, Zenon
  <2>2. a \in Seq(Octet) /\ Len(a) = 12 /\ \A k \in 1 .. 6 : a[k] = dst[k]
    BY <1>1, <2>1
  <2> HIDE DEF a
  <2>3. \A k \in 1 .. 12 : a[k] \in Octet
    <3>1. \A k \in 1 .. Len(a) : a[k] \in Octet
      BY <2>2, Elements
    <3> QED
      BY <2>2, <3>1
  <2>4. a \in Seq(Word)
    <3>1. \A k \in 1 .. Len(a) : a[k] \in Word
      BY <2>2, <2>3, OctetIsWord
    <3> QED
      BY <2>2, <3>1, SequenceOf
  <2> DEFINE u == a \o <<type>>
  <2>5. (\A k \in 1 .. Len(a) : u[k] = a[k]) /\ u[Len(a) + 1] = type
    BY <2>4, JoinOne
  <2> HIDE DEF u
  <2>6. u[13] = type /\ \A k \in 1 .. 12 : u[k] = a[k]
    BY <2>2, <2>5
  <2>7. v = u
    BY DEF u, a
  <2> HIDE DEF v
  <2> QED
    BY <2>2, <2>3, <2>6, <2>7
<1> HIDE DEF v
<1>3. \A k \in 1 .. Len(EthernetWidths) : Fits(v[k], EthernetWidths[k])
  <2> SUFFICES ASSUME NEW k \in 1 .. 13 PROVE Fits(v[k], EthernetWidths[k])
    BY EthernetTable, Zenon
  <2>1. CASE k = 13
    BY <1>2, <2>1, EthernetTable DEF Fits
  <2>2. CASE k # 13
    <3>1. k \in 1 .. 12
      BY <2>2
    <3> QED
      BY <1>2, <3>1, EthernetTable, SMTT(60) DEF Fits
  <2> QED
    BY <2>1, <2>2
<1>4. /\ e \in Strings /\ Len(e) = 14
      /\ \A k \in 1 .. 13 : At(e, EthernetOffsets[k], EthernetWidths[k]) = v[k]
  <2>1. EthernetWidths # <<>>
    BY DEF EthernetWidths
  <2>2. EthernetWidths \in Seq(Width) /\ Offsets(EthernetOffsets, EthernetWidths)
    BY EthernetTable
  <2> HIDE DEF e
  <2>3. /\ Serialized(v, EthernetWidths) \in Strings
        /\ Len(Serialized(v, EthernetWidths)) = EthernetOffsets[Len(EthernetWidths) + 1]
        /\ \A k \in 1 .. Len(EthernetWidths) :
             At(Serialized(v, EthernetWidths), EthernetOffsets[k], EthernetWidths[k]) = v[k]
    BY <1>3, <2>1, <2>2, SerializedIs
  <2>4. e = Serialized(v, EthernetWidths)
    BY DEF e
  <2> DEFINE n == Len(EthernetWidths)
             l == EthernetOffsets[n + 1]
  <2>5. /\ e \in Strings /\ Len(e) = l
        /\ \A k \in 1 .. n : At(e, EthernetOffsets[k], EthernetWidths[k]) = v[k]
    BY <2>3, <2>4, Zenon
  <2>6. n = 13 /\ l = 14
    BY EthernetTable
  <2> HIDE DEF n, l
  <2> QED
    BY <2>5, <2>6
<1> HIDE DEF e
<1>5. At(e, 12, 2) = type
  BY <1>2, <1>4, EthernetTable
<1>6. Upto(e, 6) = dst
  <2>1. e \in Seq(Octet) /\ 6 \in 0 .. Len(e)
    BY <1>4 DEF Strings
  <2>2. Upto(e, 6) \in Seq(Octet) /\ Len(Upto(e, 6)) = 6 /\ \A k \in 1 .. 6 : Upto(e, 6)[k] = e[k]
    BY <2>1, UptoIs
  <2>3. \A k \in 1 .. 6 : e[k] = dst[k]
    <3> SUFFICES ASSUME NEW k \in 1 .. 6 PROVE e[k] = dst[k]
      OBVIOUS
    <3>1. At(e, k - 1, 1) = v[k]
      BY <1>4, EthernetTable, SMTT(60)
    <3>2. At(e, k - 1, 1) = e[(k - 1) + 1] /\ (k - 1) + 1 = k
      BY DEF At
    <3> QED
      BY <1>2, <3>1, <3>2
  <2>4. Len(Upto(e, 6)) = Len(dst) /\ \A k \in 1 .. Len(Upto(e, 6)) : Upto(e, 6)[k] = dst[k]
    BY <1>1, <2>2, <2>3
  <2> QED
    BY <1>1, <2>2, <2>4, SameString
<1>7. e = EthernetHeader(dst, src, type)
  BY DEF e, v, EthernetHeader
<1>8. Frame(dst, src, type, payload) = e \o FlattenSeq(payload)
  <2>1. Frame(dst, src, type, payload) = FlattenSeq(Output(e, payload))
    BY Zenon DEF Frame, SerializeFrame, e, v
  <2>2. e \in Seq(Octet) /\ payload \in Seq(Seq(Octet))
    BY <1>4 DEF Strings
  <2>3. FlattenSeq(Output(e, payload)) = e \o FlattenSeq(payload)
    BY <2>2, FlatOutput
  <2> QED
    BY <2>1, <2>3
<1> QED
  BY <1>4, <1>5, <1>6, <1>7, <1>8

-----------------------------------------------------------------------------
\* One integer of a header

LEMMA ListOf ==
    ASSUME NEW S, NEW n \in Nat, NEW a \in [1 .. n -> S]
    PROVE  a \in Seq(S) /\ Len(a) = n
  OBVIOUS

LEMMA OffsetsOrdered ==
    ASSUME NEW widths \in Seq(Width), NEW off, Offsets(off, widths),
           NEW j \in 1 .. Len(widths) + 1, NEW k \in j .. Len(widths) + 1
    PROVE  off[j] \in Nat /\ off[k] \in Nat /\ off[j] <= off[k]
<1> DEFINE n == Len(widths) + 1
           K == {i \in 0 .. n - j : off[j] <= off[j + i]}
<1>1. n \in Nat /\ j \in 1 .. n /\ k \in j .. n /\ n - j \in Nat
  OBVIOUS
<1>2. \A i \in 1 .. n : off[i] \in Nat
  BY DEF Offsets
<1>3. 0 \in K
  BY <1>1, <1>2
<1>4. \A i \in 0 .. (n - j) - 1 : i \in K => i + 1 \in K
  <2> SUFFICES ASSUME NEW i \in 0 .. (n - j) - 1, i \in K PROVE i + 1 \in K
    OBVIOUS
  <2>1. j + i \in 1 .. Len(widths) /\ (j + i) + 1 = j + (i + 1) /\ j + i \in 1 .. n
        /\ j + (i + 1) \in 1 .. n /\ i + 1 \in 0 .. n - j
    BY <1>1
  <2>2. off[(j + i) + 1] = off[j + i] + widths[j + i]
    BY <2>1 DEF Offsets
  <2>3. widths[j + i] \in Nat
    BY <2>1 DEF Width
  <2>4. off[j] <= off[j + i]
    OBVIOUS
  <2> HIDE DEF K
  <2>5. off[j] <= off[j + (i + 1)]
    BY <1>1, <1>2, <2>1, <2>2, <2>3, <2>4
  <2> QED
    BY <2>1, <2>5 DEF K
<1> HIDE DEF K
<1>5. \A i \in 0 .. n - j : i \in K
  BY <1>1, <1>3, <1>4, Climb
<1>6. k - j \in 0 .. n - j /\ j + (k - j) = k
  BY <1>1
<1>7. off[j] <= off[k]
  BY <1>5, <1>6 DEF K
<1> QED
  BY <1>1, <1>2, <1>7

\* Strings that differ in one integer of a header.
LEMMA SameBut ==
    ASSUME NEW widths \in Seq(Width), NEW off, Offsets(off, widths),
           NEW s \in Strings, NEW t \in Strings,
           Len(s) = off[Len(widths) + 1], Len(t) = off[Len(widths) + 1],
           NEW i \in 1 .. Len(widths),
           \A k \in 1 .. Len(widths) : k # i => At(s, off[k], widths[k]) = At(t, off[k], widths[k])
    PROVE  \A j \in 1 .. Len(s) : j <= off[i] \/ j > off[i] + widths[i] => s[j] = t[j]
<1> DEFINE n == Len(widths)
           l == Len(s)
           u == [j \in 1 .. l |-> IF off[i] < j /\ j <= off[i] + widths[i] THEN t[j] ELSE s[j]]
<1>0. /\ n \in Nat /\ l \in Nat /\ i \in 1 .. n /\ off[i] \in Nat /\ widths[i] \in Nat
      /\ s \in Seq(Octet) /\ t \in Seq(Octet) /\ Len(t) = l
      /\ \A k \in 1 .. n : /\ off[k] \in Nat /\ widths[k] \in Width /\ widths[k] \in Nat
                           /\ off[k] + widths[k] <= l
  <2>1. n \in Nat /\ l \in Nat /\ s \in Seq(Octet) /\ t \in Seq(Octet) /\ i \in 1 .. n
    BY DEF Strings
  <2>2. \A k \in 1 .. n : off[k] \in Nat /\ widths[k] \in Width /\ off[k] + widths[k] <= l
    BY <2>1, OffsetsGrow
  <2>3. \A k \in 1 .. n : widths[k] \in Nat
    BY <2>2 DEF Width
  <2> QED
    BY <2>1, <2>2, <2>3
<1>1. u \in Strings /\ Len(u) = l
  <2>1. \A j \in 1 .. l : s[j] \in Octet /\ t[j] \in Octet
    BY <1>0, Elements
  <2>2. u \in [1 .. l -> Octet]
    BY <2>1
  <2> HIDE DEF u
  <2> QED
    BY <1>0, <2>2, ListOf DEF Strings
<1>2. \A k \in 1 .. n : At(u, off[k], widths[k]) = At(t, off[k], widths[k])
  <2> SUFFICES ASSUME NEW k \in 1 .. n PROVE At(u, off[k], widths[k]) = At(t, off[k], widths[k])
    OBVIOUS
  <2> DEFINE w == widths[k]
             o == off[k]
  <2>1. o \in Int /\ o \in Nat /\ w \in Width /\ w \in Nat /\ o + w <= l
    BY <1>0
  <2>2. CASE k = i
    <3>1. \A m \in 1 .. w : u[o + m] = t[o + m]
      <4> SUFFICES ASSUME NEW m \in 1 .. w PROVE u[o + m] = t[o + m]
        OBVIOUS
      <4>1. o + m \in 1 .. l /\ off[i] < o + m /\ o + m <= off[i] + widths[i]
        BY <2>1, <2>2
      <4> QED
        BY <4>1
    <3> HIDE DEF u, o, w
    <3>2. At(u, o, w) = At(t, o, w)
      BY <2>1, <3>1, AtSame, ZenonT(60)
    <3> QED
      BY <3>2 DEF o, w
  <2>3. CASE k # i
    <3>1. o + w <= off[i] \/ off[i] + widths[i] <= o
      <4>1. CASE k < i
        <5>1. k + 1 \in 1 .. n + 1 /\ i \in (k + 1) .. n + 1
          BY <1>0, <4>1
        <5>2. off[k + 1] <= off[i]
          BY <5>1, OffsetsOrdered
        <5>3. off[k + 1] = o + w
          BY DEF Offsets
        <5> QED
          BY <5>2, <5>3
      <4>2. CASE k > i
        <5>1. i + 1 \in 1 .. n + 1 /\ k \in (i + 1) .. n + 1
          BY <1>0, <4>2
        <5>2. off[i + 1] <= off[k]
          BY <5>1, OffsetsOrdered
        <5>3. off[i + 1] = off[i] + widths[i]
          BY DEF Offsets
        <5> QED
          BY <5>2, <5>3
      <4> QED
        BY <1>0, <2>3, <4>1, <4>2
    <3>2. \A m \in 1 .. w : u[o + m] = s[o + m]
      <4> SUFFICES ASSUME NEW m \in 1 .. w PROVE u[o + m] = s[o + m]
        OBVIOUS
      <4>1. o + m \in 1 .. l /\ ~(off[i] < o + m /\ o + m <= off[i] + widths[i])
        <5>0. m \in Nat /\ 1 <= m /\ m <= w /\ o + m \in 1 .. l
          BY <2>1
        <5>1. off[i] \in Nat /\ widths[i] \in Nat
          BY <1>0
        <5> HIDE DEF o, w
        <5> QED
          BY <2>1, <3>1, <5>0, <5>1
      <4> QED
        BY <4>1
    <3> HIDE DEF u, o, w
    <3>3. At(u, o, w) = At(s, o, w)
      BY <2>1, <3>2, AtSame, ZenonT(60)
    <3>4. At(s, o, w) = At(t, o, w)
      BY <2>3 DEF o, w
    <3> QED
      BY <3>3, <3>4 DEF o, w
  <2> QED
    BY <2>2, <2>3
<1>3. u = t
  <2>1. Len(u) = off[Len(widths) + 1]
    BY <1>1
  <2> HIDE DEF u
  <2> QED
    BY <1>1, <1>2, <2>1, SameIntegers
<1>4. ASSUME NEW j \in 1 .. l, j <= off[i] \/ j > off[i] + widths[i]
      PROVE  s[j] = t[j]
  <2>1. ~(off[i] < j /\ j <= off[i] + widths[i])
    BY <1>0, <1>4
  <2>2. u[j] = s[j]
    BY <2>1
  <2> QED
    BY <1>3, <2>2
<1> QED
  BY <1>4

\* Strings that differ in a word at an even place.
LEMMA WordWeight ==
    ASSUME NEW s \in Strings, NEW t \in Strings, Len(s) = Len(t),
           NEW e \in Nat, NEW o, o = 2 * e, o + 2 <= Len(s),
           \A j \in 1 .. Len(s) : j <= o \/ j > o + 2 => s[j] = t[j]
    PROVE  Weight(t) - At(t, o, 2) = Weight(s) - At(s, o, 2)
<1> DEFINE i == o + 1
           k == o + 2
           u == [s EXCEPT ![i] = t[i]]
           l == Len(s)
<1>0. /\ s \in Seq(Octet) /\ t \in Seq(Octet) /\ l \in Nat /\ i \in 1 .. l /\ k \in 1 .. l
      /\ i # k /\ i \in Nat /\ k \in Nat
  BY DEF Strings
<1>1. s[i] \in Octet /\ t[i] \in Octet /\ s[k] \in Octet /\ t[k] \in Octet
  BY <1>0, Elements
<1>2. u \in Seq(Octet) /\ Len(u) = l /\ u[i] = t[i] /\ \A j \in 1 .. l : j # i => u[j] = s[j]
  BY <1>0, <1>1
<1> HIDE DEF u
<1>3. Weight(u) - Weight(s) = Weighed(t[i], i) - Weighed(s[i], i)
  <2>1. \A j \in 1 .. Len(s) : j # i => s[j] = u[j]
    BY <1>2
  <2>2. u \in Strings /\ Len(s) = Len(u) /\ i \in 1 .. Len(s)
    BY <1>0, <1>2 DEF Strings
  <2> HIDE DEF i
  <2>3. Weight(u) - Weight(s) = Weighed(u[i], i) - Weighed(s[i], i)
    BY <2>1, <2>2, WeightOneOff
  <2> QED
    BY <1>2, <2>3
<1>4. Weight(t) - Weight(u) = Weighed(t[k], k) - Weighed(s[k], k)
  <2>1. \A j \in 1 .. Len(u) : j # k => u[j] = t[j]
    <3> SUFFICES ASSUME NEW j \in 1 .. l, j # k PROVE u[j] = t[j]
      BY <1>2
    <3>1. CASE j = i
      BY <1>2, <3>1
    <3>2. CASE j # i
      <4>1. j <= o \/ j > o + 2
        BY <1>0, <3>2
      <4> QED
        BY <1>2, <3>2, <4>1
    <3> QED
      BY <3>1, <3>2
  <2>2. u \in Strings /\ Len(u) = Len(t) /\ k \in 1 .. Len(u)
    BY <1>0, <1>2 DEF Strings
  <2>3. u[k] = s[k]
    BY <1>0, <1>2
  <2> HIDE DEF k
  <2>4. Weight(t) - Weight(u) = Weighed(t[k], k) - Weighed(u[k], k)
    BY <2>1, <2>2, WeightOneOff
  <2> QED
    BY <2>3, <2>4
<1>5. \A a \in Octet : Weighed(a, i) = 256 * a /\ Weighed(a, k) = a
  <2>1. i % 2 = 1 /\ k % 2 = 0
    BY SMTT(30)
  <2> HIDE DEF i, k
  <2> QED
    BY <2>1, SMT DEF Weighed
<1>6. Weight(s) \in Nat /\ Weight(t) \in Nat /\ Weight(u) \in Nat
  BY <1>2, WeightType DEF Strings
<1> DEFINE a == s[i]
           b == s[k]
           c == t[i]
           d == t[k]
<1>7. At(s, o, 2) = a * 256 + b /\ At(t, o, 2) = c * 256 + d
  BY DEF At
<1>8. a \in Int /\ b \in Int /\ c \in Int /\ d \in Int
  BY <1>1, OctetIs
<1>9. Weight(u) - Weight(s) = 256 * c - 256 * a /\ Weight(t) - Weight(u) = d - b
  BY <1>1, <1>3, <1>4, <1>5
<1> HIDE DEF a, b, c, d
<1> QED
  BY <1>6, <1>7, <1>8, <1>9, SMTT(60)

-----------------------------------------------------------------------------
\* IPv4: halves of an octet, and the flags

Nibble == 0 .. 15

LEMMA NibbleIs == ASSUME NEW a PROVE a \in Nibble <=> a \in Int /\ 0 <= a /\ a <= 15
  BY SMT DEF Nibble

LEMMA Nibbles ==
    ASSUME NEW a \in Nibble, NEW b \in Nibble
    PROVE  a * 16 + b \in Octet /\ (a * 16 + b) \div 16 = a /\ (a * 16 + b) % 16 = b
<1>1. a \in Int /\ 0 <= a /\ a <= 15 /\ b \in Int /\ 0 <= b /\ b <= 15
  BY NibbleIs
<1>2. a * 16 + b \in Int /\ 0 <= a * 16 + b /\ a * 16 + b <= 255
  BY <1>1, SMT
<1>3. (a * 16 + b) \div 16 = a /\ (a * 16 + b) % 16 = b
  BY <1>1, SMTT(30)
<1> QED
  BY <1>2, <1>3, OctetIs

LEMMA OctetNibbles ==
    ASSUME NEW n \in Octet
    PROVE  n \div 16 \in Nibble /\ n % 16 \in Nibble /\ (n \div 16) * 16 + (n % 16) = n
<1>1. n \in Int /\ 0 <= n /\ n <= 255
  BY OctetIs
<1> DEFINE a == n \div 16
           b == n % 16
<1>2. a \in Int /\ b \in Int /\ 0 <= b /\ b <= 15 /\ n = 16 * a + b
  BY <1>1, SMTT(30)
<1> HIDE DEF a, b
<1>3. 0 <= a /\ a <= 15 /\ a * 16 + b = n
  BY <1>1, <1>2, SMTT(30)
<1> QED
  BY <1>2, <1>3, NibbleIs DEF a, b

Offset == 0 .. 8191

LEMMA OffsetIs == ASSUME NEW a PROVE a \in Offset <=> a \in Int /\ 0 <= a /\ a <= 8191
<1> DEFINE m == 8191
<1>1. m \in Int
  OBVIOUS
<1> HIDE DEF m
<1>2. a \in 0 .. m <=> a \in Int /\ 0 <= a /\ a <= m
  BY <1>1, UpTo
<1> QED
  BY <1>2, SMT DEF m, Offset

LEMMA FlagIs ==
    ASSUME NEW bit, NEW n
    PROVE  Flag(bit, n) \in BOOLEAN /\ (Flag(bit, n) <=> (n \div bit) % 2 = 1)
  BY Zenon DEF Flag

LEMMA SameTruth ==
    ASSUME NEW x \in BOOLEAN, NEW y \in BOOLEAN, x <=> y
    PROVE  x = y
  OBVIOUS

FlagsWord(df, mf, offset) == Raise(16384, df) + Raise(8192, mf) + offset

LEMMA FlagsWritten ==
    ASSUME NEW df \in BOOLEAN, NEW mf \in BOOLEAN, NEW o \in Offset
    PROVE  /\ FlagsWord(df, mf, o) \in Word
           /\ Flag(16384, FlagsWord(df, mf, o)) = df /\ Flag(8192, FlagsWord(df, mf, o)) = mf
           /\ FlagsWord(df, mf, o) % 8192 = o
<1> DEFINE f == FlagsWord(df, mf, o)
<1>1. o \in Int /\ 0 <= o /\ o <= 8191
  BY OffsetIs
<1>2. \A a \in {0, 1} : \A b \in {0, 1} :
        /\ ((16384 * a + 8192 * b + o) \div 16384) % 2 = a
        /\ ((16384 * a + 8192 * b + o) \div 8192) % 2 = b
        /\ (16384 * a + 8192 * b + o) % 8192 = o
        /\ 0 <= 16384 * a + 8192 * b + o /\ 16384 * a + 8192 * b + o <= 65535
  <2>1. /\ ((16384 * 0 + 8192 * 0 + o) \div 16384) % 2 = 0
        /\ ((16384 * 0 + 8192 * 0 + o) \div 8192) % 2 = 0
        /\ (16384 * 0 + 8192 * 0 + o) % 8192 = o
    BY <1>1, SMTT(30)
  <2>2. /\ ((16384 * 1 + 8192 * 0 + o) \div 16384) % 2 = 1
        /\ ((16384 * 1 + 8192 * 0 + o) \div 8192) % 2 = 0
        /\ (16384 * 1 + 8192 * 0 + o) % 8192 = o
    BY <1>1, SMTT(30)
  <2>3. /\ ((16384 * 0 + 8192 * 1 + o) \div 16384) % 2 = 0
        /\ ((16384 * 0 + 8192 * 1 + o) \div 8192) % 2 = 1
        /\ (16384 * 0 + 8192 * 1 + o) % 8192 = o
    BY <1>1, SMTT(30)
  <2>4. /\ ((16384 * 1 + 8192 * 1 + o) \div 16384) % 2 = 1
        /\ ((16384 * 1 + 8192 * 1 + o) \div 8192) % 2 = 1
        /\ (16384 * 1 + 8192 * 1 + o) % 8192 = o
    BY <1>1, SMTT(30)
  <2> QED
    BY <1>1, <2>1, <2>2, <2>3, <2>4, SMTT(30)
<1> DEFINE a == IF df THEN 1 ELSE 0
           b == IF mf THEN 1 ELSE 0
<1>3. a \in {0, 1} /\ b \in {0, 1}
  OBVIOUS
<1>4. Raise(16384, df) = 16384 * a /\ Raise(8192, mf) = 8192 * b
  BY SMT DEF Raise
<1>5. f = 16384 * a + 8192 * b + o
  BY <1>4 DEF FlagsWord
<1> HIDE DEF f
<1>6. f \in Int /\ 0 <= f /\ f <= 65535 /\ f % 8192 = o /\ (f \div 16384) % 2 = a /\ (f \div 8192) % 2 = b
  <2> HIDE DEF a, b
  <2> QED
    BY <1>1, <1>2, <1>3, <1>5, SMT
<1>7. /\ Flag(16384, f) \in BOOLEAN /\ (Flag(16384, f) <=> a = 1)
      /\ Flag(8192, f) \in BOOLEAN /\ (Flag(8192, f) <=> b = 1)
  BY <1>6, FlagIs, SMT
<1>8. (a = 1 <=> df) /\ (b = 1 <=> mf)
  <2>1. 0 # 1
    OBVIOUS
  <2> QED
    BY <2>1, Zenon
<1>9. f \in Word
  BY <1>6, WordIs
<1> DEFINE x == Flag(16384, f)
           y == Flag(8192, f)
<1>10. x \in BOOLEAN /\ y \in BOOLEAN /\ (x <=> df) /\ (y <=> mf)
  BY <1>7, <1>8, SMT
<1> HIDE DEF x, y, a, b
<1>11. x = df /\ y = mf
  BY <1>10, SameTruth, Zenon
<1>12. Flag(16384, f) = df /\ Flag(8192, f) = mf
  BY <1>11, SMT DEF x, y
<1> QED
  BY <1>6, <1>9, <1>12, SMT DEF f

LEMMA FlagsRead ==
    ASSUME NEW n \in Word
    PROVE  /\ Flag(16384, n) \in BOOLEAN /\ Flag(8192, n) \in BOOLEAN /\ n % 8192 \in Offset
           /\ FlagsWord(Flag(16384, n), Flag(8192, n), n % 8192) = n % 32768
<1>1. n \in Int /\ 0 <= n /\ n <= 65535
  BY WordIs
<1> DEFINE a == n \div 16384
           b == n \div 8192
           o == n % 8192
<1>2. o \in Int /\ 0 <= o /\ o <= 8191 /\ n = 8192 * b + o /\ b \in Int
  BY <1>1, SMTT(30)
<1>3. n % 32768 = 16384 * (a % 2) + 8192 * (b % 2) + o /\ a % 2 \in {0, 1} /\ b % 2 \in {0, 1}
  BY <1>1, SMTT(60)
<1> HIDE DEF a, b, o
<1>4. Raise(16384, Flag(16384, n)) = 16384 * (a % 2) /\ Raise(8192, Flag(8192, n)) = 8192 * (b % 2)
  BY <1>3, SMT DEF Raise, Flag, a, b
<1>5. FlagsWord(Flag(16384, n), Flag(8192, n), o) = n % 32768
  BY <1>3, <1>4 DEF FlagsWord
<1>6. o \in Offset
  BY <1>2, OffsetIs
<1>7. Flag(16384, n) \in BOOLEAN /\ Flag(8192, n) \in BOOLEAN
  BY FlagIs, SMT
<1> QED
  BY <1>5, <1>6, <1>7 DEF o

\* What a parser leaves of a word, and of its octets, when the first bit is not kept.
LEMMA WithoutFirstBit ==
    ASSUME NEW a \in Octet, NEW b \in Octet
    PROVE  (a * 256 + b) % 32768 = (a % 128) * 256 + b /\ a % 128 \in Octet
<1>1. a \in Int /\ 0 <= a /\ a <= 255 /\ b \in Int /\ 0 <= b /\ b <= 255
  BY OctetIs
<1>2. (a * 256 + b) % 32768 = (a % 128) * 256 + b
  BY <1>1, SMTT(60)
<1>3. a % 128 \in Int /\ 0 <= a % 128 /\ a % 128 <= 255
  BY <1>1, SMTT(30)
<1> QED
  BY <1>2, <1>3, OctetIs

-----------------------------------------------------------------------------
\* IPv4: the header and its octets

HeaderType ==
    [ver : Nibble, hlen : Nibble, tos : Octet, len : Word, id : Word, df : BOOLEAN, mf : BOOLEAN,
     offset : Offset, ttl : Octet, proto : Octet, cksum : Word,
     src : Word \X Word, dst : Word \X Word]

HeaderOf(v) ==
    [ver |-> v[1] \div 16, hlen |-> v[1] % 16, tos |-> v[2], len |-> v[3], id |-> v[4],
     df |-> Flag(16384, v[5]), mf |-> Flag(8192, v[5]), offset |-> v[5] % 8192,
     ttl |-> v[6], proto |-> v[7], cksum |-> v[8], src |-> v[9], dst |-> v[10]]

HeaderValues(h) ==
    <<h.ver * 16 + h.hlen, h.tos, h.len, h.id, FlagsWord(h.df, h.mf, h.offset),
      h.ttl, h.proto, h.cksum, h.src, h.dst>>

\* The integers of a header, where they are in a string.
HeaderIntegers(s) ==
    <<At(s, 0, 1), At(s, 1, 1), At(s, 2, 2), At(s, 4, 2), At(s, 6, 2),
      At(s, 8, 1), At(s, 9, 1), At(s, 10, 2), At(s, 12, 4), At(s, 16, 4)>>

Header(s) == HeaderOf(HeaderIntegers(s))

AreHeaderValues(v) ==
    /\ v[1] \in Octet /\ v[2] \in Octet /\ v[3] \in Word /\ v[4] \in Word /\ v[5] \in Word
    /\ v[6] \in Octet /\ v[7] \in Octet /\ v[8] \in Word
    /\ v[9] \in Word \X Word /\ v[10] \in Word \X Word

LEMMA IPv4Rows ==
    /\ IPv4Widths[1] = 1 /\ IPv4Widths[2] = 1 /\ IPv4Widths[3] = 2 /\ IPv4Widths[4] = 2
    /\ IPv4Widths[5] = 2 /\ IPv4Widths[6] = 1 /\ IPv4Widths[7] = 1 /\ IPv4Widths[8] = 2
    /\ IPv4Widths[9] = 4 /\ IPv4Widths[10] = 4
    /\ IPv4Offsets[1] = 0 /\ IPv4Offsets[2] = 1 /\ IPv4Offsets[3] = 2 /\ IPv4Offsets[4] = 4
    /\ IPv4Offsets[5] = 6 /\ IPv4Offsets[6] = 8 /\ IPv4Offsets[7] = 9 /\ IPv4Offsets[8] = 10
    /\ IPv4Offsets[9] = 12 /\ IPv4Offsets[10] = 16 /\ IPv4Offsets[11] = 20
  BY DEF IPv4Widths, IPv4Offsets

LEMMA Ten ==
    ASSUME NEW k \in 1 .. 10
    PROVE  k = 1 \/ k = 2 \/ k = 3 \/ k = 4 \/ k = 5 \/ k = 6 \/ k = 7 \/ k = 8 \/ k = 9 \/ k = 10
  OBVIOUS

\* What the rows say of the octets, in both directions.
LEMMA HeaderRows ==
    ASSUME NEW s, NEW v
    PROVE  (\A k \in 1 .. 10 : At(s, IPv4Offsets[k], IPv4Widths[k]) = v[k])
             <=> /\ At(s, 0, 1) = v[1] /\ At(s, 1, 1) = v[2] /\ At(s, 2, 2) = v[3]
                 /\ At(s, 4, 2) = v[4] /\ At(s, 6, 2) = v[5] /\ At(s, 8, 1) = v[6]
                 /\ At(s, 9, 1) = v[7] /\ At(s, 10, 2) = v[8] /\ At(s, 12, 4) = v[9]
                 /\ At(s, 16, 4) = v[10]
<1>1. \A k \in 1 .. 10 : k = 1 \/ k = 2 \/ k = 3 \/ k = 4 \/ k = 5 \/ k = 6 \/ k = 7 \/ k = 8
                         \/ k = 9 \/ k = 10
  BY Ten
<1> QED
  BY <1>1, IPv4Rows

LEMMA HeaderIntegersType ==
    ASSUME NEW s \in Strings, Len(s) >= 20
    PROVE  AreHeaderValues(HeaderIntegers(s))
<1>0. Len(s) \in Nat /\ 1 \in Width /\ 2 \in Width /\ 4 \in Width
  BY DEF Strings, Width
<1>1. \A o \in 0 .. 19 : At(s, o, 1) \in Octet
  BY <1>0, AtType, SMTT(60)
<1>2. \A o \in 0 .. 18 : At(s, o, 2) \in Word
  BY <1>0, AtType
<1>3. \A o \in 0 .. 16 : At(s, o, 4) \in Word \X Word
  BY <1>0, AtType
<1>4. /\ At(s, 0, 1) \in Octet /\ At(s, 1, 1) \in Octet /\ At(s, 2, 2) \in Word
      /\ At(s, 4, 2) \in Word /\ At(s, 6, 2) \in Word /\ At(s, 8, 1) \in Octet
      /\ At(s, 9, 1) \in Octet /\ At(s, 10, 2) \in Word /\ At(s, 12, 4) \in Word \X Word
      /\ At(s, 16, 4) \in Word \X Word
  BY <1>1, <1>2, <1>3
<1> QED
  BY <1>4 DEF AreHeaderValues, HeaderIntegers

LEMMA HeaderOfType ==
    ASSUME NEW v, AreHeaderValues(v)
    PROVE  HeaderOf(v) \in HeaderType
<1>1. v[1] \div 16 \in Nibble /\ v[1] % 16 \in Nibble
  BY OctetNibbles DEF AreHeaderValues
<1>2. Flag(16384, v[5]) \in BOOLEAN /\ Flag(8192, v[5]) \in BOOLEAN /\ v[5] % 8192 \in Offset
  BY FlagsRead DEF AreHeaderValues
<1> DEFINE a == v[1] \div 16
           b == v[1] % 16
           x == Flag(16384, v[5])
           y == Flag(8192, v[5])
           o == v[5] % 8192
<1>3. a \in Nibble /\ b \in Nibble /\ x \in BOOLEAN /\ y \in BOOLEAN /\ o \in Offset
  BY <1>1, <1>2
<1>4. HeaderOf(v) = [ver |-> a, hlen |-> b, tos |-> v[2], len |-> v[3], id |-> v[4],
                     df |-> x, mf |-> y, offset |-> o, ttl |-> v[6], proto |-> v[7],
                     cksum |-> v[8], src |-> v[9], dst |-> v[10]]
  BY SMT DEF HeaderOf
<1> HIDE DEF a, b, x, y, o
<1> QED
  <2>1. /\ v[2] \in Octet /\ v[3] \in Word /\ v[4] \in Word /\ v[6] \in Octet
        /\ v[7] \in Octet /\ v[8] \in Word /\ v[9] \in Word \X Word /\ v[10] \in Word \X Word
    BY Zenon DEF AreHeaderValues
  <2>2. [ver |-> a, hlen |-> b, tos |-> v[2], len |-> v[3], id |-> v[4],
         df |-> x, mf |-> y, offset |-> o, ttl |-> v[6], proto |-> v[7],
         cksum |-> v[8], src |-> v[9], dst |-> v[10]] \in HeaderType
    BY <1>3, <2>1 DEF HeaderType
  <2> QED
    BY <1>4, <2>2

LEMMA HeaderValuesType ==
    ASSUME NEW h \in HeaderType
    PROVE  AreHeaderValues(HeaderValues(h)) /\ HeaderOf(HeaderValues(h)) = h
<1>1. /\ h.ver \in Nibble /\ h.hlen \in Nibble /\ h.tos \in Octet /\ h.len \in Word
      /\ h.id \in Word /\ h.df \in BOOLEAN /\ h.mf \in BOOLEAN /\ h.offset \in Offset
      /\ h.ttl \in Octet /\ h.proto \in Octet /\ h.cksum \in Word
      /\ h.src \in Word \X Word /\ h.dst \in Word \X Word
      /\ h = [ver |-> h.ver, hlen |-> h.hlen, tos |-> h.tos, len |-> h.len, id |-> h.id,
              df |-> h.df, mf |-> h.mf, offset |-> h.offset, ttl |-> h.ttl, proto |-> h.proto,
              cksum |-> h.cksum, src |-> h.src, dst |-> h.dst]
  BY DEF HeaderType
<1> DEFINE v == HeaderValues(h)
           a == h.ver * 16 + h.hlen
           f == FlagsWord(h.df, h.mf, h.offset)
<1>2. a \in Octet /\ a \div 16 = h.ver /\ a % 16 = h.hlen
  BY <1>1, Nibbles
<1>3. f \in Word /\ Flag(16384, f) = h.df /\ Flag(8192, f) = h.mf /\ f % 8192 = h.offset
  BY <1>1, FlagsWritten
<1>4. /\ v[1] = a /\ v[2] = h.tos /\ v[3] = h.len /\ v[4] = h.id /\ v[5] = f /\ v[6] = h.ttl
      /\ v[7] = h.proto /\ v[8] = h.cksum /\ v[9] = h.src /\ v[10] = h.dst
  BY DEF HeaderValues
<1> HIDE DEF v, a, f
<1>5. AreHeaderValues(v)
  BY <1>1, <1>2, <1>3, <1>4 DEF AreHeaderValues
<1>6. HeaderOf(v) = h
  <2>1. HeaderOf(v) = [ver |-> a \div 16, hlen |-> a % 16, tos |-> h.tos, len |-> h.len, id |-> h.id,
                       df |-> Flag(16384, f), mf |-> Flag(8192, f), offset |-> f % 8192,
                       ttl |-> h.ttl, proto |-> h.proto, cksum |-> h.cksum,
                       src |-> h.src, dst |-> h.dst]
    BY <1>4, SMT DEF HeaderOf
  <2> QED
    BY <1>1, <1>2, <1>3, <2>1, SMT
<1> QED
  BY <1>5, <1>6 DEF v

\* What IPv4Header::serialize writes of a header has 20 octets, each field in
\* its place, and IPv4Header::parse reads the same header from them
\* (ipv4_header.cc:12-80).
THEOREM HeaderWritten ==
    ASSUME NEW h \in HeaderType
    PROVE  /\ SerializeIPv4Header(h) \in Strings /\ Len(SerializeIPv4Header(h)) = 20
           /\ \A k \in 1 .. 10 :
                At(SerializeIPv4Header(h), IPv4Offsets[k], IPv4Widths[k]) = HeaderValues(h)[k]
           /\ Header(SerializeIPv4Header(h)) = h
<1> DEFINE v == HeaderValues(h)
           s == SerializeIPv4Header(h)
           n == Len(IPv4Widths)
           l == IPv4Offsets[n + 1]
<1>1. AreHeaderValues(v) /\ HeaderOf(v) = h
  BY HeaderValuesType
<1>2. s = Serialized(v, IPv4Widths)
  BY SMT DEF SerializeIPv4Header, HeaderValues, FlagsWord
<1>3. n = 10 /\ l = 20
  BY IPv4Table, IPv4Rows
<1> HIDE DEF v, s, n, l
<1>4. \A k \in 1 .. 10 : Fits(v[k], IPv4Widths[k])
  <2> SUFFICES ASSUME NEW k \in 1 .. 10 PROVE Fits(v[k], IPv4Widths[k])
    OBVIOUS
  <2>1. k = 1 \/ k = 2 \/ k = 3 \/ k = 4 \/ k = 5 \/ k = 6 \/ k = 7 \/ k = 8 \/ k = 9 \/ k = 10
    BY Ten
  <2> QED
    BY <1>1, <2>1, IPv4Rows DEF AreHeaderValues, Fits
<1>5. /\ s \in Strings /\ Len(s) = l
      /\ \A k \in 1 .. n : At(s, IPv4Offsets[k], IPv4Widths[k]) = v[k]
  <2>1. IPv4Widths # <<>>
    BY DEF IPv4Widths
  <2>2. IPv4Widths \in Seq(Width) /\ Offsets(IPv4Offsets, IPv4Widths)
    BY IPv4Table
  <2>3. \A k \in 1 .. Len(IPv4Widths) : Fits(v[k], IPv4Widths[k])
    BY <1>3, <1>4 DEF n
  <2>4. /\ Serialized(v, IPv4Widths) \in Strings
        /\ Len(Serialized(v, IPv4Widths)) = IPv4Offsets[Len(IPv4Widths) + 1]
        /\ \A k \in 1 .. Len(IPv4Widths) :
             At(Serialized(v, IPv4Widths), IPv4Offsets[k], IPv4Widths[k]) = v[k]
    BY <2>1, <2>2, <2>3, SerializedIs
  <2> QED
    BY <1>2, <2>4, Zenon DEF n, l
<1>6. s \in Strings /\ Len(s) = 20 /\ \A k \in 1 .. 10 : At(s, IPv4Offsets[k], IPv4Widths[k]) = v[k]
  BY <1>3, <1>5
<1>7. /\ At(s, 0, 1) = v[1] /\ At(s, 1, 1) = v[2] /\ At(s, 2, 2) = v[3]
      /\ At(s, 4, 2) = v[4] /\ At(s, 6, 2) = v[5] /\ At(s, 8, 1) = v[6]
      /\ At(s, 9, 1) = v[7] /\ At(s, 10, 2) = v[8] /\ At(s, 12, 4) = v[9]
      /\ At(s, 16, 4) = v[10]
  BY <1>6, HeaderRows
<1>8. Header(s) = HeaderOf(v)
  BY <1>7, SMT DEF Header, HeaderOf, HeaderIntegers
<1> QED
  BY <1>1, <1>6, <1>8 DEF s, v

-----------------------------------------------------------------------------
\* IPv4: the checksum of a header

LEMMA ChecksumIs ==
    ASSUME NEW c \in Nat, NEW b, FlattenSeq(b) \in Strings
    PROVE  /\ Weight(FlattenSeq(b)) \in Nat
           /\ Checksum(c, b) \in Word
           /\ Vanishes((c + Weight(FlattenSeq(b))) + Checksum(c, b))
           /\ Checksum(c, b) = 0 => Vanishes(c + Weight(FlattenSeq(b)))
           /\ Vanishes(c + Weight(FlattenSeq(b))) /\ c + Weight(FlattenSeq(b)) > 0 => Checksum(c, b) = 0
<1> DEFINE w == Weight(FlattenSeq(b))
           n == c + w
           f == Folded[n]
<1>1. w \in Nat /\ Sum(c, b) = n
  BY SumIs
<1>2. n \in Nat
  BY <1>1
<1>3. Checksum(c, b) = 65535 - f
  BY <1>1, SMT DEF Checksum
<1> HIDE DEF n
<1>4. /\ Folded[n] \in Word /\ 65535 - Folded[n] \in Word
      /\ n > 0 => (Folded[n] = 65535 <=> Vanishes(n))
      /\ Folded[n] = 65535 => n > 0 /\ Vanishes(n)
      /\ Vanishes(n + (65535 - Folded[n]))
  BY <1>2, FoldedFacts, SMT
<1>5. f \in Int
  BY <1>4, WordIs, SMT
<1>6. /\ 65535 - f \in Word /\ Vanishes(n + (65535 - f))
      /\ 65535 - f = 0 => Vanishes(n)
      /\ Vanishes(n) /\ n > 0 => 65535 - f = 0
  <2> HIDE DEF f
  <2>1. /\ 65535 - f \in Word /\ Vanishes(n + (65535 - f))
        /\ n > 0 => (f = 65535 <=> Vanishes(n))
        /\ f = 65535 => n > 0 /\ Vanishes(n)
    BY <1>4, SMT DEF f
  <2> QED
    BY <1>5, <2>1, SMT
<1> DEFINE x == 65535 - f
<1>7. /\ x \in Word /\ Vanishes(n + x)
      /\ x = 0 => Vanishes(n)
      /\ Vanishes(n) /\ n > 0 => x = 0
  BY <1>6, SMT
<1>8. Checksum(c, b) = x
  BY <1>3, SMT
<1> HIDE DEF x, w
<1> QED
  BY <1>1, <1>7, <1>8, Zenon DEF n, w

LEMMA HeaderWithCksum ==
    ASSUME NEW h \in HeaderType, NEW c \in Word
    PROVE  /\ [h EXCEPT !.cksum = c] \in HeaderType /\ [h EXCEPT !.cksum = c].cksum = c
           /\ Weight(SerializeIPv4Header([h EXCEPT !.cksum = c])) - c
                = Weight(SerializeIPv4Header(h)) - h.cksum
<1> DEFINE g == [h EXCEPT !.cksum = c]
           s == SerializeIPv4Header(h)
           t == SerializeIPv4Header(g)
           u == HeaderValues(h)
           v == HeaderValues(g)
<1>1. g \in HeaderType /\ g.cksum = c /\ h.cksum \in Word
  BY DEF HeaderType
<1>2. /\ g.ver = h.ver /\ g.hlen = h.hlen /\ g.tos = h.tos /\ g.len = h.len /\ g.id = h.id
      /\ g.df = h.df /\ g.mf = h.mf /\ g.offset = h.offset /\ g.ttl = h.ttl
      /\ g.proto = h.proto /\ g.src = h.src /\ g.dst = h.dst
  BY DEF HeaderType
<1> HIDE DEF g
<1>3. \A k \in 1 .. 10 : k # 8 => u[k] = v[k]
  <2> SUFFICES ASSUME NEW k \in 1 .. 10, k # 8 PROVE u[k] = v[k]
    OBVIOUS
  <2>1. k = 1 \/ k = 2 \/ k = 3 \/ k = 4 \/ k = 5 \/ k = 6 \/ k = 7 \/ k = 9 \/ k = 10
    BY Ten
  <2> QED
    BY <1>2, <2>1 DEF HeaderValues
<1>4. u[8] = h.cksum /\ v[8] = c
  BY <1>1 DEF HeaderValues
<1>5. /\ s \in Strings /\ Len(s) = 20 /\ \A k \in 1 .. 10 : At(s, IPv4Offsets[k], IPv4Widths[k]) = u[k]
      /\ t \in Strings /\ Len(t) = 20 /\ \A k \in 1 .. 10 : At(t, IPv4Offsets[k], IPv4Widths[k]) = v[k]
  BY <1>1, HeaderWritten
<1> HIDE DEF s, t, u, v
<1>6. \A j \in 1 .. Len(s) : j <= 10 \/ j > 10 + 2 => s[j] = t[j]
  <2> DEFINE n == Len(IPv4Widths)
             i == 8
  <2>1. n = 10 /\ IPv4Offsets[n + 1] = 20 /\ i \in 1 .. n /\ IPv4Offsets[i] = 10 /\ IPv4Widths[i] = 2
    BY IPv4Table, IPv4Rows
  <2>2. \A k \in 1 .. n : k # i => At(s, IPv4Offsets[k], IPv4Widths[k]) = At(t, IPv4Offsets[k], IPv4Widths[k])
    BY <1>3, <1>5, <2>1
  <2>3. IPv4Widths \in Seq(Width) /\ Offsets(IPv4Offsets, IPv4Widths)
    BY IPv4Table
  <2>4. Len(s) = IPv4Offsets[n + 1] /\ Len(t) = IPv4Offsets[n + 1]
    BY <1>5, <2>1
  <2> HIDE DEF i
  <2>5. \A j \in 1 .. Len(s) : j <= IPv4Offsets[i] \/ j > IPv4Offsets[i] + IPv4Widths[i] => s[j] = t[j]
    BY <1>5, <2>1, <2>2, <2>3, <2>4, SameBut
  <2> QED
    BY <2>1, <2>5
<1>7. Weight(t) - At(t, 10, 2) = Weight(s) - At(s, 10, 2)
  <2> DEFINE e == 5
             o == 10
  <2>1. e \in Nat /\ o = 2 * e /\ o + 2 <= Len(s) /\ Len(s) = Len(t)
    BY <1>5
  <2>2. \A j \in 1 .. Len(s) : j <= o \/ j > o + 2 => s[j] = t[j]
    BY <1>6
  <2> HIDE DEF e, o
  <2>3. Weight(t) - At(t, o, 2) = Weight(s) - At(s, o, 2)
    BY <1>5, <2>1, <2>2, WordWeight
  <2> QED
    BY <2>3 DEF o
<1>8. At(t, 10, 2) = c /\ At(s, 10, 2) = h.cksum
  <2>1. 8 \in 1 .. 10
    OBVIOUS
  <2> QED
    BY <1>4, <1>5, <2>1, IPv4Rows
<1> QED
  BY <1>1, <1>7, <1>8 DEF g, s, t

\* A header with its checksum adds up to nothing (ipv4_header.cc:
\* compute_checksum).
LEMMA ChecksumSet ==
    ASSUME NEW h \in HeaderType
    PROVE  /\ compute_checksum(h) \in HeaderType
           /\ \E c \in Word : compute_checksum(h) = [h EXCEPT !.cksum = c]
           /\ compute_checksum(compute_checksum(h)) = compute_checksum(h)
           /\ Vanishes(0 + Weight(SerializeIPv4Header(compute_checksum(h))))
<1> DEFINE g == [h EXCEPT !.cksum = 0]
           s == SerializeIPv4Header(g)
           c == Checksum(0, <<s>>)
           k == [h EXCEPT !.cksum = c]
<1>0. 0 \in Word
  BY WordIs
<1>1. g \in HeaderType /\ g.cksum = 0
  BY <1>0, HeaderWithCksum
<1>2. s \in Strings /\ FlattenSeq(<<s>>) = s
  <2>1. s \in Strings
    BY <1>1, HeaderWritten
  <2> HIDE DEF s
  <2> QED
    BY <2>1, FlatOne DEF Strings
<1>3. compute_checksum(h) = k
  BY Zenon DEF compute_checksum
<1> HIDE DEF s
<1>4. c \in Word /\ Vanishes((0 + Weight(s)) + c) /\ Weight(s) \in Nat
  <2> DEFINE b == <<s>>
             z == 0
  <2>1. z \in Nat /\ FlattenSeq(b) = s /\ FlattenSeq(b) \in Strings
    BY <1>2
  <2> HIDE DEF b, z
  <2>2. /\ Weight(FlattenSeq(b)) \in Nat /\ Checksum(z, b) \in Word
        /\ Vanishes((z + Weight(FlattenSeq(b))) + Checksum(z, b))
    BY <2>1, ChecksumIs, Zenon
  <2>3. c = Checksum(z, b)
    BY DEF b, z
  <2> HIDE DEF c
  <2> QED
    BY <2>1, <2>2, <2>3 DEF z
<1> HIDE DEF c
<1>5. k \in HeaderType /\ [g EXCEPT !.cksum = c] = k /\ [k EXCEPT !.cksum = 0] = g
  <2>1. k \in HeaderType
    BY <1>4, HeaderWithCksum
  <2>2. [g EXCEPT !.cksum = c] = k /\ [k EXCEPT !.cksum = 0] = g
    BY DEF HeaderType
  <2> QED
    BY <2>1, <2>2
<1>6. compute_checksum(k) = k
  <2>1. compute_checksum(k) = [k EXCEPT !.cksum = Checksum(0, <<SerializeIPv4Header([k EXCEPT !.cksum = 0])>>)]
    BY Zenon DEF compute_checksum
  <2> HIDE DEF g, k
  <2>2. compute_checksum(k) = [k EXCEPT !.cksum = c]
    BY <1>5, <2>1, Zenon DEF s, c
  <2>3. [k EXCEPT !.cksum = c] = k
    BY DEF k, HeaderType
  <2> QED
    BY <2>2, <2>3
<1>7. Weight(SerializeIPv4Header(k)) - c = Weight(s) - 0
  <2>1. Weight(SerializeIPv4Header([g EXCEPT !.cksum = c])) - c = Weight(SerializeIPv4Header(g)) - g.cksum
    BY <1>1, <1>4, HeaderWithCksum
  <2> HIDE DEF g, k
  <2> QED
    BY <1>1, <1>5, <2>1 DEF s
<1>8. Vanishes(0 + Weight(SerializeIPv4Header(k)))
  <2>1. SerializeIPv4Header(k) \in Strings
    BY <1>5, HeaderWritten
  <2>2. Weight(SerializeIPv4Header(k)) \in Nat
    BY <2>1, WeightType
  <2>3. c \in Int
    BY <1>4, WordIs
  <2> DEFINE x == Weight(SerializeIPv4Header(k))
             y == Weight(s)
  <2>4. x \in Nat /\ y \in Nat /\ x - c = y - 0
    BY <1>4, <1>7, <2>2
  <2> HIDE DEF x, y
  <2>5. 0 + x = (0 + y) + c
    BY <2>3, <2>4
  <2>6. Vanishes((0 + y) + c)
    BY <1>4 DEF y
  <2>7. Vanishes(0 + x)
    BY <2>5, <2>6, Zenon
  <2> QED
    BY <2>7 DEF x
<1> HIDE DEF k
<1>9. \E d \in Word : k = [h EXCEPT !.cksum = d]
  BY <1>4, Zenon DEF k
<1> QED
  BY <1>3, <1>5, <1>6, <1>8, <1>9, Zenon

-----------------------------------------------------------------------------
\* IPv4: what is accepted

\* What a header is written as after it has been read: the same octets, but
\* for the bit that is not kept.
LEMMA HeaderAgain ==
    ASSUME NEW s \in Strings, Len(s) >= 20
    PROVE  /\ Header(s) \in HeaderType
           /\ SerializeIPv4Header(Header(s)) \in Strings /\ Len(SerializeIPv4Header(Header(s))) = 20
           /\ \A k \in 1 .. 20 :
                SerializeIPv4Header(Header(s))[k] = IF k = 7 THEN s[7] % 128 ELSE s[k]
<1> DEFINE h == Header(s)
           t == SerializeIPv4Header(h)
           u == Upto(s, 20)
           v == HeaderIntegers(s)
<1>1. AreHeaderValues(v)
  BY HeaderIntegersType
<1>2. h \in HeaderType /\ h = HeaderOf(v)
  BY <1>1, HeaderOfType DEF Header
<1> HIDE DEF h
<1>3. /\ t \in Strings /\ Len(t) = 20
      /\ \A k \in 1 .. 10 : At(t, IPv4Offsets[k], IPv4Widths[k]) = HeaderValues(h)[k]
  BY <1>2, HeaderWritten
<1> HIDE DEF t
<1>4. /\ u \in Strings /\ Len(u) = 20 /\ \A k \in 1 .. 20 : u[k] = s[k]
      /\ \A k \in 1 .. 20 : u[k] \in Octet
  <2>1. s \in Seq(Octet) /\ 20 \in 0 .. Len(s)
    BY DEF Strings
  <2>2. u \in Seq(Octet) /\ Len(u) = 20 /\ \A k \in 1 .. 20 : u[k] = s[k]
    BY <2>1, UptoIs
  <2> HIDE DEF u
  <2>3. \A k \in 1 .. Len(u) : u[k] \in Octet
    BY <2>2, Elements
  <2> QED
    BY <2>2, <2>3 DEF Strings
<1> HIDE DEF u
<1>5. \A k \in 1 .. 10 : At(u, IPv4Offsets[k], IPv4Widths[k]) = v[k]
  <2>1. \A o \in 0 .. 19 : At(u, o, 1) = At(s, o, 1)
    <3> SUFFICES ASSUME NEW o \in 0 .. 19 PROVE At(u, o, 1) = At(s, o, 1)
      OBVIOUS
    <3>0. o + 1 \in 1 .. 20
      OBVIOUS
    <3>1. u[o + 1] = s[o + 1]
      BY <1>4, <3>0
    <3> QED
      BY <3>1 DEF At
  <2>2. \A o \in 0 .. 18 : At(u, o, 2) = At(s, o, 2)
    <3> SUFFICES ASSUME NEW o \in 0 .. 18 PROVE At(u, o, 2) = At(s, o, 2)
      OBVIOUS
    <3>0. o + 1 \in 1 .. 20 /\ o + 2 \in 1 .. 20
      OBVIOUS
    <3>1. u[o + 1] = s[o + 1] /\ u[o + 2] = s[o + 2]
      BY <1>4, <3>0
    <3> QED
      BY <3>1 DEF At
  <2>3. \A o \in 0 .. 16 : At(u, o, 4) = At(s, o, 4)
    <3> SUFFICES ASSUME NEW o \in 0 .. 16 PROVE At(u, o, 4) = At(s, o, 4)
      OBVIOUS
    <3>0. o + 1 \in 1 .. 20 /\ o + 2 \in 1 .. 20 /\ o + 3 \in 1 .. 20 /\ o + 4 \in 1 .. 20
      OBVIOUS
    <3>1. u[o + 1] = s[o + 1] /\ u[o + 2] = s[o + 2] /\ u[o + 3] = s[o + 3] /\ u[o + 4] = s[o + 4]
      BY <1>4, <3>0
    <3> QED
      BY <3>1 DEF At
  <2>4. /\ At(u, 0, 1) = v[1] /\ At(u, 1, 1) = v[2] /\ At(u, 2, 2) = v[3]
        /\ At(u, 4, 2) = v[4] /\ At(u, 6, 2) = v[5] /\ At(u, 8, 1) = v[6]
        /\ At(u, 9, 1) = v[7] /\ At(u, 10, 2) = v[8] /\ At(u, 12, 4) = v[9]
        /\ At(u, 16, 4) = v[10]
    BY <2>1, <2>2, <2>3 DEF HeaderIntegers
  <2> QED
    BY <2>4, HeaderRows, SMTT(60)
<1> HIDE DEF v
<1>6. /\ \A k \in 1 .. 10 : k # 5 => HeaderValues(h)[k] = v[k]
      /\ HeaderValues(h)[5] = v[5] % 32768
  <2>1. (v[1] \div 16) * 16 + (v[1] % 16) = v[1]
    BY <1>1, OctetNibbles DEF AreHeaderValues
  <2>2. FlagsWord(Flag(16384, v[5]), Flag(8192, v[5]), v[5] % 8192) = v[5] % 32768
    BY <1>1, FlagsRead DEF AreHeaderValues
  <2>3. /\ h.ver * 16 + h.hlen = v[1] /\ h.tos = v[2] /\ h.len = v[3] /\ h.id = v[4]
        /\ FlagsWord(h.df, h.mf, h.offset) = v[5] % 32768 /\ h.ttl = v[6] /\ h.proto = v[7]
        /\ h.cksum = v[8] /\ h.src = v[9] /\ h.dst = v[10]
    BY <1>2, <2>1, <2>2, SMT DEF HeaderOf
  <2>4. HeaderValues(h)[5] = v[5] % 32768
    BY <2>3, SMT DEF HeaderValues
  <2>5. \A k \in 1 .. 10 : k # 5 => HeaderValues(h)[k] = v[k]
    <3> SUFFICES ASSUME NEW k \in 1 .. 10, k # 5 PROVE HeaderValues(h)[k] = v[k]
      OBVIOUS
    <3>1. k = 1 \/ k = 2 \/ k = 3 \/ k = 4 \/ k = 6 \/ k = 7 \/ k = 8 \/ k = 9 \/ k = 10
      BY Ten
    <3> QED
      BY <2>3, <3>1, SMT DEF HeaderValues
  <2> QED
    BY <2>4, <2>5
<1>7. \A j \in 1 .. 20 : j <= 6 \/ j > 6 + 2 => t[j] = u[j]
  <2> DEFINE n == Len(IPv4Widths)
             i == 5
  <2>1. n = 10 /\ IPv4Offsets[n + 1] = 20 /\ i \in 1 .. n /\ IPv4Offsets[i] = 6 /\ IPv4Widths[i] = 2
    BY IPv4Table, IPv4Rows
  <2>2. \A k \in 1 .. n : k # i => At(t, IPv4Offsets[k], IPv4Widths[k]) = At(u, IPv4Offsets[k], IPv4Widths[k])
    BY <1>3, <1>5, <1>6, <2>1
  <2>3. IPv4Widths \in Seq(Width) /\ Offsets(IPv4Offsets, IPv4Widths)
    BY IPv4Table
  <2>4. Len(t) = IPv4Offsets[n + 1] /\ Len(u) = IPv4Offsets[n + 1]
    BY <1>3, <1>4, <2>1
  <2> HIDE DEF i
  <2>5. \A j \in 1 .. Len(t) : j <= IPv4Offsets[i] \/ j > IPv4Offsets[i] + IPv4Widths[i] => t[j] = u[j]
    BY <1>3, <1>4, <2>1, <2>2, <2>3, <2>4, SameBut
  <2> QED
    BY <1>3, <2>1, <2>5
<1>8. t[7] = u[7] % 128 /\ t[8] = u[8]
  <2>1. 5 \in 1 .. 10
    OBVIOUS
  <2>2. At(t, 6, 2) = v[5] % 32768 /\ At(u, 6, 2) = v[5]
    BY <1>3, <1>5, <1>6, <2>1, IPv4Rows
  <2>3. At(t, 6, 2) = t[7] * 256 + t[8] /\ At(u, 6, 2) = u[7] * 256 + u[8]
    BY DEF At
  <2> DEFINE a == t[7]
             b == t[8]
             c == u[7]
             d == u[8]
             e == c % 128
  <2>4. a \in Octet /\ b \in Octet /\ c \in Octet /\ d \in Octet
    <3>1. \A k \in 1 .. Len(t) : t[k] \in Octet
      BY <1>3, Elements DEF Strings
    <3>2. 7 \in 1 .. Len(t) /\ 8 \in 1 .. Len(t) /\ 7 \in 1 .. 20 /\ 8 \in 1 .. 20
      BY <1>3
    <3> QED
      BY <1>4, <3>1, <3>2
  <2>5. e \in Octet /\ (c * 256 + d) % 32768 = e * 256 + d
    BY <2>4, WithoutFirstBit
  <2>6. a * 256 + b = (c * 256 + d) % 32768
    BY <2>2, <2>3
  <2> HIDE DEF a, b, c, d, e
  <2>7. a = e /\ b = d
    BY <2>4, <2>5, <2>6, SameTwoOctets
  <2> QED
    BY <2>7 DEF a, b, c, d, e
<1>9. \A k \in 1 .. 20 : t[k] = IF k = 7 THEN s[7] % 128 ELSE s[k]
  <2> SUFFICES ASSUME NEW k \in 1 .. 20 PROVE t[k] = IF k = 7 THEN s[7] % 128 ELSE s[k]
    OBVIOUS
  <2>1. k <= 6 \/ k > 6 + 2 \/ k = 7 \/ k = 8
    OBVIOUS
  <2> QED
    BY <1>4, <1>7, <1>8, <2>1
<1> QED
  BY <1>2, <1>3, <1>9 DEF t, h

Accepted(s) ==
    /\ Len(s) >= 20 /\ Header(s).ver = 4 /\ Header(s).hlen >= 5
    /\ Header(s) = compute_checksum(Header(s))

\* No damage of one octet of an accepted IPv4 header goes unnoticed: if both
\* the octets before and those after are accepted, no field has changed.  The
\* reserved bit, which parse does not look at, may have (ipv4_header.cc:26-53).
THEOREM DamagedHeader ==
    ASSUME NEW s \in Strings, NEW t \in Strings, Accepted(s), Accepted(t),
           NEW i \in 1 .. 20, \A k \in 1 .. 20 : k # i => s[k] = t[k]
    PROVE  Header(t) = Header(s)
<1> DEFINE a == SerializeIPv4Header(Header(s))
           b == SerializeIPv4Header(Header(t))
<1>1. /\ Header(s) \in HeaderType /\ a \in Strings /\ Len(a) = 20
      /\ \A k \in 1 .. 20 : a[k] = IF k = 7 THEN s[7] % 128 ELSE s[k]
  BY HeaderAgain DEF Accepted
<1>2. /\ Header(t) \in HeaderType /\ b \in Strings /\ Len(b) = 20
      /\ \A k \in 1 .. 20 : b[k] = IF k = 7 THEN t[7] % 128 ELSE t[k]
  BY HeaderAgain DEF Accepted
<1>3. Vanishes(0 + Weight(a)) /\ Vanishes(0 + Weight(b))
  <2>1. Vanishes(0 + Weight(SerializeIPv4Header(compute_checksum(Header(s)))))
    BY <1>1, ChecksumSet
  <2>2. Vanishes(0 + Weight(SerializeIPv4Header(compute_checksum(Header(t)))))
    BY <1>2, ChecksumSet
  <2>3. compute_checksum(Header(s)) = Header(s) /\ compute_checksum(Header(t)) = Header(t)
    BY DEF Accepted
  <2> QED
    BY <2>1, <2>2, <2>3, Zenon
<1>4. Header(a) = Header(s) /\ Header(b) = Header(t)
  BY <1>1, <1>2, HeaderWritten
<1> HIDE DEF a, b
<1>5. a = b
  <2>1. \A k \in 1 .. Len(a) : k # i => a[k] = b[k]
    BY <1>1, <1>2
  <2> DEFINE z == 0
  <2>2. z \in Nat /\ i \in 1 .. Len(a) /\ Len(a) = Len(b)
        /\ Vanishes(z + Weight(a)) /\ Vanishes(z + Weight(b))
    BY <1>1, <1>2, <1>3
  <2> HIDE DEF z
  <2> QED
    BY <1>1, <1>2, <2>1, <2>2, OneOctet
<1> QED
  BY <1>4, <1>5

\* What IPv4Datagram::parse makes of any octets: it refuses those that are
\* not an accepted header, and takes what comes after hlen words as the
\* payload otherwise (ipv4_header.cc:12-54, ipv4_datagram.hh:16-20).
THEOREM DatagramRead ==
    ASSUME NEW b \in Buffers
    PROVE  /\ ~Accepted(FlattenSeq(b)) => ParseDatagram(b) = Invalid
           /\ Accepted(FlattenSeq(b)) =>
                \E p : /\ ParseDatagram(b) = Valid([header |-> Header(FlattenSeq(b)), payload |-> p])
                       /\ p \in Buffers
                       /\ FlattenSeq(p) = Beyond(FlattenSeq(b), 4 * Header(FlattenSeq(b)).hlen)
<1> DEFINE s == FlattenSeq(b)
           np == NewParser(b)
           r == Integers_(np, IPv4Widths)
           h == HeaderOf(r.values)
           n == Len(IPv4Widths)
           l == IPv4Offsets[n + 1]
<1>1. Parser(np) /\ ~np.error /\ Rest(np) = s /\ s \in Strings
  BY NewParserIs
<1>2. n = 10 /\ l = 20
  BY IPv4Table, IPv4Rows
<1>3. ParseDatagram(b) =
        IF r.parser.error \/ h.ver # 4 \/ h.hlen < 5 \/ h # compute_checksum(h) THEN Invalid
        ELSE Valid([header |-> h, payload |-> Remaining(RemovePrefix(r.parser, 4 * h.hlen - 20))])
  BY SMT DEF ParseDatagram, HeaderOf, HeaderLength
<1> HIDE DEF s, np, h
<1>4. CASE Len(s) < 20
  <2>1. r.parser.error
    <3>1. IPv4Widths \in Seq(Width) /\ Offsets(IPv4Offsets, IPv4Widths)
      BY IPv4Table
    <3>2. IPv4Offsets[Len(IPv4Widths) + 1] > Len(Rest(np))
      BY <1>1, <1>2, <1>4
    <3> QED
      BY <1>1, <3>1, <3>2, IntegersMissing
  <2>2. ~Accepted(s)
    BY <1>1, <1>4 DEF Accepted, Strings
  <2> HIDE DEF r
  <2> QED
    BY <1>3, <2>1, <2>2 DEF s
<1>5. CASE Len(s) >= 20
  <2>1. PICK q, v : /\ r = [parser |-> q, values |-> v]
                    /\ Parser(q) /\ ~q.error /\ Rest(q) = Beyond(s, l)
                    /\ v \in Seq(Value) /\ Len(v) = n
                    /\ \A k \in 1 .. n : v[k] = At(s, IPv4Offsets[k], IPv4Widths[k])
    <3>1. IPv4Widths \in Seq(Width) /\ Offsets(IPv4Offsets, IPv4Widths)
      BY IPv4Table
    <3>2. IPv4Offsets[Len(IPv4Widths) + 1] <= Len(Rest(np))
      BY <1>1, <1>2, <1>5
    <3>3. \E q, v : /\ Integers_(np, IPv4Widths) = [parser |-> q, values |-> v]
                    /\ Parser(q) /\ ~q.error
                    /\ Rest(q) = Beyond(Rest(np), IPv4Offsets[Len(IPv4Widths) + 1])
                    /\ v \in Seq(Value) /\ Len(v) = Len(IPv4Widths)
                    /\ \A k \in 1 .. Len(IPv4Widths) :
                         v[k] = At(Rest(np), IPv4Offsets[k], IPv4Widths[k])
      BY <1>1, <3>1, <3>2, IntegersAre, Zenon
    <3> QED
      BY <1>1, <3>3
  <2>2. \A k \in 1 .. 10 : At(s, IPv4Offsets[k], IPv4Widths[k]) = v[k]
    <3> HIDE DEF n, l
    <3> QED
      BY <1>2, <2>1
  <2>3. Rest(q) = Beyond(s, 20)
    BY <1>2, <2>1
  <2>4. h = Header(s)
    <3>1. /\ At(s, 0, 1) = v[1] /\ At(s, 1, 1) = v[2] /\ At(s, 2, 2) = v[3]
          /\ At(s, 4, 2) = v[4] /\ At(s, 6, 2) = v[5] /\ At(s, 8, 1) = v[6]
          /\ At(s, 9, 1) = v[7] /\ At(s, 10, 2) = v[8] /\ At(s, 12, 4) = v[9]
          /\ At(s, 16, 4) = v[10]
      BY <2>2, HeaderRows
    <3>2. h = HeaderOf(v)
      <4>1. r.values = v
        BY <2>1
      <4> QED
        BY <4>1 DEF h
    <3> QED
      BY <3>1, <3>2, SMT DEF Header, HeaderOf, HeaderIntegers
  <2>5. r.parser = q /\ ~q.error
    BY <2>1
  <2>6. Accepted(s) <=> ~(r.parser.error \/ h.ver # 4 \/ h.hlen < 5 \/ h # compute_checksum(h))
    <3>1. h.hlen \in Int
      <4>1. h \in HeaderType
        BY <1>1, <1>5, <2>4, HeaderAgain
      <4>2. h.hlen \in Nibble
        BY <4>1 DEF HeaderType
      <4> QED
        BY <4>2, NibbleIs
    <3> HIDE DEF r
    <3> QED
      BY <1>5, <2>4, <2>5, <3>1 DEF Accepted
  <2>7. Accepted(s) =>
          LET p == Remaining(RemovePrefix(q, 4 * h.hlen - 20))
          IN  p \in Buffers /\ FlattenSeq(p) = Beyond(s, 4 * h.hlen)
    <3> SUFFICES ASSUME Accepted(s)
                 PROVE  LET p == Remaining(RemovePrefix(q, 4 * h.hlen - 20))
                        IN  p \in Buffers /\ FlattenSeq(p) = Beyond(s, 4 * h.hlen)
      OBVIOUS
    <3> DEFINE m == 4 * h.hlen - 20
    <3>1. m \in Nat /\ 20 + m = 4 * h.hlen
      <4>1. h \in HeaderType
        BY <1>1, <1>5, <2>4, HeaderAgain
      <4>2. h.hlen \in Int /\ h.hlen >= 5
        BY <2>4, <4>1, NibbleIs DEF HeaderType, Accepted
      <4> QED
        BY <4>2
    <3> HIDE DEF m
    <3>2. Parser(RemovePrefix(q, m)) /\ Rest(RemovePrefix(q, m)) = Beyond(Beyond(s, 20), m)
      BY <2>1, <2>3, <3>1, RemovesFirst
    <3>3. Beyond(Beyond(s, 20), m) = Beyond(s, 20 + m)
      BY <1>1, <3>1, BeyondBeyond DEF Strings
    <3>4. Remaining(RemovePrefix(q, m)) \in Buffers
          /\ FlattenSeq(Remaining(RemovePrefix(q, m))) = Rest(RemovePrefix(q, m))
      BY <3>2, RemainingIs
    <3> QED
      BY <3>1, <3>2, <3>3, <3>4 DEF m
  <2> HIDE DEF r
  <2>8. CASE Accepted(s)
    <3> DEFINE p == Remaining(RemovePrefix(q, 4 * h.hlen - 20))
    <3>1. p \in Buffers /\ FlattenSeq(p) = Beyond(s, 4 * h.hlen)
      BY <2>7, <2>8
    <3>2. ParseDatagram(b) = Valid([header |-> h, payload |-> p])
      <4>1. ~(r.parser.error \/ h.ver # 4 \/ h.hlen < 5 \/ h # compute_checksum(h))
        BY <2>6, <2>8
      <4>2. ParseDatagram(b) = Valid([header |-> h, payload |-> Remaining(RemovePrefix(r.parser, 4 * h.hlen - 20))])
        BY <1>3, <4>1, Zenon
      <4> QED
        BY <2>5, <4>2, Zenon
    <3> HIDE DEF p
    <3>3. ParseDatagram(b) = Valid([header |-> Header(s), payload |-> p])
          /\ FlattenSeq(p) = Beyond(s, 4 * Header(s).hlen)
      BY <2>4, <3>1, <3>2, Zenon
    <3> QED
      BY <2>8, <3>1, <3>3, Zenon DEF s
  <2>9. CASE ~Accepted(s)
    <3>1. ParseDatagram(b) = Invalid
      BY <1>3, <2>6, <2>9, Zenon
    <3> QED
      BY <2>9, <3>1 DEF s
  <2> QED
    BY <2>8, <2>9
<1>6. Len(s) \in Nat
  BY <1>1 DEF Strings
<1> QED
  <2>1. Len(s) < 20 \/ Len(s) >= 20
    BY <1>6
  <2> HIDE DEF r
  <2> QED
    BY <1>4, <1>5, <2>1, Zenon

-----------------------------------------------------------------------------
\* TCP: the flags

FlagsOctet(a, r, s, f) == Raise(16, a) + Raise(4, r) + Raise(2, s) + Raise(1, f)

LEMMA FlagsOctetIs ==
    ASSUME NEW a \in BOOLEAN, NEW r \in BOOLEAN, NEW s \in BOOLEAN, NEW f \in BOOLEAN
    PROVE  /\ FlagsOctet(a, r, s, f) \in Octet
           /\ Flag(16, FlagsOctet(a, r, s, f)) = a /\ Flag(4, FlagsOctet(a, r, s, f)) = r
           /\ Flag(2, FlagsOctet(a, r, s, f)) = s /\ Flag(1, FlagsOctet(a, r, s, f)) = f
<1> DEFINE n == FlagsOctet(a, r, s, f)
           i == IF a THEN 1 ELSE 0
           j == IF r THEN 1 ELSE 0
           k == IF s THEN 1 ELSE 0
           l == IF f THEN 1 ELSE 0
<1>1. i \in {0, 1} /\ j \in {0, 1} /\ k \in {0, 1} /\ l \in {0, 1}
  OBVIOUS
<1>2. n = 16 * i + 4 * j + 2 * k + l
  BY SMT DEF FlagsOctet, Raise
<1>3. (i = 1 <=> a) /\ (j = 1 <=> r) /\ (k = 1 <=> s) /\ (l = 1 <=> f)
  <2>1. 0 # 1
    OBVIOUS
  <2> QED
    BY <2>1, Zenon
<1> HIDE DEF n, i, j, k, l
<1>4. n \in Int /\ 0 <= n /\ n <= 255
  BY <1>1, <1>2, SMT
<1>5. (n \div 16) % 2 = i /\ (n \div 4) % 2 = j /\ (n \div 2) % 2 = k /\ (n \div 1) % 2 = l
  <2>1. i \in Int /\ j \in Int /\ k \in Int /\ l \in Int
        /\ 0 <= i /\ i <= 1 /\ 0 <= j /\ j <= 1 /\ 0 <= k /\ k <= 1 /\ 0 <= l /\ l <= 1
    BY <1>1
  <2>2. (n \div 16) % 2 = i
    BY <1>2, <2>1, SMTT(30)
  <2>3. (n \div 4) % 2 = j
    BY <1>2, <2>1, SMTT(30)
  <2>4. (n \div 2) % 2 = k
    BY <1>2, <2>1, SMTT(30)
  <2>5. (n \div 1) % 2 = l
    BY <1>2, <2>1, SMTT(30)
  <2> QED
    BY <2>2, <2>3, <2>4, <2>5
<1> DEFINE x == Flag(16, n)
           y == Flag(4, n)
           z == Flag(2, n)
           u == Flag(1, n)
<1>6. /\ x \in BOOLEAN /\ y \in BOOLEAN /\ z \in BOOLEAN /\ u \in BOOLEAN
      /\ (x <=> a) /\ (y <=> r) /\ (z <=> s) /\ (u <=> f)
  <2>1. x \in BOOLEAN /\ y \in BOOLEAN /\ z \in BOOLEAN /\ u \in BOOLEAN
    BY FlagIs, Zenon
  <2>2. (x <=> i = 1) /\ (y <=> j = 1) /\ (z <=> k = 1) /\ (u <=> l = 1)
    BY <1>5, FlagIs, Zenon
  <2> HIDE DEF x, y, z, u
  <2> QED
    BY <1>3, <2>1, <2>2, Zenon
<1> HIDE DEF x, y, z, u
<1>7. x = a /\ y = r /\ z = s /\ u = f
  BY <1>6, SameTruth, Zenon
<1>8. n \in Octet
  BY <1>4, OctetIs
<1> QED
  BY <1>7, <1>8, Zenon DEF x, y, z, u, n

-----------------------------------------------------------------------------
\* TCP: a segment and its octets

SegmentType ==
    [src_port : Word, dst_port : Word, seqno : Word \X Word,
     ackno : (Word \X Word) \union {NoAckno}, reset : BOOLEAN, SYN : BOOLEAN, FIN : BOOLEAN,
     window_size : Word, cksum : Word, payload : Strings]

SegmentOf(v, payload) ==
    [src_port |-> v[1], dst_port |-> v[2], seqno |-> v[3],
     ackno |-> IF Flag(16, v[6]) THEN v[4] ELSE NoAckno,
     reset |-> Flag(4, v[6]), SYN |-> Flag(2, v[6]), FIN |-> Flag(1, v[6]),
     window_size |-> v[7], cksum |-> v[8], payload |-> payload]

SegmentValues(s) ==
    <<s.src_port, s.dst_port, s.seqno, IF s.ackno = NoAckno THEN <<0, 0>> ELSE s.ackno,
      80, FlagsOctet(s.ackno # NoAckno, s.reset, s.SYN, s.FIN), s.window_size, s.cksum, 0>>

SegmentIntegers(s) ==
    <<At(s, 0, 2), At(s, 2, 2), At(s, 4, 4), At(s, 8, 4), At(s, 12, 1),
      At(s, 13, 1), At(s, 14, 2), At(s, 16, 2), At(s, 18, 2)>>

TCPHeader(s) == Serialized(SegmentValues(s), TCPWidths)

AreSegmentValues(v) ==
    /\ v[1] \in Word /\ v[2] \in Word /\ v[3] \in Word \X Word /\ v[4] \in Word \X Word
    /\ v[5] \in Octet /\ v[6] \in Octet /\ v[7] \in Word /\ v[8] \in Word /\ v[9] \in Word

LEMMA TCPRows ==
    /\ TCPWidths[1] = 2 /\ TCPWidths[2] = 2 /\ TCPWidths[3] = 4 /\ TCPWidths[4] = 4
    /\ TCPWidths[5] = 1 /\ TCPWidths[6] = 1 /\ TCPWidths[7] = 2 /\ TCPWidths[8] = 2
    /\ TCPWidths[9] = 2
    /\ TCPOffsets[1] = 0 /\ TCPOffsets[2] = 2 /\ TCPOffsets[3] = 4 /\ TCPOffsets[4] = 8
    /\ TCPOffsets[5] = 12 /\ TCPOffsets[6] = 13 /\ TCPOffsets[7] = 14 /\ TCPOffsets[8] = 16
    /\ TCPOffsets[9] = 18 /\ TCPOffsets[10] = 20
  BY DEF TCPWidths, TCPOffsets

LEMMA Nine ==
    ASSUME NEW k \in 1 .. 9
    PROVE  k = 1 \/ k = 2 \/ k = 3 \/ k = 4 \/ k = 5 \/ k = 6 \/ k = 7 \/ k = 8 \/ k = 9
  OBVIOUS

LEMMA SegmentRows ==
    ASSUME NEW s, NEW v
    PROVE  (\A k \in 1 .. 9 : At(s, TCPOffsets[k], TCPWidths[k]) = v[k])
             <=> /\ At(s, 0, 2) = v[1] /\ At(s, 2, 2) = v[2] /\ At(s, 4, 4) = v[3]
                 /\ At(s, 8, 4) = v[4] /\ At(s, 12, 1) = v[5] /\ At(s, 13, 1) = v[6]
                 /\ At(s, 14, 2) = v[7] /\ At(s, 16, 2) = v[8] /\ At(s, 18, 2) = v[9]
<1>1. \A k \in 1 .. 9 : k = 1 \/ k = 2 \/ k = 3 \/ k = 4 \/ k = 5 \/ k = 6 \/ k = 7 \/ k = 8
                         \/ k = 9
  BY Nine
<1> QED
  BY <1>1, TCPRows

LEMMA SegmentValuesAre ==
    ASSUME NEW s \in SegmentType
    PROVE  /\ AreSegmentValues(SegmentValues(s))
           /\ \A p : SegmentOf(SegmentValues(s), p) = [s EXCEPT !.payload = p]
           /\ SegmentValues(s)[5] = 80 /\ SegmentValues(s)[8] = s.cksum
<1>1. /\ s.src_port \in Word /\ s.dst_port \in Word /\ s.seqno \in Word \X Word
      /\ s.ackno \in (Word \X Word) \union {NoAckno}
      /\ s.reset \in BOOLEAN /\ s.SYN \in BOOLEAN /\ s.FIN \in BOOLEAN
      /\ s.window_size \in Word /\ s.cksum \in Word /\ s.payload \in Strings
      /\ \A p : [s EXCEPT !.payload = p] =
           [src_port |-> s.src_port, dst_port |-> s.dst_port, seqno |-> s.seqno,
            ackno |-> s.ackno, reset |-> s.reset, SYN |-> s.SYN, FIN |-> s.FIN,
            window_size |-> s.window_size, cksum |-> s.cksum, payload |-> p]
  BY DEF SegmentType
<1> DEFINE v == SegmentValues(s)
           a == s.ackno # NoAckno
           f == FlagsOctet(a, s.reset, s.SYN, s.FIN)
           n == IF s.ackno = NoAckno THEN <<0, 0>> ELSE s.ackno
<1>2. f \in Octet /\ Flag(16, f) = a /\ Flag(4, f) = s.reset /\ Flag(2, f) = s.SYN /\ Flag(1, f) = s.FIN
  <2>1. a \in BOOLEAN
    OBVIOUS
  <2>2. s.reset \in BOOLEAN /\ s.SYN \in BOOLEAN /\ s.FIN \in BOOLEAN
    BY <1>1
  <2> DEFINE x == s.reset
             y == s.SYN
             z == s.FIN
  <2> HIDE DEF a, x, y, z
  <2>3. x \in BOOLEAN /\ y \in BOOLEAN /\ z \in BOOLEAN
    BY <2>2 DEF x, y, z
  <2>4. /\ FlagsOctet(a, x, y, z) \in Octet
        /\ Flag(16, FlagsOctet(a, x, y, z)) = a /\ Flag(4, FlagsOctet(a, x, y, z)) = x
        /\ Flag(2, FlagsOctet(a, x, y, z)) = y /\ Flag(1, FlagsOctet(a, x, y, z)) = z
    BY <2>1, <2>3, FlagsOctetIs, SMT
  <2> QED
    BY <2>4, Zenon DEF x, y, z
<1>3. 0 \in Word /\ 80 \in Octet
  BY WordIs, OctetIs
<1>4. n \in Word \X Word /\ (a => n = s.ackno) /\ (~a => s.ackno = NoAckno)
  <2>1. <<0, 0>> \in Word \X Word
    BY <1>3
  <2> QED
    BY <1>1, <2>1
<1>5. /\ v[1] = s.src_port /\ v[2] = s.dst_port /\ v[3] = s.seqno /\ v[4] = n /\ v[5] = 80
      /\ v[6] = f /\ v[7] = s.window_size /\ v[8] = s.cksum /\ v[9] = 0
  BY DEF SegmentValues
<1>6. a \in BOOLEAN
  OBVIOUS
<1> HIDE DEF v, f, n, a
<1>7. AreSegmentValues(v)
  BY <1>1, <1>2, <1>3, <1>4, <1>5 DEF AreSegmentValues
<1>8. ASSUME NEW p PROVE SegmentOf(v, p) = [s EXCEPT !.payload = p]
  <2>1. (IF Flag(16, v[6]) THEN v[4] ELSE NoAckno) = s.ackno
    BY <1>2, <1>4, <1>5, <1>6, Zenon
  <2>2. SegmentOf(v, p) =
           [src_port |-> s.src_port, dst_port |-> s.dst_port, seqno |-> s.seqno,
            ackno |-> s.ackno, reset |-> s.reset, SYN |-> s.SYN, FIN |-> s.FIN,
            window_size |-> s.window_size, cksum |-> s.cksum, payload |-> p]
    BY <1>2, <1>5, <2>1, Zenon DEF SegmentOf
  <2> QED
    BY <1>1, <2>2, Zenon
<1> QED
  BY <1>5, <1>7, <1>8 DEF v

\* What is written of a segment (tcp_segment.cc: serialize).
LEMMA SegmentWritten ==
    ASSUME NEW s \in SegmentType
    PROVE  /\ TCPHeader(s) \in Strings /\ Len(TCPHeader(s)) = 20
           /\ \A k \in 1 .. 9 : At(TCPHeader(s), TCPOffsets[k], TCPWidths[k]) = SegmentValues(s)[k]
           /\ SerializeTCP(s) \in Seq(Strings)
           /\ FlattenSeq(SerializeTCP(s)) = TCPHeader(s) \o s.payload
<1> DEFINE v == SegmentValues(s)
           t == TCPHeader(s)
           n == Len(TCPWidths)
           l == TCPOffsets[n + 1]
<1>1. AreSegmentValues(v)
  BY SegmentValuesAre
<1>2. t = Serialized(v, TCPWidths)
  BY DEF TCPHeader
<1>3. n = 9 /\ l = 20
  BY TCPTable, TCPRows
<1>4. SerializeTCP(s) = Output(t, <<s.payload>>)
  BY SMT DEF SerializeTCP, TCPHeader, SegmentValues, FlagsOctet, TCPHeaderMinLen
<1> HIDE DEF v, t, n, l
<1>5. \A k \in 1 .. 9 : Fits(v[k], TCPWidths[k])
  <2> SUFFICES ASSUME NEW k \in 1 .. 9 PROVE Fits(v[k], TCPWidths[k])
    OBVIOUS
  <2>1. k = 1 \/ k = 2 \/ k = 3 \/ k = 4 \/ k = 5 \/ k = 6 \/ k = 7 \/ k = 8 \/ k = 9
    BY Nine
  <2> QED
    BY <1>1, <2>1, TCPRows DEF AreSegmentValues, Fits
<1>6. /\ t \in Strings /\ Len(t) = l
      /\ \A k \in 1 .. n : At(t, TCPOffsets[k], TCPWidths[k]) = v[k]
  <2>1. TCPWidths # <<>>
    BY DEF TCPWidths
  <2>2. TCPWidths \in Seq(Width) /\ Offsets(TCPOffsets, TCPWidths)
    BY TCPTable
  <2>3. \A k \in 1 .. Len(TCPWidths) : Fits(v[k], TCPWidths[k])
    BY <1>3, <1>5 DEF n
  <2>4. /\ Serialized(v, TCPWidths) \in Strings
        /\ Len(Serialized(v, TCPWidths)) = TCPOffsets[Len(TCPWidths) + 1]
        /\ \A k \in 1 .. Len(TCPWidths) :
             At(Serialized(v, TCPWidths), TCPOffsets[k], TCPWidths[k]) = v[k]
    BY <2>1, <2>2, <2>3, SerializedIs
  <2> QED
    BY <1>2, <2>4, Zenon DEF n, l
<1>7. t \in Strings /\ Len(t) = 20 /\ \A k \in 1 .. 9 : At(t, TCPOffsets[k], TCPWidths[k]) = v[k]
  BY <1>3, <1>6
<1>8. SerializeTCP(s) \in Seq(Strings) /\ FlattenSeq(SerializeTCP(s)) = t \o s.payload
  <2> DEFINE x == s.payload
             b == <<x>>
  <2>1. x \in Seq(Octet)
    BY DEF SegmentType, Strings
  <2> HIDE DEF x
  <2>2. b \in Seq(Seq(Octet)) /\ FlattenSeq(b) = x /\ t \in Seq(Octet)
    BY <1>7, <2>1, FlatOne DEF Strings
  <2> HIDE DEF b
  <2>3. Output(t, b) \in Seq(Seq(Octet)) /\ FlattenSeq(Output(t, b)) = t \o FlattenSeq(b)
    BY <2>2, FlatOutput
  <2>4. SerializeTCP(s) = Output(t, b)
    BY <1>4 DEF b, x
  <2> QED
    BY <2>2, <2>3, <2>4 DEF x, Strings
<1> QED
  BY <1>7, <1>8 DEF t, v

-----------------------------------------------------------------------------
\* TCP: what is accepted

LEMMA SomeWeight ==
    ASSUME NEW s \in Strings, NEW i \in 1 .. Len(s), s[i] # 0
    PROVE  Weight(s) > 0
<1> DEFINE l == Len(s)
           t == [s EXCEPT ![i] = 0]
<1>1. s \in Seq(Octet) /\ l \in Nat /\ i \in Nat /\ 0 \in Octet /\ s[i] \in Octet
  BY OctetIs DEF Strings
<1>2. t \in Strings /\ Len(t) = l /\ t[i] = 0 /\ \A k \in 1 .. l : k # i => s[k] = t[k]
  BY <1>1 DEF Strings
<1> HIDE DEF t
<1>3. Weight(t) - Weight(s) = Weighed(t[i], i) - Weighed(s[i], i)
  BY <1>2, WeightOneOff
<1>4. Weight(s) \in Nat /\ Weight(t) \in Nat
  BY <1>2, WeightType
<1> DEFINE a == s[i]
<1>5. a \in Int /\ 0 < a
  BY <1>1, OctetIs
<1>6. Weight(t) - Weight(s) = Weighed(0, i) - Weighed(a, i)
  BY <1>2, <1>3
<1> HIDE DEF a
<1>7. Weighed(0, i) = 0 /\ Weighed(a, i) > 0 /\ Weighed(a, i) \in Int
  BY <1>5, SMT DEF Weighed
<1> QED
  BY <1>4, <1>6, <1>7

Sound(s, pseudo) ==
    Len(s) >= 20 /\ At(s, 12, 1) \div 16 >= 5 /\ Vanishes(pseudo + Weight(s))

\* What TCPSegment::parse makes of any octets, for any sum of the pseudo
\* header: it refuses those that are too short, whose data offset is too small
\* or that do not add up, and drops the options otherwise
\* (tcp_segment.cc:11-62).
THEOREM SegmentRead ==
    ASSUME NEW b \in Buffers, NEW pseudo \in Nat
    PROVE  /\ Sound(FlattenSeq(b), pseudo) =>
                ParseTCP(b, pseudo) =
                  Valid(SegmentOf(SegmentIntegers(FlattenSeq(b)),
                                  Beyond(FlattenSeq(b), 4 * (At(FlattenSeq(b), 12, 1) \div 16))))
           /\ ~Sound(FlattenSeq(b), pseudo) => ParseTCP(b, pseudo) = Invalid
<1> DEFINE s == FlattenSeq(b)
           np == NewParser(b)
           all == Remaining(np)
           r == Integers_(np, TCPWidths)
           v == r.values
           c == Checksum(pseudo, all)
           n == Len(TCPWidths)
           l == TCPOffsets[n + 1]
<1>1. Parser(np) /\ ~np.error /\ Rest(np) = s /\ s \in Strings
  BY NewParserIs
<1>2. n = 9 /\ l = 20
  BY TCPTable, TCPRows
<1>3. ParseTCP(b, pseudo) =
        IF c # 0 \/ r.parser.error \/ v[5] \div 16 < 5 THEN Invalid
        ELSE Valid(SegmentOf(v, FlattenSeq(Remaining(RemovePrefix(r.parser, (v[5] \div 16) * 4 - 20)))))
  BY SMT DEF ParseTCP, SegmentOf, TCPHeaderMinLen
<1>4. FlattenSeq(all) = s
  BY <1>1, RemainingIs
<1> HIDE DEF s, np, all, v
<1>5. /\ Weight(s) \in Nat /\ (c = 0 => Vanishes(pseudo + Weight(s)))
      /\ Vanishes(pseudo + Weight(s)) /\ pseudo + Weight(s) > 0 => c = 0
  <2>1. FlattenSeq(all) \in Strings
    BY <1>1, <1>4
  <2>2. /\ Weight(FlattenSeq(all)) \in Nat
        /\ Checksum(pseudo, all) = 0 => Vanishes(pseudo + Weight(FlattenSeq(all)))
        /\ Vanishes(pseudo + Weight(FlattenSeq(all))) /\ pseudo + Weight(FlattenSeq(all)) > 0
             => Checksum(pseudo, all) = 0
    BY <2>1, ChecksumIs, Zenon
  <2> QED
    BY <1>4, <2>2, Zenon
<1>6. Len(s) \in Nat
  BY <1>1 DEF Strings
<1> HIDE DEF c
<1>7. CASE Len(s) < 20
  <2>1. r.parser.error
    <3>1. TCPWidths \in Seq(Width) /\ Offsets(TCPOffsets, TCPWidths)
      BY TCPTable
    <3>2. TCPOffsets[Len(TCPWidths) + 1] > Len(Rest(np))
      BY <1>1, <1>2, <1>7
    <3> QED
      BY <1>1, <3>1, <3>2, IntegersMissing
  <2>2. ~Sound(s, pseudo)
    BY <1>6, <1>7 DEF Sound
  <2> HIDE DEF r
  <2> QED
    BY <1>3, <2>1, <2>2 DEF s
<1>8. CASE Len(s) >= 20
  <2>1. PICK q, w : /\ r = [parser |-> q, values |-> w]
                    /\ Parser(q) /\ ~q.error /\ Rest(q) = Beyond(s, l)
                    /\ w \in Seq(Value) /\ Len(w) = n
                    /\ \A k \in 1 .. n : w[k] = At(s, TCPOffsets[k], TCPWidths[k])
    <3>1. TCPWidths \in Seq(Width) /\ Offsets(TCPOffsets, TCPWidths)
      BY TCPTable
    <3>2. TCPOffsets[Len(TCPWidths) + 1] <= Len(Rest(np))
      BY <1>1, <1>2, <1>8
    <3>3. \E q, w : /\ Integers_(np, TCPWidths) = [parser |-> q, values |-> w]
                    /\ Parser(q) /\ ~q.error
                    /\ Rest(q) = Beyond(Rest(np), TCPOffsets[Len(TCPWidths) + 1])
                    /\ w \in Seq(Value) /\ Len(w) = Len(TCPWidths)
                    /\ \A k \in 1 .. Len(TCPWidths) :
                         w[k] = At(Rest(np), TCPOffsets[k], TCPWidths[k])
      BY <1>1, <3>1, <3>2, IntegersAre, Zenon
    <3> QED
      BY <1>1, <3>3
  <2>2. r.parser = q /\ v = w /\ ~r.parser.error
    BY <2>1 DEF v
  <2>3. \A k \in 1 .. 9 : At(s, TCPOffsets[k], TCPWidths[k]) = w[k]
    <3> HIDE DEF n, l
    <3> QED
      BY <1>2, <2>1
  <2>4. Rest(q) = Beyond(s, 20) /\ Parser(q)
    BY <1>2, <2>1
  <2> HIDE DEF r
  <2>5. /\ At(s, 0, 2) = w[1] /\ At(s, 2, 2) = w[2] /\ At(s, 4, 4) = w[3]
        /\ At(s, 8, 4) = w[4] /\ At(s, 12, 1) = w[5] /\ At(s, 13, 1) = w[6]
        /\ At(s, 14, 2) = w[7] /\ At(s, 16, 2) = w[8] /\ At(s, 18, 2) = w[9]
    BY <2>3, SegmentRows
  <2> DEFINE d == At(s, 12, 1) \div 16
  <2>6. d \in Nat /\ (d >= 5 => pseudo + Weight(s) > 0)
    <3>1. At(s, 12, 1) \in Octet /\ At(s, 12, 1) = s[13]
      <4>1. 12 \in Nat /\ 1 \in Width /\ 12 + 1 <= Len(s)
        BY <1>8, <1>6 DEF Width
      <4>2. At(s, 12, 1) = s[12 + 1]
        BY DEF At
      <4> QED
        BY <1>1, <4>1, <4>2, AtType
    <3>2. d \in Nibble
      BY <3>1, OctetNibbles
    <3>3. d \in Nat
      BY <3>2, NibbleIs
    <3>4. s[13] = 0 => d = 0
      <4>1. 0 \div 16 = 0
        BY SMT
      <4> QED
        BY <3>1, <4>1
    <3>5. s[13] # 0 => Weight(s) > 0
      <4>1. 13 \in 1 .. Len(s)
        BY <1>6, <1>8
      <4> QED
        BY <1>1, <4>1, SomeWeight
    <3> HIDE DEF d
    <3> QED
      BY <1>5, <3>3, <3>4, <3>5
  <2>7. Sound(s, pseudo) <=> ~(c # 0 \/ r.parser.error \/ v[5] \div 16 < 5)
    <3>1. v[5] \div 16 = d
      BY <2>2, <2>5
    <3>2. Sound(s, pseudo) <=> d >= 5 /\ Vanishes(pseudo + Weight(s))
      BY <1>8 DEF Sound
    <3> HIDE DEF d
    <3> QED
      BY <1>5, <2>2, <2>6, <3>1, <3>2
  <2>8. SegmentOf(v, Beyond(s, 4 * d)) = SegmentOf(SegmentIntegers(s), Beyond(s, 4 * d))
    <3> HIDE DEF d
    <3> QED
      BY <2>2, <2>5, SMT DEF SegmentOf, SegmentIntegers
  <2>9. d >= 5 => FlattenSeq(Remaining(RemovePrefix(r.parser, (v[5] \div 16) * 4 - 20))) = Beyond(s, 4 * d)
    <3> SUFFICES ASSUME d >= 5
                 PROVE  FlattenSeq(Remaining(RemovePrefix(r.parser, (v[5] \div 16) * 4 - 20))) = Beyond(s, 4 * d)
      OBVIOUS
    <3>0. v[5] \div 16 = d
      BY <2>2, <2>5
    <3> HIDE DEF d
    <3> DEFINE m == d * 4 - 20
    <3>1. m \in Nat /\ 20 + m = 4 * d
      BY <2>6
    <3> HIDE DEF m
    <3>2. Parser(RemovePrefix(q, m)) /\ Rest(RemovePrefix(q, m)) = Beyond(Beyond(s, 20), m)
      BY <2>4, <3>1, RemovesFirst
    <3>3. Beyond(Beyond(s, 20), m) = Beyond(s, 20 + m)
      BY <1>1, <3>1, BeyondBeyond DEF Strings
    <3>4. FlattenSeq(Remaining(RemovePrefix(q, m))) = Rest(RemovePrefix(q, m))
      BY <3>2, RemainingIs
    <3> QED
      BY <2>2, <3>0, <3>1, <3>2, <3>3, <3>4 DEF m
  <2>10. Sound(s, pseudo) => d >= 5
    BY DEF Sound
  <2>11. Sound(s, pseudo) => ParseTCP(b, pseudo) = Valid(SegmentOf(SegmentIntegers(s), Beyond(s, 4 * d)))
    <3> HIDE DEF d
    <3> QED
      BY <1>3, <2>7, <2>8, <2>9, <2>10, Zenon
  <2>12. ~Sound(s, pseudo) => ParseTCP(b, pseudo) = Invalid
    BY <1>3, <2>7, Zenon
  <2> QED
    BY <2>11, <2>12, Zenon DEF s
<1>9. Len(s) < 20 \/ Len(s) >= 20
  BY <1>6
<1> HIDE DEF r
<1> QED
  BY <1>7, <1>8, <1>9, Zenon

-----------------------------------------------------------------------------
\* A segment on its way

MessageType ==
    [seqno : Word \X Word, ackno : (Word \X Word) \union {NoAckno},
     reset : BOOLEAN, SYN : BOOLEAN, FIN : BOOLEAN, window_size : Word, payload : Strings]

\* The string has the fields of the message, the options and the payload.
Bare(t, m, options) ==
    /\ t \in Strings /\ Len(t) = (20 + Len(options)) + Len(m.payload)
    /\ At(t, 12, 1) = 16 * (5 + (Len(options) \div 4))
    /\ Beyond(t, 20) = options \o m.payload
    /\ At(t, 0, 2) = Source.port /\ At(t, 2, 2) = Destination.port
    /\ WithoutPorts(SegmentOf(SegmentIntegers(t), m.payload)) = m

CarriesSegment(t, m, options, pseudo) == Bare(t, m, options) /\ Vanishes(pseudo + Weight(t))

LEMMA BareLength ==
    ASSUME NEW s, NEW m \in MessageType, NEW options \in Strings, Bare(s, m, options)
    PROVE  /\ s \in Strings /\ Len(s) \in Nat /\ Len(s) >= 20
           /\ m.payload \in Strings /\ Len(m.payload) \in Nat /\ Len(options) \in Nat
           /\ Len(s) = (20 + Len(options)) + Len(m.payload)
<1> DEFINE a == Len(options)
           b == Len(m.payload)
           l == Len(s)
<1>1. m.payload \in Strings
  BY DEF MessageType
<1>2. a \in Nat /\ b \in Nat
  BY <1>1 DEF Strings
<1>3. s \in Strings /\ l = (20 + a) + b
  BY DEF Bare
<1> HIDE DEF a, b, l
<1>4. l \in Nat /\ l >= 20
  BY <1>2, <1>3
<1> QED
  BY <1>1, <1>2, <1>3, <1>4 DEF a, b, l

LEMMA BareSame ==
    ASSUME NEW s, NEW m \in MessageType, NEW options \in Strings, Bare(s, m, options),
           NEW t \in Strings, Len(t) = Len(s),
           \A j \in 1 .. Len(s) : j <= 16 \/ j > 18 => s[j] = t[j]
    PROVE  Bare(t, m, options)
<1> DEFINE l == Len(s)
<1>0. /\ s \in Seq(Octet) /\ t \in Seq(Octet) /\ l \in Nat /\ l >= 20
      /\ m.payload \in Seq(Octet) /\ Len(options) \in Nat /\ Len(m.payload) \in Nat
  BY BareLength DEF Strings
<1>1. \A j \in 1 .. 16 : t[j] = s[j]
  <2> SUFFICES ASSUME NEW j \in 1 .. 16 PROVE t[j] = s[j]
    OBVIOUS
  <2>1. j \in 1 .. Len(s) /\ j <= 16
    BY <1>0
  <2> QED
    BY <2>1
<1>2. /\ At(t, 0, 2) = At(s, 0, 2) /\ At(t, 2, 2) = At(s, 2, 2) /\ At(t, 4, 4) = At(s, 4, 4)
      /\ At(t, 8, 4) = At(s, 8, 4) /\ At(t, 12, 1) = At(s, 12, 1) /\ At(t, 13, 1) = At(s, 13, 1)
      /\ At(t, 14, 2) = At(s, 14, 2)
  <2>1. /\ t[1] = s[1] /\ t[2] = s[2] /\ t[3] = s[3] /\ t[4] = s[4] /\ t[5] = s[5] /\ t[6] = s[6]
        /\ t[7] = s[7] /\ t[8] = s[8] /\ t[9] = s[9] /\ t[10] = s[10] /\ t[11] = s[11]
        /\ t[12] = s[12] /\ t[13] = s[13] /\ t[14] = s[14] /\ t[15] = s[15] /\ t[16] = s[16]
    BY <1>1
  <2>2. ASSUME NEW o \in Nat, NEW w \in Width, o + w <= 16 PROVE At(t, o, w) = At(s, o, w)
    <3>1. w \in 1 .. 4
      BY DEF Width
    <3>2. \A k \in 1 .. w : t[o + k] = s[o + k]
      <4> SUFFICES ASSUME NEW k \in 1 .. w PROVE t[o + k] = s[o + k]
        OBVIOUS
      <4>0. w \in Int /\ k \in Int /\ 1 <= k /\ k <= w /\ o \in Nat /\ o + w <= 16
        BY <2>2, <3>1
      <4>1. o + k \in 1 .. 16
        BY <4>0
      <4> QED
        BY <1>1, <4>1
    <3> QED
      BY <3>2, AtSame
  <2>3. 1 \in Width /\ 2 \in Width /\ 4 \in Width
    BY DEF Width
  <2>4. /\ \A o \in Nat : o + 1 <= 16 => At(t, o, 1) = At(s, o, 1)
        /\ \A o \in Nat : o + 2 <= 16 => At(t, o, 2) = At(s, o, 2)
        /\ \A o \in Nat : o + 4 <= 16 => At(t, o, 4) = At(s, o, 4)
    BY <2>2, <2>3
  <2>5. /\ At(t, 0, 2) = At(s, 0, 2) /\ At(t, 2, 2) = At(s, 2, 2) /\ At(t, 14, 2) = At(s, 14, 2)
    BY <2>4
  <2>6. At(t, 12, 1) = At(s, 12, 1) /\ At(t, 13, 1) = At(s, 13, 1)
    BY <2>4
  <2>7. At(t, 4, 4) = At(s, 4, 4) /\ At(t, 8, 4) = At(s, 8, 4)
    BY <2>4
  <2> QED
    BY <2>5, <2>6, <2>7
<1>3. Beyond(t, 20) = Beyond(s, 20)
  <2>1. 20 \in 0 .. Len(s) /\ 20 \in 0 .. Len(t)
    BY <1>0
  <2>2. /\ Beyond(s, 20) \in Seq(Octet) /\ Len(Beyond(s, 20)) = l - 20
        /\ \A k \in 1 .. l - 20 : Beyond(s, 20)[k] = s[20 + k]
    BY <1>0, <2>1, BeyondIs
  <2>3. /\ Beyond(t, 20) \in Seq(Octet) /\ Len(Beyond(t, 20)) = Len(t) - 20
        /\ \A k \in 1 .. Len(t) - 20 : Beyond(t, 20)[k] = t[20 + k]
    BY <1>0, <2>1, BeyondIs
  <2> DEFINE x == Beyond(s, 20)
             y == Beyond(t, 20)
  <2>4. \A k \in 1 .. l - 20 : s[20 + k] = t[20 + k]
    <3> SUFFICES ASSUME NEW k \in 1 .. l - 20 PROVE s[20 + k] = t[20 + k]
      OBVIOUS
    <3>1. 20 + k \in 1 .. Len(s) /\ 20 + k > 18
      BY <1>0
    <3> QED
      BY <3>1
  <2>5. x \in Seq(Octet) /\ y \in Seq(Octet) /\ Len(x) = Len(y) /\ \A k \in 1 .. Len(x) : x[k] = y[k]
    BY <2>2, <2>3, <2>4, SMTT(60)
  <2> HIDE DEF x, y
  <2>6. x = y
    BY <2>5, SameString
  <2> QED
    BY <2>6 DEF x, y
<1>4. WithoutPorts(SegmentOf(SegmentIntegers(t), m.payload))
        = WithoutPorts(SegmentOf(SegmentIntegers(s), m.payload))
  <2> DEFINE v == SegmentIntegers(t)
             w == SegmentIntegers(s)
  <2>1. v[3] = w[3] /\ v[4] = w[4] /\ v[6] = w[6] /\ v[7] = w[7]
    BY <1>2 DEF SegmentIntegers
  <2> HIDE DEF v, w
  <2>2. WithoutPorts(SegmentOf(v, m.payload)) = WithoutPorts(SegmentOf(w, m.payload))
    BY <2>1 DEF WithoutPorts, SegmentOf
  <2> QED
    BY <2>2 DEF v, w
<1> QED
  BY <1>2, <1>3, <1>4 DEF Bare

\* A segment into which its checksum is written.
LEMMA Finished ==
    ASSUME NEW s, NEW m \in MessageType, NEW options \in Strings, Bare(s, m, options),
           At(s, 16, 2) = 0, NEW t \in Strings, Len(t) = Len(s),
           \A j \in 1 .. Len(s) : j <= 16 \/ j > 18 => s[j] = t[j],
           NEW pseudo \in Nat, NEW c \in Word, Vanishes((pseudo + Weight(s)) + c),
           At(t, 16, 2) = c
    PROVE  CarriesSegment(t, m, options, pseudo)
<1>1. Bare(t, m, options)
  BY BareSame
<1>2. s \in Strings /\ 16 + 2 <= Len(s)
  <2>1. s \in Strings /\ Len(s) \in Nat /\ Len(s) >= 20
    BY BareLength
  <2> QED
    BY <2>1
<1> DEFINE e == 8
           o == 16
<1>3. e \in Nat /\ o = 2 * e /\ o + 2 <= Len(s) /\ \A j \in 1 .. Len(s) : j <= o \/ j > o + 2 => s[j] = t[j]
  BY <1>2
<1>4. At(s, o, 2) = 0 /\ At(t, o, 2) = c
  OBVIOUS
<1> HIDE DEF e, o
<1>5. Weight(t) - At(t, o, 2) = Weight(s) - At(s, o, 2)
  BY <1>2, <1>3, WordWeight
<1>6. Weight(s) \in Nat /\ Weight(t) \in Nat /\ c \in Int
  BY <1>2, WeightType, WordIs
<1> DEFINE x == Weight(s)
           y == Weight(t)
<1>7. x \in Nat /\ y \in Nat /\ y - c = x - 0
  BY <1>4, <1>5, <1>6
<1> HIDE DEF x, y
<1>8. pseudo + y = (pseudo + x) + c
  BY <1>6, <1>7
<1>9. Vanishes(pseudo + y)
  <2>1. Vanishes((pseudo + x) + c)
    BY DEF x
  <2> QED
    BY <1>8, <2>1, Zenon
<1> QED
  BY <1>1, <1>9 DEF CarriesSegment, y

LEMMA PortsType ==
    ASSUME WireAssumption, NEW m \in MessageType
    PROVE  WithPorts(m) \in SegmentType /\ WithPorts(m).payload = m.payload /\ WithPorts(m).cksum = 0
           /\ WithPorts(m).src_port = Source.port /\ WithPorts(m).dst_port = Destination.port
           /\ \A p : WithoutPorts([WithPorts(m) EXCEPT !.payload = p]) = [m EXCEPT !.payload = p]
           /\ Source.ip \in Word \X Word /\ Destination.ip \in Word \X Word
<1>1. Source \in [ip : IPAddress, port : Word] /\ Destination \in [ip : IPAddress, port : Word]
  BY ZenonT(60) DEF WireAssumption
<1>2. Source.port \in Word /\ Destination.port \in Word
      /\ Source.ip \in Word \X Word /\ Destination.ip \in Word \X Word
  BY <1>1 DEF IPAddress
<1>3. 0 \in Word
  BY WordIs
<1>4. WithPorts(m) \in SegmentType
  BY <1>2, <1>3 DEF WithPorts, SegmentType, MessageType
<1>5. \A p : WithoutPorts([WithPorts(m) EXCEPT !.payload = p]) = [m EXCEPT !.payload = p]
  BY DEF WithPorts, WithoutPorts, MessageType
<1> QED
  BY <1>2, <1>4, <1>5 DEF WithPorts

-----------------------------------------------------------------------------
\* Segments as they are written

LEMMA BareHeader ==
    ASSUME NEW x \in Strings, Len(x) = 20, NEW m \in MessageType, NEW options \in Strings,
           At(x, 12, 1) = 16 * (5 + (Len(options) \div 4)),
           At(x, 0, 2) = Source.port, At(x, 2, 2) = Destination.port,
           WithoutPorts(SegmentOf(SegmentIntegers(x), m.payload)) = m
    PROVE  /\ Bare(x \o (options \o m.payload), m, options)
           /\ At(x \o (options \o m.payload), 16, 2) = At(x, 16, 2)
<1> DEFINE p == m.payload
           y == options \o p
           t == x \o y
<1>1. p \in Strings /\ p \in Seq(Octet) /\ options \in Seq(Octet) /\ x \in Seq(Octet)
  BY DEF MessageType, Strings
<1>2. y \in Seq(Octet) /\ y \in Strings /\ Len(y) = Len(options) + Len(p)
  BY <1>1, JoinIs DEF Strings
<1> HIDE DEF p
<1>3. Len(options) \in Nat /\ Len(p) \in Nat
  BY <1>1
<1> HIDE DEF y
<1>4. t \in Strings /\ Len(t) = Len(x) + Len(y)
  <2>1. x \o y \in Seq(Octet) /\ Len(x \o y) = Len(x) + Len(y)
    BY <1>2, JoinOctets
  <2> QED
    BY <2>1 DEF Strings
<1>5. Beyond(x \o y, Len(x)) = y
  BY <1>1, <1>2, JoinedParts
<1>6. ASSUME NEW o \in Nat, NEW w \in Width, o + w <= 20 PROVE At(t, o, w) = At(x, o, w)
  <2>1. o + w <= Len(x)
    BY <1>6
  <2> QED
    BY <1>2, <2>1, AtLeft
<1>7. 1 \in Width /\ 2 \in Width /\ 4 \in Width
  BY DEF Width
<1> HIDE DEF t
<1>8. /\ \A o \in Nat : o + 1 <= 20 => At(t, o, 1) = At(x, o, 1)
      /\ \A o \in Nat : o + 2 <= 20 => At(t, o, 2) = At(x, o, 2)
      /\ \A o \in Nat : o + 4 <= 20 => At(t, o, 4) = At(x, o, 4)
  BY <1>6, <1>7
<1>9. /\ At(t, 0, 2) = At(x, 0, 2) /\ At(t, 2, 2) = At(x, 2, 2) /\ At(t, 14, 2) = At(x, 14, 2)
      /\ At(t, 16, 2) = At(x, 16, 2) /\ At(t, 18, 2) = At(x, 18, 2)
      /\ At(t, 12, 1) = At(x, 12, 1) /\ At(t, 13, 1) = At(x, 13, 1)
      /\ At(t, 4, 4) = At(x, 4, 4) /\ At(t, 8, 4) = At(x, 8, 4)
  BY <1>8
<1>10. SegmentIntegers(t) = SegmentIntegers(x)
  BY <1>9 DEF SegmentIntegers
<1>11. Len(t) = (20 + Len(options)) + Len(p)
  BY <1>2, <1>3, <1>4
<1>12. Beyond(t, 20) = y
  BY <1>5 DEF t
<1>13. Bare(t, m, options)
  <2>1. WithoutPorts(SegmentOf(SegmentIntegers(t), m.payload)) = m
    BY <1>10
  <2>2. At(t, 12, 1) = 16 * (5 + (Len(options) \div 4)) /\ At(t, 0, 2) = Source.port
        /\ At(t, 2, 2) = Destination.port
    BY <1>9
  <2> QED
    BY <1>4, <1>11, <1>12, <2>1, <2>2 DEF Bare, p, y
<1> QED
  BY <1>9, <1>13 DEF t, y, p

Plain(m, c) == [WithPorts(m) EXCEPT !.cksum = c]

LEMMA PlainHeader ==
    ASSUME WireAssumption, NEW m \in MessageType, NEW c \in Word
    PROVE  /\ Plain(m, c) \in SegmentType
           /\ TCPHeader(Plain(m, c)) \in Strings /\ Len(TCPHeader(Plain(m, c))) = 20
           /\ At(TCPHeader(Plain(m, c)), 12, 1) = 80 /\ At(TCPHeader(Plain(m, c)), 16, 2) = c
           /\ At(TCPHeader(Plain(m, c)), 0, 2) = Source.port
           /\ At(TCPHeader(Plain(m, c)), 2, 2) = Destination.port
           /\ WithoutPorts(SegmentOf(SegmentIntegers(TCPHeader(Plain(m, c))), m.payload)) = m
           /\ SerializeTCP(Plain(m, c)) \in Seq(Strings)
           /\ FlattenSeq(SerializeTCP(Plain(m, c))) = TCPHeader(Plain(m, c)) \o m.payload
<1> DEFINE s == Plain(m, c)
           x == TCPHeader(s)
           v == SegmentValues(s)
           w == SegmentIntegers(x)
<1>1. /\ WithPorts(m) \in SegmentType /\ WithPorts(m).payload = m.payload
      /\ WithPorts(m).src_port = Source.port /\ WithPorts(m).dst_port = Destination.port
  BY PortsType
<1>2. s \in SegmentType /\ s.cksum = c /\ s.payload = m.payload
      /\ s.src_port = Source.port /\ s.dst_port = Destination.port
  <2> DEFINE u == WithPorts(m)
  <2>1. u \in SegmentType /\ u.payload = m.payload
        /\ u.src_port = Source.port /\ u.dst_port = Destination.port /\ s = [u EXCEPT !.cksum = c]
    BY <1>1 DEF Plain
  <2> HIDE DEF u, s
  <2>2. u \in SegmentType /\ c \in Word
    BY <2>1
  <2>3. [u EXCEPT !.cksum = c] \in SegmentType
    BY <2>2 DEF SegmentType
  <2>4. /\ [u EXCEPT !.cksum = c].cksum = c /\ [u EXCEPT !.cksum = c].payload = u.payload
        /\ [u EXCEPT !.cksum = c].src_port = u.src_port
        /\ [u EXCEPT !.cksum = c].dst_port = u.dst_port
    BY <2>2 DEF SegmentType
  <2> QED
    BY <2>1, <2>3, <2>4
<1>9. WithoutPorts([s EXCEPT !.payload = m.payload]) = m
  BY DEF Plain, WithoutPorts, WithPorts, MessageType
<1> HIDE DEF s
<1>3. /\ x \in Strings /\ Len(x) = 20
      /\ \A k \in 1 .. 9 : At(x, TCPOffsets[k], TCPWidths[k]) = v[k]
      /\ SerializeTCP(s) \in Seq(Strings)
      /\ FlattenSeq(SerializeTCP(s)) = x \o s.payload
  BY <1>2, SegmentWritten
<1>4. v[5] = 80 /\ v[8] = s.cksum /\ \A p : SegmentOf(v, p) = [s EXCEPT !.payload = p]
  BY <1>2, SegmentValuesAre
<1>5. v[1] = s.src_port /\ v[2] = s.dst_port
  BY DEF SegmentValues
<1> HIDE DEF x, v
<1>6. /\ At(x, 0, 2) = v[1] /\ At(x, 2, 2) = v[2] /\ At(x, 4, 4) = v[3]
      /\ At(x, 8, 4) = v[4] /\ At(x, 12, 1) = v[5] /\ At(x, 13, 1) = v[6]
      /\ At(x, 14, 2) = v[7] /\ At(x, 16, 2) = v[8] /\ At(x, 18, 2) = v[9]
  <2>1. \A k \in 1 .. 9 : At(x, TCPOffsets[k], TCPWidths[k]) = v[k]
    BY <1>3
  <2> QED
    BY <2>1, SegmentRows
<1>7. /\ w[1] = v[1] /\ w[2] = v[2] /\ w[3] = v[3] /\ w[4] = v[4] /\ w[6] = v[6]
      /\ w[7] = v[7] /\ w[8] = v[8]
  BY <1>6 DEF SegmentIntegers
<1> HIDE DEF w
<1>8. SegmentOf(w, m.payload) = SegmentOf(v, m.payload)
  BY <1>7 DEF SegmentOf
<1>10. WithoutPorts(SegmentOf(w, m.payload)) = m
  BY <1>4, <1>8, <1>9
<1> QED
  <2>1. At(x, 12, 1) = 80 /\ At(x, 16, 2) = c
        /\ At(x, 0, 2) = Source.port /\ At(x, 2, 2) = Destination.port
    BY <1>2, <1>4, <1>5, <1>6
  <2>2. FlattenSeq(SerializeTCP(s)) = x \o m.payload
    BY <1>2, <1>3, Zenon
  <2> QED
    BY <1>2, <1>3, <1>10, <2>1, <2>2, Zenon DEF s, x, w

LEMMA NoOptions ==
    /\ <<>> \in Strings /\ Len(<<>>) = 0 /\ 16 * (5 + (Len(<<>>) \div 4)) = 80
    /\ \A p \in Strings : <<>> \o p = p
<1>1. <<>> \in Strings /\ Len(<<>>) = 0
  BY DEF Strings
<1>2. 16 * (5 + (0 \div 4)) = 80
  BY SMT
<1>3. ASSUME NEW p \in Strings PROVE <<>> \o p = p
  BY DEF Strings
<1> QED
  BY <1>1, <1>2, <1>3

LEMMA ButTheChecksum ==
    ASSUME NEW s \in Strings, NEW t \in Strings, Len(s) = 20, Len(t) = 20,
           \A k \in 1 .. 9 : k # 8 =>
             At(s, TCPOffsets[k], TCPWidths[k]) = At(t, TCPOffsets[k], TCPWidths[k])
    PROVE  \A j \in 1 .. 20 : j <= 16 \/ j > 18 => s[j] = t[j]
<1> DEFINE n == Len(TCPWidths)
           i == 8
<1>1. n = 9 /\ TCPOffsets[n + 1] = 20 /\ i \in 1 .. n /\ TCPOffsets[i] = 16 /\ TCPWidths[i] = 2
  BY TCPTable, TCPRows
<1>2. \A k \in 1 .. n : k # i => At(s, TCPOffsets[k], TCPWidths[k]) = At(t, TCPOffsets[k], TCPWidths[k])
  BY <1>1
<1>3. TCPWidths \in Seq(Width) /\ Offsets(TCPOffsets, TCPWidths)
  BY TCPTable
<1>4. Len(s) = TCPOffsets[n + 1] /\ Len(t) = TCPOffsets[n + 1]
  BY <1>1
<1> HIDE DEF i
<1>5. \A j \in 1 .. Len(s) : j <= TCPOffsets[i] \/ j > TCPOffsets[i] + TCPWidths[i] => s[j] = t[j]
  BY <1>1, <1>2, <1>3, <1>4, SameBut
<1> QED
  BY <1>1, <1>5

\* wrap_tcp_in_ip: the segment and its checksum.
LEMMA PlainWritten ==
    ASSUME WireAssumption, NEW m \in MessageType, NEW pseudo \in Nat
    PROVE  /\ SerializeTCP(ComputeTCPChecksum(WithPorts(m), pseudo)) \in Seq(Strings)
           /\ CarriesSegment(FlattenSeq(SerializeTCP(ComputeTCPChecksum(WithPorts(m), pseudo))),
                             m, <<>>, pseudo)
<1> DEFINE s0 == Plain(m, 0)
           b0 == SerializeTCP(s0)
           t0 == FlattenSeq(b0)
           x0 == TCPHeader(s0)
           c == Checksum(pseudo, b0)
           s == Plain(m, c)
           b == SerializeTCP(s)
           t == FlattenSeq(b)
           x == TCPHeader(s)
           p == m.payload
<1>0. ComputeTCPChecksum(WithPorts(m), pseudo) = s
  BY Zenon DEF ComputeTCPChecksum, Plain
<1>1. 0 \in Word
  BY WordIs
<1>2. /\ x0 \in Strings /\ Len(x0) = 20 /\ At(x0, 12, 1) = 80 /\ At(x0, 16, 2) = 0
      /\ At(x0, 0, 2) = Source.port /\ At(x0, 2, 2) = Destination.port
      /\ WithoutPorts(SegmentOf(SegmentIntegers(x0), p)) = m /\ s0 \in SegmentType
      /\ b0 \in Seq(Strings) /\ t0 = x0 \o p
  <2>1. 0 \in Word
    BY <1>1
  <2>2. /\ Plain(m, 0) \in SegmentType
        /\ TCPHeader(Plain(m, 0)) \in Strings /\ Len(TCPHeader(Plain(m, 0))) = 20
        /\ At(TCPHeader(Plain(m, 0)), 12, 1) = 80 /\ At(TCPHeader(Plain(m, 0)), 16, 2) = 0
        /\ At(TCPHeader(Plain(m, 0)), 0, 2) = Source.port
        /\ At(TCPHeader(Plain(m, 0)), 2, 2) = Destination.port
        /\ WithoutPorts(SegmentOf(SegmentIntegers(TCPHeader(Plain(m, 0))), m.payload)) = m
        /\ SerializeTCP(Plain(m, 0)) \in Seq(Strings)
        /\ FlattenSeq(SerializeTCP(Plain(m, 0))) = TCPHeader(Plain(m, 0)) \o m.payload
    BY <2>1, PlainHeader, SMTT(60)
  <2> QED
    BY <2>2, Zenon
<1>3. p \in Strings /\ p \in Seq(Octet)
  BY DEF MessageType, Strings
<1>4. t0 \in Strings
  <2> HIDE DEF x0, t0, p
  <2> QED
    <3>1. x0 \in Strings /\ Len(x0) = 20 /\ t0 = x0 \o p
      BY <1>2
    <3>2. /\ x0 \o p \in Seq(Octet) /\ Len(x0 \o p) = Len(x0) + Len(p)
          /\ \A k \in 1 .. Len(x0) : (x0 \o p)[k] = x0[k]
          /\ \A k \in 1 .. Len(p) : (x0 \o p)[Len(x0) + k] = p[k]
      BY <1>3, <3>1, JoinOctets, Zenon
    <3>3. Len(p) \in Nat
      BY <1>3
    <3> QED
      BY <3>1, <3>2, <3>3 DEF Strings
<1>5. c \in Word /\ Vanishes((pseudo + Weight(t0)) + c)
  <2>1. FlattenSeq(b0) \in Strings
    BY <1>4
  <2>2. Checksum(pseudo, b0) \in Word
        /\ Vanishes((pseudo + Weight(FlattenSeq(b0))) + Checksum(pseudo, b0))
    BY <2>1, ChecksumIs, ZenonT(60)
  <2> QED
    BY <2>2, Zenon
<1> HIDE DEF c
<1>6. /\ x \in Strings /\ Len(x) = 20 /\ At(x, 12, 1) = 80 /\ At(x, 16, 2) = c
      /\ At(x, 0, 2) = Source.port /\ At(x, 2, 2) = Destination.port
      /\ WithoutPorts(SegmentOf(SegmentIntegers(x), p)) = m /\ s \in SegmentType
      /\ b \in Seq(Strings) /\ t = x \o p
  <2>1. c \in Word
    BY <1>5
  <2>2. /\ Plain(m, c) \in SegmentType
        /\ TCPHeader(Plain(m, c)) \in Strings /\ Len(TCPHeader(Plain(m, c))) = 20
        /\ At(TCPHeader(Plain(m, c)), 12, 1) = 80 /\ At(TCPHeader(Plain(m, c)), 16, 2) = c
        /\ At(TCPHeader(Plain(m, c)), 0, 2) = Source.port
        /\ At(TCPHeader(Plain(m, c)), 2, 2) = Destination.port
        /\ WithoutPorts(SegmentOf(SegmentIntegers(TCPHeader(Plain(m, c))), m.payload)) = m
        /\ SerializeTCP(Plain(m, c)) \in Seq(Strings)
        /\ FlattenSeq(SerializeTCP(Plain(m, c))) = TCPHeader(Plain(m, c)) \o m.payload
    BY <2>1, PlainHeader, SMTT(60)
  <2> QED
    BY <2>2, Zenon
<1>7. \A j \in 1 .. 20 : j <= 16 \/ j > 18 => x0[j] = x[j]
  <2>1. \A k \in 1 .. 9 : k # 8 =>
          At(x0, TCPOffsets[k], TCPWidths[k]) = At(x, TCPOffsets[k], TCPWidths[k])
    <3>1. \A k \in 1 .. 9 : /\ At(x0, TCPOffsets[k], TCPWidths[k]) = SegmentValues(s0)[k]
                            /\ At(x, TCPOffsets[k], TCPWidths[k]) = SegmentValues(s)[k]
      <4>1. s0 \in SegmentType /\ s \in SegmentType
        BY <1>2, <1>6
      <4> HIDE DEF s0, s
      <4> QED
        BY <4>1, SegmentWritten, ZenonT(60)
    <3>2. \A k \in 1 .. 9 : k # 8 => SegmentValues(s0)[k] = SegmentValues(s)[k]
      <4>1. /\ s0.src_port = s.src_port /\ s0.dst_port = s.dst_port /\ s0.seqno = s.seqno
            /\ s0.ackno = s.ackno /\ s0.reset = s.reset /\ s0.SYN = s.SYN /\ s0.FIN = s.FIN
            /\ s0.window_size = s.window_size
        BY DEF Plain, WithPorts
      <4> HIDE DEF s0, s
      <4> DEFINE y0 == SegmentValues(s0)
                 y == SegmentValues(s)
      <4>3. /\ y0[1] = y[1] /\ y0[2] = y[2] /\ y0[3] = y[3] /\ y0[4] = y[4] /\ y0[5] = y[5]
            /\ y0[6] = y[6] /\ y0[7] = y[7] /\ y0[9] = y[9]
        BY <4>1 DEF SegmentValues
      <4> HIDE DEF y0, y
      <4>4. \A k \in 1 .. 9 : k # 8 => y0[k] = y[k]
        <5> SUFFICES ASSUME NEW k \in 1 .. 9, k # 8 PROVE y0[k] = y[k]
          OBVIOUS
        <5>1. k = 1 \/ k = 2 \/ k = 3 \/ k = 4 \/ k = 5 \/ k = 6 \/ k = 7 \/ k = 9
          BY Nine
        <5> QED
          BY <4>3, <5>1
      <4> QED
        BY <4>4 DEF y0, y
    <3> HIDE DEF x0, x
    <3> QED
      BY <3>1, <3>2
  <2> HIDE DEF x0, x
  <2>2. x0 \in Strings /\ x \in Strings /\ Len(x0) = 20 /\ Len(x) = 20
    BY <1>2, <1>6, Zenon
  <2> QED
    BY <2>1, <2>2, ButTheChecksum, Zenon
<1>8. 16 * (5 + (Len(<<>>) \div 4)) = 80 /\ <<>> \in Strings /\ <<>> \o p = p
  BY <1>3, NoOptions
<1> HIDE DEF s0, b0, s, b
<1> USE DEF t0, t
<1> HIDE DEF t0, t, x0, x
<1>9. Bare(t0, m, <<>>) /\ At(t0, 16, 2) = 0
  <2>1. /\ Bare(x0 \o (<<>> \o p), m, <<>>)
        /\ At(x0 \o (<<>> \o p), 16, 2) = At(x0, 16, 2)
    <3>1. /\ x0 \in Strings /\ Len(x0) = 20 /\ At(x0, 12, 1) = 16 * (5 + (Len(<<>>) \div 4))
          /\ At(x0, 0, 2) = Source.port /\ At(x0, 2, 2) = Destination.port
          /\ WithoutPorts(SegmentOf(SegmentIntegers(x0), m.payload)) = m
      BY <1>2, <1>8, Zenon
    <3> QED
      BY <1>8, <3>1, BareHeader, Zenon DEF p
  <2> QED
    BY <1>2, <1>8, <2>1
<1>10. t \in Strings /\ Len(t) = Len(t0)
       /\ \A j \in 1 .. Len(t0) : j <= 16 \/ j > 18 => t0[j] = t[j]
  <2> HIDE DEF p
  <2>1. /\ t0 \in Strings /\ Len(t0) = 20 + Len(p) /\ Len(p) \in Nat
        /\ \A k \in 1 .. 20 : t0[k] = x0[k]
        /\ \A k \in 1 .. Len(p) : t0[20 + k] = p[k]
    <3>1. x0 \in Strings /\ Len(x0) = 20 /\ t0 = x0 \o p
      BY <1>2
    <3>2. /\ x0 \o p \in Seq(Octet) /\ Len(x0 \o p) = Len(x0) + Len(p)
          /\ \A k \in 1 .. Len(x0) : (x0 \o p)[k] = x0[k]
          /\ \A k \in 1 .. Len(p) : (x0 \o p)[Len(x0) + k] = p[k]
      BY <1>3, <3>1, JoinOctets, Zenon
    <3>3. Len(p) \in Nat
      BY <1>3
    <3>4. /\ t0 \in Seq(Octet) /\ Len(t0) = Len(x0) + Len(p)
          /\ \A k \in 1 .. Len(x0) : t0[k] = x0[k]
          /\ \A k \in 1 .. Len(p) : t0[Len(x0) + k] = p[k]
      BY <3>1, <3>2, ZenonT(60)
    <3>5. t0 \in Strings
      BY <3>4, Zenon DEF Strings
    <3> QED
      BY <3>1, <3>3, <3>4, <3>5, ZenonT(60)
  <2>2. /\ t \in Strings /\ Len(t) = 20 + Len(p)
        /\ \A k \in 1 .. 20 : t[k] = x[k]
        /\ \A k \in 1 .. Len(p) : t[20 + k] = p[k]
    <3>1. x \in Strings /\ Len(x) = 20 /\ t = x \o p
      BY <1>6
    <3>2. /\ x \o p \in Seq(Octet) /\ Len(x \o p) = Len(x) + Len(p)
          /\ \A k \in 1 .. Len(x) : (x \o p)[k] = x[k]
          /\ \A k \in 1 .. Len(p) : (x \o p)[Len(x) + k] = p[k]
      BY <1>3, <3>1, JoinOctets, Zenon
    <3>3. Len(p) \in Nat
      BY <1>3
    <3>4. /\ t \in Seq(Octet) /\ Len(t) = Len(x) + Len(p)
          /\ \A k \in 1 .. Len(x) : t[k] = x[k]
          /\ \A k \in 1 .. Len(p) : t[Len(x) + k] = p[k]
      BY <3>1, <3>2, ZenonT(60)
    <3>5. t \in Strings
      BY <3>4, Zenon DEF Strings
    <3> QED
      BY <3>1, <3>4, <3>5, ZenonT(60)
  <2>3. ASSUME NEW j \in 1 .. Len(t0), j <= 16 \/ j > 18 PROVE t0[j] = t[j]
    <3>1. CASE j <= 20
      <4>1. j \in 1 .. 20
        <5>1. Len(t0) \in Nat
          BY <2>1
        <5> QED
          BY <3>1, <5>1
      <4>2. t0[j] = x0[j]
        BY <2>1, <4>1, Zenon
      <4>3. t[j] = x[j]
        BY <2>2, <4>1, Zenon
      <4>4. x0[j] = x[j]
        BY <1>7, <2>3, <4>1
      <4> QED
        BY <4>2, <4>3, <4>4, Zenon
    <3>2. CASE j > 20
      <4> DEFINE k == j - 20
      <4>1. k \in 1 .. Len(p) /\ j = 20 + k
        <5> DEFINE n == Len(p)
                   l == Len(t0)
        <5>1. n \in Nat /\ l = 20 + n /\ j \in 1 .. l
          BY <2>1
        <5> HIDE DEF n, l
        <5>2. k \in 1 .. n /\ j = 20 + k
          BY <3>2, <5>1
        <5> QED
          BY <5>2 DEF n
      <4> HIDE DEF k
      <4> QED
        BY <2>1, <2>2, <4>1
    <3>3. j \in Int
      BY <2>1
    <3> QED
      BY <3>1, <3>2, <3>3
  <2> QED
    BY <2>1, <2>2, <2>3
<1>11. At(t, 16, 2) = c
  <2>1. At(x \o (<<>> \o p), 16, 2) = At(x, 16, 2)
    <3>1. /\ x \in Strings /\ Len(x) = 20 /\ At(x, 12, 1) = 16 * (5 + (Len(<<>>) \div 4))
          /\ At(x, 0, 2) = Source.port /\ At(x, 2, 2) = Destination.port
          /\ WithoutPorts(SegmentOf(SegmentIntegers(x), m.payload)) = m
      BY <1>6, <1>8, Zenon
    <3> QED
      BY <1>8, <3>1, BareHeader, Zenon DEF p
  <2> QED
    BY <1>6, <1>8, <2>1
<1>12. CarriesSegment(t, m, <<>>, pseudo)
  BY <1>5, <1>8, <1>9, <1>10, <1>11, Finished
<1> QED
  BY <1>0, <1>6, <1>12 DEF t, b

LEMMA OptionsFacts ==
    ASSUME WireAssumption
    PROVE  /\ Options \in Strings /\ Len(Options) \in Nat /\ Len(Options) <= 40
           /\ \E k \in 0 .. 10 : Len(Options) = 4 * k /\ Len(Options) \div 4 = k
<1>1. Options \in Seq(Octet) /\ Len(Options) \in {4 * k : k \in 0 .. 10}
  BY Zenon DEF WireAssumption
<1>2. PICK k \in 0 .. 10 : Len(Options) = 4 * k
  BY <1>1
<1>3. (4 * k) \div 4 = k /\ 4 * k <= 40 /\ 4 * k \in Nat
  BY SMT
<1> QED
  BY <1>1, <1>2, <1>3 DEF Strings

LEMMA OtherThanThirteen ==
    ASSUME NEW x \in Strings, NEW y \in Strings, \A j \in 1 .. 20 : j # 13 => y[j] = x[j], NEW p
    PROVE  /\ At(y, 12, 1) = y[13]
           /\ At(y, 0, 2) = At(x, 0, 2) /\ At(y, 2, 2) = At(x, 2, 2) /\ At(y, 16, 2) = At(x, 16, 2)
           /\ WithoutPorts(SegmentOf(SegmentIntegers(y), p)) = WithoutPorts(SegmentOf(SegmentIntegers(x), p))
<1>6. At(y, 12, 1) = y[13]
  <2>1. At(y, 12, 1) = y[12 + 1]
    BY DEF At
  <2> QED
    BY <2>1
<1>7. ASSUME NEW o \in Nat, NEW w \in Width, o + w <= 20, o >= 13 \/ o + w <= 12
      PROVE  At(y, o, w) = At(x, o, w)
  <2>1. w \in 1 .. 4
    BY DEF Width
  <2>2. \A j \in 1 .. w : y[o + j] = x[o + j]
    <3> SUFFICES ASSUME NEW j \in 1 .. w PROVE y[o + j] = x[o + j]
      OBVIOUS
    <3>1. w \in Int /\ j \in Int /\ 1 <= j /\ j <= w
      BY <2>1
    <3>2. o \in Nat /\ o + w <= 20 /\ (o >= 13 \/ o + w <= 12)
      BY <1>7
    <3>3. o + j \in 1 .. 20 /\ o + j # 13
      BY <3>1, <3>2
    <3> QED
      BY <3>3
  <2> QED
    BY <2>2, AtSame
<1>8. 1 \in Width /\ 2 \in Width /\ 4 \in Width
  BY DEF Width
<1>9. /\ \A o \in Nat : o + 1 <= 20 /\ (o >= 13 \/ o + 1 <= 12) => At(y, o, 1) = At(x, o, 1)
      /\ \A o \in Nat : o + 2 <= 20 /\ (o >= 13 \/ o + 2 <= 12) => At(y, o, 2) = At(x, o, 2)
      /\ \A o \in Nat : o + 4 <= 20 /\ (o >= 13 \/ o + 4 <= 12) => At(y, o, 4) = At(x, o, 4)
  BY <1>7, <1>8
<1>10. /\ At(y, 0, 2) = At(x, 0, 2) /\ At(y, 2, 2) = At(x, 2, 2) /\ At(y, 14, 2) = At(x, 14, 2)
       /\ At(y, 16, 2) = At(x, 16, 2) /\ At(y, 13, 1) = At(x, 13, 1)
       /\ At(y, 4, 4) = At(x, 4, 4) /\ At(y, 8, 4) = At(x, 8, 4)
  BY <1>9
<1>11. WithoutPorts(SegmentOf(SegmentIntegers(y), p)) = WithoutPorts(SegmentOf(SegmentIntegers(x), p))
  <2> DEFINE v == SegmentIntegers(y)
             w == SegmentIntegers(x)
  <2>1. v[3] = w[3] /\ v[4] = w[4] /\ v[6] = w[6] /\ v[7] = w[7]
    BY <1>10 DEF SegmentIntegers
  <2> HIDE DEF v, w
  <2>2. WithoutPorts(SegmentOf(v, p)) = WithoutPorts(SegmentOf(w, p))
    BY <2>1 DEF WithoutPorts, SegmentOf
  <2> QED
    BY <2>2 DEF v, w
<1> QED
  BY <1>6, <1>10, <1>11

Replaced(s, i, n) == [s EXCEPT ![i] = n]

\* The strings differ in one octet at most.
AlikeBut(s, t, i) ==
    /\ i \in 1 .. Len(s) /\ t \in Strings /\ Len(t) = Len(s)
    /\ \A j \in 1 .. Len(s) : j # i => t[j] = s[j]

LEMMA ReplacedIs ==
    ASSUME NEW s \in Strings, NEW i \in 1 .. Len(s), NEW n \in Octet
    PROVE  AlikeBut(s, Replaced(s, i, n), i) /\ Replaced(s, i, n)[i] = n
<1> DEFINE l == Len(s)
           t == Replaced(s, i, n)
<1>1. l \in Nat /\ s \in [1 .. l -> Octet]
  BY DEF Strings
<1> HIDE DEF l
<1>2. i \in 1 .. l
  BY DEF l
<1>3. t \in [1 .. l -> Octet] /\ t[i] = n /\ \A j \in 1 .. l : j # i => t[j] = s[j]
  BY <1>1, <1>2 DEF Replaced
<1> HIDE DEF t
<1>4. t \in Seq(Octet) /\ Len(t) = l
  BY <1>1, <1>3, ListOf
<1> QED
  BY <1>2, <1>3, <1>4 DEF AlikeBut, Strings, t, l

LEMMA LongerHeader ==
    ASSUME NEW x \in Strings, Len(x) = 20, NEW k \in 0 .. 10,
           NEW y, y = Replaced(x, 13, 16 * (5 + k)), NEW p
    PROVE  /\ y \in Strings /\ Len(y) = 20 /\ At(y, 12, 1) = 16 * (5 + k)
           /\ At(y, 0, 2) = At(x, 0, 2) /\ At(y, 2, 2) = At(x, 2, 2) /\ At(y, 16, 2) = At(x, 16, 2)
           /\ WithoutPorts(SegmentOf(SegmentIntegers(y), p)) = WithoutPorts(SegmentOf(SegmentIntegers(x), p))
<1> DEFINE n == 16 * (5 + k)
           i == 13
<1>1. n \in Int /\ 0 <= n /\ n <= 255
  OBVIOUS
<1>2. i \in 1 .. Len(x)
  OBVIOUS
<1> HIDE DEF n, i
<1>3. n \in Octet
  BY <1>1, OctetIs
<1>4. y = Replaced(x, i, n)
  BY DEF i, n
<1>5. y \in Strings /\ Len(y) = Len(x) /\ y[i] = n /\ \A j \in 1 .. Len(x) : j # i => y[j] = x[j]
  <2>1. AlikeBut(x, Replaced(x, i, n), i) /\ Replaced(x, i, n)[i] = n
    BY <1>2, <1>3, ReplacedIs, Zenon
  <2> QED
    BY <1>4, <2>1, Zenon DEF AlikeBut
<1>6. y \in Strings /\ Len(y) = 20 /\ y[13] = n /\ \A j \in 1 .. 20 : j # 13 => y[j] = x[j]
  BY <1>5 DEF i
<1>7. /\ At(y, 12, 1) = y[13]
      /\ At(y, 0, 2) = At(x, 0, 2) /\ At(y, 2, 2) = At(x, 2, 2) /\ At(y, 16, 2) = At(x, 16, 2)
      /\ WithoutPorts(SegmentOf(SegmentIntegers(y), p)) = WithoutPorts(SegmentOf(SegmentIntegers(x), p))
  BY <1>6, OtherThanThirteen
<1> QED
  BY <1>6, <1>7 DEF n

\* A kernel's segment, with options.
LEMMA LongerWritten ==
    ASSUME WireAssumption, NEW m \in MessageType, NEW pseudo \in Nat
    PROVE  CarriesSegment(TCPWithOptions(WithPorts(m), pseudo), m, Options, pseudo)
<1> DEFINE s == WithPorts(m)
           plain == FlattenSeq(SerializeTCP(s))
           x == TCPHeader(s)
           y == [x EXCEPT ![13] = @ + 16 * (Len(Options) \div 4)]
           p == m.payload
           longer == y \o Options \o p
           c == Checksum(pseudo, <<longer>>)
           cksum == Octets(c, 2)
           t == [longer EXCEPT ![17] = cksum[1], ![18] = cksum[2]]
<1>1. s = Plain(m, 0) /\ s.payload = p
  BY DEF WithPorts, Plain
<1>2. 0 \in Word
  BY WordIs
<1>3. /\ x \in Strings /\ Len(x) = 20 /\ At(x, 12, 1) = 80 /\ At(x, 16, 2) = 0
      /\ At(x, 0, 2) = Source.port /\ At(x, 2, 2) = Destination.port
      /\ WithoutPorts(SegmentOf(SegmentIntegers(x), p)) = m
      /\ plain = x \o p
  <2>1. /\ Plain(m, 0) \in SegmentType
        /\ TCPHeader(Plain(m, 0)) \in Strings /\ Len(TCPHeader(Plain(m, 0))) = 20
        /\ At(TCPHeader(Plain(m, 0)), 12, 1) = 80 /\ At(TCPHeader(Plain(m, 0)), 16, 2) = 0
        /\ At(TCPHeader(Plain(m, 0)), 0, 2) = Source.port
        /\ At(TCPHeader(Plain(m, 0)), 2, 2) = Destination.port
        /\ WithoutPorts(SegmentOf(SegmentIntegers(TCPHeader(Plain(m, 0))), m.payload)) = m
        /\ FlattenSeq(SerializeTCP(Plain(m, 0))) = TCPHeader(Plain(m, 0)) \o m.payload
    BY <1>2, PlainHeader, SMTT(60)
  <2> HIDE DEF s
  <2> QED
    BY <1>1, <2>1, Zenon
<1>4. SubSeq(plain, 1, 20) = x
  <2>1. x \in Seq(Octet) /\ p \in Seq(Octet)
    BY <1>3 DEF MessageType, Strings
  <2> HIDE DEF x, p, plain
  <2>2. Upto(x \o p, Len(x)) = x
    BY <2>1, JoinedParts
  <2> QED
    BY <1>3, <2>2 DEF Upto
<1>5. TCPWithOptions(s, pseudo) = t
  <2> HIDE DEF s, x
  <2> QED
    BY <1>1, <1>4 DEF TCPWithOptions
<1> HIDE DEF s, x, plain
<1>6. PICK k \in 0 .. 10 : Len(Options) = 4 * k /\ Len(Options) \div 4 = k
  BY OptionsFacts
<1>7. Options \in Strings /\ p \in Strings /\ Options \in Seq(Octet) /\ p \in Seq(Octet)
  BY OptionsFacts DEF MessageType, Strings
<1>8. y = Replaced(x, 13, 16 * (5 + k))
  <2>1. x[13] = 80
    <3>1. At(x, 12, 1) = x[12 + 1]
      BY DEF At
    <3> QED
      BY <1>3, <3>1
  <2>2. x[13] + 16 * (Len(Options) \div 4) = 16 * (5 + k)
    BY <1>6, <2>1
  <2>3. y = [x EXCEPT ![13] = x[13] + 16 * (Len(Options) \div 4)]
    OBVIOUS
  <2> HIDE DEF y
  <2> QED
    BY <2>2, <2>3, Zenon DEF Replaced
<1> HIDE DEF y, p
<1>9. /\ y \in Strings /\ Len(y) = 20 /\ At(y, 12, 1) = 16 * (5 + k)
      /\ At(y, 0, 2) = At(x, 0, 2) /\ At(y, 2, 2) = At(x, 2, 2) /\ At(y, 16, 2) = At(x, 16, 2)
      /\ WithoutPorts(SegmentOf(SegmentIntegers(y), p)) = WithoutPorts(SegmentOf(SegmentIntegers(x), p))
  BY <1>3, <1>8, LongerHeader
<1>10. longer = y \o (Options \o p)
  <2>1. y \in Seq(Octet) /\ Options \in Seq(Octet) /\ p \in Seq(Octet)
    BY <1>7, <1>9 DEF Strings
  <2>2. (y \o Options) \o p = y \o (Options \o p)
    BY <2>1, JoinAssociates, SMTT(60)
  <2> QED
    BY <2>2, Zenon
<1> HIDE DEF longer
<1>11. Bare(longer, m, Options) /\ At(longer, 16, 2) = 0
  <2>1. /\ y \in Strings /\ Len(y) = 20 /\ At(y, 12, 1) = 16 * (5 + (Len(Options) \div 4))
        /\ At(y, 0, 2) = Source.port /\ At(y, 2, 2) = Destination.port
        /\ WithoutPorts(SegmentOf(SegmentIntegers(y), m.payload)) = m
    BY <1>3, <1>6, <1>9 DEF p
  <2>2. /\ Bare(y \o (Options \o m.payload), m, Options)
        /\ At(y \o (Options \o m.payload), 16, 2) = At(y, 16, 2)
    BY <1>7, <2>1, BareHeader, Zenon
  <2> QED
    BY <1>3, <1>9, <1>10, <2>2 DEF p
<1>12. longer \in Strings /\ Len(longer) \in Nat /\ Len(longer) >= 20
  BY <1>7, <1>11, BareLength, ZenonT(60)
<1>13. c \in Word /\ Vanishes((pseudo + Weight(longer)) + c)
  <2> DEFINE b == <<longer>>
  <2>1. FlattenSeq(b) = longer
    BY <1>12, FlatOne DEF Strings
  <2> HIDE DEF b
  <2>2. FlattenSeq(b) \in Strings
    BY <1>12, <2>1
  <2>3. Checksum(pseudo, b) \in Word
        /\ Vanishes((pseudo + Weight(FlattenSeq(b))) + Checksum(pseudo, b))
    BY <2>2, ChecksumIs, ZenonT(60)
  <2>4. c = Checksum(pseudo, b)
    BY DEF b
  <2> HIDE DEF c
  <2> QED
    BY <2>1, <2>3, <2>4, Zenon
<1> HIDE DEF c
<1>14. cksum \in Seq(Octet) /\ Len(cksum) = 2 /\ cksum[1] * 256 + cksum[2] = c
  <2>1. 2 \in Width /\ Fits(c, 2)
    BY <1>13 DEF Width, Fits
  <2> DEFINE e == 2
  <2>2. e \in Width /\ Fits(c, e)
    BY <2>1
  <2> HIDE DEF e
  <2>3. Octets(c, e) \in Strings /\ Len(Octets(c, e)) = e /\ At(Octets(c, e), 0, e) = c
    BY <2>2, OctetsAre
  <2>4. cksum \in Strings /\ Len(cksum) = 2 /\ At(cksum, 0, 2) = c
    BY <2>3 DEF e
  <2> HIDE DEF cksum
  <2>5. At(cksum, 0, 2) = cksum[0 + 1] * 256 + cksum[0 + 2]
    BY DEF At
  <2> QED
    BY <2>4, <2>5 DEF Strings
<1> HIDE DEF cksum
<1>15. cksum[1] \in Octet /\ cksum[2] \in Octet
  <2>1. 1 \in 1 .. Len(cksum) /\ 2 \in 1 .. Len(cksum) /\ cksum \in Seq(Octet)
    BY <1>14
  <2> QED
    BY <2>1, Elements
<1>16. /\ t \in Seq(Octet) /\ Len(t) = Len(longer) /\ t[17] = cksum[1] /\ t[18] = cksum[2]
       /\ \A j \in 1 .. Len(longer) : j # 17 /\ j # 18 => longer[j] = t[j]
  <2>1. longer \in Seq(Octet) /\ 17 \in 1 .. Len(longer) /\ 18 \in 1 .. Len(longer)
    BY <1>12 DEF Strings
  <2>2. longer \in [1 .. Len(longer) -> Octet]
    BY <2>1
  <2> QED
    BY <1>15, <2>1, <2>2
<1> HIDE DEF t
<1>17. At(t, 16, 2) = c
  <2>1. At(t, 16, 2) = t[16 + 1] * 256 + t[16 + 2]
    BY DEF At
  <2> QED
    BY <1>14, <1>16, <2>1
<1>18. \A j \in 1 .. Len(longer) : j <= 16 \/ j > 18 => longer[j] = t[j]
  BY <1>16
<1>19. CarriesSegment(t, m, Options, pseudo)
  <2>1. t \in Strings /\ Len(t) = Len(longer)
    BY <1>16 DEF Strings
  <2> QED
    BY <1>7, <1>11, <1>13, <1>17, <1>18, <2>1, Finished
<1> QED
  BY <1>5, <1>19 DEF s

-----------------------------------------------------------------------------
\* A datagram on its way

LEMMA PayloadLength ==
    ASSUME NEW h \in HeaderType
    PROVE  pseudo_checksum(h) \in Nat
<1>1. /\ h.src \in Word \X Word /\ h.dst \in Word \X Word /\ h.proto \in Octet /\ h.len \in Word
      /\ h.hlen \in Nibble
  BY DEF HeaderType
<1> DEFINE a == h.src[1]
           b == h.src[2]
           c == h.dst[1]
           d == h.dst[2]
           e == payload_length(h)
<1>2. a \in Nat /\ b \in Nat /\ c \in Nat /\ d \in Nat /\ h.proto \in Nat
  BY <1>1, WordIs, OctetIs
<1>3. e \in Nat
  <2>1. h.len \in Int /\ h.hlen \in Int
    BY <1>1, WordIs, NibbleIs
  <2>2. h.len - 4 * h.hlen \in Int
    BY <2>1
  <2> QED
    BY <2>2, SMT DEF payload_length
<1> HIDE DEF a, b, c, d, e
<1>4. a + b + c + d + h.proto + e \in Nat
  BY <1>2, <1>3
<1> QED
  BY <1>4 DEF a, b, c, d, e, pseudo_checksum

LEMMA NewHeader ==
    ASSUME NEW src \in Word \X Word, NEW dst \in Word \X Word, NEW len \in Word,
           NEW h, h = NewIPv4Header(src, dst, len)
    PROVE  /\ h \in HeaderType /\ h.ver = 4 /\ h.hlen = 5 /\ h.ttl = 128 /\ h.proto = 6
           /\ h.src = src /\ h.dst = dst
<1>1. 4 \in Nibble /\ 5 \in Nibble /\ 0 \in Octet /\ 0 \in Word /\ 0 \in Offset /\ 128 \in Octet
      /\ 6 \in Octet
  BY NibbleIs, OctetIs, WordIs, OffsetIs
<1>2. 20 \div 4 = 5
  BY SMT
<1>3. h = [ver |-> 4, hlen |-> 5, tos |-> 0, len |-> len, id |-> 0,
           df |-> TRUE, mf |-> FALSE, offset |-> 0, ttl |-> 128, proto |-> 6,
           cksum |-> 0, src |-> src, dst |-> dst]
  BY <1>2 DEF NewIPv4Header, HeaderLength, PROTO_TCP
<1> QED
  BY <1>1, <1>3 DEF HeaderType

-----------------------------------------------------------------------------
\* A datagram on its way

Carries(y, m, options) ==
    /\ y \in Strings /\ Accepted(y)
    /\ Header(y).hlen = 5 /\ Header(y).proto = 6
    /\ Header(y).src = Source.ip /\ Header(y).dst = Destination.ip
    /\ CarriesSegment(Beyond(y, 20), m, options, pseudo_checksum(Header(y)))

\* A router passes it on.
Young(y) == Header(y).ttl > 1

\* Only the first octets matter to the header.
LEMMA HeaderSame ==
    ASSUME NEW s, NEW t, \A j \in 1 .. 20 : s[j] = t[j]
    PROVE  Header(s) = Header(t)
<1>1. ASSUME NEW o \in Nat, NEW w \in Width, o + w <= 20 PROVE At(s, o, w) = At(t, o, w)
  <2>1. w \in 1 .. 4
    BY DEF Width
  <2>2. \A j \in 1 .. w : s[o + j] = t[o + j]
    <3> SUFFICES ASSUME NEW j \in 1 .. w PROVE s[o + j] = t[o + j]
      OBVIOUS
    <3>1. w \in Int /\ j \in Int /\ 1 <= j /\ j <= w /\ o \in Nat /\ o + w <= 20
      BY <1>1, <2>1
    <3>2. o + j \in 1 .. 20
      BY <3>1
    <3> QED
      BY <3>2
  <2> QED
    BY <2>2, AtSame
<1>2. 1 \in Width /\ 2 \in Width /\ 4 \in Width
  BY DEF Width
<1>3. /\ \A o \in Nat : o + 1 <= 20 => At(s, o, 1) = At(t, o, 1)
      /\ \A o \in Nat : o + 2 <= 20 => At(s, o, 2) = At(t, o, 2)
      /\ \A o \in Nat : o + 4 <= 20 => At(s, o, 4) = At(t, o, 4)
  BY <1>1, <1>2
<1>4. /\ At(s, 0, 1) = At(t, 0, 1) /\ At(s, 1, 1) = At(t, 1, 1) /\ At(s, 8, 1) = At(t, 8, 1)
      /\ At(s, 9, 1) = At(t, 9, 1)
  BY <1>3
<1>5. /\ At(s, 2, 2) = At(t, 2, 2) /\ At(s, 4, 2) = At(t, 4, 2) /\ At(s, 6, 2) = At(t, 6, 2)
      /\ At(s, 10, 2) = At(t, 10, 2)
  BY <1>3
<1>6. At(s, 12, 4) = At(t, 12, 4) /\ At(s, 16, 4) = At(t, 16, 4)
  BY <1>3
<1>7. HeaderIntegers(s) = HeaderIntegers(t)
  BY <1>4, <1>5, <1>6 DEF HeaderIntegers
<1> QED
  BY <1>7 DEF Header

LEMMA DatagramIs ==
    ASSUME NEW h \in HeaderType, compute_checksum(h) = h, h.ver = 4, h.hlen = 5,
           NEW t \in Strings, NEW y, y = SerializeIPv4Header(h) \o t
    PROVE  y \in Strings /\ Accepted(y) /\ Header(y) = h /\ Beyond(y, 20) = t
<1> DEFINE s == SerializeIPv4Header(h)
<1>1. s \in Strings /\ Len(s) = 20 /\ Header(s) = h
  BY HeaderWritten
<1>2. y = s \o t
  OBVIOUS
<1> HIDE DEF s
<1>3. /\ s \o t \in Seq(Octet) /\ Len(s \o t) = Len(s) + Len(t)
      /\ \A k \in 1 .. Len(s) : (s \o t)[k] = s[k]
  BY <1>1, JoinOctets, Zenon
<1>4. Beyond(s \o t, Len(s)) = t
  BY <1>1, JoinedParts DEF Strings
<1>5. Len(t) \in Nat
  BY DEF Strings
<1>6. y \in Strings /\ Len(y) >= 20 /\ \A j \in 1 .. 20 : y[j] = s[j]
  <2>1. y \in Strings
    BY <1>2, <1>3 DEF Strings
  <2>2. Len(y) = 20 + Len(t) /\ \A j \in 1 .. 20 : y[j] = s[j]
    BY <1>1, <1>2, <1>3
  <2>3. Len(y) >= 20
    BY <1>5, <2>2
  <2> QED
    BY <2>1, <2>2, <2>3
<1>7. Header(y) = h
  BY <1>1, <1>6, HeaderSame
<1>8. Beyond(y, 20) = t
  BY <1>1, <1>2, <1>4
<1>9. Accepted(y)
  <2>1. 5 >= 5
    OBVIOUS
  <2> QED
    BY <1>6, <1>7, <2>1, Zenon DEF Accepted
<1> QED
  BY <1>6, <1>7, <1>8, <1>9

\* The checksum of the segment does not depend on the header's own, nor on the
\* time to live.
LEMMA PseudoSame ==
    ASSUME NEW h, NEW g, g.src = h.src, g.dst = h.dst, g.proto = h.proto, g.len = h.len,
           g.hlen = h.hlen
    PROVE  pseudo_checksum(g) = pseudo_checksum(h)
  BY DEF pseudo_checksum, payload_length

LEMMA HeaderChecked ==
    ASSUME NEW h \in HeaderType, NEW g, g = compute_checksum(h)
    PROVE  /\ g \in HeaderType /\ compute_checksum(g) = g
           /\ g.ver = h.ver /\ g.hlen = h.hlen /\ g.ttl = h.ttl /\ g.proto = h.proto
           /\ g.src = h.src /\ g.dst = h.dst /\ g.len = h.len
           /\ pseudo_checksum(g) = pseudo_checksum(h)
<1>1. /\ g \in HeaderType /\ compute_checksum(g) = g
      /\ \E c \in Word : g = [h EXCEPT !.cksum = c]
  BY ChecksumSet
<1>2. PICK c \in Word : g = [h EXCEPT !.cksum = c]
  BY <1>1
<1>3. /\ g.ver = h.ver /\ g.hlen = h.hlen /\ g.ttl = h.ttl /\ g.proto = h.proto
      /\ g.src = h.src /\ g.dst = h.dst /\ g.len = h.len
  BY <1>2 DEF HeaderType
<1>4. pseudo_checksum(g) = pseudo_checksum(h)
  BY <1>3, PseudoSame
<1> QED
  BY <1>1, <1>3, <1>4

LEMMA CarriesNew ==
    ASSUME WireAssumption, NEW m \in MessageType, NEW len \in Word, NEW options \in Strings,
           NEW h, h = NewIPv4Header(Source.ip, Destination.ip, len),
           NEW t, CarriesSegment(t, m, options, pseudo_checksum(h)),
           NEW y, y = SerializeIPv4Header(compute_checksum(h)) \o t
    PROVE  Carries(y, m, options) /\ Young(y)
<1>1. Source.ip \in Word \X Word /\ Destination.ip \in Word \X Word
  BY PortsType, ZenonT(60)
<1>2. /\ h \in HeaderType /\ h.ver = 4 /\ h.hlen = 5 /\ h.ttl = 128 /\ h.proto = 6
      /\ h.src = Source.ip /\ h.dst = Destination.ip
  BY <1>1, NewHeader
<1> DEFINE g == compute_checksum(h)
<1>3. /\ g \in HeaderType /\ compute_checksum(g) = g
      /\ g.ver = h.ver /\ g.hlen = h.hlen /\ g.ttl = h.ttl /\ g.proto = h.proto
      /\ g.src = h.src /\ g.dst = h.dst
      /\ pseudo_checksum(g) = pseudo_checksum(h)
  BY <1>2, HeaderChecked
<1> HIDE DEF g
<1>4. t \in Strings
  BY DEF CarriesSegment, Bare
<1>5. g.ver = 4 /\ g.hlen = 5 /\ y = SerializeIPv4Header(g) \o t
  BY <1>2, <1>3 DEF g
<1>6. y \in Strings /\ Accepted(y) /\ Header(y) = g /\ Beyond(y, 20) = t
  BY <1>3, <1>4, <1>5, DatagramIs
<1> QED
  BY <1>2, <1>3, <1>5, <1>6 DEF Carries, Young

LEMMA ShortEnough ==
    ASSUME NEW a \in Nat, NEW b \in Nat, a <= 40, b <= 1000
    PROVE  HeaderLength + 20 + a + b \in Word /\ HeaderLength + 20 + b \in Word
<1>1. HeaderLength = 20
  BY DEF HeaderLength
<1> DEFINE n == 20 + 20 + a + b
           k == 20 + 20 + b
<1>2. n \in Int /\ 0 <= n /\ n <= 65535 /\ k \in Int /\ 0 <= k /\ k <= 65535
  OBVIOUS
<1> HIDE DEF n, k
<1>3. n \in Word /\ k \in Word
  BY <1>2, WordIs
<1> QED
  BY <1>1, <1>3 DEF n, k

\* What the hosts of the Ethernet, and a TUN device's, write.
LEMMA DatagramWritten ==
    ASSUME WireAssumption, NEW m \in MessageType, Len(m.payload) <= 1000
    PROVE  /\ SerializeDatagram(wrap_tcp_in_ip(m)) \in Seq(Strings)
           /\ Carries(FlattenSeq(SerializeDatagram(wrap_tcp_in_ip(m))), m, <<>>)
           /\ Young(FlattenSeq(SerializeDatagram(wrap_tcp_in_ip(m))))
<1> DEFINE len == HeaderLength + 20 + Len(m.payload)
           h == NewIPv4Header(Source.ip, Destination.ip, len)
           g == compute_checksum(h)
           pseudo == pseudo_checksum(h)
           b == SerializeTCP(ComputeTCPChecksum(WithPorts(m), pseudo))
           s == SerializeIPv4Header(g)
           t == FlattenSeq(b)
           d == SerializeDatagram(wrap_tcp_in_ip(m))
<1>1. len \in Word
  <2>1. Len(m.payload) \in Nat
    BY DEF MessageType, Strings
  <2> DEFINE n == Len(m.payload)
  <2>2. n \in Nat /\ n <= 1000
    BY <2>1
  <2> HIDE DEF n
  <2>3. 0 \in Nat /\ 0 <= 40
    OBVIOUS
  <2>4. HeaderLength + 20 + n \in Word
    BY <2>2, <2>3, ShortEnough
  <2> QED
    BY <2>4 DEF n
<1>2. d = Output(s, b)
  BY ZenonT(60) DEF SerializeDatagram, wrap_tcp_in_ip
<1> HIDE DEF len, d
<1>3. h \in HeaderType /\ pseudo \in Nat /\ s \in Strings
  <2>1. Source.ip \in Word \X Word /\ Destination.ip \in Word \X Word
    BY PortsType, ZenonT(60)
  <2>2. h \in HeaderType
    BY <1>1, <2>1, NewHeader
  <2> HIDE DEF h
  <2>3. g \in HeaderType
    BY <2>2, HeaderChecked
  <2> HIDE DEF g
  <2> QED
    BY <2>2, <2>3, PayloadLength, HeaderWritten
<1>4. h = NewIPv4Header(Source.ip, Destination.ip, len)
  OBVIOUS
<1> HIDE DEF h
<1>5. s = SerializeIPv4Header(compute_checksum(h))
  OBVIOUS
<1> HIDE DEF s, g
<1>6. pseudo = pseudo_checksum(h)
  OBVIOUS
<1> HIDE DEF pseudo
<1>7. b \in Seq(Strings) /\ CarriesSegment(t, m, <<>>, pseudo)
  BY <1>3, PlainWritten
<1> HIDE DEF b
<1>8. Output(s, b) \in Seq(Seq(Octet)) /\ FlattenSeq(Output(s, b)) = s \o t
  BY <1>3, <1>7, FlatOutput, ZenonT(60) DEF Strings
<1> HIDE DEF t
<1>9. d \in Seq(Strings) /\ FlattenSeq(d) = SerializeIPv4Header(compute_checksum(h)) \o t
  BY <1>2, <1>5, <1>8 DEF Strings
<1>10. <<>> \in Strings /\ CarriesSegment(t, m, <<>>, pseudo_checksum(h))
  BY <1>6, <1>7, NoOptions
<1> DEFINE y == FlattenSeq(d)
<1>11. y = SerializeIPv4Header(compute_checksum(h)) \o t
  BY <1>9
<1> HIDE DEF y
<1>12. Carries(y, m, <<>>) /\ Young(y)
  <2> DEFINE none == <<>>
  <2>1. none \in Strings /\ CarriesSegment(t, m, none, pseudo_checksum(h))
    BY <1>10
  <2> HIDE DEF none
  <2>2. Carries(y, m, none)
    BY <1>1, <1>4, <1>11, <2>1, CarriesNew, ZenonT(60)
  <2>3. Young(y)
    BY <1>1, <1>4, <1>11, <2>1, CarriesNew, ZenonT(60)
  <2> QED
    BY <2>2, <2>3 DEF none
<1> QED
  BY <1>9, <1>12 DEF y, d

LEMMA OptionsWritten ==
    ASSUME WireAssumption, NEW m \in MessageType, Len(m.payload) <= 1000
    PROVE  LET header == NewIPv4Header(Source.ip, Destination.ip,
                                       HeaderLength + 20 + Len(Options) + Len(m.payload))
           IN  Carries(SerializeIPv4Header(compute_checksum(header))
                         \o TCPWithOptions(WithPorts(m), pseudo_checksum(header)), m, Options)
<1> DEFINE len == HeaderLength + 20 + Len(Options) + Len(m.payload)
           h == NewIPv4Header(Source.ip, Destination.ip, len)
           t == TCPWithOptions(WithPorts(m), pseudo_checksum(h))
           y == SerializeIPv4Header(compute_checksum(h)) \o t
<1>1. Options \in Strings /\ Len(Options) \in Nat /\ Len(Options) <= 40
  BY OptionsFacts
<1>2. len \in Word
  <2>1. Len(m.payload) \in Nat
    BY DEF MessageType, Strings
  <2> QED
    BY <1>1, <2>1, ShortEnough
<1> HIDE DEF len
<1>3. h = NewIPv4Header(Source.ip, Destination.ip, len)
  OBVIOUS
<1>4. pseudo_checksum(h) \in Nat
  <2>1. Source.ip \in Word \X Word /\ Destination.ip \in Word \X Word
    BY PortsType, ZenonT(60)
  <2>2. h \in HeaderType
    BY <1>2, <2>1, NewHeader
  <2> HIDE DEF h
  <2> QED
    BY <2>2, PayloadLength
<1> HIDE DEF h
<1>5. CarriesSegment(t, m, Options, pseudo_checksum(h))
  BY <1>4, LongerWritten
<1>6. y = SerializeIPv4Header(compute_checksum(h)) \o t
  OBVIOUS
<1> HIDE DEF t, y
<1>7. Carries(y, m, Options)
  BY <1>1, <1>2, <1>3, <1>5, <1>6, CarriesNew, ZenonT(60)
<1> QED
  BY <1>7 DEF y, t, h, len

-----------------------------------------------------------------------------
\* What may have happened to a string

Begins(u, v) ==
    /\ v \in Strings /\ Len(v) <= Len(u)
    /\ \A j \in 1 .. Len(v) : v[j] = u[j]

Hit(u, v) ==
    /\ v \in Strings
    /\ \/ v = u
       \/ \E k \in 1 .. Len(u) : AlikeBut(u, v, k) /\ v[k] \in Damaged(u[k])

Padded(u, v) ==
    /\ Begins(v, u) /\ v \in Strings
    /\ \A j \in Len(u) + 1 .. Len(v) : v[j] = 0

Suffered(u, v, what) ==
    \/ what = "none" /\ v = u
    \/ what = "damaged" /\ Hit(u, v)
    \/ what = "cut short" /\ Begins(u, v) /\ Len(v) < Len(u)
    \/ what = "padded" /\ Padded(u, v)

LEMMA BeginsBeyond ==
    ASSUME NEW u \in Strings, NEW v, Begins(u, v), NEW n \in 0 .. Len(v)
    PROVE  Begins(Beyond(u, n), Beyond(v, n))
           /\ Len(Beyond(u, n)) = Len(u) - n /\ Len(Beyond(v, n)) = Len(v) - n
<1> DEFINE x == Beyond(u, n)
           y == Beyond(v, n)
           k == Len(u)
           l == Len(v)
<1>1. /\ u \in Seq(Octet) /\ v \in Seq(Octet) /\ k \in Nat /\ l \in Nat /\ l <= k
      /\ \A j \in 1 .. l : v[j] = u[j]
  BY DEF Begins, Strings
<1>2. n \in 0 .. Len(u) /\ n \in 0 .. Len(v)
  BY <1>1
<1>3. x \in Seq(Octet) /\ Len(x) = k - n /\ \A j \in 1 .. k - n : x[j] = u[n + j]
  BY <1>1, <1>2, BeyondIs
<1>4. y \in Seq(Octet) /\ Len(y) = l - n /\ \A j \in 1 .. l - n : y[j] = v[n + j]
  BY <1>1, <1>2, BeyondIs
<1> HIDE DEF x, y, k, l
<1>5. n \in 0 .. l
  BY DEF l
<1>6. ASSUME NEW j \in 1 .. l - n PROVE y[j] = x[j]
  <2>1. n + j \in 1 .. l /\ j \in 1 .. k - n
    BY <1>1, <1>5
  <2> QED
    BY <1>1, <1>3, <1>4, <2>1
<1>7. Len(y) <= Len(x)
  BY <1>1, <1>3, <1>4, <1>5
<1>8. Begins(x, y)
  BY <1>4, <1>6, <1>7 DEF Begins, Strings
<1> QED
  BY <1>3, <1>4, <1>8 DEF x, y, k, l

LEMMA SufferedType ==
    ASSUME NEW u \in Strings, NEW v, NEW what, Suffered(u, v, what)
    PROVE  /\ v \in Strings /\ Len(u) \in Nat /\ Len(v) \in Nat
           /\ what # "cut short" => Len(v) >= Len(u)
           /\ what # "padded" => Len(v) <= Len(u)
<1>1. Len(u) \in Nat /\ (v \in Strings => Len(v) \in Nat)
  BY DEF Strings
<1>2. CASE what = "none" /\ v = u
  BY <1>1, <1>2
<1>3. CASE what = "damaged" /\ Hit(u, v)
  BY <1>1, <1>3 DEF Hit, AlikeBut
<1>4. CASE what = "cut short" /\ Begins(u, v) /\ Len(v) < Len(u)
  BY <1>1, <1>4 DEF Begins
<1>5. CASE what = "padded" /\ Padded(u, v)
  BY <1>1, <1>5 DEF Begins, Padded
<1> QED
  BY <1>2, <1>3, <1>4, <1>5 DEF Suffered

\* What is behind the first octets suffers likewise.
LEMMA SufferedBeyond ==
    ASSUME NEW u \in Strings, NEW v, NEW what, Suffered(u, v, what),
           NEW n \in Nat, n <= Len(u), n <= Len(v)
    PROVE  Suffered(Beyond(u, n), Beyond(v, n), what)
<1> DEFINE x == Beyond(u, n)
           y == Beyond(v, n)
           k == Len(u)
           l == Len(v)
<1>1. v \in Strings /\ u \in Seq(Octet) /\ v \in Seq(Octet) /\ k \in Nat /\ l \in Nat
  BY SufferedType DEF Strings
<1>2. n \in 0 .. Len(u) /\ n \in 0 .. Len(v)
  BY <1>1
<1>3. x \in Seq(Octet) /\ Len(x) = k - n /\ \A j \in 1 .. k - n : x[j] = u[n + j]
  BY <1>1, <1>2, BeyondIs
<1>4. y \in Seq(Octet) /\ Len(y) = l - n /\ \A j \in 1 .. l - n : y[j] = v[n + j]
  BY <1>1, <1>2, BeyondIs
<1>5. CASE what = "none" /\ v = u
  BY <1>5 DEF Suffered
<1>6. CASE what = "damaged" /\ Hit(u, v)
  <2>1. CASE v = u
    <3>1. y \in Strings /\ y = x
      BY <1>4, <2>1 DEF Strings
    <3> HIDE DEF x, y
    <3>2. Suffered(x, y, what)
      BY <1>6, <3>1 DEF Suffered, Hit
    <3> QED
      BY <3>2 DEF x, y
  <2>2. CASE \E i \in 1 .. Len(u) : AlikeBut(u, v, i) /\ v[i] \in Damaged(u[i])
    <3> HIDE DEF x, y
    <3>1. PICK i \in 1 .. Len(u) : AlikeBut(u, v, i) /\ v[i] \in Damaged(u[i])
      BY <2>2
    <3>2. l = k /\ \A j \in 1 .. k : j # i => v[j] = u[j]
      BY <3>1 DEF AlikeBut
    <3> HIDE DEF k, l
    <3>a. n \in 0 .. k /\ i \in 1 .. k /\ k \in Nat
      BY <1>1, <1>2 DEF k
    <3>3. Hit(x, y)
      <4>1. CASE i <= n
        <5>1. \A j \in 1 .. k - n : y[j] = x[j]
          <6> SUFFICES ASSUME NEW j \in 1 .. k - n PROVE y[j] = x[j]
            OBVIOUS
          <6>1. n + j \in 1 .. k /\ n + j # i
            BY <3>a, <4>1
          <6> QED
            BY <1>3, <1>4, <3>2, <6>1
        <5>2. x = y
          BY <1>3, <1>4, <3>2, <5>1, SameString
        <5> QED
          BY <1>4, <5>2 DEF Hit, Strings
      <4>2. CASE i > n
        <5> DEFINE m == i - n
        <5>1. m \in 1 .. k - n /\ n + m = i
          BY <3>a, <4>2
        <5> HIDE DEF m
        <5>2. \A j \in 1 .. k - n : j # m => y[j] = x[j]
          <6> SUFFICES ASSUME NEW j \in 1 .. k - n, j # m PROVE y[j] = x[j]
            OBVIOUS
          <6>1. n + j \in 1 .. k /\ n + j # i
            BY <3>a, <5>1
          <6> QED
            BY <1>3, <1>4, <3>2, <6>1
        <5>3. y[m] = v[i] /\ x[m] = u[i]
          BY <1>3, <1>4, <3>2, <5>1
        <5>4. m \in 1 .. Len(x) /\ AlikeBut(x, y, m)
          BY <1>3, <1>4, <3>2, <5>1, <5>2 DEF AlikeBut, Strings
        <5> QED
          BY <1>4, <3>1, <5>3, <5>4 DEF Hit, Strings
      <4> QED
        BY <3>a, <4>1, <4>2
    <3> QED
      BY <1>6, <3>3 DEF Suffered, x, y
  <2> QED
    BY <1>6, <2>1, <2>2 DEF Hit
<1>7. CASE what = "cut short" /\ Begins(u, v) /\ Len(v) < Len(u)
  <2>1. Begins(x, y)
    BY <1>2, <1>7, BeginsBeyond
  <2>2. Len(y) < Len(x)
    <3> HIDE DEF x, y
    <3>1. l < k /\ n \in 0 .. k /\ k \in Nat /\ l \in Nat
      BY <1>1, <1>2, <1>7
    <3> HIDE DEF k, l
    <3> QED
      BY <1>3, <1>4, <3>1
  <2> QED
    BY <1>7, <2>1, <2>2 DEF Suffered
<1>8. CASE what = "padded" /\ Padded(u, v)
  <2>1. Begins(v, u) /\ \A j \in Len(u) + 1 .. Len(v) : v[j] = 0
    BY <1>8 DEF Padded
  <2>2. Begins(y, x)
    BY <1>1, <1>2, <2>1, BeginsBeyond
  <2> HIDE DEF x, y
  <2>3. ASSUME NEW j \in Len(x) + 1 .. Len(y) PROVE y[j] = 0
    <3>1. n + j \in Len(u) + 1 .. Len(v) /\ j \in 1 .. l - n
      BY <1>1, <1>2, <1>3, <1>4
    <3> QED
      BY <1>4, <2>1, <3>1
  <2>4. Padded(x, y)
    BY <1>4, <2>2, <2>3 DEF Padded, Strings
  <2> QED
    BY <1>8, <2>4 DEF Suffered, x, y
<1> QED
  BY <1>5, <1>6, <1>7, <1>8 DEF Suffered

\* And so does a string that is put behind others.
LEMMA SufferedBehind ==
    ASSUME NEW s \in Strings, NEW x \in Strings, NEW y, NEW what, Suffered(x, y, what)
    PROVE  Suffered(s \o x, s \o y, what)
<1> DEFINE u == s \o x
           v == s \o y
           n == Len(s)
           k == Len(x)
           l == Len(y)
<1>1. y \in Strings /\ n \in Nat /\ k \in Nat /\ l \in Nat
  <2>1. y \in Strings
    BY SufferedType
  <2> QED
    BY <2>1 DEF Strings
<1>2. /\ u \in Seq(Octet) /\ Len(u) = n + k
      /\ \A j \in 1 .. n : u[j] = s[j]
      /\ \A j \in 1 .. k : u[n + j] = x[j]
  BY JoinOctets
<1>3. /\ v \in Seq(Octet) /\ Len(v) = n + l
      /\ \A j \in 1 .. n : v[j] = s[j]
      /\ \A j \in 1 .. l : v[n + j] = y[j]
  BY <1>1, JoinOctets
<1>4. CASE what = "none" /\ y = x
  BY <1>4 DEF Suffered
<1>5. CASE what = "damaged" /\ Hit(x, y)
  <2>1. CASE y = x
    <3>1. v = u /\ v \in Strings
      BY <1>3, <2>1 DEF Strings
    <3> HIDE DEF u, v
    <3>2. Suffered(u, v, what)
      BY <1>5, <3>1 DEF Suffered, Hit
    <3> QED
      BY <3>2 DEF u, v
  <2>2. CASE \E i \in 1 .. Len(x) : AlikeBut(x, y, i) /\ y[i] \in Damaged(x[i])
    <3> HIDE DEF u, v
    <3>1. PICK i \in 1 .. Len(x) : AlikeBut(x, y, i) /\ y[i] \in Damaged(x[i])
      BY <2>2
    <3>2. l = k /\ (\A j \in 1 .. k : j # i => y[j] = x[j]) /\ i \in 1 .. k
      BY <3>1 DEF AlikeBut
    <3> HIDE DEF n, k, l
    <3> DEFINE m == n + i
    <3>3. m \in 1 .. n + k /\ v[m] = y[i] /\ u[m] = x[i]
      BY <1>1, <1>2, <1>3, <3>2
    <3>4. ASSUME NEW j \in 1 .. n + k, j # m PROVE v[j] = u[j]
      <4>1. CASE j <= n
        BY <1>1, <1>2, <1>3, <4>1
      <4>2. CASE j > n
        <5> DEFINE h == j - n
        <5>1. h \in 1 .. k /\ j = n + h /\ h # i
          BY <1>1, <3>2, <3>4, <4>2
        <5> HIDE DEF h
        <5> QED
          BY <1>2, <1>3, <3>2, <5>1
      <4> QED
        BY <1>1, <4>1, <4>2
    <3> HIDE DEF m
    <3>5. m \in 1 .. Len(u) /\ AlikeBut(u, v, m)
      BY <1>2, <1>3, <3>2, <3>3, <3>4 DEF AlikeBut, Strings
    <3>6. v[m] \in Damaged(u[m])
      BY <3>1, <3>3
    <3>7. Hit(u, v)
      BY <1>3, <3>5, <3>6 DEF Hit, Strings
    <3> QED
      BY <1>5, <3>7 DEF Suffered, u, v
  <2> QED
    BY <1>5, <2>1, <2>2 DEF Hit
<1> HIDE DEF u, v
<1>6. ASSUME l <= k, \A j \in 1 .. l : y[j] = x[j] PROVE Begins(u, v)
  <2>1. ASSUME NEW j \in 1 .. n + l PROVE v[j] = u[j]
    <3> HIDE DEF n, k, l
    <3>1. CASE j <= n
      BY <1>1, <1>2, <1>3, <3>1
    <3>2. CASE j > n
      <4> DEFINE h == j - n
      <4>1. h \in 1 .. l /\ h \in 1 .. k /\ j = n + h
        BY <1>1, <1>6, <3>2
      <4> HIDE DEF h
      <4> QED
        BY <1>2, <1>3, <1>6, <4>1
    <3> QED
      BY <1>1, <3>1, <3>2
  <2>2. Len(v) <= Len(u)
    <3> HIDE DEF n, k, l
    <3> QED
      BY <1>1, <1>2, <1>3, <1>6
  <2> QED
    BY <1>3, <2>1, <2>2 DEF Begins, Strings
<1>7. CASE what = "cut short" /\ Begins(x, y) /\ Len(y) < Len(x)
  <2>1. Begins(u, v)
    BY <1>1, <1>6, <1>7 DEF Begins
  <2>2. Len(v) < Len(u)
    <3>1. l < k
      BY <1>7
    <3> HIDE DEF n, k, l
    <3> QED
      BY <1>1, <1>2, <1>3, <3>1
  <2> QED
    BY <1>7, <2>1, <2>2 DEF Suffered, u, v
<1>8. CASE what = "padded" /\ Padded(x, y)
  <2>1. k <= l /\ (\A j \in 1 .. k : x[j] = y[j]) /\ \A j \in k + 1 .. l : y[j] = 0
    BY <1>8 DEF Padded, Begins
  <2> HIDE DEF n, k, l
  <2>2. ASSUME NEW j \in 1 .. n + k PROVE u[j] = v[j]
    <3>1. CASE j <= n
      BY <1>1, <1>2, <1>3, <3>1
    <3>2. CASE j > n
      <4> DEFINE h == j - n
      <4>1. h \in 1 .. l /\ h \in 1 .. k /\ j = n + h
        BY <1>1, <2>1, <3>2
      <4> HIDE DEF h
      <4> QED
        BY <1>2, <1>3, <2>1, <4>1
    <3> QED
      BY <1>1, <3>1, <3>2
  <2>3. Len(u) <= Len(v)
    BY <1>1, <1>2, <1>3, <2>1
  <2>4. ASSUME NEW j \in Len(u) + 1 .. Len(v) PROVE v[j] = 0
    <3> DEFINE h == j - n
    <3>1. h \in k + 1 .. l /\ h \in 1 .. l /\ j = n + h
      BY <1>1, <1>2, <1>3
    <3> HIDE DEF h
    <3> QED
      BY <1>3, <2>1, <3>1
  <2>5. Padded(u, v)
    BY <1>2, <1>3, <2>2, <2>3, <2>4 DEF Padded, Begins, Strings
  <2> QED
    BY <1>8, <2>5 DEF Suffered, u, v
<1> QED
  BY <1>4, <1>5, <1>7, <1>8 DEF Suffered, u, v

-----------------------------------------------------------------------------
\* What is read of a segment that has suffered

Payload(u) == Beyond(u, 4 * (At(u, 12, 1) \div 16))

\* unwrap_tcp_in_ip, of a segment's octets.
Opened(u, pseudo) ==
    IF Sound(u, pseudo) /\ At(u, 2, 2) = Destination.port /\ At(u, 0, 2) = Source.port
    THEN Valid(WithoutPorts(SegmentOf(SegmentIntegers(u), Payload(u)))) ELSE Invalid

Extended(p, q) ==
    /\ p \in Strings /\ q \in Strings /\ Len(p) <= Len(q)
    /\ \A j \in 1 .. Len(p) : q[j] = p[j]
    /\ \A j \in Len(p) + 1 .. Len(q) : q[j] = 0

Shortened(m, options, n) ==
    [m EXCEPT !.payload = SubSeq(options \o m.payload, Len(options) + 1, n)]

Allowed(r, m, options, what) ==
    \/ r = Valid(m)
    \/ what # "none" /\ r = Invalid
    \/ /\ what = "cut short"
       /\ \E n \in 0 .. Len(options \o m.payload) - 1 :
            r = Valid(Shortened(m, options, n)) /\ Unseen(n, options \o m.payload)
    \/ /\ what = "padded"
       /\ \E p : Extended(m.payload, p) /\ r = Valid([m EXCEPT !.payload = p])

Fours(options) == \E k \in 0 .. 10 : Len(options) = 4 * k /\ Len(options) \div 4 = k

WithPayload(m, p) == [m EXCEPT !.payload = p]

LEMMA OtherPayload ==
    ASSUME NEW v, NEW w, NEW p, NEW q,
           v[3] = w[3], v[4] = w[4], v[6] = w[6], v[7] = w[7]
    PROVE  WithoutPorts(SegmentOf(v, q)) = WithPayload(WithoutPorts(SegmentOf(w, p)), q)
<1> DEFINE s == w[3]
           a == IF Flag(16, w[6]) THEN w[4] ELSE NoAckno
           b == Flag(4, w[6])
           c == Flag(2, w[6])
           d == Flag(1, w[6])
           e == w[7]
<1>1. WithoutPorts(SegmentOf(v, q)) =
        [seqno |-> s, ackno |-> a, reset |-> b, SYN |-> c, FIN |-> d,
         window_size |-> e, payload |-> q]
  BY DEF WithoutPorts, SegmentOf
<1>2. WithoutPorts(SegmentOf(w, p)) =
        [seqno |-> s, ackno |-> a, reset |-> b, SYN |-> c, FIN |-> d,
         window_size |-> e, payload |-> p]
  BY DEF WithoutPorts, SegmentOf
<1> HIDE DEF s, a, b, c, d, e
<1> QED
  BY <1>1, <1>2 DEF WithPayload

\* The same first twenty octets.
LEMMA OpenedFront ==
    ASSUME NEW m \in MessageType, NEW options \in Strings, Fours(options), NEW pseudo \in Nat,
           NEW t, CarriesSegment(t, m, options, pseudo),
           NEW u \in Strings, Len(u) >= 20, \A j \in 1 .. 20 : u[j] = t[j]
    PROVE  Opened(u, pseudo) =
             IF Vanishes(pseudo + Weight(u))
             THEN Valid([m EXCEPT !.payload = Beyond(Beyond(u, 20), Len(options))]) ELSE Invalid
<1> DEFINE p == m.payload
           w == SegmentIntegers(t)
           v == SegmentIntegers(u)
<1>1. Bare(t, m, options)
  BY DEF CarriesSegment
<1>2. PICK k \in 0 .. 10 : Len(options) = 4 * k /\ Len(options) \div 4 = k
  BY DEF Fours
<1>3. ASSUME NEW o \in Nat, NEW x \in Width, o + x <= 20 PROVE At(u, o, x) = At(t, o, x)
  <2>1. x \in 1 .. 4
    BY DEF Width
  <2>2. \A j \in 1 .. x : u[o + j] = t[o + j]
    <3> SUFFICES ASSUME NEW j \in 1 .. x PROVE u[o + j] = t[o + j]
      OBVIOUS
    <3>1. x \in Int /\ j \in Int /\ 1 <= j /\ j <= x /\ o \in Nat /\ o + x <= 20
      BY <1>3, <2>1
    <3>2. o + j \in 1 .. 20
      BY <3>1
    <3> QED
      BY <3>2
  <2> QED
    BY <2>2, AtSame, SMTT(60)
<1>4. 1 \in Width /\ 2 \in Width /\ 4 \in Width
  BY DEF Width
<1>5. /\ \A o \in Nat : o + 1 <= 20 => At(u, o, 1) = At(t, o, 1)
      /\ \A o \in Nat : o + 2 <= 20 => At(u, o, 2) = At(t, o, 2)
      /\ \A o \in Nat : o + 4 <= 20 => At(u, o, 4) = At(t, o, 4)
  BY <1>3, <1>4
<1>6. /\ At(u, 0, 2) = At(t, 0, 2) /\ At(u, 2, 2) = At(t, 2, 2) /\ At(u, 14, 2) = At(t, 14, 2)
      /\ At(u, 12, 1) = At(t, 12, 1) /\ At(u, 13, 1) = At(t, 13, 1)
      /\ At(u, 4, 4) = At(t, 4, 4) /\ At(u, 8, 4) = At(t, 8, 4)
  BY <1>5
<1>7. v[3] = w[3] /\ v[4] = w[4] /\ v[6] = w[6] /\ v[7] = w[7]
  BY <1>6 DEF SegmentIntegers
<1>8. At(t, 12, 1) = 16 * (5 + k) /\ At(t, 0, 2) = Source.port /\ At(t, 2, 2) = Destination.port
      /\ WithoutPorts(SegmentOf(w, p)) = m
  BY <1>1, <1>2 DEF Bare
<1> HIDE DEF v, w
<1>9. At(u, 12, 1) \div 16 = 5 + k
  <2>1. (16 * (5 + k)) \div 16 = 5 + k
    BY SMT
  <2> QED
    BY <1>6, <1>8, <2>1
<1>10. 4 * (5 + k) = 20 + Len(options)
  BY <1>2
<1>11. Payload(u) = Beyond(Beyond(u, 20), Len(options))
  <2> DEFINE a == 20
             b == Len(options)
  <2>1. u \in Seq(Octet) /\ a \in Nat /\ b \in Nat
    BY <1>2 DEF Strings
  <2>2. Payload(u) = Beyond(u, a + b)
    BY <1>9, <1>10 DEF Payload
  <2> HIDE DEF a, b
  <2>3. Beyond(Beyond(u, a), b) = Beyond(u, a + b)
    BY <2>1, BeyondBeyond
  <2> QED
    BY <2>2, <2>3 DEF a, b
<1> DEFINE q == Payload(u)
<1>12. WithoutPorts(SegmentOf(v, q)) = [m EXCEPT !.payload = q]
  <2> HIDE DEF q, p
  <2>1. WithoutPorts(SegmentOf(v, q)) = WithPayload(WithoutPorts(SegmentOf(w, p)), q)
    <3>1. v[3] = w[3] /\ v[4] = w[4] /\ v[6] = w[6] /\ v[7] = w[7]
      BY <1>7
    <3>2. \A a, b : WithoutPorts(SegmentOf(v, b)) = WithPayload(WithoutPorts(SegmentOf(w, a)), b)
      BY <3>1, OtherPayload
    <3> QED
      BY <3>2, Zenon
  <2> QED
    BY <1>8, <2>1, Zenon DEF WithPayload
<1>13. Sound(u, pseudo) <=> Vanishes(pseudo + Weight(u))
  <2>1. At(u, 12, 1) \div 16 >= 5
    BY <1>9, SMTT(60)
  <2> QED
    BY <2>1, Zenon DEF Sound
<1>14. At(u, 0, 2) = Source.port /\ At(u, 2, 2) = Destination.port
  BY <1>6, <1>8
<1> HIDE DEF q
<1>15. Opened(u, pseudo) = IF Sound(u, pseudo) THEN Valid([m EXCEPT !.payload = q]) ELSE Invalid
  <2>1. WithoutPorts(SegmentOf(SegmentIntegers(u), Payload(u))) = [m EXCEPT !.payload = q]
    BY <1>12 DEF q, v
  <2> QED
    BY <1>14, <2>1, Zenon DEF Opened
<1>16. q = Beyond(Beyond(u, 20), Len(options))
  BY <1>11 DEF q
<1> QED
  BY <1>13, <1>15, <1>16, Zenon

LEMMA OpenedIntact ==
    ASSUME NEW m \in MessageType, NEW options \in Strings, Fours(options), NEW pseudo \in Nat,
           NEW t, CarriesSegment(t, m, options, pseudo)
    PROVE  Opened(t, pseudo) = Valid(m)
<1>1. /\ t \in Strings /\ Len(t) >= 20 /\ Beyond(t, 20) = options \o m.payload
      /\ Vanishes(pseudo + Weight(t))
  BY BareLength DEF CarriesSegment, Bare
<1>2. Opened(t, pseudo) =
           IF Vanishes(pseudo + Weight(t))
           THEN Valid([m EXCEPT !.payload = Beyond(Beyond(t, 20), Len(options))]) ELSE Invalid
  BY <1>1, OpenedFront
<1>3. Beyond(options \o m.payload, Len(options)) = m.payload
  <2>1. m.payload \in Seq(Octet) /\ options \in Seq(Octet)
    BY DEF MessageType, Strings
  <2> QED
    BY <2>1, JoinedParts
<1>4. [m EXCEPT !.payload = m.payload] = m
  BY DEF MessageType
<1> QED
  BY <1>1, <1>2, <1>3, <1>4, Zenon

LEMMA VanishesLess ==
    ASSUME NEW a \in Nat, NEW b \in Nat, Vanishes(a + b), Vanishes(a)
    PROVE  Vanishes(b)
<1>1. PICK i \in Nat : a + b = Modulus * i
  BY DEF Vanishes
<1>2. PICK j \in Nat : a = Modulus * j
  BY DEF Vanishes
<1>3. b = Modulus * (i - j) /\ i - j \in Nat
  BY <1>1, <1>2, SMT DEF Modulus
<1> QED
  BY <1>3 DEF Vanishes

\* The octets from n on, whose weight a cut takes away.
Missing(n, z) == [k \in DOMAIN z |-> IF k <= n THEN 0 ELSE z[k]]

LEMMA WeightCut ==
    ASSUME NEW z \in Strings, NEW n \in 0 .. Len(z)
    PROVE  Missing(n, z) \in Strings /\ Weight(z) = Weight(Upto(z, n)) + Weight(Missing(n, z))
<1> DEFINE l == Len(z)
           x == [k \in 1 .. l |-> IF k <= n THEN z[k] ELSE 0]
           y == [k \in 1 .. l |-> IF k <= n THEN 0 ELSE z[k]]
<1>1. l \in Nat /\ z \in [1 .. l -> Octet] /\ n \in 0 .. l
  BY DEF Strings
<1>2. 0 \in Octet
  BY OctetIs
<1>3. Missing(n, z) = y
  <2>1. DOMAIN z = 1 .. l
    BY <1>1
  <2> QED
    BY <2>1, Zenon DEF Missing
<1> HIDE DEF l
<1>4. x \in [1 .. l -> Octet] /\ y \in [1 .. l -> Octet]
  BY <1>1, <1>2
<1>5. /\ \A k \in 1 .. l : x[k] = IF k <= n THEN z[k] ELSE 0
      /\ \A k \in 1 .. l : y[k] = IF k <= n THEN 0 ELSE z[k]
  OBVIOUS
<1> HIDE DEF x, y
<1>6. x \in Strings /\ y \in Strings /\ Len(x) = l /\ Len(y) = l
  BY <1>1, <1>4, ListOf DEF Strings
<1>7. Weight(z) = Weight(x) + Weight(y)
  <2>1. \A k \in 1 .. l : z[k] = x[k] + y[k]
    <3> SUFFICES ASSUME NEW k \in 1 .. l PROVE z[k] = x[k] + y[k]
      OBVIOUS
    <3>1. z[k] \in Int
      <4>1. z[k] \in Octet
        BY <1>1
      <4> QED
        BY <4>1, OctetIs
    <3> QED
      BY <1>5, <3>1
  <2> QED
    BY <1>6, <2>1, WeightAdds DEF l
<1>8. Weight(x) = Weight(Upto(x, n))
  <2>1. n \in 0 .. Len(x) /\ \A k \in n + 1 .. Len(x) : x[k] = 0
    BY <1>1, <1>5, <1>6
  <2> QED
    BY <1>6, <2>1, WeightTail
<1>9. Upto(x, n) = Upto(z, n)
  <2> DEFINE s == Upto(x, n)
             t == Upto(z, n)
  <2>1. x \in Seq(Octet) /\ n \in 0 .. Len(x) /\ z \in Seq(Octet)
    BY <1>1, <1>6 DEF Strings
  <2>2. s \in Seq(Octet) /\ Len(s) = n /\ \A k \in 1 .. n : s[k] = x[k]
    BY <2>1, UptoIs
  <2>3. t \in Seq(Octet) /\ Len(t) = n /\ \A k \in 1 .. n : t[k] = z[k]
    BY <2>1, UptoIs
  <2> HIDE DEF s, t
  <2>4. \A k \in 1 .. n : s[k] = t[k]
    BY <1>1, <1>5, <2>2, <2>3
  <2>5. s = t
    BY <2>2, <2>3, <2>4, SameString
  <2> QED
    BY <2>5 DEF s, t
<1> QED
  BY <1>3, <1>6, <1>7, <1>8, <1>9

LEMMA UnseenIs ==
    ASSUME NEW z \in Strings, NEW n \in 0 .. Len(z), Vanishes(Weight(Missing(n, z)))
    PROVE  Unseen(n, z)
<1> DEFINE x == Missing(n, z)
<1>1. x \in Strings
  BY WeightCut
<1>2. Unseen(n, z) <=> Folded[Weight(x)] \in {0, 65535}
  BY SMT DEF Unseen, Missing, Weight
<1>3. Vanishes(Weight(x))
  OBVIOUS
<1> HIDE DEF x
<1>4. Weight(x) \in Nat
  BY <1>1, WeightType
<1> DEFINE a == Weight(x)
<1>5. a \in Nat /\ Vanishes(a)
  BY <1>3, <1>4
<1> HIDE DEF a
<1>6. Folded[a] \in {0, 65535}
  BY <1>5, FoldedFacts
<1> QED
  BY <1>2, <1>6 DEF a

\* The end of a segment that was cut short.
LEMMA CutPayload ==
    ASSUME NEW z \in Strings, NEW y, Begins(z, y), NEW l \in Nat
    PROVE  y = Upto(z, Len(y)) /\ Beyond(y, l) = SubSeq(z, l + 1, Len(y))
<1> DEFINE n == Len(y)
<1>1. z \in Seq(Octet) /\ y \in Seq(Octet) /\ n \in 0 .. Len(z) /\ \A j \in 1 .. n : y[j] = z[j]
  BY DEF Begins, Strings
<1>2. /\ Upto(z, n) \in Seq(Octet) /\ Len(Upto(z, n)) = n
      /\ \A k \in 1 .. n : Upto(z, n)[k] = z[k]
  BY <1>1, UptoIs
<1>3. y = Upto(z, n)
  <2> DEFINE x == Upto(z, n)
  <2>1. x \in Seq(Octet) /\ Len(x) = Len(y) /\ \A j \in 1 .. Len(y) : y[j] = x[j]
    BY <1>1, <1>2
  <2> HIDE DEF x
  <2>2. y = x
    BY <1>1, <2>1, SameString
  <2> QED
    BY <2>2 DEF x
<1>4. Beyond(y, l) = SubSeq(z, l + 1, n)
  <2> DEFINE u == SubSeq(y, l + 1, n)
             v == SubSeq(z, l + 1, n)
  <2>1. CASE l <= n
    <3>1. u \in Seq(Octet) /\ Len(u) = n - l /\ \A k \in 1 .. n - l : u[k] = y[l + k]
      BY <1>1, <2>1
    <3>2. v \in Seq(Octet) /\ Len(v) = n - l /\ \A k \in 1 .. n - l : v[k] = z[l + k]
      BY <1>1, <2>1
    <3> HIDE DEF u, v
    <3>3. \A k \in 1 .. n - l : l + k \in 1 .. n
      BY <1>1, <2>1
    <3>4. \A k \in 1 .. n - l : u[k] = v[k]
      BY <1>1, <3>1, <3>2, <3>3
    <3>5. u = v
      BY <3>1, <3>2, <3>4, SameString
    <3> QED
      BY <3>5 DEF u, v, Beyond
  <2>2. CASE l > n
    <3>1. u = <<>> /\ v = <<>>
      BY <1>1, <2>2
    <3> QED
      BY <3>1 DEF Beyond
  <2> QED
    BY <1>1, <2>1, <2>2
<1> QED
  BY <1>3, <1>4

LEMMA CutSegment ==
    ASSUME NEW m \in MessageType, NEW options \in Strings, Fours(options), NEW pseudo \in Nat,
           NEW t, CarriesSegment(t, m, options, pseudo),
           NEW u, Begins(t, u), Len(u) < Len(t)
    PROVE  Allowed(Opened(u, pseudo), m, options, "cut short")
<1> DEFINE z == options \o m.payload
           y == Beyond(u, 20)
           n == Len(y)
           l == Len(options)
           r == Opened(u, pseudo)
           a == Upto(t, 20)
<1>1. /\ t \in Strings /\ t \in Seq(Octet) /\ Len(t) >= 20 /\ Len(t) \in Nat /\ Beyond(t, 20) = z
      /\ Vanishes(pseudo + Weight(t)) /\ l \in Nat
  BY BareLength DEF CarriesSegment, Bare, Strings
<1>2. u \in Strings /\ Len(u) \in Nat /\ \A j \in 1 .. Len(u) : u[j] = t[j]
  BY DEF Begins, Strings
<1>3. CASE Len(u) < 20
  <2>1. ~Sound(u, pseudo)
    BY <1>2, <1>3 DEF Sound
  <2> QED
    BY <2>1, Zenon DEF Opened, Allowed
<1>4. CASE Len(u) >= 20
  <2>1. \A j \in 1 .. 20 : u[j] = t[j]
    BY <1>2, <1>4
  <2>2. r = IF Vanishes(pseudo + Weight(u)) THEN Valid([m EXCEPT !.payload = Beyond(y, l)])
            ELSE Invalid
    BY <1>2, <1>4, <2>1, OpenedFront
  <2>3. 20 \in 0 .. Len(u)
    BY <1>2, <1>4
  <2>4. Begins(z, y) /\ Len(z) = Len(t) - 20 /\ n = Len(u) - 20
    BY <1>1, <2>3, BeginsBeyond, ZenonT(60)
  <2>5. z \in Strings /\ y \in Strings /\ n \in Nat /\ Len(z) \in Nat /\ n < Len(z)
    <3>1. z \in Strings
      <4>1. 20 \in 0 .. Len(t)
        BY <1>1
      <4>2. Beyond(t, 20) \in Seq(Octet)
        BY <1>1, <4>1, BeyondIs
      <4> QED
        BY <1>1, <4>2 DEF Strings
    <3>2. y \in Strings
      BY <2>4 DEF Begins
    <3> QED
      BY <1>1, <1>2, <2>4, <3>1, <3>2 DEF Strings
  <2>6. y = Upto(z, n) /\ Beyond(y, l) = SubSeq(z, l + 1, n)
    BY <1>1, <2>4, <2>5, CutPayload, ZenonT(60)
  <2>7. CASE ~Vanishes(pseudo + Weight(u))
    BY <2>2, <2>7, Zenon DEF Allowed
  <2>8. CASE Vanishes(pseudo + Weight(u))
    <3>1. r = Valid(Shortened(m, options, n))
      BY <2>2, <2>6, <2>8, Zenon DEF Shortened
    <3>2. a \in Strings /\ Len(a) = 20 /\ t = a \o z /\ u = a \o y
      <4>1. 20 \in 0 .. Len(t)
        BY <1>1
      <4>2. a \in Seq(Octet) /\ Len(a) = 20 /\ \A k \in 1 .. 20 : a[k] = t[k]
        BY <1>1, <4>1, UptoIs
      <4>3. t = a \o z
        BY <1>1, <4>1, Split
      <4> DEFINE b == Upto(u, 20)
      <4>4. b \in Seq(Octet) /\ Len(b) = 20 /\ \A k \in 1 .. 20 : b[k] = u[k]
        BY <1>2, <2>3, UptoIs DEF Strings
      <4>5. u = b \o y
        BY <1>2, <2>3, Split DEF Strings
      <4> HIDE DEF a, b
      <4>6. a = b
        BY <2>1, <4>2, <4>4, SameString, ZenonT(60)
      <4> QED
        BY <4>2, <4>3, <4>5, <4>6 DEF Strings
    <3> HIDE DEF a, y, z, r
    <3>3. Weight(t) = Weight(a) + Weight(z) /\ Weight(u) = Weight(a) + Weight(y)
      <4> DEFINE e == 10
      <4>1. e \in Nat /\ Len(a) = 2 * e
        BY <3>2
      <4> HIDE DEF e
      <4> QED
        BY <2>5, <3>2, <4>1, WeightJoin
    <3> DEFINE x == Missing(n, z)
    <3>4. x \in Strings /\ Weight(z) = Weight(Upto(z, n)) + Weight(x)
      <4>1. n \in 0 .. Len(z)
        BY <2>5
      <4> QED
        BY <2>5, <4>1, WeightCut
    <3> HIDE DEF x
    <3>5. Weight(t) = Weight(u) + Weight(x) /\ Weight(u) \in Nat /\ Weight(x) \in Nat
      <4>1. Weight(a) \in Nat /\ Weight(y) \in Nat /\ Weight(x) \in Nat
        BY <2>5, <3>2, <3>4, WeightType
      <4>2. Weight(Upto(z, n)) = Weight(y)
        BY <2>6
      <4> QED
        BY <3>3, <3>4, <4>1, <4>2
    <3>6. Vanishes(Weight(x))
      <4> DEFINE i == pseudo + Weight(u)
                 j == Weight(x)
      <4>1. i \in Nat /\ j \in Nat /\ pseudo + Weight(t) = i + j
        BY <3>5
      <4>2. Vanishes(i) /\ Vanishes(i + j)
        BY <1>1, <2>8, <4>1
      <4> HIDE DEF i, j
      <4>3. Vanishes(j)
        BY <4>1, <4>2, VanishesLess
      <4> QED
        BY <4>3 DEF j
    <3>7. Unseen(n, z)
      <4>1. n \in 0 .. Len(z)
        BY <2>5
      <4> QED
        BY <2>5, <3>6, <4>1, UnseenIs DEF x
    <3>8. n \in 0 .. Len(z) - 1
      BY <2>5
    <3> QED
      BY <3>1, <3>7, <3>8, Zenon DEF Allowed, z, r
  <2> QED
    BY <2>7, <2>8
<1>5. Len(u) < 20 \/ Len(u) >= 20
  BY <1>2
<1> QED
  BY <1>3, <1>4, <1>5, Zenon

LEMMA PaddedSegment ==
    ASSUME NEW m \in MessageType, NEW options \in Strings, Fours(options), NEW pseudo \in Nat,
           NEW t, CarriesSegment(t, m, options, pseudo), NEW u, Padded(t, u)
    PROVE  Allowed(Opened(u, pseudo), m, options, "padded")
<1> DEFINE z == options \o m.payload
           y == Beyond(u, 20)
           l == Len(options)
           r == Opened(u, pseudo)
           p == m.payload
           q == Beyond(y, l)
<1>1. /\ t \in Strings /\ t \in Seq(Octet) /\ Len(t) >= 20 /\ Len(t) \in Nat /\ Beyond(t, 20) = z
      /\ l \in Nat
  BY BareLength DEF CarriesSegment, Bare, Strings
<1>2. /\ u \in Strings /\ Len(u) \in Nat /\ Len(t) <= Len(u) /\ \A j \in 1 .. Len(t) : u[j] = t[j]
  BY DEF Padded, Begins, Strings
<1>3. \A j \in 1 .. 20 : u[j] = t[j]
  BY <1>1, <1>2
<1>4. Len(u) >= 20
  BY <1>1, <1>2
<1>5. r = IF Vanishes(pseudo + Weight(u)) THEN Valid([m EXCEPT !.payload = q]) ELSE Invalid
  BY <1>2, <1>3, <1>4, OpenedFront
<1>6. p \in Strings /\ Beyond(z, l) = p /\ Len(z) = l + Len(p) /\ z \in Strings
  <2>1. p \in Seq(Octet) /\ options \in Seq(Octet)
    BY DEF MessageType, Strings
  <2> QED
    BY <2>1, JoinedParts, JoinIs DEF Strings
<1>7. Extended(p, q)
  <2>1. Suffered(t, u, "padded")
    BY DEF Suffered
  <2> DEFINE what == "padded"
             a == 20
  <2>2. Suffered(t, u, what) /\ a \in Nat /\ a <= Len(t) /\ a <= Len(u)
    BY <1>1, <1>4, <2>1
  <2> HIDE DEF what, a
  <2>3. Suffered(Beyond(t, a), Beyond(u, a), what)
    BY <1>1, <2>2, SufferedBeyond
  <2>4. Suffered(z, y, what)
    BY <1>1, <2>3 DEF a
  <2> HIDE DEF z, y
  <2>5. y \in Strings /\ Len(z) \in Nat /\ Len(y) \in Nat /\ Len(y) >= Len(z)
    <3>1. what # "cut short"
      BY DEF what
    <3> QED
      BY <1>6, <2>4, <3>1, SufferedType
  <2>6. l <= Len(z) /\ l <= Len(y)
    <3>1. Len(p) \in Nat
      BY <1>6 DEF Strings
    <3> HIDE DEF l, p
    <3> QED
      BY <1>1, <1>6, <2>5, <3>1
  <2>7. Suffered(Beyond(z, l), Beyond(y, l), what)
    BY <1>1, <1>6, <2>4, <2>6, SufferedBeyond
  <2>8. Suffered(p, q, what)
    BY <1>6, <2>7
  <2> HIDE DEF p, q
  <2>9. Padded(p, q)
    BY <2>8 DEF Suffered, what
  <2> QED
    BY <1>6, <2>9 DEF Padded, Begins, Extended
<1> HIDE DEF q, r
<1> QED
  BY <1>5, <1>7, Zenon DEF Allowed, r

\* What is read of a segment that was damaged, cut short or padded.
LEMMA SegmentSuffered ==
    ASSUME NEW m \in MessageType, NEW options \in Strings, Fours(options), NEW pseudo \in Nat,
           NEW t, CarriesSegment(t, m, options, pseudo), NEW u, NEW what, Suffered(t, u, what)
    PROVE  Allowed(Opened(u, pseudo), m, options, what)
<1>1. Opened(t, pseudo) = Valid(m)
  BY OpenedIntact
<1>2. CASE u = t
  BY <1>1, <1>2 DEF Allowed
<1>3. CASE what = "damaged" /\ Hit(t, u) /\ u # t
  <2>1. t \in Strings /\ Vanishes(pseudo + Weight(t))
    BY DEF CarriesSegment, Bare
  <2>2. PICK k \in 1 .. Len(t) : AlikeBut(t, u, k)
    BY <1>3 DEF Hit
  <2>3. u \in Strings /\ Len(u) = Len(t) /\ \A j \in 1 .. Len(t) : j # k => t[j] = u[j]
    BY <2>2 DEF AlikeBut
  <2>4. ~Vanishes(pseudo + Weight(u))
    <3>1. ASSUME Vanishes(pseudo + Weight(u)) PROVE FALSE
      <4>1. t = u
        BY <2>1, <2>2, <2>3, <3>1, OneOctet
      <4> QED
        BY <1>3, <4>1
    <3> QED
      BY <3>1
  <2>5. ~Sound(u, pseudo)
    BY <2>4 DEF Sound
  <2> QED
    BY <1>3, <2>5, Zenon DEF Opened, Allowed
<1>4. CASE what = "cut short" /\ Begins(t, u) /\ Len(u) < Len(t)
  BY <1>4, CutSegment
<1>5. CASE what = "padded" /\ Padded(t, u)
  BY <1>5, PaddedSegment
<1> QED
  BY <1>2, <1>3, <1>4, <1>5 DEF Suffered

-----------------------------------------------------------------------------
\* What is read of a datagram that has suffered

\* A header that is accepted is the one that was written.
LEMMA HeaderKept ==
    ASSUME NEW y \in Strings, Accepted(y), NEW x, NEW what, Suffered(y, x, what), Accepted(x)
    PROVE  Header(x) = Header(y)
<1>1. /\ x \in Strings /\ Len(x) \in Nat /\ Len(y) \in Nat /\ Len(x) >= 20 /\ Len(y) >= 20
  BY SufferedType DEF Accepted
<1>2. CASE what = "none" /\ x = y
  BY <1>2
<1>3. CASE what = "damaged" /\ Hit(y, x)
  <2>1. CASE x = y
    BY <2>1
  <2>2. CASE \E k \in 1 .. Len(y) : AlikeBut(y, x, k) /\ x[k] \in Damaged(y[k])
    <3>1. PICK k \in 1 .. Len(y) : AlikeBut(y, x, k)
      BY <2>2
    <3>2. \A j \in 1 .. Len(y) : j # k => x[j] = y[j]
      BY <3>1 DEF AlikeBut
    <3>3. k \in Int /\ 1 <= k /\ \A j \in 1 .. 20 : j \in 1 .. Len(y)
      BY <1>1
    <3>4. \A j \in 1 .. 20 : j # k => x[j] = y[j]
      BY <3>2, <3>3
    <3>5. CASE k <= 20
      <4>1. k \in 1 .. 20
        BY <3>3, <3>5
      <4>2. \A j \in 1 .. 20 : j # k => y[j] = x[j]
        BY <3>4
      <4> QED
        BY <1>1, <4>1, <4>2, DamagedHeader
    <3>6. CASE k > 20
      <4>1. \A j \in 1 .. 20 : x[j] = y[j]
        <5> SUFFICES ASSUME NEW j \in 1 .. 20 PROVE x[j] = y[j]
          OBVIOUS
        <5>1. j # k
          BY <3>3, <3>6
        <5> QED
          BY <3>4, <5>1
      <4> QED
        BY <4>1, HeaderSame
    <3> QED
      BY <3>3, <3>5, <3>6
  <2> QED
    BY <1>3, <2>1, <2>2 DEF Hit
<1>4. CASE what = "cut short" /\ Begins(y, x)
  <2>1. \A j \in 1 .. Len(x) : x[j] = y[j]
    BY <1>4 DEF Begins
  <2>2. \A j \in 1 .. 20 : x[j] = y[j]
    BY <1>1, <2>1
  <2> QED
    BY <2>2, HeaderSame
<1>5. CASE what = "padded" /\ Padded(y, x)
  <2>1. \A j \in 1 .. Len(y) : y[j] = x[j]
    BY <1>5 DEF Padded, Begins
  <2>2. \A j \in 1 .. 20 : x[j] = y[j]
    BY <1>1, <2>1
  <2> QED
    BY <2>2, HeaderSame
<1> QED
  BY <1>2, <1>3, <1>4, <1>5 DEF Suffered

\* What a connection makes of the buffers of a datagram.
Told(b) == IF ParseDatagram(b).valid THEN Unwrapped(ParseDatagram(b).object) ELSE Invalid

LEMMA ToldIs ==
    ASSUME NEW b \in Buffers, NEW x, x = FlattenSeq(b)
    PROVE  /\ ~Accepted(x) => Told(b) = Invalid /\ ParseDatagram(b) = Invalid
           /\ Accepted(x) /\ Header(x).hlen = 5 /\ Header(x).proto = 6
              /\ Header(x).src = Source.ip /\ Header(x).dst = Destination.ip
                => Told(b) = Opened(Beyond(x, 20), pseudo_checksum(Header(x)))
<1>1. x \in Strings
  BY NewParserIs
<1>2. ~Accepted(x) => ParseDatagram(b) = Invalid
  BY DatagramRead
<1>3. Invalid.valid = FALSE
  BY DEF Invalid
<1>4. ASSUME Accepted(x), Header(x).hlen = 5, Header(x).proto = 6,
             Header(x).src = Source.ip, Header(x).dst = Destination.ip
      PROVE  Told(b) = Opened(Beyond(x, 20), pseudo_checksum(Header(x)))
  <2> DEFINE h == Header(x)
             t == Beyond(x, 20)
             pseudo == pseudo_checksum(h)
  <2>1. \E p : /\ ParseDatagram(b) = Valid([header |-> h, payload |-> p])
               /\ p \in Buffers /\ FlattenSeq(p) = Beyond(x, 4 * h.hlen)
    BY <1>4, DatagramRead
  <2>2. PICK p : /\ ParseDatagram(b) = Valid([header |-> h, payload |-> p])
                 /\ p \in Buffers /\ FlattenSeq(p) = Beyond(x, 4 * h.hlen)
    BY <2>1
  <2>3. 4 * h.hlen = 20
    BY <1>4
  <2>4. FlattenSeq(p) = t
    BY <2>2, <2>3
  <2>5. pseudo \in Nat
    <3>1. Header(x) \in HeaderType
      <4>1. Len(x) >= 20
        BY <1>4 DEF Accepted
      <4> QED
        BY <1>1, <4>1, HeaderAgain
    <3> QED
      BY <3>1, PayloadLength
  <2>6. h.src = Source.ip /\ h.dst = Destination.ip /\ h.proto = 6
    BY <1>4
  <2> HIDE DEF h, t, pseudo
  <2> DEFINE d == ParseDatagram(b)
             seg == ParseTCP(p, pseudo)
  <2>7. d.valid /\ d.object.header = h /\ d.object.payload = p
    BY <2>2 DEF Valid
  <2> HIDE DEF d
  <2>8. Told(b) = Unwrapped(d.object)
    BY <2>7, Zenon DEF Told, d
  <2>9. Unwrapped(d.object) = IF /\ seg.valid
                                 /\ seg.object.dst_port = Destination.port
                                 /\ seg.object.src_port = Source.port
                              THEN Valid(WithoutPorts(seg.object)) ELSE Invalid
    BY <2>6, <2>7 DEF Unwrapped, PROTO_TCP, pseudo
  <2>10. CASE ~Sound(t, pseudo)
    <3>1. seg = Invalid
      BY <2>2, <2>4, <2>5, <2>10, SegmentRead
    <3>2. ~seg.valid
      BY <1>3, <3>1
    <3>3. Opened(t, pseudo) = Invalid
      BY <2>10, Zenon DEF Opened
    <3> HIDE DEF seg
    <3> QED
      BY <2>8, <2>9, <3>2, <3>3, Zenon DEF h, t, pseudo
  <2>11. CASE Sound(t, pseudo)
    <3> DEFINE v == SegmentIntegers(t)
               q == Payload(t)
               s == SegmentOf(v, q)
    <3>1. seg = Valid(s)
      <4>1. Sound(FlattenSeq(p), pseudo)
        BY <2>4, <2>11
      <4>2. ParseTCP(p, pseudo) =
                Valid(SegmentOf(SegmentIntegers(FlattenSeq(p)),
                                Beyond(FlattenSeq(p), 4 * (At(FlattenSeq(p), 12, 1) \div 16))))
        BY <2>2, <2>5, <4>1, SegmentRead
      <4> QED
        BY <2>4, <4>2, Zenon DEF Payload
    <3>2. s.dst_port = At(t, 2, 2) /\ s.src_port = At(t, 0, 2)
      BY DEF SegmentOf, SegmentIntegers
    <3>3. Opened(t, pseudo) = IF At(t, 2, 2) = Destination.port /\ At(t, 0, 2) = Source.port
                              THEN Valid(WithoutPorts(s)) ELSE Invalid
      BY <2>11, Zenon DEF Opened
    <3> HIDE DEF s, seg
    <3>4. seg.valid /\ seg.object = s
      BY <3>1 DEF Valid
    <3> QED
      BY <2>8, <2>9, <3>2, <3>3, <3>4, Zenon DEF h, t, pseudo
  <2> QED
    BY <2>10, <2>11
<1> QED
  BY <1>2, <1>3, <1>4, Zenon DEF Told

\* What an adapter reads of the octets of a datagram that carries m and was
\* damaged in one octet, cut short or padded: nothing, or m, or m without the
\* end of its payload where the sum of what is missing vanishes, or m with
\* zeros after its payload (tcp_over_ip.cc:26-73).
THEOREM DatagramSuffered ==
    ASSUME NEW m \in MessageType, NEW options \in Strings, Fours(options),
           NEW y, Carries(y, m, options), NEW what, NEW b \in Buffers,
           Suffered(y, FlattenSeq(b), what)
    PROVE  Allowed(Told(b), m, options, what)
<1> DEFINE x == FlattenSeq(b)
           pseudo == pseudo_checksum(Header(y))
           t == Beyond(y, 20)
           u == Beyond(x, 20)
<1>1. /\ y \in Strings /\ Accepted(y) /\ Len(y) >= 20 /\ CarriesSegment(t, m, options, pseudo)
      /\ Header(y).hlen = 5 /\ Header(y).proto = 6
      /\ Header(y).src = Source.ip /\ Header(y).dst = Destination.ip
  BY DEF Carries, Accepted
<1>2. Suffered(y, x, what)
  OBVIOUS
<1>3. x = FlattenSeq(b)
  OBVIOUS
<1> HIDE DEF x
<1>4. x \in Strings
  BY <1>1, <1>2, SufferedType
<1>5. CASE ~Accepted(x)
  <2>1. what # "none"
    BY <1>1, <1>2, <1>5 DEF Suffered
  <2>2. Told(b) = Invalid
    BY <1>3, <1>5, ToldIs
  <2> QED
    BY <2>1, <2>2 DEF Allowed
<1>6. CASE Accepted(x)
  <2>1. Header(x) = Header(y)
    BY <1>1, <1>2, <1>6, HeaderKept
  <2>2. Told(b) = Opened(Beyond(x, 20), pseudo_checksum(Header(x)))
    BY <1>1, <1>3, <1>6, <2>1, ToldIs
  <2>3. Told(b) = Opened(u, pseudo)
    BY <2>1, <2>2
  <2>4. Suffered(t, u, what)
    <3> DEFINE n == 20
    <3>1. n \in Nat /\ n <= Len(y) /\ n <= Len(x)
      BY <1>1, <1>6 DEF Accepted
    <3> HIDE DEF n
    <3>2. Suffered(Beyond(y, n), Beyond(x, n), what)
      BY <1>1, <1>2, <3>1, SufferedBeyond
    <3> QED
      BY <3>2 DEF n
  <2>5. pseudo \in Nat
    <3>1. Header(y) \in HeaderType
      BY <1>1, HeaderAgain
    <3> QED
      BY <3>1, PayloadLength
  <2> HIDE DEF t, u, pseudo
  <2>6. Allowed(Opened(u, pseudo), m, options, what)
    BY <1>1, <2>4, <2>5, SegmentSuffered
  <2> QED
    BY <2>3, <2>6
<1> QED
  BY <1>5, <1>6

-----------------------------------------------------------------------------
\* The router

\* What Router::route writes of a datagram carries what the datagram carried
\* (router.cc:32-61).
LEMMA CarriesForwarded ==
    ASSUME NEW m, NEW options, NEW y, Carries(y, m, options), Young(y),
           NEW h, h = compute_checksum([Header(y) EXCEPT !.ttl = @ - 1])
    PROVE  /\ h \in HeaderType /\ SerializeIPv4Header(h) \in Strings
           /\ Carries(SerializeIPv4Header(h) \o Beyond(y, 20), m, options)
<1> DEFINE f == Header(y)
           n == f.ttl - 1
           g == [f EXCEPT !.ttl = n]
           t == Beyond(y, 20)
<1>1. /\ y \in Strings /\ Len(y) >= 20 /\ f.ver = 4 /\ f.hlen = 5 /\ f.proto = 6
      /\ f.src = Source.ip /\ f.dst = Destination.ip
      /\ CarriesSegment(t, m, options, pseudo_checksum(f)) /\ f.ttl > 1
  BY DEF Carries, Accepted, Young
<1>2. f \in HeaderType
  BY <1>1, HeaderAgain
<1>3. h = compute_checksum(g)
  OBVIOUS
<1> HIDE DEF f
<1>4. n \in Octet
  <2>1. f.ttl \in Octet
    BY <1>2 DEF HeaderType
  <2> DEFINE a == f.ttl
  <2>2. a \in Int /\ a <= 255 /\ a > 1
    BY <1>1, <2>1, OctetIs
  <2> HIDE DEF a
  <2>3. a - 1 \in Int /\ 0 <= a - 1 /\ a - 1 <= 255
    BY <2>2
  <2>4. a - 1 \in Octet
    BY <2>3, OctetIs
  <2> QED
    BY <2>4 DEF a
<1> HIDE DEF n
<1>5. /\ g \in HeaderType /\ g.ver = f.ver /\ g.hlen = f.hlen /\ g.proto = f.proto
      /\ g.src = f.src /\ g.dst = f.dst /\ g.len = f.len
  BY <1>2, <1>4 DEF HeaderType
<1> HIDE DEF g
<1>6. pseudo_checksum(g) = pseudo_checksum(f)
  BY <1>5, PseudoSame
<1>7. /\ h \in HeaderType /\ compute_checksum(h) = h
      /\ h.ver = g.ver /\ h.hlen = g.hlen /\ h.proto = g.proto
      /\ h.src = g.src /\ h.dst = g.dst /\ pseudo_checksum(h) = pseudo_checksum(g)
  BY <1>3, <1>5, HeaderChecked
<1>8. t \in Strings
  BY <1>1 DEF CarriesSegment, Bare
<1>9. SerializeIPv4Header(h) \in Strings
  BY <1>7, HeaderWritten
<1> DEFINE z == SerializeIPv4Header(h) \o t
<1>10. z = SerializeIPv4Header(h) \o t
  OBVIOUS
<1> HIDE DEF z, t
<1>11. h.ver = 4 /\ h.hlen = 5
  BY <1>1, <1>5, <1>7
<1>12. z \in Strings /\ Accepted(z) /\ Header(z) = h /\ Beyond(z, 20) = t
  BY <1>7, <1>8, <1>10, <1>11, DatagramIs
<1>13. Carries(z, m, options)
  BY <1>1, <1>5, <1>6, <1>7, <1>12 DEF Carries
<1> QED
  BY <1>7, <1>9, <1>13 DEF z, t

-----------------------------------------------------------------------------
\* What read_strings makes of the octets

Reached(s, a) == SubSeq(s, 1, IF a < Len(s) THEN a ELSE Len(s))

LEMMA TwoParts ==
    ASSUME NEW s \in Strings, NEW a \in Nat, a # 0
    PROVE  /\ Reached(s, a) \in Strings /\ Beyond(s, a) \in Strings
           /\ s = Reached(s, a) \o Beyond(s, a)
           /\ Reached(s, a) = <<>> => s = <<>> /\ Beyond(s, a) = <<>>
<1> DEFINE l == Len(s)
           n == IF a < l THEN a ELSE l
           x == Upto(s, n)
           y == Beyond(s, a)
<1>1. s \in Seq(Octet) /\ l \in Nat
  BY DEF Strings
<1>2. x = Reached(s, a)
  BY DEF Upto, Reached
<1>3. n \in 0 .. l /\ (n = 0 => l = 0)
  BY <1>1
<1>4. x \in Seq(Octet) /\ Len(x) = n
  BY <1>1, <1>3, UptoIs
<1>5. s = x \o Beyond(s, n)
  BY <1>1, <1>3, Split
<1>6. Beyond(s, n) = y
  <2>1. CASE a < l
    BY <2>1
  <2>2. CASE ~(a < l)
    <3>1. n = l /\ a >= Len(s) /\ n >= Len(s) /\ n \in Nat
      BY <1>1, <2>2
    <3>2. Beyond(s, a) = <<>>
      BY <1>1, <3>1, BeyondAll
    <3>3. Beyond(s, n) = <<>>
      BY <1>1, <3>1, BeyondAll
    <3> QED
      BY <3>2, <3>3
  <2> QED
    BY <2>1, <2>2
<1>7. y \in Seq(Octet)
  <2> HIDE DEF y, x
  <2>1. Beyond(s, n) \in Seq(Octet)
    BY <1>1, <1>3, BeyondIs
  <2> QED
    BY <1>6, <2>1
<1>8. ASSUME x = <<>> PROVE s = <<>> /\ y = <<>>
  <2>1. l = 0
    BY <1>3, <1>4, <1>8
  <2>2. s = <<>>
    BY <1>1, <2>1
  <2>3. a >= Len(s)
    BY <2>1
  <2> QED
    BY <1>1, <2>2, <2>3, BeyondAll
<1> HIDE DEF x, y
<1>9. x \in Strings /\ y \in Strings /\ s = x \o y /\ (x = <<>> => s = <<>> /\ y = <<>>)
  BY <1>4, <1>5, <1>6, <1>7, <1>8 DEF Strings
<1> QED
  BY <1>2, <1>9 DEF y

LEMMA PackedTwo ==
    ASSUME NEW x \in Strings, NEW y \in Strings, x = <<>> => y = <<>>
    PROVE  <<x, y>> \in Buffers /\ FlattenSeq(<<x, y>>) = x \o y
<1> DEFINE b == <<x, y>>
<1>1. b \in Seq(Strings) /\ Len(b) = 2 /\ b[1] = x /\ b[2] = y
  OBVIOUS
<1>2. FlattenSeq(b) = x \o y
  <2>1. b = Append(<<x>>, y) /\ <<x>> \in Seq(Strings)
    OBVIOUS
  <2>2. FlattenSeq(<<x>>) = x
    BY FlatOne DEF Strings
  <2>3. FlattenSeq(Append(<<x>>, y)) = FlattenSeq(<<x>>) \o y
    BY <2>1, FlatAppend DEF Strings
  <2> QED
    BY <2>1, <2>2, <2>3
<1> HIDE DEF b
<1>3. Packed(b)
  <2> SUFFICES ASSUME NEW i \in 1 .. Len(b), NEW j \in 1 .. Len(b), i < j, b[i] = <<>>
               PROVE b[j] = <<>>
    BY DEF Packed
  <2>1. i = 1 /\ j = 2
    BY <1>1
  <2> QED
    BY <1>1, <2>1
<1> QED
  BY <1>1, <1>2, <1>3 DEF Buffers, b

LEMMA PackedThree ==
    ASSUME NEW x \in Strings, NEW y \in Strings, NEW z \in Strings,
           x = <<>> => y = <<>>, y = <<>> => z = <<>>
    PROVE  <<x, y, z>> \in Buffers /\ FlattenSeq(<<x, y, z>>) = x \o (y \o z)
<1> DEFINE b == <<x, y, z>>
<1>1. b \in Seq(Strings) /\ Len(b) = 3 /\ b[1] = x /\ b[2] = y /\ b[3] = z
  OBVIOUS
<1>2. FlattenSeq(b) = x \o (y \o z)
  <2>1. FlattenSeq(<<y, z>>) = y \o z
    <3>1. <<y, z>> = Append(<<y>>, z) /\ <<y>> \in Seq(Strings)
      OBVIOUS
    <3>2. FlattenSeq(<<y>>) = y
      BY FlatOne DEF Strings
    <3>3. FlattenSeq(Append(<<y>>, z)) = FlattenSeq(<<y>>) \o z
      BY <3>1, FlatAppend DEF Strings
    <3> QED
      BY <3>1, <3>2, <3>3
  <2>2. b \in Seq(Strings) /\ b # <<>> /\ Head(b) = x /\ Tail(b) = <<y, z>>
    OBVIOUS
  <2>3. FlattenSeq(b) = Head(b) \o FlattenSeq(Tail(b))
    <3> HIDE DEF b
    <3> QED
      BY <2>2, FlatHead DEF Strings
  <2> QED
    BY <2>1, <2>2, <2>3
<1> HIDE DEF b
<1>3. Packed(b)
  <2> SUFFICES ASSUME NEW i \in 1 .. Len(b), NEW j \in 1 .. Len(b), i < j, b[i] = <<>>
               PROVE b[j] = <<>>
    BY DEF Packed
  <2>1. (i = 1 /\ j = 2) \/ (i = 1 /\ j = 3) \/ (i = 2 /\ j = 3)
    BY <1>1
  <2> QED
    BY <1>1, <2>1
<1> QED
  BY <1>1, <1>2, <1>3 DEF Buffers, b

\* However long the strings are, together they are the octets
\* (file_descriptor.cc: read).
LEMMA ReadsDatagram ==
    ASSUME octets \in Strings
    PROVE  /\ read_strings(<<HeaderLength>>) \in Buffers
           /\ FlattenSeq(read_strings(<<HeaderLength>>)) = octets
<1> DEFINE a == HeaderLength
<1>1. a \in Nat /\ a # 0
  BY DEF HeaderLength
<1> HIDE DEF a
<1> DEFINE x == Reached(octets, a)
           y == Beyond(octets, a)
<1>2. x \in Strings /\ y \in Strings /\ octets = x \o y /\ (x = <<>> => y = <<>>)
  BY <1>1, TwoParts
<1>3. read_strings(<<a>>) = <<x, y>>
  BY <1>1, ReadTwo DEF Reached, Beyond
<1> HIDE DEF x, y
<1>4. <<x, y>> \in Buffers /\ FlattenSeq(<<x, y>>) = x \o y
  BY <1>2, PackedTwo
<1> QED
  BY <1>2, <1>3, <1>4 DEF a

LEMMA ReadsFrame ==
    ASSUME octets \in Strings
    PROVE  /\ read_strings(<<14, HeaderLength>>) \in Buffers
           /\ FlattenSeq(read_strings(<<14, HeaderLength>>)) = octets
<1> DEFINE a == 14
           c == HeaderLength
           l == Len(octets)
<1>1. a \in Nat /\ a # 0 /\ c \in Nat /\ c # 0 /\ octets \in Seq(Octet) /\ l \in Nat
  BY DEF HeaderLength, Strings
<1> HIDE DEF a, c
<1> DEFINE x == Reached(octets, a)
           r == Beyond(octets, a)
           y == Reached(r, c)
           z == Beyond(r, c)
<1>2. x \in Strings /\ r \in Strings /\ octets = x \o r /\ (x = <<>> => r = <<>>)
  BY <1>1, TwoParts
<1>3. r \in Strings => /\ y \in Strings /\ z \in Strings /\ r = y \o z
                       /\ (y = <<>> => r = <<>> /\ z = <<>>)
  <2> HIDE DEF r
  <2> QED
    BY <1>1, TwoParts
<1>4. r = <<>> => y = <<>>
  <2>1. ASSUME r = <<>> PROVE y = <<>>
    <3> HIDE DEF r
    <3>1. Len(r) = 0 /\ ~(c < Len(r))
      BY <1>1, <2>1
    <3>2. y = SubSeq(<<>>, 1, 0)
      BY <2>1, <3>1 DEF Reached
    <3> QED
      BY <3>2
  <2> QED
    BY <2>1
<1>5. SubSeq(octets, a + 1, IF a + c < l THEN a + c ELSE l) = y
  <2>1. CASE a >= l
    <3>1. r = <<>>
      BY <1>1, <2>1, BeyondAll
    <3>2. ~(a + c < l)
      BY <1>1, <2>1
    <3>3. SubSeq(octets, a + 1, l) = <<>>
      BY <3>1 DEF Beyond
    <3> HIDE DEF r, y
    <3> QED
      BY <1>4, <3>1, <3>2, <3>3
  <2>2. CASE ~(a >= l)
    <3> DEFINE n == IF a + c < l THEN a + c ELSE l
               m == IF c < l - a THEN c ELSE l - a
               s == SubSeq(octets, a + 1, n)
               t == SubSeq(r, 1, m)
    <3>1. a \in 0 .. Len(octets) /\ n \in a .. l /\ m \in 0 .. l - a /\ n - a = m
      BY <1>1, <2>2
    <3>2. r \in Seq(Octet) /\ Len(r) = l - a /\ \A k \in 1 .. l - a : r[k] = octets[a + k]
      BY <1>1, <3>1, BeyondIs
    <3>3. s \in Seq(Octet) /\ Len(s) = m /\ \A k \in 1 .. m : s[k] = octets[a + k]
      <4>1. a + 1 \in 1 .. Len(octets) + 1 /\ n \in a .. Len(octets)
        BY <1>1, <3>1
      <4> HIDE DEF n, m, l
      <4>a. a \in Nat /\ n \in Nat /\ n <= Len(octets) /\ Len(octets) \in Nat /\ n - a = m
        BY <1>1, <3>1, <4>1 DEF l
      <4>2. s \in Seq(Octet)
        BY <1>1, <4>1, <4>a
      <4>3. Len(s) = m
        BY <1>1, <4>1, <4>a
      <4>4. \A k \in 1 .. m : s[k] = octets[a + k]
        BY <1>1, <4>1, <4>a
      <4> QED
        BY <4>2, <4>3, <4>4
    <3> HIDE DEF r
    <3>4. t \in Seq(Octet) /\ Len(t) = m /\ \A k \in 1 .. m : t[k] = r[k]
      <4>1. m \in 0 .. Len(r)
        BY <3>1, <3>2
      <4> HIDE DEF m
      <4>2. Upto(r, m) \in Seq(Octet) /\ Len(Upto(r, m)) = m /\ \A k \in 1 .. m : Upto(r, m)[k] = r[k]
        BY <3>2, <4>1, UptoIs
      <4> QED
        BY <4>2 DEF Upto
    <3>5. t = y
      BY <3>2 DEF Reached
    <3> HIDE DEF s, t, y, n, m
    <3>6. \A k \in 1 .. Len(s) : s[k] = t[k]
      <4>1. \A k \in 1 .. m : k \in 1 .. l - a
        BY <1>1, <3>1
      <4>2. \A k \in 1 .. m : s[k] = t[k]
        <5> HIDE DEF l
        <5> QED
          BY <3>2, <3>3, <3>4, <4>1
      <4> QED
        BY <3>3, <4>2
    <3>7. s = t
      BY <3>3, <3>4, <3>6, SameString
    <3> QED
      BY <3>5, <3>7 DEF s, n
  <2> QED
    BY <2>1, <2>2
<1>6. SubSeq(octets, (a + c) + 1, l) = z
  <2>1. Beyond(r, c) = Beyond(octets, a + c)
    BY <1>1, BeyondBeyond
  <2> QED
    BY <2>1 DEF Beyond
<1>7. read_strings(<<a, c>>) = <<x, y, z>>
  <2>1. read_strings(<<a, c>>) =
          <<SubSeq(octets, 1, IF a < Len(octets) THEN a ELSE Len(octets)),
            SubSeq(octets, a + 1, IF a + c < Len(octets) THEN a + c ELSE Len(octets)),
            SubSeq(octets, (a + c) + 1, Len(octets))>>
    BY <1>1, ReadThree
  <2>2. x = SubSeq(octets, 1, IF a < Len(octets) THEN a ELSE Len(octets))
    BY DEF Reached
  <2> HIDE DEF x, y, z
  <2> QED
    BY <1>5, <1>6, <2>1, <2>2
<1> HIDE DEF x, y, z, r
<1>8. /\ <<x, y, z>> \in Buffers /\ FlattenSeq(<<x, y, z>>) = x \o (y \o z)
  <2>1. x \in Strings /\ y \in Strings /\ z \in Strings
    BY <1>2, <1>3
  <2>2. (x = <<>> => y = <<>>) /\ (y = <<>> => z = <<>>)
    BY <1>2, <1>3, <1>4
  <2> QED
    BY <2>1, <2>2, PackedThree, Zenon
<1> QED
  BY <1>2, <1>3, <1>7, <1>8 DEF a, c

-----------------------------------------------------------------------------
\* ARP messages

ARPType ==
    [opcode : {OPCODE_REQUEST, OPCODE_REPLY},
     sender_ethernet_address : EthernetAddress, sender_ip_address : IPAddress,
     target_ethernet_address : EthernetAddress, target_ip_address : IPAddress]

KindValues(m) == ARPKind \o <<m.opcode>>
Addresses(s, a, t, c) == s \o <<a>> \o t \o <<c>>
AddressValues(m) == Addresses(m.sender_ethernet_address, m.sender_ip_address,
                              m.target_ethernet_address, m.target_ip_address)

LEMMA ARPOffsets ==
    /\ ARPKindOffsets[6] = 8 /\ ARPAddressOffsets[15] = 20
    /\ ARPKindOffsets[5] = 6 /\ ARPKindWidths[5] = 2
    /\ ARPKindWidths[1] = 2 /\ ARPKindWidths[2] = 2 /\ ARPKindWidths[3] = 1 /\ ARPKindWidths[4] = 1
    /\ \A k \in 1 .. 6 : ARPAddressOffsets[k] = k - 1 /\ ARPAddressWidths[k] = 1
    /\ \A k \in 1 .. 6 : ARPAddressOffsets[7 + k] = 9 + k /\ ARPAddressWidths[7 + k] = 1
    /\ ARPAddressWidths[7] = 4 /\ ARPAddressWidths[14] = 4
<1>1. /\ ARPKindOffsets[6] = 8 /\ ARPAddressOffsets[15] = 20
      /\ ARPKindOffsets[5] = 6 /\ ARPKindWidths[5] = 2
  BY DEF ARPKindOffsets, ARPKindWidths, ARPAddressOffsets
<1>2. /\ ARPKindWidths[1] = 2 /\ ARPKindWidths[2] = 2 /\ ARPKindWidths[3] = 1 /\ ARPKindWidths[4] = 1
  BY DEF ARPKindWidths
<1>3. \A k \in 1 .. 6 : ARPAddressOffsets[k] = k - 1 /\ ARPAddressWidths[k] = 1
  BY SMTT(30) DEF ARPAddressOffsets, ARPAddressWidths
<1>4. \A k \in 1 .. 6 : ARPAddressOffsets[7 + k] = 9 + k /\ ARPAddressWidths[7 + k] = 1
  BY SMTT(30) DEF ARPAddressOffsets, ARPAddressWidths
<1>5. ARPAddressWidths[7] = 4 /\ ARPAddressWidths[14] = 4
  BY DEF ARPAddressWidths
<1> QED
  BY <1>1, <1>2, <1>3, <1>4, <1>5

Laid(z, s, a, t, c) ==
    /\ \A k \in 1 .. 6 : z[k] = s[k] /\ z[7 + k] = t[k]
    /\ z[7] = a /\ z[14] = c

LEMMA AddressesAre ==
    ASSUME NEW s \in Seq(Value), Len(s) = 6, NEW a \in Value,
           NEW t \in Seq(Value), Len(t) = 6, NEW c \in Value
    PROVE  Laid(Addresses(s, a, t, c), s, a, t, c)
<1> DEFINE x == s \o <<a>>
           y == x \o t
           z == y \o <<c>>
<1>1. /\ x \in Seq(Value) /\ Len(x) = Len(s) + 1
      /\ \A k \in 1 .. Len(s) : x[k] = s[k]
      /\ x[Len(s) + 1] = a
  BY JoinOne, ZenonT(60)
<1>2. x \in Seq(Value) /\ Len(x) = 7 /\ x[7] = a /\ \A k \in 1 .. 6 : x[k] = s[k]
  BY <1>1
<1> HIDE DEF x
<1>3. /\ y \in Seq(Value) /\ Len(y) = Len(x) + Len(t)
      /\ \A k \in 1 .. Len(x) : y[k] = x[k]
      /\ \A k \in 1 .. Len(t) : y[Len(x) + k] = t[k]
  <2>1. x \in Seq(Value) /\ t \in Seq(Value)
    BY <1>2
  <2>2. /\ x \o t \in Seq(Value) /\ Len(x \o t) = Len(x) + Len(t)
        /\ \A k \in 1 .. Len(x) + Len(t) :
             /\ (x \o t)[k] \in Value
             /\ (x \o t)[k] = IF k <= Len(x) THEN x[k] ELSE t[k - Len(x)]
    BY <2>1, JoinAt
  <2>3. \A k \in 1 .. Len(x) : y[k] = x[k]
    BY <1>2, <2>2
  <2>4. ASSUME NEW k \in 1 .. Len(t) PROVE y[Len(x) + k] = t[k]
    <3>1. Len(x) + k \in 1 .. Len(x) + Len(t) /\ ~(Len(x) + k <= Len(x)) /\ (Len(x) + k) - Len(x) = k
      BY <1>2
    <3> QED
      BY <2>2, <3>1
  <2> QED
    BY <2>2, <2>3, <2>4
<1>4. y \in Seq(Value) /\ Len(y) = 13
  BY <1>2, <1>3
<1>5. (\A k \in 1 .. 7 : y[k] = x[k]) /\ \A k \in 1 .. 6 : y[7 + k] = t[k]
  BY <1>2, <1>3
<1> HIDE DEF y
<1>6. (\A k \in 1 .. Len(y) : z[k] = y[k]) /\ z[Len(y) + 1] = c
  <2>1. y \in Seq(Value)
    BY <1>4
  <2>2. /\ \A k \in 1 .. Len(y) : (y \o <<c>>)[k] = y[k]
        /\ (y \o <<c>>)[Len(y) + 1] = c
    BY <2>1, JoinOne
  <2> QED
    BY <2>2
<1> HIDE DEF z
<1>7. (\A k \in 1 .. 13 : z[k] = y[k]) /\ z[14] = c
  BY <1>4, <1>6
<1>8. \A k \in 1 .. 6 : z[k] = s[k]
  BY <1>2, <1>5, <1>7
<1>9. z[7] = a
  BY <1>2, <1>5, <1>7
<1>10. \A k \in 1 .. 6 : z[7 + k] = t[k]
  BY <1>5, <1>7
<1>11. z = Addresses(s, a, t, c)
  BY DEF z, y, x, Addresses
<1> QED
  BY <1>7, <1>8, <1>9, <1>10, <1>11 DEF Laid

LEMMA ARPFields ==
    ASSUME NEW m \in ARPType
    PROVE  /\ m.opcode \in Word
           /\ m.sender_ethernet_address \in Seq(Value) /\ Len(m.sender_ethernet_address) = 6
           /\ m.target_ethernet_address \in Seq(Value) /\ Len(m.target_ethernet_address) = 6
           /\ m.sender_ip_address \in Word \X Word /\ m.target_ip_address \in Word \X Word
           /\ \A k \in 1 .. 6 : /\ m.sender_ethernet_address[k] \in Octet
                                /\ m.target_ethernet_address[k] \in Octet
<1>1. /\ m.opcode \in {OPCODE_REQUEST, OPCODE_REPLY}
      /\ m.sender_ethernet_address \in EthernetAddress /\ m.sender_ip_address \in Word \X Word
      /\ m.target_ethernet_address \in EthernetAddress /\ m.target_ip_address \in Word \X Word
  BY DEF ARPType, IPAddress
<1>2. m.opcode \in Word
  <2>1. m.opcode = 1 \/ m.opcode = 2
    BY <1>1 DEF OPCODE_REQUEST, OPCODE_REPLY
  <2>2. m.opcode \in Int /\ 0 <= m.opcode /\ m.opcode <= 65535
    BY <2>1
  <2> QED
    BY <2>2, WordIs
<1>3. ASSUME NEW a \in EthernetAddress
      PROVE  a \in Seq(Value) /\ Len(a) = 6 /\ \A k \in 1 .. 6 : a[k] \in Octet
  <2>1. a \in Seq(Octet) /\ Len(a) = 6
    BY SixOctets
  <2>2. \A k \in 1 .. 6 : a[k] \in Octet
    BY DEF EthernetAddress
  <2>3. \A k \in 1 .. Len(a) : a[k] \in Value
    BY <2>1, <2>2, OctetIsWord DEF Value
  <2>4. a \in Seq(Value)
    BY <2>1, <2>3, SequenceOf
  <2> QED
    BY <2>1, <2>2, <2>4
<1> QED
  BY <1>1, <1>2, <1>3

LEMMA KindValuesAre ==
    ASSUME NEW m, m.opcode \in Word
    PROVE  /\ KindValues(m)[1] = 1 /\ KindValues(m)[2] = 2048 /\ KindValues(m)[3] = 6
           /\ KindValues(m)[4] = 4 /\ KindValues(m)[5] = m.opcode
<1> DEFINE o == m.opcode
           x == <<1, 2048, 6, 4>>
<1>1. ARPKind = x
  BY DEF ARPKind, TYPE_IPv4
<1>2. x \in Seq(Int) /\ Len(x) = 4 /\ x[1] = 1 /\ x[2] = 2048 /\ x[3] = 6 /\ x[4] = 4
  OBVIOUS
<1>3. o \in Int
  BY WordIs
<1> HIDE DEF x, o
<1> DEFINE y == x \o <<o>>
<1>4. (\A k \in 1 .. Len(x) : y[k] = x[k]) /\ y[Len(x) + 1] = o
  <2>1. x \in Seq(Int) /\ o \in Int
    BY <1>2, <1>3
  <2>2. /\ \A k \in 1 .. Len(x) : (x \o <<o>>)[k] = x[k]
        /\ (x \o <<o>>)[Len(x) + 1] = o
    BY <2>1, JoinOne
  <2> QED
    BY <2>2
<1> HIDE DEF y
<1>5. y[1] = x[1] /\ y[2] = x[2] /\ y[3] = x[3] /\ y[4] = x[4] /\ y[5] = o
  BY <1>2, <1>4
<1>6. KindValues(m) = y
  BY <1>1 DEF KindValues, y, o
<1> QED
  BY <1>2, <1>5, <1>6 DEF o

LEMMA AddressValuesAre ==
    ASSUME NEW m \in ARPType
    PROVE  /\ \A k \in 1 .. 6 : AddressValues(m)[k] = m.sender_ethernet_address[k]
           /\ AddressValues(m)[7] = m.sender_ip_address
           /\ \A k \in 1 .. 6 : AddressValues(m)[7 + k] = m.target_ethernet_address[k]
           /\ AddressValues(m)[14] = m.target_ip_address
<1>1. m.sender_ip_address \in Value /\ m.target_ip_address \in Value
  BY ARPFields DEF Value
<1> DEFINE s == m.sender_ethernet_address
           a == m.sender_ip_address
           t == m.target_ethernet_address
           c == m.target_ip_address
<1>2. /\ s \in Seq(Value) /\ Len(s) = 6 /\ a \in Value
      /\ t \in Seq(Value) /\ Len(t) = 6 /\ c \in Value
  BY <1>1, ARPFields
<1>3. AddressValues(m) = Addresses(s, a, t, c)
  BY DEF AddressValues
<1> HIDE DEF s, a, t, c
<1>4. Laid(Addresses(s, a, t, c), s, a, t, c)
  BY <1>2, AddressesAre
<1> QED
  BY <1>3, <1>4 DEF Laid, s, a, t, c

\* What the octets say.
Says(z, m) ==
    /\ Len(z) >= 28
    /\ \A k \in 1 .. 5 : At(z, ARPKindOffsets[k], ARPKindWidths[k]) = KindValues(m)[k]
    /\ \A k \in 1 .. 14 :
         At(Beyond(z, 8), ARPAddressOffsets[k], ARPAddressWidths[k]) = AddressValues(m)[k]

LEMMA ARPFits ==
    ASSUME NEW m \in ARPType
    PROVE  /\ \A k \in 1 .. 5 : Fits(KindValues(m)[k], ARPKindWidths[k])
           /\ \A k \in 1 .. 14 : Fits(AddressValues(m)[k], ARPAddressWidths[k])
<1>1. ASSUME NEW k \in 1 .. 5 PROVE Fits(KindValues(m)[k], ARPKindWidths[k])
  <2>0. 1 \in Word /\ 2048 \in Word /\ 6 \in Octet /\ 4 \in Octet
    BY WordIs, OctetIs
  <2>1. k = 1 \/ k = 2 \/ k = 3 \/ k = 4 \/ k = 5
    OBVIOUS
  <2>2. m.opcode \in Word
    BY ARPFields
  <2>3. CASE k = 1
    BY <2>0, <2>2, <2>3, KindValuesAre, ARPOffsets DEF Fits
  <2>4. CASE k = 2
    BY <2>0, <2>2, <2>4, KindValuesAre, ARPOffsets DEF Fits
  <2>5. CASE k = 3
    BY <2>0, <2>2, <2>5, KindValuesAre, ARPOffsets DEF Fits
  <2>6. CASE k = 4
    BY <2>0, <2>2, <2>6, KindValuesAre, ARPOffsets DEF Fits
  <2>7. CASE k = 5
    BY <2>2, <2>7, KindValuesAre, ARPOffsets DEF Fits
  <2> QED
    BY <2>1, <2>3, <2>4, <2>5, <2>6, <2>7
<1>2. ASSUME NEW k \in 1 .. 14 PROVE Fits(AddressValues(m)[k], ARPAddressWidths[k])
  <2>1. CASE k \in 1 .. 6
    <3>1. AddressValues(m)[k] \in Octet /\ ARPAddressWidths[k] = 1
      BY <2>1, AddressValuesAre, ARPFields, ARPOffsets
    <3> QED
      BY <3>1 DEF Fits
  <2>2. CASE k = 7 \/ k = 14
    <3>1. AddressValues(m)[k] \in Word \X Word /\ ARPAddressWidths[k] = 4
      BY <2>2, AddressValuesAre, ARPFields, ARPOffsets, SMTT(60)
    <3> QED
      BY <3>1 DEF Fits
  <2>3. CASE k \in 8 .. 13
    <3> DEFINE j == k - 7
    <3>1. j \in 1 .. 6 /\ k = 7 + j
      BY <2>3
    <3> HIDE DEF j
    <3>2. AddressValues(m)[k] \in Octet /\ ARPAddressWidths[k] = 1
      BY <3>1, AddressValuesAre, ARPFields, ARPOffsets
    <3> QED
      BY <3>2 DEF Fits
  <2> QED
    BY <2>1, <2>2, <2>3
<1> QED
  BY <1>1, <1>2

LEMMA ARPWritten ==
    ASSUME NEW m \in ARPType
    PROVE  /\ SerializeARP(m) \in Seq(Strings)
           /\ \E s \in Strings, t \in Strings :
                /\ FlattenSeq(SerializeARP(m)) = s \o t
                /\ Len(s) = 8 /\ Len(t) = 20
                /\ \A k \in 1 .. 5 : At(s, ARPKindOffsets[k], ARPKindWidths[k]) = KindValues(m)[k]
                /\ \A k \in 1 .. 14 :
                     At(t, ARPAddressOffsets[k], ARPAddressWidths[k]) = AddressValues(m)[k]
<1> DEFINE s == Serialized(KindValues(m), ARPKindWidths)
           t == Serialized(AddressValues(m), ARPAddressWidths)
<1>1. s \in Strings /\ Len(s) = 8
      /\ \A k \in 1 .. 5 : At(s, ARPKindOffsets[k], ARPKindWidths[k]) = KindValues(m)[k]
  <2> DEFINE v == KindValues(m)
  <2>1. ARPKindWidths # <<>> /\ ARPKindWidths \in Seq(Width) /\ Offsets(ARPKindOffsets, ARPKindWidths)
    BY ARPKindTable DEF ARPKindWidths
  <2>2. \A k \in 1 .. Len(ARPKindWidths) : Fits(v[k], ARPKindWidths[k])
    BY ARPFits, ARPKindTable
  <2> HIDE DEF v
  <2> DEFINE n == Len(ARPKindWidths)
             l == ARPKindOffsets[n + 1]
  <2>3. /\ s \in Strings /\ Len(s) = l
        /\ \A k \in 1 .. n : At(s, ARPKindOffsets[k], ARPKindWidths[k]) = v[k]
    <3>1. /\ Serialized(v, ARPKindWidths) \in Strings
          /\ Len(Serialized(v, ARPKindWidths)) = l
          /\ \A k \in 1 .. n :
               At(Serialized(v, ARPKindWidths), ARPKindOffsets[k], ARPKindWidths[k]) = v[k]
      BY <2>1, <2>2, SerializedIs
    <3>2. s = Serialized(v, ARPKindWidths)
      BY DEF v
    <3> HIDE DEF s, l, n
    <3> QED
      BY <3>1, <3>2, Zenon
  <2>4. n = 5 /\ l = 8
    BY ARPKindTable, ARPOffsets
  <2> HIDE DEF n, l, s
  <2> QED
    BY <2>3, <2>4 DEF v
<1>2. t \in Strings /\ Len(t) = 20
      /\ \A k \in 1 .. 14 :
           At(t, ARPAddressOffsets[k], ARPAddressWidths[k]) = AddressValues(m)[k]
  <2> DEFINE v == AddressValues(m)
  <2>1. /\ ARPAddressWidths # <<>> /\ ARPAddressWidths \in Seq(Width)
        /\ Offsets(ARPAddressOffsets, ARPAddressWidths)
    BY ARPAddressTable DEF ARPAddressWidths
  <2>2. \A k \in 1 .. Len(ARPAddressWidths) : Fits(v[k], ARPAddressWidths[k])
    BY ARPFits, ARPAddressTable
  <2> HIDE DEF v
  <2> DEFINE n == Len(ARPAddressWidths)
             l == ARPAddressOffsets[n + 1]
  <2>3. /\ t \in Strings /\ Len(t) = l
        /\ \A k \in 1 .. n : At(t, ARPAddressOffsets[k], ARPAddressWidths[k]) = v[k]
    <3>1. /\ Serialized(v, ARPAddressWidths) \in Strings
          /\ Len(Serialized(v, ARPAddressWidths)) = l
          /\ \A k \in 1 .. n :
               At(Serialized(v, ARPAddressWidths), ARPAddressOffsets[k], ARPAddressWidths[k]) = v[k]
      BY <2>1, <2>2, SerializedIs
    <3>2. t = Serialized(v, ARPAddressWidths)
      BY DEF v
    <3> HIDE DEF t, l, n
    <3> QED
      BY <3>1, <3>2, Zenon
  <2>4. n = 14 /\ l = 20
    BY ARPAddressTable, ARPOffsets
  <2> HIDE DEF n, l, t
  <2> QED
    BY <2>3, <2>4 DEF v
<1>3. SerializeARP(m) = Output(s \o t, <<>>)
  BY Zenon DEF SerializeARP, KindValues, AddressValues, Addresses
<1> HIDE DEF s, t
<1> DEFINE u == s \o t
           none == <<>>
<1>4. u \in Seq(Octet)
  BY <1>1, <1>2, JoinOctets
<1>5. none \in Seq(Seq(Octet)) /\ FlattenSeq(none) = <<>>
  BY FlatNothing
<1>6. SerializeARP(m) = Output(u, none)
  BY <1>3
<1>7. u = s \o t
  OBVIOUS
<1> HIDE DEF u, none
<1>8. Output(u, none) \in Seq(Seq(Octet)) /\ FlattenSeq(Output(u, none)) = u \o FlattenSeq(none)
  BY <1>4, <1>5, FlatOutput
<1>9. u \o <<>> = u
  BY <1>4
<1>10. SerializeARP(m) \in Seq(Strings) /\ FlattenSeq(SerializeARP(m)) = u
  BY <1>5, <1>6, <1>8, <1>9 DEF Strings
<1> QED
  BY <1>1, <1>2, <1>7, <1>10

\* The same first octets, and the same integers of a table.
SameOctets(z, s, n) == \A j \in 1 .. n : z[j] = s[j]
SameValues(z, s, off, widths, n) == \A k \in 1 .. n : At(z, off[k], widths[k]) = At(s, off[k], widths[k])

\* The integers of a table are those of a string where its octets are.
LEMMA SameTable ==
    ASSUME NEW widths \in Seq(Width), NEW off, Offsets(off, widths), NEW l,
           l = off[Len(widths) + 1], NEW s \in Strings, Len(s) = l,
           NEW z \in Strings, Len(z) >= l
    PROVE  SameValues(z, s, off, widths, Len(widths)) <=> SameOctets(z, s, l)
<1> DEFINE n == Len(widths)
           x == Upto(z, l)
           y == Beyond(z, l)
<1>1. l \in Nat /\ n \in Nat
  BY OffsetsGrow
<1>2. z \in Seq(Octet) /\ l \in 0 .. Len(z)
  BY <1>1 DEF Strings
<1>3. x \in Seq(Octet) /\ Len(x) = l /\ \A j \in 1 .. l : x[j] = z[j]
  BY <1>2, UptoIs
<1>4. y \in Seq(Octet) /\ z = x \o y
  BY <1>2, Split, BeyondIs
<1>5. \A k \in 1 .. n : /\ off[k] \in Nat /\ widths[k] \in Width /\ off[k] + widths[k] <= l
  <2>1. \A k \in 1 .. n : k \in 1 .. n + 1
    BY <1>1
  <2> QED
    BY <2>1, OffsetsGrow
<1> HIDE DEF x, y
<1>6. \A k \in 1 .. n : At(z, off[k], widths[k]) = At(x, off[k], widths[k])
  <2> SUFFICES ASSUME NEW k \in 1 .. n PROVE At(z, off[k], widths[k]) = At(x, off[k], widths[k])
    OBVIOUS
  <2>1. x \in Strings /\ y \in Strings
    BY <1>3, <1>4 DEF Strings
  <2> DEFINE o == off[k]
             w == widths[k]
  <2>2. o \in Nat /\ w \in Width /\ o + w <= Len(x)
    BY <1>3, <1>5
  <2> HIDE DEF o, w
  <2>3. At(x \o y, o, w) = At(x, o, w)
    BY <2>1, <2>2, AtLeft
  <2> QED
    BY <1>4, <2>3 DEF o, w
<1>7. ASSUME \A k \in 1 .. n : At(z, off[k], widths[k]) = At(s, off[k], widths[k])
      PROVE  \A j \in 1 .. l : z[j] = s[j]
  <2>1. \A k \in 1 .. Len(widths) : At(x, off[k], widths[k]) = At(s, off[k], widths[k])
    BY <1>6, <1>7
  <2>2. x \in Strings /\ Len(x) = off[Len(widths) + 1] /\ Len(s) = off[Len(widths) + 1]
    BY <1>3 DEF Strings
  <2>3. x = s
    BY <2>1, <2>2, SameIntegers
  <2> QED
    BY <1>3, <2>3
<1>8. ASSUME \A j \in 1 .. l : z[j] = s[j]
      PROVE  \A k \in 1 .. n : At(z, off[k], widths[k]) = At(s, off[k], widths[k])
  <2>1. s \in Seq(Octet)
    BY DEF Strings
  <2>2. \A j \in 1 .. Len(x) : x[j] = s[j]
    BY <1>3, <1>8
  <2>3. x = s
    BY <1>3, <2>1, <2>2, SameString
  <2> QED
    BY <1>6, <2>3
<1> QED
  BY <1>7, <1>8 DEF SameValues, SameOctets

LEMMA Fronts ==
    ASSUME NEW a \in Nat, NEW b \in Nat, NEW s \in Strings, Len(s) = a,
           NEW t \in Strings, Len(t) = b, NEW n, n = a + b, NEW z \in Strings, Len(z) >= n
    PROVE  Upto(z, n) = Cat(s, t)
             <=> SameOctets(z, s, a) /\ SameOctets(Beyond(z, a), t, b)
<1> DEFINE l == Len(z)
           x == Upto(z, n)
           y == Beyond(z, a)
           u == s \o t
<1>1. z \in Seq(Octet) /\ l \in Nat /\ n \in 0 .. Len(z) /\ a \in 0 .. Len(z) /\ l >= n
  BY DEF Strings
<1>2. x \in Seq(Octet) /\ Len(x) = n /\ \A j \in 1 .. n : x[j] = z[j]
  BY <1>1, UptoIs
<1>3. \A j \in 1 .. l - a : y[j] = z[a + j]
  BY <1>1, BeyondIs
<1>4. /\ u \in Seq(Octet) /\ Len(u) = n
      /\ \A j \in 1 .. a : u[j] = s[j]
      /\ \A j \in 1 .. b : u[a + j] = t[j]
  <2>1. /\ s \o t \in Seq(Octet) /\ Len(s \o t) = Len(s) + Len(t)
        /\ \A k \in 1 .. Len(s) : (s \o t)[k] = s[k]
        /\ \A k \in 1 .. Len(t) : (s \o t)[Len(s) + k] = t[k]
    BY JoinOctets, Zenon
  <2> QED
    BY <2>1
<1> HIDE DEF x, y, u
<1>5. \A j \in 1 .. b : y[j] = z[a + j]
  <2> SUFFICES ASSUME NEW j \in 1 .. b PROVE y[j] = z[a + j]
    OBVIOUS
  <2>1. j \in 1 .. l - a
    BY <1>1
  <2> QED
    BY <1>3, <2>1
<1>6. ASSUME x = u PROVE (\A j \in 1 .. a : z[j] = s[j]) /\ (\A j \in 1 .. b : y[j] = t[j])
  <2>0. \A j \in 1 .. n : z[j] = u[j]
    BY <1>2, <1>6, Zenon
  <2> HIDE DEF l
  <2>1. ASSUME NEW j \in 1 .. a PROVE z[j] = s[j]
    <3>1. j \in 1 .. n
      OBVIOUS
    <3> QED
      BY <1>4, <2>0, <3>1, Zenon
  <2>2. ASSUME NEW j \in 1 .. b PROVE y[j] = t[j]
    <3>1. a + j \in 1 .. n
      OBVIOUS
    <3> QED
      BY <1>4, <1>5, <2>0, <3>1, Zenon
  <2> QED
    BY <2>1, <2>2
<1>7. ASSUME \A j \in 1 .. a : z[j] = s[j], \A j \in 1 .. b : y[j] = t[j] PROVE x = u
  <2> HIDE DEF l
  <2>1. ASSUME NEW j \in 1 .. n PROVE x[j] = u[j]
    <3>1. CASE j <= a
      <4>1. j \in 1 .. a
        BY <3>1
      <4> QED
        BY <1>2, <1>4, <1>7, <4>1, Zenon
    <3>2. CASE j > a
      <4> DEFINE i == j - a
      <4>1. i \in 1 .. b /\ a + i = j
        BY <3>2
      <4> HIDE DEF i
      <4>2. x[j] = z[j] /\ z[j] = y[i] /\ y[i] = t[i] /\ t[i] = u[j]
        BY <1>2, <1>4, <1>5, <1>7, <4>1, Zenon
      <4> QED
        BY <4>2
    <3> QED
      BY <3>1, <3>2
  <2>2. \A j \in 1 .. Len(x) : x[j] = u[j]
    BY <1>2, <2>1
  <2>3. x \in Seq(Octet) /\ u \in Seq(Octet) /\ Len(x) = Len(u)
    BY <1>2, <1>4
  <2> QED
    BY <2>2, <2>3, SameString
<1> QED
  BY <1>6, <1>7 DEF x, y, u, SameOctets, Cat

\* What is written of an ARP message, and no other first 28 octets, is read
\* as that message (arp_message.cc:33-82).
LEMMA SaysWritten ==
    ASSUME NEW m \in ARPType, NEW z \in Strings
    PROVE  Says(z, m) <=> Len(z) >= 28 /\ Upto(z, 28) = FlattenSeq(SerializeARP(m))
<1>1. PICK s \in Strings, t \in Strings :
              /\ FlattenSeq(SerializeARP(m)) = s \o t
              /\ Len(s) = 8 /\ Len(t) = 20
              /\ \A k \in 1 .. 5 : At(s, ARPKindOffsets[k], ARPKindWidths[k]) = KindValues(m)[k]
              /\ \A k \in 1 .. 14 :
                   At(t, ARPAddressOffsets[k], ARPAddressWidths[k]) = AddressValues(m)[k]
  BY ARPWritten
<1> SUFFICES ASSUME Len(z) >= 28
             PROVE  Says(z, m) <=> Upto(z, 28) = s \o t
  BY <1>1 DEF Says
<1> DEFINE y == Beyond(z, 8)
<1>2. y \in Strings /\ Len(y) >= 20
  <2>1. z \in Seq(Octet) /\ 8 \in 0 .. Len(z) /\ Len(z) \in Nat
    BY DEF Strings
  <2>2. y \in Seq(Octet) /\ Len(y) = Len(z) - 8
    BY <2>1, BeyondIs
  <2> HIDE DEF y
  <2> QED
    BY <2>1, <2>2 DEF Strings
<1> HIDE DEF y
<1>3. SameValues(z, s, ARPKindOffsets, ARPKindWidths, 5) <=> SameOctets(z, s, 8)
  <2> DEFINE n == Len(ARPKindWidths)
             l == ARPKindOffsets[n + 1]
  <2>1. n = 5 /\ l = 8 /\ ARPKindWidths \in Seq(Width) /\ Offsets(ARPKindOffsets, ARPKindWidths)
    BY ARPKindTable, ARPOffsets
  <2>2. l = ARPKindOffsets[Len(ARPKindWidths) + 1]
    OBVIOUS
  <2> HIDE DEF l
  <2>3. Len(s) = l /\ Len(z) >= l
    BY <1>1, <2>1 DEF Strings
  <2>4. SameValues(z, s, ARPKindOffsets, ARPKindWidths, Len(ARPKindWidths)) <=> SameOctets(z, s, l)
    BY <2>1, <2>2, <2>3, SameTable
  <2> QED
    BY <2>1, <2>4
<1>4. SameValues(y, t, ARPAddressOffsets, ARPAddressWidths, 14) <=> SameOctets(y, t, 20)
  <2> DEFINE n == Len(ARPAddressWidths)
             l == ARPAddressOffsets[n + 1]
  <2>1. /\ n = 14 /\ l = 20 /\ ARPAddressWidths \in Seq(Width)
        /\ Offsets(ARPAddressOffsets, ARPAddressWidths)
    BY ARPAddressTable, ARPOffsets
  <2>2. l = ARPAddressOffsets[Len(ARPAddressWidths) + 1]
    OBVIOUS
  <2> HIDE DEF l
  <2>3. Len(t) = l /\ Len(y) >= l
    BY <1>1, <1>2, <2>1
  <2>4. SameValues(y, t, ARPAddressOffsets, ARPAddressWidths, Len(ARPAddressWidths))
          <=> SameOctets(y, t, l)
    BY <1>2, <2>1, <2>2, <2>3, SameTable
  <2> QED
    BY <2>1, <2>4
<1>5. Upto(z, 28) = s \o t
        <=> SameOctets(z, s, 8) /\ SameOctets(y, t, 20)
  <2> DEFINE a == 8
             b == 20
             n == 28
  <2>1. a \in Nat /\ b \in Nat /\ Len(s) = a /\ Len(t) = b /\ n = a + b /\ Len(z) >= n
    BY <1>1
  <2> HIDE DEF a, b, n
  <2>2. Upto(z, n) = Cat(s, t)
          <=> SameOctets(z, s, a) /\ SameOctets(Beyond(z, a), t, b)
    BY <2>1, Fronts
  <2> QED
    BY <2>2 DEF y, a, b, n, Cat
<1>6. Says(z, m) <=>
        /\ SameValues(z, s, ARPKindOffsets, ARPKindWidths, 5)
        /\ SameValues(y, t, ARPAddressOffsets, ARPAddressWidths, 14)
  <2>1. Says(z, m) <=>
          /\ \A k \in 1 .. 5 : At(z, ARPKindOffsets[k], ARPKindWidths[k]) = KindValues(m)[k]
          /\ \A k \in 1 .. 14 : At(y, ARPAddressOffsets[k], ARPAddressWidths[k]) = AddressValues(m)[k]
    BY DEF Says, y
  <2> QED
    BY <1>1, <2>1 DEF SameValues
<1> QED
  BY <1>3, <1>4, <1>5, <1>6

ARPRecord(k, v) ==
    [opcode |-> k[5],
     sender_ethernet_address |-> SubSeq(v, 1, 6), sender_ip_address |-> v[7],
     target_ethernet_address |-> SubSeq(v, 8, 13), target_ip_address |-> v[14]]

\* What the parser makes of the kind, and then of the addresses.
LEMMA KindRead ==
    ASSUME NEW b \in Buffers, NEW z, z = FlattenSeq(b), Len(z) >= 8
    PROVE  \E q, k : /\ Integers_(NewParser(b), ARPKindWidths) = [parser |-> q, values |-> k]
                     /\ Parser(q) /\ ~q.error /\ Rest(q) = Beyond(z, 8)
                     /\ k \in Seq(Value) /\ Len(k) = 5
                     /\ \A i \in 1 .. 5 : k[i] = At(z, ARPKindOffsets[i], ARPKindWidths[i])
<1> DEFINE np == NewParser(b)
           n == Len(ARPKindWidths)
           l == ARPKindOffsets[n + 1]
<1>1. Parser(np) /\ ~np.error /\ Rest(np) = z
  BY NewParserIs
<1> HIDE DEF np
<1>2. n = 5 /\ l = 8 /\ ARPKindWidths \in Seq(Width) /\ Offsets(ARPKindOffsets, ARPKindWidths)
  BY ARPKindTable, ARPOffsets
<1>3. ARPKindOffsets[Len(ARPKindWidths) + 1] <= Len(Rest(np))
  <2>1. l <= Len(Rest(np))
    <3> HIDE DEF l
    <3> QED
      BY <1>1, <1>2
  <2> QED
    BY <2>1
<1>4. \E q, v : /\ Integers_(np, ARPKindWidths) = [parser |-> q, values |-> v]
                /\ Parser(q) /\ ~q.error
                /\ Rest(q) = Beyond(Rest(np), ARPKindOffsets[Len(ARPKindWidths) + 1])
                /\ v \in Seq(Value) /\ Len(v) = Len(ARPKindWidths)
                /\ \A k \in 1 .. Len(ARPKindWidths) :
                     v[k] = At(Rest(np), ARPKindOffsets[k], ARPKindWidths[k])
  <2>1. ARPKindWidths \in Seq(Width) /\ Offsets(ARPKindOffsets, ARPKindWidths)
    BY <1>2
  <2> QED
    BY <1>1, <1>3, <2>1, IntegersAre, Zenon
<1>5. PICK q, v : /\ Integers_(np, ARPKindWidths) = [parser |-> q, values |-> v]
                  /\ Parser(q) /\ ~q.error
                  /\ Rest(q) = Beyond(Rest(np), l)
                  /\ v \in Seq(Value) /\ Len(v) = n
                  /\ \A k \in 1 .. n : v[k] = At(Rest(np), ARPKindOffsets[k], ARPKindWidths[k])
  BY <1>4
<1> HIDE DEF n, l
<1>6. /\ Integers_(np, ARPKindWidths) = [parser |-> q, values |-> v]
      /\ Parser(q) /\ ~q.error /\ Rest(q) = Beyond(z, 8)
      /\ v \in Seq(Value) /\ Len(v) = 5
      /\ \A i \in 1 .. 5 : v[i] = At(z, ARPKindOffsets[i], ARPKindWidths[i])
  BY <1>1, <1>2, <1>5
<1> QED
  BY <1>6, Zenon DEF np

LEMMA AddressesRead ==
    ASSUME NEW p, Parser(p), ~p.error, NEW y, y = Rest(p), Len(y) >= 20
    PROVE  \E q, v : /\ Integers_(p, ARPAddressWidths) = [parser |-> q, values |-> v]
                     /\ ~q.error /\ v \in Seq(Value) /\ Len(v) = 14
                     /\ \A i \in 1 .. 14 : v[i] = At(y, ARPAddressOffsets[i], ARPAddressWidths[i])
<1> DEFINE n == Len(ARPAddressWidths)
           l == ARPAddressOffsets[n + 1]
<1>2. /\ n = 14 /\ l = 20 /\ ARPAddressWidths \in Seq(Width)
      /\ Offsets(ARPAddressOffsets, ARPAddressWidths)
  BY ARPAddressTable, ARPOffsets
<1>3. ARPAddressOffsets[Len(ARPAddressWidths) + 1] <= Len(Rest(p))
  <2>1. l <= Len(Rest(p))
    <3> HIDE DEF l
    <3> QED
      BY <1>2
  <2> QED
    BY <2>1
<1>4. \E q, v : /\ Integers_(p, ARPAddressWidths) = [parser |-> q, values |-> v]
                /\ Parser(q) /\ ~q.error
                /\ Rest(q) = Beyond(Rest(p), ARPAddressOffsets[Len(ARPAddressWidths) + 1])
                /\ v \in Seq(Value) /\ Len(v) = Len(ARPAddressWidths)
                /\ \A k \in 1 .. Len(ARPAddressWidths) :
                     v[k] = At(Rest(p), ARPAddressOffsets[k], ARPAddressWidths[k])
  <2>1. ARPAddressWidths \in Seq(Width) /\ Offsets(ARPAddressOffsets, ARPAddressWidths)
    BY <1>2
  <2> QED
    BY <1>3, <2>1, IntegersAre, Zenon
<1>5. PICK q, v : /\ Integers_(p, ARPAddressWidths) = [parser |-> q, values |-> v]
                  /\ ~q.error /\ v \in Seq(Value) /\ Len(v) = n
                  /\ \A k \in 1 .. n : v[k] = At(Rest(p), ARPAddressOffsets[k], ARPAddressWidths[k])
  BY <1>4
<1> HIDE DEF n, l
<1>6. /\ Integers_(p, ARPAddressWidths) = [parser |-> q, values |-> v]
      /\ ~q.error /\ v \in Seq(Value) /\ Len(v) = 14
      /\ \A i \in 1 .. 14 : v[i] = At(y, ARPAddressOffsets[i], ARPAddressWidths[i])
  BY <1>2, <1>5
<1> QED
  BY <1>6, ZenonT(60)

\* A message that is too short is not read.
LEMMA ARPShort ==
    ASSUME NEW b \in Buffers, Len(FlattenSeq(b)) < 28
    PROVE  ParseARP(b) = Invalid
<1> DEFINE np == NewParser(b)
           z == FlattenSeq(b)
           r == Integers_(np, ARPKindWidths)
           s == Integers_(r.parser, ARPAddressWidths)
<1>1. Parser(np) /\ ~np.error /\ Rest(np) = z /\ z \in Strings /\ Len(z) \in Nat
  BY NewParserIs DEF Strings
<1>2. ParseARP(b) = IF r.parser.error \/ ~supported(SubSeq(r.values, 1, 4), r.values[5]) THEN Invalid
                    ELSE IF s.parser.error THEN Invalid
                    ELSE Valid(ARPRecord(r.values, s.values))
  BY Zenon DEF ParseARP, ARPRecord
<1> HIDE DEF np, s
<1>3. CASE Len(z) < 8
  <2>1. ARPKindOffsets[Len(ARPKindWidths) + 1] > Len(Rest(np))
    BY <1>1, <1>3, ARPKindTable, ARPOffsets
  <2>2. r.parser.error
    BY <1>1, <2>1, ARPKindTable, IntegersMissing
  <2> HIDE DEF r
  <2> QED
    BY <1>2, <2>2, Zenon
<1>4. CASE ~(Len(z) < 8)
  <2>0. Len(z) >= 8 /\ Len(z) < 28
    BY <1>1, <1>4
  <2>1. \E q, k : r = [parser |-> q, values |-> k] /\ Parser(q) /\ Rest(q) = Beyond(z, 8)
    <3>1. z = FlattenSeq(b)
      OBVIOUS
    <3> HIDE DEF z
    <3>2. \E q, k : /\ Integers_(NewParser(b), ARPKindWidths) = [parser |-> q, values |-> k]
                    /\ Parser(q) /\ ~q.error /\ Rest(q) = Beyond(z, 8)
                    /\ k \in Seq(Value) /\ Len(k) = 5
                    /\ \A i \in 1 .. 5 : k[i] = At(z, ARPKindOffsets[i], ARPKindWidths[i])
      BY <2>0, <3>1, KindRead
    <3> QED
      BY <3>2, Zenon DEF np
  <2>2. PICK q, k : r = [parser |-> q, values |-> k] /\ Parser(q) /\ Rest(q) = Beyond(z, 8)
    BY <2>1
  <2>3. r.parser = q
    BY <2>2
  <2> HIDE DEF r, z
  <2>4. Len(Beyond(z, 8)) < 20
    <3>1. z \in Seq(Octet) /\ 8 \in 0 .. Len(z)
      BY <1>1, <2>0 DEF Strings
    <3>2. Len(Beyond(z, 8)) = Len(z) - 8
      BY <3>1, BeyondIs
    <3> QED
      BY <1>1, <2>0, <3>2
  <2>5. ARPAddressOffsets[Len(ARPAddressWidths) + 1] > Len(Rest(q))
    <3>1. ARPAddressOffsets[Len(ARPAddressWidths) + 1] = 20
      BY ARPAddressTable, ARPOffsets
    <3>2. Len(Beyond(z, 8)) \in Int
      <4>1. z \in Seq(Octet) /\ 8 \in 0 .. Len(z)
        BY <1>1, <2>0 DEF Strings
      <4>2. Len(Beyond(z, 8)) = Len(z) - 8
        BY <4>1, BeyondIs
      <4> QED
        BY <1>1, <4>2
    <3> QED
      BY <2>2, <2>4, <3>1, <3>2
  <2>6. Integers_(q, ARPAddressWidths).parser.error
    BY <2>2, <2>5, ARPAddressTable, IntegersMissing
  <2>7. s.parser.error
    BY <2>3, <2>6 DEF s
  <2> QED
    BY <1>2, <2>7, Zenon
<1> QED
  BY <1>3, <1>4

ARPIntegers(z, k, v) ==
    /\ k \in Seq(Value) /\ Len(k) = 5 /\ v \in Seq(Value) /\ Len(v) = 14
    /\ \A i \in 1 .. 5 : k[i] = At(z, ARPKindOffsets[i], ARPKindWidths[i])
    /\ \A i \in 1 .. 14 : v[i] = At(Beyond(z, 8), ARPAddressOffsets[i], ARPAddressWidths[i])

LEMMA ARPParsed ==
    ASSUME NEW b \in Buffers, NEW z, z = FlattenSeq(b), Len(z) >= 28
    PROVE  \E k, v : /\ ARPIntegers(z, k, v)
                     /\ ParseARP(b) = IF supported(SubSeq(k, 1, 4), k[5])
                                      THEN Valid(ARPRecord(k, v)) ELSE Invalid
<1> DEFINE np == NewParser(b)
           r == Integers_(np, ARPKindWidths)
           s == Integers_(r.parser, ARPAddressWidths)
           y == Beyond(z, 8)
<1>1. z \in Strings /\ Len(z) \in Nat /\ Len(z) >= 8
  <2>1. z \in Strings
    BY NewParserIs
  <2>2. Len(z) \in Nat
    BY <2>1 DEF Strings
  <2> QED
    BY <2>1, <2>2
<1>2. ParseARP(b) = IF r.parser.error \/ ~supported(SubSeq(r.values, 1, 4), r.values[5]) THEN Invalid
                    ELSE IF s.parser.error THEN Invalid
                    ELSE Valid(ARPRecord(r.values, s.values))
  BY Zenon DEF ParseARP, ARPRecord
<1>3. \E q, k : /\ Integers_(NewParser(b), ARPKindWidths) = [parser |-> q, values |-> k]
                /\ Parser(q) /\ ~q.error /\ Rest(q) = Beyond(z, 8)
                /\ k \in Seq(Value) /\ Len(k) = 5
                /\ \A i \in 1 .. 5 : k[i] = At(z, ARPKindOffsets[i], ARPKindWidths[i])
  BY <1>1, KindRead
<1>4. PICK q, k : /\ r = [parser |-> q, values |-> k]
                  /\ Parser(q) /\ ~q.error /\ Rest(q) = y
                  /\ k \in Seq(Value) /\ Len(k) = 5
                  /\ \A i \in 1 .. 5 : k[i] = At(z, ARPKindOffsets[i], ARPKindWidths[i])
  BY <1>3
<1>5. r.parser = q /\ r.values = k
  BY <1>4
<1> HIDE DEF r, s
<1>6. y \in Strings /\ Len(y) >= 20
  <2>1. z \in Seq(Octet) /\ 8 \in 0 .. Len(z)
    BY <1>1 DEF Strings
  <2>2. y \in Seq(Octet) /\ Len(y) = Len(z) - 8
    BY <2>1, BeyondIs
  <2> HIDE DEF y
  <2> QED
    BY <1>1, <2>2 DEF Strings
<1> HIDE DEF y
<1>7. \E c, v : /\ Integers_(q, ARPAddressWidths) = [parser |-> c, values |-> v]
                /\ ~c.error /\ v \in Seq(Value) /\ Len(v) = 14
                /\ \A i \in 1 .. 14 : v[i] = At(y, ARPAddressOffsets[i], ARPAddressWidths[i])
  <2>1. Parser(q) /\ ~q.error /\ y = Rest(q) /\ Len(y) >= 20
    BY <1>4, <1>6
  <2> QED
    BY <2>1, AddressesRead
<1>8. PICK c, v : /\ Integers_(q, ARPAddressWidths) = [parser |-> c, values |-> v]
                  /\ ~c.error /\ v \in Seq(Value) /\ Len(v) = 14
                  /\ \A i \in 1 .. 14 : v[i] = At(y, ARPAddressOffsets[i], ARPAddressWidths[i])
  BY <1>7
<1>9. s = [parser |-> c, values |-> v]
  BY <1>5, <1>8 DEF s
<1>10. s.parser = c /\ s.values = v
  BY <1>9
<1>11. ParseARP(b) = IF supported(SubSeq(k, 1, 4), k[5]) THEN Valid(ARPRecord(k, v)) ELSE Invalid
  <2>1. ~r.parser.error /\ ~s.parser.error
    BY <1>4, <1>5, <1>8, <1>10
  <2>2. ParseARP(b) = IF supported(SubSeq(r.values, 1, 4), r.values[5])
                      THEN Valid(ARPRecord(r.values, s.values)) ELSE Invalid
    BY <1>2, <2>1, Zenon
  <2> QED
    BY <1>5, <1>10, <2>2, Zenon
<1>12. k \in Seq(Value) /\ Len(k) = 5 /\ \A i \in 1 .. 5 : k[i] = At(z, ARPKindOffsets[i], ARPKindWidths[i])
  BY <1>4
<1> QED
  <2>1. ARPIntegers(z, k, v)
    BY <1>8, <1>12 DEF y, ARPIntegers
  <2> QED
    BY <1>11, <2>1, Zenon

LEMMA Slice ==
    ASSUME NEW S, NEW v \in Seq(S), NEW a \in Nat, NEW n \in Nat, a + n <= Len(v)
    PROVE  /\ SubSeq(v, a + 1, a + n) \in Seq(S) /\ Len(SubSeq(v, a + 1, a + n)) = n
           /\ \A k \in 1 .. n : SubSeq(v, a + 1, a + n)[k] = v[a + k]
<1> DEFINE y == Beyond(v, a)
           x == Upto(y, n)
           l == Len(v)
           u == SubSeq(v, a + 1, a + n)
<1>1. l \in Nat /\ a + n <= l
  OBVIOUS
<1>2. u \in Seq(S)
  BY <1>1
<1>3. Len(u) = n
  BY <1>1
<1>4. \A k \in 1 .. n : u[k] = v[a + k]
  BY <1>1
<1> QED
  BY <1>2, <1>3, <1>4

\* A six-octet address of the values.
LEMMA Listed ==
    ASSUME NEW S, NEW u \in Seq(S)
    PROVE  u = [k \in 1 .. Len(u) |-> u[k]]
  OBVIOUS

Sliced(u, v, a) ==
    /\ (\A k \in 1 .. 6 : v[a + k] \in Octet) => u \in EthernetAddress
    /\ \A k \in 1 .. 6 : u[k] = v[a + k]
    /\ \A e \in EthernetAddress : (\A k \in 1 .. 6 : v[a + k] = e[k]) => u = e

LEMMA AddressSlice ==
    ASSUME NEW v \in Seq(Value), NEW a \in Nat, a + 6 <= Len(v), NEW u, u = SubSeq(v, a + 1, a + 6)
    PROVE  Sliced(u, v, a)
<1>1. u \in Seq(Value) /\ Len(u) = 6 /\ \A k \in 1 .. 6 : u[k] = v[a + k]
  <2> DEFINE n == 6
  <2>1. n \in Nat /\ a + n <= Len(v) /\ u = SubSeq(v, a + 1, a + n)
    OBVIOUS
  <2> HIDE DEF n
  <2>2. /\ SubSeq(v, a + 1, a + n) \in Seq(Value) /\ Len(SubSeq(v, a + 1, a + n)) = n
        /\ \A k \in 1 .. n : SubSeq(v, a + 1, a + n)[k] = v[a + k]
    BY <2>1, Slice
  <2>3. u \in Seq(Value) /\ Len(u) = n /\ \A k \in 1 .. n : u[k] = v[a + k]
    BY <2>1, <2>2
  <2> QED
    BY <2>3 DEF n
<1>2. u = [k \in 1 .. 6 |-> u[k]]
  <2>1. u \in Seq(Value)
    BY <1>1
  <2>2. u = [k \in 1 .. Len(u) |-> u[k]]
    BY <2>1, Listed
  <2>3. Len(u) = 6
    BY <1>1
  <2> QED
    BY <2>2, <2>3
<1>3. ASSUME \A k \in 1 .. 6 : v[a + k] \in Octet PROVE u \in EthernetAddress
  <2>1. \A k \in 1 .. 6 : u[k] \in Octet
    BY <1>1, <1>3
  <2> QED
    BY <1>2, <2>1 DEF EthernetAddress
<1>4. ASSUME NEW e \in EthernetAddress, \A k \in 1 .. 6 : v[a + k] = e[k] PROVE u = e
  <2>1. e = [k \in 1 .. 6 |-> e[k]]
    BY DEF EthernetAddress
  <2>2. \A k \in 1 .. 6 : u[k] = e[k]
    BY <1>1, <1>4
  <2> QED
    BY <1>2, <2>1, <2>2
<1> QED
  BY <1>1, <1>3, <1>4 DEF Sliced

LEMMA SupportedIs ==
    ASSUME NEW k \in Seq(Value), Len(k) = 5
    PROVE  supported(SubSeq(k, 1, 4), k[5])
             <=> k[1] = 1 /\ k[2] = 2048 /\ k[3] = 6 /\ k[4] = 4 /\ k[5] \in {OPCODE_REQUEST, OPCODE_REPLY}
<1> DEFINE u == SubSeq(k, 1, 4)
           w == <<1, 2048, 6, 4>>
<1>1. u \in Seq(Value) /\ Len(u) = 4 /\ \A j \in 1 .. 4 : u[j] = k[j]
  <2> DEFINE n == 4
             a == 0
  <2>1. k \in Seq(Value) /\ n \in Nat /\ a \in Nat /\ a + n <= Len(k)
    OBVIOUS
  <2> HIDE DEF n, a
  <2>2. /\ SubSeq(k, a + 1, a + n) \in Seq(Value) /\ Len(SubSeq(k, a + 1, a + n)) = n
        /\ \A j \in 1 .. n : SubSeq(k, a + 1, a + n)[j] = k[a + j]
    BY <2>1, Slice, ZenonT(60)
  <2>3. a + 1 = 1 /\ a + n = 4 /\ n = 4 /\ \A j \in 1 .. n : a + j = j
    BY DEF a, n
  <2> HIDE DEF u
  <2>4. u = SubSeq(k, a + 1, a + n)
    BY <2>3 DEF u
  <2> QED
    BY <2>2, <2>3, <2>4
<1>2. w[1] = 1 /\ w[2] = 2048 /\ w[3] = 6 /\ w[4] = 4 /\ w = [j \in 1 .. 4 |-> w[j]] /\ ARPKind = w
  BY DEF ARPKind, TYPE_IPv4
<1> HIDE DEF w, u
<1>3. u = [j \in 1 .. 4 |-> u[j]]
  BY <1>1
<1>4. ASSUME u = w PROVE k[1] = 1 /\ k[2] = 2048 /\ k[3] = 6 /\ k[4] = 4
  BY <1>1, <1>2, <1>4
<1>5. ASSUME k[1] = 1, k[2] = 2048, k[3] = 6, k[4] = 4 PROVE u = w
  <2>1. \A j \in 1 .. 4 : u[j] = w[j]
    <3> SUFFICES ASSUME NEW j \in 1 .. 4 PROVE u[j] = w[j]
      OBVIOUS
    <3>1. j = 1 \/ j = 2 \/ j = 3 \/ j = 4
      OBVIOUS
    <3> QED
      BY <1>1, <1>2, <1>5, <3>1
  <2> QED
    BY <1>2, <1>3, <2>1
<1> QED
  BY <1>2, <1>4, <1>5 DEF supported, u

\* Of octets that are enough, ARPMessage::parse reads the supported message
\* whose fields they hold, or nothing if there is none (arp_message.cc:33-57).
THEOREM ARPHeard ==
    ASSUME NEW b \in Buffers, NEW z, z = FlattenSeq(b), Len(z) >= 28
    PROVE  /\ \A m \in ARPType : Says(z, m) => ParseARP(b) = Valid(m)
           /\ \/ ParseARP(b) = Invalid
              \/ \E m \in ARPType : ParseARP(b) = Valid(m) /\ Says(z, m)
<1> DEFINE y == Beyond(z, 8)
<1>1. \E k, v : /\ ARPIntegers(z, k, v)
                /\ ParseARP(b) = IF supported(SubSeq(k, 1, 4), k[5])
                                 THEN Valid(ARPRecord(k, v)) ELSE Invalid
  BY ARPParsed
<1>2. PICK k, v : /\ k \in Seq(Value) /\ Len(k) = 5 /\ v \in Seq(Value) /\ Len(v) = 14
                  /\ \A i \in 1 .. 5 : k[i] = At(z, ARPKindOffsets[i], ARPKindWidths[i])
                  /\ \A i \in 1 .. 14 : v[i] = At(y, ARPAddressOffsets[i], ARPAddressWidths[i])
                  /\ ParseARP(b) = IF supported(SubSeq(k, 1, 4), k[5])
                                   THEN Valid(ARPRecord(k, v)) ELSE Invalid
  BY <1>1 DEF ARPIntegers
<1>3. z \in Strings /\ y \in Strings /\ Len(y) >= 20
  <2>1. z \in Strings
    BY NewParserIs
  <2>2. z \in Seq(Octet) /\ 8 \in 0 .. Len(z) /\ Len(z) \in Nat
    BY <2>1 DEF Strings
  <2>3. y \in Seq(Octet) /\ Len(y) = Len(z) - 8
    BY <2>2, BeyondIs
  <2> HIDE DEF y
  <2> QED
    BY <2>1, <2>2, <2>3 DEF Strings
<1> DEFINE s == SubSeq(v, 1, 6)
           t == SubSeq(v, 8, 13)
<1>4. /\ (\A i \in 1 .. 6 : v[i] \in Octet) => s \in EthernetAddress
      /\ \A i \in 1 .. 6 : s[i] = v[i]
      /\ \A e \in EthernetAddress : (\A i \in 1 .. 6 : v[i] = e[i]) => s = e
  <2> DEFINE a == 0
  <2>1. a \in Nat /\ a + 6 <= Len(v) /\ s = SubSeq(v, a + 1, a + 6) /\ \A i \in 1 .. 6 : a + i = i
    BY <1>2
  <2> HIDE DEF a, s
  <2>2. Sliced(s, v, a)
    BY <1>2, <2>1, AddressSlice
  <2> QED
    BY <2>1, <2>2 DEF Sliced
<1>5. /\ (\A i \in 1 .. 6 : v[7 + i] \in Octet) => t \in EthernetAddress
      /\ \A i \in 1 .. 6 : t[i] = v[7 + i]
      /\ \A e \in EthernetAddress : (\A i \in 1 .. 6 : v[7 + i] = e[i]) => t = e
  <2>1. 7 \in Nat /\ 7 + 6 <= Len(v) /\ t = SubSeq(v, 7 + 1, 7 + 6)
    BY <1>2
  <2> HIDE DEF t
  <2>2. Sliced(t, v, 7)
    BY <1>2, <2>1, AddressSlice
  <2> QED
    BY <2>2 DEF Sliced
<1> HIDE DEF s, t, y
<1>6. ARPRecord(k, v) = [opcode |-> k[5], sender_ethernet_address |-> s, sender_ip_address |-> v[7],
                         target_ethernet_address |-> t, target_ip_address |-> v[14]]
  BY DEF ARPRecord, s, t
<1>7. ASSUME NEW m \in ARPType, Says(z, m) PROVE ParseARP(b) = Valid(m)
  <2>1. /\ \A i \in 1 .. 5 : k[i] = KindValues(m)[i]
        /\ \A i \in 1 .. 14 : v[i] = AddressValues(m)[i]
    BY <1>2, <1>7 DEF Says, y
  <2>2. m.opcode \in Word /\ m.opcode \in {OPCODE_REQUEST, OPCODE_REPLY}
        /\ m.sender_ethernet_address \in EthernetAddress
        /\ m.target_ethernet_address \in EthernetAddress
    BY ARPFields DEF ARPType
  <2>3. k[1] = 1 /\ k[2] = 2048 /\ k[3] = 6 /\ k[4] = 4 /\ k[5] = m.opcode
    BY <2>1, <2>2, KindValuesAre
  <2>4. supported(SubSeq(k, 1, 4), k[5])
    BY <1>2, <2>2, <2>3, SupportedIs, SMTT(60)
  <2>5. /\ \A i \in 1 .. 6 : i \in 1 .. 14 /\ 7 + i \in 1 .. 14
        /\ 7 \in 1 .. 14 /\ 14 \in 1 .. 14
    OBVIOUS
  <2>6. /\ \A i \in 1 .. 6 : v[i] = m.sender_ethernet_address[i]
        /\ v[7] = m.sender_ip_address
        /\ \A i \in 1 .. 6 : v[7 + i] = m.target_ethernet_address[i]
        /\ v[14] = m.target_ip_address
    BY <2>1, <2>5, AddressValuesAre
  <2>7. s = m.sender_ethernet_address /\ t = m.target_ethernet_address
    BY <1>4, <1>5, <2>2, <2>6
  <2>8. ARPRecord(k, v) = m
    BY <1>6, <2>3, <2>6, <2>7 DEF ARPType
  <2> QED
    BY <1>2, <2>4, <2>8
<1>8. ASSUME supported(SubSeq(k, 1, 4), k[5])
      PROVE  ARPRecord(k, v) \in ARPType /\ Says(z, ARPRecord(k, v))
  <2> DEFINE m == ARPRecord(k, v)
  <2>1. k[1] = 1 /\ k[2] = 2048 /\ k[3] = 6 /\ k[4] = 4 /\ k[5] \in {OPCODE_REQUEST, OPCODE_REPLY}
    BY <1>2, <1>8, SupportedIs
  <2>2. /\ \A i \in 1 .. 6 : v[i] \in Octet /\ v[7 + i] \in Octet
        /\ v[7] \in Word \X Word /\ v[14] \in Word \X Word
    <3>1. /\ ARPAddressWidths \in Seq(Width) /\ Len(ARPAddressWidths) = 14
          /\ Offsets(ARPAddressOffsets, ARPAddressWidths) /\ ARPAddressOffsets[15] = 20
      BY ARPAddressTable, ARPOffsets
    <3>2. ASSUME NEW i \in 1 .. 14
          PROVE  /\ ARPAddressOffsets[i] \in Nat /\ ARPAddressWidths[i] \in Width
                 /\ ARPAddressOffsets[i] + ARPAddressWidths[i] <= Len(y)
      <4>1. i \in 1 .. Len(ARPAddressWidths) + 1 /\ i \in 1 .. Len(ARPAddressWidths)
            /\ ARPAddressOffsets[Len(ARPAddressWidths) + 1] = 20
        BY <3>1
      <4>2. /\ ARPAddressOffsets[i] \in Nat /\ ARPAddressWidths[i] \in Width
            /\ ARPAddressOffsets[i] + ARPAddressWidths[i] <= ARPAddressOffsets[Len(ARPAddressWidths) + 1]
        BY <3>1, <4>1, OffsetsGrow
      <4>3. Len(y) \in Nat /\ \A w \in Width : w \in Nat
        BY <1>3 DEF Strings, Width
      <4> QED
        BY <1>3, <4>1, <4>2, <4>3
    <3>3. ASSUME NEW i \in 1 .. 14
          PROVE  /\ ARPAddressWidths[i] = 1 => v[i] \in Octet
                 /\ ARPAddressWidths[i] = 4 => v[i] \in Word \X Word
      <4> DEFINE o == ARPAddressOffsets[i]
                 w == ARPAddressWidths[i]
      <4>1. o \in Nat /\ w \in Width /\ o + w <= Len(y) /\ v[i] = At(y, o, w)
        BY <1>2, <3>2
      <4> HIDE DEF o, w
      <4>2. (w = 1 => At(y, o, w) \in Octet) /\ (w = 4 => At(y, o, w) \in Word \X Word)
        BY <1>3, <4>1, AtType
      <4> QED
        BY <4>1, <4>2 DEF w
    <3>4. \A i \in 1 .. 6 : i \in 1 .. 14 /\ 7 + i \in 1 .. 14
      OBVIOUS
    <3>5. \A i \in 1 .. 6 : v[i] \in Octet /\ v[7 + i] \in Octet
      BY <3>3, <3>4, ARPOffsets
    <3>6. 7 \in 1 .. 14 /\ 14 \in 1 .. 14
      OBVIOUS
    <3>7. v[7] \in Word \X Word /\ v[14] \in Word \X Word
      BY <3>3, <3>6, ARPOffsets
    <3> QED
      BY <3>5, <3>7
  <2>3. s \in EthernetAddress /\ t \in EthernetAddress
    BY <1>4, <1>5, <2>2
  <2>4. m \in ARPType
    BY <1>6, <2>1, <2>2, <2>3 DEF ARPType, IPAddress
  <2>5. /\ m.opcode = k[5] /\ m.sender_ethernet_address = s /\ m.sender_ip_address = v[7]
        /\ m.target_ethernet_address = t /\ m.target_ip_address = v[14]
    BY <1>6
  <2> HIDE DEF m
  <2>6. \A i \in 1 .. 5 : k[i] = KindValues(m)[i]
    <3> SUFFICES ASSUME NEW i \in 1 .. 5 PROVE k[i] = KindValues(m)[i]
      OBVIOUS
    <3>1. i = 1 \/ i = 2 \/ i = 3 \/ i = 4 \/ i = 5
      OBVIOUS
    <3>2. m.opcode \in Word
      BY <2>4, ARPFields
    <3>3. /\ KindValues(m)[1] = 1 /\ KindValues(m)[2] = 2048 /\ KindValues(m)[3] = 6
          /\ KindValues(m)[4] = 4 /\ KindValues(m)[5] = m.opcode
      BY <3>2, KindValuesAre
    <3> QED
      BY <2>1, <2>5, <3>1, <3>3
  <2>7. \A i \in 1 .. 14 : v[i] = AddressValues(m)[i]
    <3> SUFFICES ASSUME NEW i \in 1 .. 14 PROVE v[i] = AddressValues(m)[i]
      OBVIOUS
    <3>1. CASE i \in 1 .. 6
      <4>1. AddressValues(m)[i] = m.sender_ethernet_address[i]
        BY <2>4, <3>1, AddressValuesAre
      <4> QED
        BY <1>4, <2>5, <3>1, <4>1
    <3>2. CASE i = 7 \/ i = 14
      BY <2>4, <2>5, <3>2, AddressValuesAre
    <3>3. CASE i \in 8 .. 13
      <4> DEFINE j == i - 7
      <4>1. j \in 1 .. 6 /\ i = 7 + j
        BY <3>3
      <4> HIDE DEF j
      <4>2. AddressValues(m)[i] = m.target_ethernet_address[j]
        BY <2>4, <4>1, AddressValuesAre
      <4> QED
        BY <1>5, <2>5, <4>1, <4>2
    <3> QED
      BY <3>1, <3>2, <3>3
  <2>8. Says(z, m)
    BY <1>2, <2>6, <2>7 DEF Says, y
  <2> QED
    BY <2>4, <2>8 DEF m
<1> QED
  BY <1>2, <1>7, <1>8

-----------------------------------------------------------------------------
\* What may happen to an octet

Bits == {1, 2, 4, 8, 16, 32, 64, 128}

LEMMA FlippedOctet ==
    ASSUME NEW n \in Octet, NEW bit \in Bits
    PROVE  FlipBit(n, bit) \in Octet
<1>1. n \in Int /\ 0 <= n /\ n <= 255
  BY OctetIs
<1>2. bit = 1 \/ bit = 2 \/ bit = 4 \/ bit = 8 \/ bit = 16 \/ bit = 32 \/ bit = 64 \/ bit = 128
  BY DEF Bits
<1>3. ASSUME NEW b \in Int, b = 1 \/ b = 2 \/ b = 4 \/ b = 8 \/ b = 16 \/ b = 32 \/ b = 64 \/ b = 128
      PROVE  /\ (n \div b) % 2 = 1 => n - b \in Int /\ 0 <= n - b /\ n - b <= 255
             /\ (n \div b) % 2 # 1 => n + b \in Int /\ 0 <= n + b /\ n + b <= 255
  <2>1. CASE b = 1
    BY <1>1, <2>1
  <2>2. CASE b = 2
    BY <1>1, <2>2
  <2>3. CASE b = 4
    BY <1>1, <2>3
  <2>4. CASE b = 8
    BY <1>1, <2>4
  <2>5. CASE b = 16
    BY <1>1, <2>5
  <2>6. CASE b = 32
    BY <1>1, <2>6
  <2>7. CASE b = 64
    BY <1>1, <2>7
  <2>8. CASE b = 128
    BY <1>1, <2>8
  <2> QED
    BY <1>3, <2>1, <2>2, <2>3, <2>4, <2>5, <2>6, <2>7, <2>8
<1>4. bit \in Int
  BY <1>2
<1>5. /\ (n \div bit) % 2 = 1 => n - bit \in Octet
      /\ (n \div bit) % 2 # 1 => n + bit \in Octet
  BY <1>2, <1>3, <1>4, OctetIs
<1> QED
  BY <1>5 DEF FlipBit, Flag

LEMMA DamagedOctet ==
    ASSUME NEW n \in Octet, NEW d \in Damaged(n)
    PROVE  d \in Octet
<1>1. (\E bit \in Bits : d = FlipBit(n, bit)) \/ d = 255 - n
  BY DEF Damaged, Bits
<1>2. CASE d = 255 - n
  <2>1. n \in Int /\ 0 <= n /\ n <= 255
    BY OctetIs
  <2>2. d \in Int /\ 0 <= d /\ d <= 255
    BY <1>2, <2>1
  <2> QED
    BY <2>2, OctetIs
<1>3. CASE \E bit \in Bits : d = FlipBit(n, bit)
  BY <1>3, FlippedOctet
<1> QED
  BY <1>1, <1>2, <1>3

\* One octet does not make the type of IPv4 that of ARP, or the other way
\* round.
LEMMA ZeroAndSix == 6 \notin Damaged(0) /\ 0 \notin Damaged(6)
<1>1. ASSUME NEW bit \in Bits PROVE FlipBit(0, bit) # 6 /\ FlipBit(6, bit) # 0
  <2>1. bit = 1 \/ bit = 2 \/ bit = 4 \/ bit = 8 \/ bit = 16 \/ bit = 32 \/ bit = 64 \/ bit = 128
    BY DEF Bits
  <2>2. CASE bit = 1
    BY <2>2 DEF FlipBit, Flag
  <2>3. CASE bit = 2
    BY <2>3 DEF FlipBit, Flag
  <2>4. CASE bit = 4
    BY <2>4 DEF FlipBit, Flag
  <2>5. CASE bit = 8
    BY <2>5 DEF FlipBit, Flag
  <2>6. CASE bit = 16
    BY <2>6 DEF FlipBit, Flag
  <2>7. CASE bit = 32
    BY <2>7 DEF FlipBit, Flag
  <2>8. CASE bit = 64
    BY <2>8 DEF FlipBit, Flag
  <2>9. CASE bit = 128
    BY <2>9 DEF FlipBit, Flag
  <2> QED
    BY <2>1, <2>2, <2>3, <2>4, <2>5, <2>6, <2>7, <2>8, <2>9
<1>2. 255 - 0 # 6 /\ 255 - 6 # 0
  OBVIOUS
<1>3. /\ \A d \in Damaged(0) : (\E bit \in Bits : d = FlipBit(0, bit)) \/ d = 255 - 0
      /\ \A d \in Damaged(6) : (\E bit \in Bits : d = FlipBit(6, bit)) \/ d = 255 - 6
  BY DEF Damaged, Bits
<1> QED
  BY <1>1, <1>2, <1>3

\* But for damage the first octets stay what they are.
LEMMA FrontKept ==
    ASSUME NEW w \in Strings, NEW x, NEW what, Suffered(w, x, what), what # "damaged",
           NEW n \in Nat, n <= Len(w), n <= Len(x)
    PROVE  \A j \in 1 .. n : x[j] = w[j]
<1>1. x \in Strings /\ Len(w) \in Nat /\ Len(x) \in Nat
  BY SufferedType
<1> SUFFICES ASSUME NEW j \in 1 .. n PROVE x[j] = w[j]
  OBVIOUS
<1>2. j \in 1 .. Len(w) /\ j \in 1 .. Len(x)
  BY <1>1
<1> QED
  BY <1>2 DEF Suffered, Begins, Padded

LEMMA TypeIs ==
    ASSUME NEW w \in Strings, Len(w) >= 14
    PROVE  /\ w[13] \in Octet /\ w[14] \in Octet
           /\ At(w, 12, 2) = TYPE_IPv4 <=> w[13] = 8 /\ w[14] = 0
           /\ At(w, 12, 2) = TYPE_ARP <=> w[13] = 8 /\ w[14] = 6
<1>1. w[13] \in Octet /\ w[14] \in Octet
  <2>1. w \in Seq(Octet) /\ Len(w) \in Nat
    BY DEF Strings
  <2>2. 13 \in 1 .. Len(w) /\ 14 \in 1 .. Len(w)
    BY <2>1
  <2> QED
    BY <2>1, <2>2, Elements
<1> DEFINE a == w[13]
           c == w[14]
<1>2. At(w, 12, 2) = a * 256 + c
  BY DEF At
<1>3. a \in Int /\ 0 <= a /\ a <= 255 /\ c \in Int /\ 0 <= c /\ c <= 255
  BY <1>1, OctetIs
<1> HIDE DEF a, c
<1>4. a * 256 + c = 2048 <=> a = 8 /\ c = 0
  BY <1>3
<1>5. a * 256 + c = 2054 <=> a = 8 /\ c = 6
  BY <1>3
<1> QED
  BY <1>1, <1>2, <1>4, <1>5 DEF a, c, TYPE_IPv4, TYPE_ARP

LEMMA TypeKept ==
    ASSUME NEW w \in Strings, NEW x, NEW what, Suffered(w, x, what), Len(w) >= 14, Len(x) >= 14
    PROVE  /\ At(w, 12, 2) = TYPE_IPv4 => At(x, 12, 2) # TYPE_ARP
           /\ At(w, 12, 2) = TYPE_ARP => At(x, 12, 2) # TYPE_IPv4
<1>1. x \in Strings /\ Len(w) \in Nat /\ Len(x) \in Nat
  BY SufferedType
<1>2. /\ At(w, 12, 2) = TYPE_IPv4 <=> w[13] = 8 /\ w[14] = 0
      /\ At(w, 12, 2) = TYPE_ARP <=> w[13] = 8 /\ w[14] = 6
  BY TypeIs
<1>3. /\ At(x, 12, 2) = TYPE_IPv4 <=> x[13] = 8 /\ x[14] = 0
      /\ At(x, 12, 2) = TYPE_ARP <=> x[13] = 8 /\ x[14] = 6
  BY <1>1, TypeIs
<1>4. x[14] = w[14] \/ x[14] \in Damaged(w[14])
  <2>1. CASE what # "damaged"
    <3> DEFINE n == 14
    <3>1. n \in Nat /\ n <= Len(w) /\ n <= Len(x)
      OBVIOUS
    <3> HIDE DEF n
    <3>2. \A j \in 1 .. n : x[j] = w[j]
      BY <2>1, <3>1, FrontKept
    <3> QED
      BY <3>2 DEF n
  <2>2. CASE what = "damaged"
    <3>1. x = w \/ \E k \in 1 .. Len(w) : AlikeBut(w, x, k) /\ x[k] \in Damaged(w[k])
      BY <2>2 DEF Suffered, Hit
    <3>2. CASE x = w
      BY <3>2
    <3>3. CASE \E k \in 1 .. Len(w) : AlikeBut(w, x, k) /\ x[k] \in Damaged(w[k])
      <4>1. PICK k \in 1 .. Len(w) : AlikeBut(w, x, k) /\ x[k] \in Damaged(w[k])
        BY <3>3
      <4>2. 14 \in 1 .. Len(w)
        BY <1>1
      <4>3. 14 = k \/ x[14] = w[14]
        BY <4>1, <4>2 DEF AlikeBut
      <4> QED
        BY <4>1, <4>3
    <3> QED
      BY <3>1, <3>2, <3>3
  <2> QED
    BY <2>1, <2>2
<1>5. ASSUME w[14] = 0, x[14] = 6 PROVE FALSE
  <2>1. 6 \in Damaged(0)
    BY <1>4, <1>5
  <2> QED
    BY <2>1, ZeroAndSix
<1>6. ASSUME w[14] = 6, x[14] = 0 PROVE FALSE
  <2>1. 0 \in Damaged(6)
    BY <1>4, <1>6
  <2> QED
    BY <2>1, ZeroAndSix
<1> QED
  BY <1>2, <1>3, <1>5, <1>6

-----------------------------------------------------------------------------
\* What a handler makes of the octets

LEMMA TunResult ==
    ASSUME way = "tun", octets \in Strings
    PROVE  \E b \in Buffers : FlattenSeq(b) = octets /\ Result = Told(b)
<1> DEFINE b == read_strings(<<HeaderLength>>)
           d == ParseDatagram(b)
<1>1. b \in Buffers /\ FlattenSeq(b) = octets
  BY ReadsDatagram
<1>2. Result = IF d.valid THEN Unwrapped(d.object) ELSE Invalid
  BY Zenon DEF Result
<1>3. Told(b) = IF d.valid THEN Unwrapped(d.object) ELSE Invalid
  BY Zenon DEF Told
<1> QED
  BY <1>1, <1>2, <1>3

\* What the interface with the address ethernet finds in a frame.
Found(p, type, dst, ethernet) ==
    IF type = TYPE_IPv4 /\ dst = ethernet THEN ParseDatagram(p) ELSE Invalid

LEMMA FrameFound ==
    ASSUME octets \in Strings
    PROVE  /\ Len(octets) < 14 => maybe_receive_frame = Invalid
           /\ Len(octets) >= 14 =>
                \E p \in Buffers :
                    /\ FlattenSeq(p) = Beyond(octets, 14)
                    /\ maybe_receive_frame.valid
                    /\ maybe_receive_frame.object.type = At(octets, 12, 2)
                    /\ maybe_receive_frame.object.dst = Upto(octets, 6)
                    /\ maybe_receive_frame.object.payload = p
<1> DEFINE b == read_strings(<<14, HeaderLength>>)
           f == maybe_receive_frame
<1>1. b \in Buffers /\ FlattenSeq(b) = octets
  BY ReadsFrame
<1>2. f = ParseFrame(b)
  BY DEF maybe_receive_frame
<1> HIDE DEF b
<1>3. Len(octets) < 14 => f = Invalid
  BY <1>1, <1>2, FrameShort
<1>4. ASSUME Len(octets) >= 14
      PROVE  \E p \in Buffers :
                  /\ FlattenSeq(p) = Beyond(octets, 14)
                  /\ f.valid /\ f.object.type = At(octets, 12, 2)
                  /\ f.object.dst = Upto(octets, 6) /\ f.object.payload = p
  <2>1. \E src, p :
           /\ ParseFrame(b) = Valid([dst |-> Upto(FlattenSeq(b), 6), src |-> src,
                                     type |-> At(FlattenSeq(b), 12, 2), payload |-> p])
           /\ p \in Buffers /\ FlattenSeq(p) = Beyond(FlattenSeq(b), 14)
    BY <1>1, <1>4, FrameRead
  <2>2. PICK src, p :
           /\ ParseFrame(b) = Valid([dst |-> Upto(octets, 6), src |-> src,
                                     type |-> At(octets, 12, 2), payload |-> p])
           /\ p \in Buffers /\ FlattenSeq(p) = Beyond(octets, 14)
    BY <1>1, <2>1
  <2> DEFINE dst == Upto(octets, 6)
             type == At(octets, 12, 2)
  <2>3. f = Valid([dst |-> dst, src |-> src, type |-> type, payload |-> p])
    BY <1>2, <2>2
  <2> HIDE DEF dst, type, f
  <2>4. f.valid /\ f.object.type = type /\ f.object.dst = dst /\ f.object.payload = p
    BY <2>3 DEF Valid
  <2> QED
    BY <2>2, <2>4 DEF dst, type
<1> QED
  BY <1>3, <1>4

LEMMA DatagramFound ==
    ASSUME octets \in Strings, NEW ethernet
    PROVE  /\ Len(octets) < 14 => Datagram(maybe_receive_frame, ethernet) = Invalid
           /\ Len(octets) >= 14 =>
                \E p \in Buffers :
                    /\ FlattenSeq(p) = Beyond(octets, 14)
                    /\ Datagram(maybe_receive_frame, ethernet)
                         = Found(p, At(octets, 12, 2), Upto(octets, 6), ethernet)
<1> DEFINE f == maybe_receive_frame
<1>1. Invalid.valid = FALSE
  BY DEF Invalid
<1>2. ASSUME Len(octets) < 14 PROVE Datagram(f, ethernet) = Invalid
  <2>1. f = Invalid
    BY <1>2, FrameFound
  <2> HIDE DEF f
  <2>2. ~f.valid
    BY <1>1, <2>1
  <2> QED
    BY <2>2, Zenon DEF Datagram
<1>3. ASSUME Len(octets) >= 14
      PROVE  \E p \in Buffers :
                  /\ FlattenSeq(p) = Beyond(octets, 14)
                  /\ Datagram(f, ethernet)
                       = Found(p, At(octets, 12, 2), Upto(octets, 6), ethernet)
  <2>1. PICK p \in Buffers :
                  /\ FlattenSeq(p) = Beyond(octets, 14)
                  /\ f.valid /\ f.object.type = At(octets, 12, 2)
                  /\ f.object.dst = Upto(octets, 6) /\ f.object.payload = p
    BY <1>3, FrameFound
  <2> HIDE DEF f
  <2> DEFINE dst == Upto(octets, 6)
             type == At(octets, 12, 2)
  <2>2. f.valid /\ f.object.type = type /\ f.object.dst = dst /\ f.object.payload = p
    BY <2>1
  <2> HIDE DEF dst, type
  <2>3. Datagram(f, ethernet) = Found(p, type, dst, ethernet)
    BY <2>2, Zenon DEF Datagram, Found
  <2> QED
    BY <2>1, <2>3 DEF dst, type
<1> QED
  BY <1>2, <1>3

EthernetRead(p, type, dst) ==
    IF type = TYPE_IPv4 THEN IF dst = Reader THEN Told(p) ELSE Invalid
    ELSE IF type = TYPE_ARP THEN ParseARP(p) ELSE Invalid

LEMMA EthernetResult ==
    ASSUME way # "tun", octets \in Strings
    PROVE  /\ Len(octets) < 14 => Result = Invalid
           /\ Len(octets) >= 14 =>
                \E p \in Buffers :
                    /\ FlattenSeq(p) = Beyond(octets, 14)
                    /\ Result = EthernetRead(p, At(octets, 12, 2), Upto(octets, 6))
<1> DEFINE f == maybe_receive_frame
           d == Datagram(f, Reader)
<1>1. Invalid.valid = FALSE
  BY DEF Invalid
<1>2. Result = IF d.valid THEN Unwrapped(d.object)
               ELSE IF f.valid /\ f.object.type = TYPE_ARP THEN ParseARP(f.object.payload)
               ELSE Invalid
  BY Zenon DEF Result
<1>3. ASSUME Len(octets) < 14 PROVE Result = Invalid
  <2>1. f = Invalid /\ d = Invalid
    BY <1>3, FrameFound, DatagramFound
  <2> HIDE DEF f, d
  <2>2. ~f.valid /\ ~d.valid
    BY <1>1, <2>1
  <2> QED
    BY <1>2, <2>2, Zenon
<1>4. ASSUME Len(octets) >= 14
      PROVE  \E p \in Buffers :
                  /\ FlattenSeq(p) = Beyond(octets, 14)
                  /\ Result = EthernetRead(p, At(octets, 12, 2), Upto(octets, 6))
  <2>1. PICK p \in Buffers :
                  /\ FlattenSeq(p) = Beyond(octets, 14)
                  /\ f.valid /\ f.object.type = At(octets, 12, 2)
                  /\ f.object.dst = Upto(octets, 6) /\ f.object.payload = p
    BY <1>4, FrameFound
  <2> DEFINE dst == Upto(octets, 6)
             type == At(octets, 12, 2)
  <2>2. f.valid /\ f.object.type = type /\ f.object.dst = dst /\ f.object.payload = p
    BY <2>1
  <2> HIDE DEF dst, type, f
  <2>3. d = IF type = TYPE_IPv4 /\ dst = Reader THEN ParseDatagram(p) ELSE Invalid
    BY <2>2, Zenon DEF Datagram
  <2> HIDE DEF d
  <2>4. TYPE_IPv4 # TYPE_ARP
    BY DEF TYPE_IPv4, TYPE_ARP
  <2>5. CASE type = TYPE_IPv4 /\ dst = Reader
    <3>1. d = ParseDatagram(p)
      BY <2>3, <2>5, Zenon
    <3>2. Result = IF d.valid THEN Unwrapped(d.object) ELSE Invalid
      <4>1. type # TYPE_ARP
        BY <2>4, <2>5
      <4> QED
        BY <1>2, <2>2, <4>1, Zenon
    <3>3. Result = Told(p)
      BY <3>1, <3>2, Zenon DEF Told
    <3> QED
      BY <2>1, <2>5, <3>3, Zenon DEF EthernetRead, dst, type
  <2>6. CASE ~(type = TYPE_IPv4 /\ dst = Reader)
    <3>1. d = Invalid
      BY <2>3, <2>6, Zenon
    <3>2. ~d.valid
      BY <1>1, <3>1
    <3>3. Result = IF type = TYPE_ARP THEN ParseARP(p) ELSE Invalid
      BY <1>2, <2>2, <3>2, Zenon
    <3>4. EthernetRead(p, type, dst) = IF type = TYPE_ARP THEN ParseARP(p) ELSE Invalid
      BY <2>4, <2>6, Zenon DEF EthernetRead
    <3> QED
      BY <2>1, <3>3, <3>4, Zenon DEF dst, type
  <2> QED
    BY <2>5, <2>6
<1> QED
  BY <1>3, <1>4

InFrame(w, dst, type) ==
    w \in Strings /\ Len(w) >= 14 /\ Upto(w, 6) = dst /\ At(w, 12, 2) = type

LEMMA AddressedAlike ==
    ASSUME NEW w \in Strings, NEW x \in Strings, Len(w) >= 14, Len(x) >= 14,
           \A j \in 1 .. 14 : x[j] = w[j]
    PROVE  Upto(x, 6) = Upto(w, 6) /\ At(x, 12, 2) = At(w, 12, 2)
<1>1. w \in Seq(Octet) /\ x \in Seq(Octet) /\ 6 \in 0 .. Len(w) /\ 6 \in 0 .. Len(x)
  BY SMTT(60) DEF Strings
<1> DEFINE u == Upto(w, 6)
           v == Upto(x, 6)
<1>2. u \in Seq(Octet) /\ Len(u) = 6 /\ \A j \in 1 .. 6 : u[j] = w[j]
  BY <1>1, UptoIs
<1>3. v \in Seq(Octet) /\ Len(v) = 6 /\ \A j \in 1 .. 6 : v[j] = x[j]
  BY <1>1, UptoIs
<1> HIDE DEF u, v
<1>4. \A j \in 1 .. 6 : v[j] = u[j]
  <2> SUFFICES ASSUME NEW j \in 1 .. 6 PROVE v[j] = u[j]
    OBVIOUS
  <2>1. j \in 1 .. 14
    OBVIOUS
  <2>2. x[j] = w[j]
    BY <2>1
  <2> QED
    BY <1>2, <1>3, <2>2
<1>5. \A j \in 1 .. Len(v) : v[j] = u[j]
  BY <1>3, <1>4
<1>6. v = u
  BY <1>2, <1>3, <1>5, SameString
<1>7. x[12 + 1] = w[12 + 1] /\ x[12 + 2] = w[12 + 2]
  OBVIOUS
<1>8. At(x, 12, 2) = At(w, 12, 2)
  BY <1>7 DEF At
<1> QED
  BY <1>6, <1>8 DEF u, v

\* The parts of a frame that has suffered.
LEMMA FrameSuffered ==
    ASSUME NEW w, NEW dst, NEW type, InFrame(w, dst, type), NEW x, NEW what, Suffered(w, x, what)
    PROVE  /\ x \in Strings
           /\ Len(x) < 14 => what = "cut short"
           /\ Len(x) >= 14 => Suffered(Beyond(w, 14), Beyond(x, 14), what)
           /\ Len(x) >= 14 /\ what # "damaged" => Upto(x, 6) = dst /\ At(x, 12, 2) = type
<1>1. /\ w \in Strings /\ Len(w) >= 14 /\ Upto(w, 6) = dst /\ At(w, 12, 2) = type
  BY DEF InFrame
<1>2. /\ x \in Strings /\ Len(w) \in Nat /\ Len(x) \in Nat
      /\ what # "cut short" => Len(x) >= Len(w)
  BY <1>1, SufferedType
<1>3. Len(x) < 14 => what = "cut short"
  <2> DEFINE lw == Len(w)
             lx == Len(x)
  <2>1. lw \in Nat /\ lx \in Nat /\ lw >= 14
    BY <1>1, <1>2
  <2>2. what # "cut short" => lx >= lw
    BY <1>2
  <2> HIDE DEF lw, lx
  <2>3. lx < 14 => ~(lx >= lw)
    BY <2>1
  <2>4. lx < 14 => what = "cut short"
    BY <2>2, <2>3
  <2> QED
    BY <2>4 DEF lx
<1>4. ASSUME Len(x) >= 14 PROVE Suffered(Beyond(w, 14), Beyond(x, 14), what)
  <2> DEFINE n == 14
  <2>1. n \in Nat /\ n <= Len(w) /\ n <= Len(x)
    BY <1>1, <1>4
  <2> HIDE DEF n
  <2>2. Suffered(Beyond(w, n), Beyond(x, n), what)
    BY <1>1, <2>1, SufferedBeyond
  <2> QED
    BY <2>2 DEF n
<1>5. ASSUME Len(x) >= 14, what # "damaged"
      PROVE  Upto(x, 6) = dst /\ At(x, 12, 2) = type
  <2> DEFINE n == 14
  <2>1. n \in Nat /\ n <= Len(w) /\ n <= Len(x)
    BY <1>1, <1>5
  <2> HIDE DEF n
  <2>2. \A j \in 1 .. n : x[j] = w[j]
    BY <1>1, <1>5, <2>1, FrontKept
  <2>3. \A j \in 1 .. 14 : x[j] = w[j]
    BY <2>2 DEF n
  <2>4. Upto(x, 6) = Upto(w, 6) /\ At(x, 12, 2) = At(w, 12, 2)
    BY <1>1, <1>2, <1>5, <2>3, AddressedAlike
  <2> QED
    BY <1>1, <2>4
<1> QED
  BY <1>2, <1>3, <1>4, <1>5

LEMMA NoOptionsFours == <<>> \in Strings /\ Fours(<<>>)
<1>1. <<>> \in Strings /\ Len(<<>>) = 0
  BY NoOptions
<1>2. 0 \in 0 .. 10 /\ 4 * 0 = 0 /\ 0 \div 4 = 0
  OBVIOUS
<1>3. Fours(<<>>)
  BY <1>1, <1>2 DEF Fours
<1> QED
  BY <1>1, <1>3

LEMMA TunRead ==
    ASSUME way = "tun", NEW m \in MessageType, NEW options \in Strings, Fours(options),
           NEW w, Carries(w, m, options), NEW what, Suffered(w, octets, what)
    PROVE  Allowed(Result, m, options, what)
<1>1. w \in Strings
  BY DEF Carries
<1>2. octets \in Strings
  BY <1>1, SufferedType
<1>3. PICK b \in Buffers : FlattenSeq(b) = octets /\ Result = Told(b)
  BY <1>2, TunResult
<1>4. Suffered(w, FlattenSeq(b), what)
  BY <1>3
<1>5. Allowed(Told(b), m, options, what)
  BY <1>4, DatagramSuffered
<1> QED
  BY <1>3, <1>5

LEMMA SegmentFrameRead ==
    ASSUME way # "tun", NEW m \in MessageType, NEW w, InFrame(w, Reader, TYPE_IPv4),
           Carries(Beyond(w, 14), m, <<>>), NEW what, Suffered(w, octets, what)
    PROVE  Allowed(Result, m, <<>>, what)
<1> DEFINE none == <<>>
           y == Beyond(w, 14)
           z == Beyond(octets, 14)
<1>1. none \in Strings /\ Fours(none)
  BY NoOptionsFours
<1>2. Carries(y, m, none)
  OBVIOUS
<1>3. /\ octets \in Strings
      /\ Len(octets) < 14 => what = "cut short"
      /\ Len(octets) >= 14 => Suffered(y, z, what)
      /\ Len(octets) >= 14 /\ what # "damaged" =>
           Upto(octets, 6) = Reader /\ At(octets, 12, 2) = TYPE_IPv4
  BY FrameSuffered
<1>4. /\ Len(octets) < 14 => Result = Invalid
      /\ Len(octets) >= 14 =>
           \E p \in Buffers :
               /\ FlattenSeq(p) = z
               /\ Result = EthernetRead(p, At(octets, 12, 2), Upto(octets, 6))
  BY <1>3, EthernetResult
<1>5. Len(octets) \in Nat
  <2>1. octets \in Strings
    BY <1>3
  <2> QED
    BY <2>1 DEF Strings
<1> HIDE DEF none, y, z
<1>6. CASE Len(octets) < 14
  <2>1. Result = Invalid /\ what # "none"
    BY <1>3, <1>4, <1>6
  <2>2. Allowed(Result, m, none, what)
    BY <2>1 DEF Allowed
  <2> QED
    BY <2>2 DEF none
<1>7. CASE Len(octets) >= 14
  <2> DEFINE type == At(octets, 12, 2)
             dst == Upto(octets, 6)
  <2>1. PICK p \in Buffers : FlattenSeq(p) = z /\ Result = EthernetRead(p, type, dst)
    BY <1>4, <1>7
  <2>2. type # TYPE_ARP
    <3>1. w \in Strings /\ Len(w) >= 14 /\ At(w, 12, 2) = TYPE_IPv4
      BY DEF InFrame
    <3> QED
      BY <1>7, <3>1, TypeKept
  <2>3. what # "damaged" => dst = Reader /\ type = TYPE_IPv4
    BY <1>3, <1>7
  <2> HIDE DEF type, dst
  <2>4. CASE type = TYPE_IPv4 /\ dst = Reader
    <3>1. Result = Told(p)
      BY <2>1, <2>4, Zenon DEF EthernetRead
    <3>2. Suffered(y, FlattenSeq(p), what)
      BY <1>3, <1>7, <2>1
    <3>3. Allowed(Told(p), m, none, what)
      BY <1>1, <1>2, <3>2, DatagramSuffered
    <3>4. Allowed(Result, m, none, what)
      BY <3>1, <3>3
    <3> QED
      BY <3>4 DEF none
  <2>5. CASE ~(type = TYPE_IPv4 /\ dst = Reader)
    <3>1. Result = Invalid
      BY <2>1, <2>2, <2>5, Zenon DEF EthernetRead
    <3>2. what # "none"
      BY <2>3, <2>5
    <3>3. Allowed(Result, m, none, what)
      BY <3>1, <3>2 DEF Allowed
    <3> QED
      BY <3>3 DEF none
  <2> QED
    BY <2>4, <2>5
<1> QED
  BY <1>5, <1>6, <1>7

ARPAllowed(r, m, x, what) ==
    \/ r = Invalid /\ what \in {"cut short", "damaged"}
    \/ \E n \in ARPType : /\ r = Valid(n)
                          /\ SubSeq(x, 15, 42) = FlattenSeq(SerializeARP(n))
                          /\ what # "damaged" => n = m

LEMMA BehindHeader ==
    ASSUME NEW x \in Strings, Len(x) >= 42
    PROVE  SubSeq(x, 15, 42) = Upto(Beyond(x, 14), 28)
<1> DEFINE y == Beyond(x, 14)
           u == SubSeq(x, 15, 42)
           v == Upto(y, 28)
<1>1. x \in Seq(Octet) /\ Len(x) \in Nat /\ 14 \in 0 .. Len(x)
  BY DEF Strings
<1>2. y \in Seq(Octet) /\ Len(y) = Len(x) - 14 /\ \A j \in 1 .. Len(x) - 14 : y[j] = x[14 + j]
  BY <1>1, BeyondIs
<1>3. u \in Seq(Octet) /\ Len(u) = 28 /\ \A j \in 1 .. 28 : u[j] = x[14 + j]
  <2> DEFINE a == 14
             n == 28
  <2>1. a \in Nat /\ n \in Nat /\ a + n <= Len(x) /\ a + 1 = 15 /\ a + n = 42
    BY <1>1
  <2> HIDE DEF a, n
  <2>2. /\ SubSeq(x, a + 1, a + n) \in Seq(Octet) /\ Len(SubSeq(x, a + 1, a + n)) = n
        /\ \A k \in 1 .. n : SubSeq(x, a + 1, a + n)[k] = x[a + k]
    BY <1>1, <2>1, Slice
  <2> HIDE DEF u
  <2>3. u = SubSeq(x, a + 1, a + n)
    BY <2>1 DEF u
  <2>4. u \in Seq(Octet) /\ Len(u) = n /\ \A k \in 1 .. n : u[k] = x[a + k]
    BY <2>2, <2>3
  <2> QED
    BY <2>4 DEF a, n
<1> HIDE DEF y, u
<1>4. v \in Seq(Octet) /\ Len(v) = 28 /\ \A j \in 1 .. 28 : v[j] = y[j]
  <2>1. 28 \in 0 .. Len(y)
    BY <1>1, <1>2
  <2> QED
    BY <1>2, <2>1, UptoIs
<1> HIDE DEF v
<1>5. ASSUME NEW j \in 1 .. 28 PROVE u[j] = v[j]
  <2>1. j \in 1 .. Len(x) - 14
    BY <1>1
  <2>2. y[j] = x[14 + j]
    BY <1>2, <2>1
  <2>3. u[j] = x[14 + j] /\ v[j] = y[j]
    BY <1>3, <1>4
  <2> QED
    BY <2>2, <2>3
<1>6. Len(u) = Len(v) /\ \A j \in 1 .. Len(u) : u[j] = v[j]
  BY <1>3, <1>4, <1>5
<1>7. u = v
  BY <1>3, <1>4, <1>6, SameString
<1> QED
  BY <1>7 DEF u, v, y

LEMMA ARPFrameRead ==
    ASSUME way # "tun", NEW m \in ARPType, NEW w, InFrame(w, Reader, TYPE_ARP),
           Beyond(w, 14) = FlattenSeq(SerializeARP(m)), NEW what, Suffered(w, octets, what)
    PROVE  ARPAllowed(Result, m, octets, what)
<1> DEFINE s == FlattenSeq(SerializeARP(m))
           z == Beyond(octets, 14)
<1>1. /\ octets \in Strings
      /\ Len(octets) < 14 => what = "cut short"
      /\ Len(octets) >= 14 => Suffered(s, z, what)
      /\ Len(octets) >= 14 /\ what # "damaged" =>
           Upto(octets, 6) = Reader /\ At(octets, 12, 2) = TYPE_ARP
  <2>1. /\ octets \in Strings
        /\ Len(octets) < 14 => what = "cut short"
        /\ Len(octets) >= 14 => Suffered(Beyond(w, 14), Beyond(octets, 14), what)
        /\ Len(octets) >= 14 /\ what # "damaged" =>
             Upto(octets, 6) = Reader /\ At(octets, 12, 2) = TYPE_ARP
    <3>1. InFrame(w, Reader, TYPE_ARP) /\ Suffered(w, octets, what)
      OBVIOUS
    <3> QED
      BY <3>1, FrameSuffered
  <2>2. Beyond(w, 14) = s
    OBVIOUS
  <2> HIDE DEF s
  <2> QED
    BY <2>1, <2>2
<1>2. /\ Len(octets) < 14 => Result = Invalid
      /\ Len(octets) >= 14 =>
           \E p \in Buffers :
               /\ FlattenSeq(p) = z
               /\ Result = EthernetRead(p, At(octets, 12, 2), Upto(octets, 6))
  BY <1>1, EthernetResult
<1>3. s \in Strings /\ Len(s) = 28 /\ Upto(s, 28) = s
  <2>1. PICK u \in Strings, t \in Strings : s = u \o t /\ Len(u) = 8 /\ Len(t) = 20
    BY ARPWritten
  <2> HIDE DEF s
  <2>2. u \o t \in Seq(Octet) /\ Len(u \o t) = Len(u) + Len(t)
    BY JoinOctets
  <2>3. s \in Seq(Octet) /\ Len(s) = 28
    BY <2>1, <2>2
  <2>4. Upto(s, 28) = s
    <3>1. 28 \in 0 .. Len(s)
      BY <2>3
    <3>2. Upto(s, 28) \in Seq(Octet) /\ Len(Upto(s, 28)) = 28 /\ \A k \in 1 .. 28 : Upto(s, 28)[k] = s[k]
      BY <2>3, <3>1, UptoIs, ZenonT(60)
    <3>3. Len(Upto(s, 28)) = Len(s) /\ \A k \in 1 .. Len(Upto(s, 28)) : Upto(s, 28)[k] = s[k]
      BY <2>3, <3>2
    <3> QED
      BY <2>3, <3>2, <3>3, SameString
  <2> QED
    BY <2>3, <2>4 DEF Strings
<1>4. Says(s, m)
  <2>1. Len(s) >= 28
    BY <1>3
  <2> QED
    BY <1>3, <2>1, SaysWritten
<1>5. Len(octets) \in Nat
  <2>1. octets \in Strings
    BY <1>1
  <2> QED
    BY <2>1 DEF Strings
<1> HIDE DEF s, z
<1>6. CASE Len(octets) < 14
  <2>1. Result = Invalid /\ what = "cut short"
    BY <1>1, <1>2, <1>6
  <2> QED
    BY <2>1 DEF ARPAllowed
<1>7. CASE Len(octets) >= 14
  <2> DEFINE type == At(octets, 12, 2)
             dst == Upto(octets, 6)
  <2>1. PICK p \in Buffers : FlattenSeq(p) = z /\ Result = EthernetRead(p, type, dst)
    BY <1>2, <1>7
  <2>2. type # TYPE_IPv4
    <3>1. w \in Strings /\ Len(w) >= 14 /\ At(w, 12, 2) = TYPE_ARP
      BY DEF InFrame
    <3> QED
      BY <1>1, <1>7, <3>1, TypeKept
  <2>3. what # "damaged" => type = TYPE_ARP
    BY <1>1, <1>7
  <2>4. what \in {"none", "damaged", "cut short", "padded"}
    BY DEF Suffered
  <2>5. Suffered(s, z, what)
    BY <1>1, <1>7
  <2>6. /\ z \in Strings /\ Len(s) \in Nat /\ Len(z) \in Nat
        /\ what # "cut short" => Len(z) >= Len(s)
    BY <1>3, <2>5, SufferedType
  <2> HIDE DEF type, dst
  <2>7. CASE type # TYPE_ARP
    <3>1. Result = Invalid
      BY <2>1, <2>2, <2>7, Zenon DEF EthernetRead
    <3> QED
      BY <2>3, <2>7, <3>1 DEF ARPAllowed
  <2>8. CASE type = TYPE_ARP /\ Len(z) < 28
    <3>1. Result = ParseARP(p)
      BY <2>1, <2>2, <2>8, Zenon DEF EthernetRead
    <3>2. ParseARP(p) = Invalid
      BY <2>1, <2>8, ARPShort
    <3>3. what = "cut short"
      <4> DEFINE ls == Len(s)
                 lz == Len(z)
      <4>1. ls = 28 /\ lz \in Nat /\ lz < 28
        BY <1>3, <2>6, <2>8
      <4>2. what # "cut short" => lz >= ls
        BY <2>6
      <4> HIDE DEF ls, lz
      <4>3. ~(lz >= ls)
        BY <4>1
      <4> QED
        BY <4>2, <4>3, Zenon
    <3> QED
      BY <3>1, <3>2, <3>3 DEF ARPAllowed
  <2>9. CASE type = TYPE_ARP /\ Len(z) >= 28
    <3>1. Result = ParseARP(p)
      BY <2>1, <2>2, <2>9, Zenon DEF EthernetRead
    <3>2. /\ \A n \in ARPType : Says(z, n) => ParseARP(p) = Valid(n)
          /\ ParseARP(p) = Invalid \/ \E n \in ARPType : ParseARP(p) = Valid(n) /\ Says(z, n)
      BY <2>1, <2>9, ARPHeard
    <3>3. Len(octets) >= 42 /\ SubSeq(octets, 15, 42) = Upto(z, 28)
      <4>1. octets \in Seq(Octet) /\ 14 \in 0 .. Len(octets)
        <5>1. octets \in Strings
          BY <1>1
        <5>2. octets \in Seq(Octet)
          BY <5>1 DEF Strings
        <5> DEFINE l == Len(octets)
        <5>3. l \in Nat /\ l >= 14
          BY <1>5, <1>7
        <5> HIDE DEF l
        <5>4. 14 \in 0 .. l
          BY <5>3
        <5> QED
          BY <5>2, <5>4 DEF l
      <4>2. Len(z) = Len(octets) - 14
        BY <4>1, BeyondIs DEF z
      <4>3. Len(octets) >= 42
        BY <1>5, <2>9, <4>2
      <4> QED
        BY <1>1, <4>3, BehindHeader DEF z
    <3>4. ASSUME what # "damaged" PROVE Says(z, m)
      <4> DEFINE n == 28
      <4>1. n \in Nat /\ n <= Len(s) /\ n <= Len(z)
        BY <1>3, <2>9
      <4> HIDE DEF n
      <4>2. \A j \in 1 .. n : z[j] = s[j]
        <5>1. s \in Strings
          BY <1>3
        <5> QED
          BY <5>1, <2>5, <3>4, <4>1, FrontKept
      <4>3. z \in Seq(Octet) /\ s \in Seq(Octet) /\ n \in 0 .. Len(z) /\ n \in 0 .. Len(s)
        <5>1. z \in Strings /\ s \in Strings
          BY <1>3, <2>6
        <5>2. z \in Seq(Octet) /\ s \in Seq(Octet)
          BY <5>1 DEF Strings
        <5> DEFINE ls == Len(s)
                   lz == Len(z)
        <5>3. n \in Nat /\ n <= ls /\ n <= lz /\ ls \in Nat /\ lz \in Nat
          BY <2>6, <4>1
        <5> HIDE DEF ls, lz
        <5>4. n \in 0 .. ls /\ n \in 0 .. lz
          BY <5>3
        <5> QED
          BY <5>2, <5>4 DEF ls, lz
      <4>4. Upto(z, n) = Upto(s, n)
        <5>1. Upto(z, n) \in Seq(Octet) /\ Len(Upto(z, n)) = n /\ \A k \in 1 .. n : Upto(z, n)[k] = z[k]
          BY <4>3, UptoIs
        <5>2. Upto(s, n) \in Seq(Octet) /\ Len(Upto(s, n)) = n /\ \A k \in 1 .. n : Upto(s, n)[k] = s[k]
          BY <4>3, UptoIs
        <5>3. \A k \in 1 .. n : Upto(z, n)[k] = Upto(s, n)[k]
          BY <4>2, <5>1, <5>2
        <5>4. \A k \in 1 .. Len(Upto(z, n)) : Upto(z, n)[k] = Upto(s, n)[k]
          BY <5>1, <5>3
        <5> QED
          BY <5>1, <5>2, <5>4, SameString
      <4>5. Upto(z, 28) = s
        BY <1>3, <4>4 DEF n
      <4> QED
        BY <2>6, <2>9, <4>5, SaysWritten DEF s
    <3>5. CASE ParseARP(p) = Invalid
      <4>1. Invalid # Valid(m)
        <5>1. Invalid.valid = FALSE /\ Valid(m).valid = TRUE
          BY DEF Invalid, Valid
        <5> QED
          BY <5>1
      <4>2. what = "damaged"
        BY <3>2, <3>4, <3>5, <4>1
      <4> QED
        BY <3>1, <3>5, <4>2 DEF ARPAllowed
    <3>6. CASE \E n \in ARPType : ParseARP(p) = Valid(n) /\ Says(z, n)
      <4>1. PICK n \in ARPType : ParseARP(p) = Valid(n) /\ Says(z, n)
        BY <3>6
      <4>2. SubSeq(octets, 15, 42) = FlattenSeq(SerializeARP(n))
        BY <2>6, <3>3, <4>1, SaysWritten
      <4>3. ASSUME what # "damaged" PROVE n = m
        <5>1. Valid(n) = Valid(m)
          BY <3>2, <3>4, <4>1, <4>3
        <5>2. Valid(n).object = n /\ Valid(m).object = m
          BY DEF Valid
        <5> QED
          BY <5>1, <5>2
      <4>4. Result = Valid(n)
        BY <3>1, <4>1
      <4> QED
        BY <4>2, <4>3, <4>4, Zenon DEF ARPAllowed
    <3> QED
      BY <3>2, <3>5, <3>6
  <2>10. Len(z) < 28 \/ Len(z) >= 28
    <3> DEFINE l == Len(z)
    <3>1. l \in Nat
      BY <2>6
    <3> HIDE DEF l
    <3>2. l < 28 \/ l >= 28
      BY <3>1
    <3> QED
      BY <3>2 DEF l
  <2> QED
    BY <2>7, <2>8, <2>9, <2>10, Zenon
<1>8. Len(octets) < 14 \/ Len(octets) >= 14
  BY <1>5
<1> QED
  BY <1>6, <1>7, <1>8, Zenon

\* Behind a header of 14 octets.
LEMMA FrameParts ==
    ASSUME NEW dst \in EthernetAddress, NEW src \in EthernetAddress, NEW type \in Word,
           NEW h, h = EthernetHeader(dst, src, type), NEW y \in Strings
    PROVE  h \in Strings /\ InFrame(h \o y, dst, type) /\ Beyond(h \o y, 14) = y
<1>1. h \in Strings /\ Len(h) = 14 /\ Upto(h, 6) = dst /\ At(h, 12, 2) = type
  <2>1. <<>> \in Seq(Strings)
    OBVIOUS
  <2> QED
    BY <2>1, FrameWritten
<1> DEFINE w == h \o y
<1>2. /\ w \in Seq(Octet) /\ Len(w) = Len(h) + Len(y)
      /\ \A k \in 1 .. Len(h) : w[k] = h[k]
  BY <1>1, JoinOctets
<1>3. Beyond(w, 14) = y
  <2>1. h \in Seq(Octet) /\ y \in Seq(Octet)
    BY <1>1 DEF Strings
  <2>2. Beyond(w, Len(h)) = y
    BY <2>1, JoinedParts
  <2> QED
    BY <1>1, <2>2
<1>4. w \in Strings /\ Len(y) \in Nat
  BY <1>2 DEF Strings
<1> HIDE DEF w
<1>5. Len(w) >= 14
  BY <1>1, <1>2, <1>4
<1>6. \A k \in 1 .. 14 : w[k] = h[k]
  BY <1>1, <1>2
<1>7. Len(h) >= 14
  BY <1>1
<1>8. Upto(w, 6) = Upto(h, 6) /\ At(w, 12, 2) = At(h, 12, 2)
  BY <1>1, <1>4, <1>5, <1>6, <1>7, AddressedAlike
<1>9. InFrame(w, dst, type)
  BY <1>1, <1>4, <1>5, <1>8 DEF InFrame
<1> QED
  BY <1>1, <1>3, <1>9 DEF w

Older(h) == compute_checksum([h EXCEPT !.ttl = @ - 1])

\* What the router makes of a datagram that it can read.
LEMMA PassedOn ==
    ASSUME NEW m, NEW y, Carries(y, m, <<>>), Young(y), NEW b \in Buffers, NEW what,
           Suffered(y, FlattenSeq(b), what), ParseDatagram(b).valid,
           NEW d, d = ParseDatagram(b).object
    PROVE  /\ d.header.ttl > 1
           /\ SerializeDatagram(Forwarded(d)) \in Seq(Strings)
           /\ \E z : /\ Carries(z, m, <<>>)
                     /\ Suffered(z, FlattenSeq(SerializeDatagram(Forwarded(d))), what)
<1> DEFINE x == FlattenSeq(b)
           h == compute_checksum([Header(y) EXCEPT !.ttl = @ - 1])
           s == SerializeIPv4Header(h)
<1>1. Accepted(x)
  <2>1. ~Accepted(x) => ParseDatagram(b) = Invalid
    BY DatagramRead
  <2>2. ~Invalid.valid
    BY DEF Invalid
  <2> QED
    BY <2>1, <2>2
<1>2. PICK p : /\ ParseDatagram(b) = Valid([header |-> Header(x), payload |-> p])
               /\ p \in Buffers /\ FlattenSeq(p) = Beyond(x, 4 * Header(x).hlen)
  BY <1>1, DatagramRead
<1>3. y \in Strings /\ Accepted(y) /\ Header(y).hlen = 5
  BY DEF Carries
<1>4. x \in Strings /\ Suffered(y, x, what)
  BY <1>3, SufferedType
<1>5. Header(x) = Header(y)
  BY <1>1, <1>3, <1>4, HeaderKept
<1>6. d = [header |-> Header(y), payload |-> p] /\ FlattenSeq(p) = Beyond(x, 20)
  BY <1>2, <1>3, <1>5 DEF Valid
<1>7. /\ h \in HeaderType /\ s \in Strings /\ Carries(s \o Beyond(y, 20), m, <<>>)
  BY CarriesForwarded
<1>8. Forwarded(d) = [header |-> h, payload |-> p]
  <2> DEFINE k == Header(y)
  <2>1. d = [header |-> k, payload |-> p]
    BY <1>6
  <2>2. d.header = k
    BY <2>1
  <2> HIDE DEF h
  <2>3. Forwarded(d) = [d EXCEPT !.header = Older(d.header)]
    BY DEF Forwarded, Older
  <2>4. h = Older(k)
    BY DEF Older, h
  <2>5. Forwarded(d) = [d EXCEPT !.header = h]
    BY <2>2, <2>3, <2>4
  <2> HIDE DEF k
  <2> QED
    BY <2>1, <2>5
<1>9. /\ SerializeDatagram(Forwarded(d)) \in Seq(Strings)
      /\ FlattenSeq(SerializeDatagram(Forwarded(d))) = s \o Beyond(x, 20)
  <2>1. SerializeDatagram(Forwarded(d)) = Output(s, p)
    BY <1>8 DEF SerializeDatagram
  <2>2. s \in Seq(Octet) /\ p \in Seq(Seq(Octet))
    BY <1>2, <1>7 DEF Strings, Buffers
  <2> HIDE DEF s
  <2>3. Output(s, p) \in Seq(Seq(Octet)) /\ FlattenSeq(Output(s, p)) = s \o FlattenSeq(p)
    BY <2>2, FlatOutput
  <2> QED
    BY <1>6, <2>1, <2>3 DEF Strings
<1>10. Suffered(s \o Beyond(y, 20), s \o Beyond(x, 20), what)
  <2> DEFINE n == 20
  <2>1. n \in Nat /\ n <= Len(x) /\ n <= Len(y)
    BY <1>1, <1>3 DEF Accepted
  <2> HIDE DEF n, s, x
  <2>2. Suffered(Beyond(y, n), Beyond(x, n), what)
    BY <1>3, <1>4, <2>1, SufferedBeyond
  <2>3. Beyond(y, n) \in Strings
    <3>1. y \in Seq(Octet) /\ n \in 0 .. Len(y)
      BY <1>3, <2>1 DEF Strings
    <3> QED
      BY <3>1, BeyondIs DEF Strings
  <2>4. Suffered(s \o Beyond(y, n), s \o Beyond(x, n), what)
    BY <1>7, <2>2, <2>3, SufferedBehind
  <2> QED
    BY <2>4 DEF n
<1>11. d.header.ttl > 1
  BY <1>6 DEF Young
<1> QED
  BY <1>7, <1>9, <1>10, <1>11

LEMMA Struck ==
    ASSUME NEW w \in Strings, NEW k \in DOMAIN w, NEW n \in Damaged(w[k])
    PROVE  Suffered(w, [w EXCEPT ![k] = n], "damaged")
<1>1. k \in 1 .. Len(w) /\ w[k] \in Octet
  BY DEF Strings
<1>2. n \in Octet
  BY <1>1, DamagedOctet
<1> DEFINE v == Replaced(w, k, n)
<1>3. AlikeBut(w, v, k) /\ v[k] = n
  BY <1>1, <1>2, ReplacedIs
<1>4. v = [w EXCEPT ![k] = n]
  BY DEF Replaced
<1> HIDE DEF v
<1>5. v \in Strings
  BY <1>3 DEF AlikeBut
<1>6. v[k] \in Damaged(w[k])
  BY <1>3
<1>7. Hit(w, v)
  BY <1>1, <1>3, <1>5, <1>6, Zenon DEF Hit
<1>8. Suffered(w, v, "damaged")
  BY <1>7, Zenon DEF Suffered
<1> QED
  BY <1>4, <1>8

LEMMA CutOff ==
    ASSUME NEW w \in Strings, NEW n \in 0 .. Len(w) - 1
    PROVE  Suffered(w, SubSeq(w, 1, n), "cut short")
<1>1. w \in Seq(Octet) /\ Len(w) \in Nat
  BY DEF Strings
<1> DEFINE l == Len(w)
           v == Upto(w, n)
<1> HIDE DEF l
<1>2. n \in 0 .. l /\ n < l /\ n <= l
  BY <1>1 DEF l
<1>3. v \in Seq(Octet) /\ Len(v) = n /\ \A j \in 1 .. n : v[j] = w[j]
  BY <1>1, <1>2, UptoIs DEF l
<1>4. v = SubSeq(w, 1, n)
  BY DEF Upto
<1> HIDE DEF v
<1>5. v \in Strings /\ Len(v) <= Len(w) /\ Len(v) < Len(w)
  BY <1>2, <1>3 DEF Strings, l
<1>6. \A j \in 1 .. Len(v) : v[j] = w[j]
  BY <1>3
<1>7. Begins(w, v)
  BY <1>5, <1>6 DEF Begins
<1>8. Suffered(w, v, "cut short")
  BY <1>5, <1>7, Zenon DEF Suffered
<1> QED
  BY <1>4, <1>8

LEMMA PaddedWith ==
    ASSUME NEW w \in Strings, NEW n \in Nat
    PROVE  Suffered(w, w \o [k \in 1 .. n |-> 0], "padded")
<1> DEFINE zeros == [k \in 1 .. n |-> 0]
           v == w \o zeros
<1>1. zeros \in Strings /\ Len(zeros) = n /\ \A k \in 1 .. n : zeros[k] = 0
  <2>1. 0 \in Octet
    BY DEF Octet
  <2>2. zeros \in [1 .. n -> Octet]
    BY <2>1
  <2>3. \A k \in 1 .. n : zeros[k] = 0
    OBVIOUS
  <2> HIDE DEF zeros
  <2> QED
    BY <2>2, <2>3, ListOf DEF Strings
<1> HIDE DEF zeros
<1>2. /\ v \in Seq(Octet) /\ Len(v) = Len(w) + Len(zeros)
      /\ \A k \in 1 .. Len(w) : v[k] = w[k]
      /\ \A k \in 1 .. Len(zeros) : v[Len(w) + k] = zeros[k]
  BY <1>1, JoinOctets
<1>3. v \in Strings /\ Len(w) \in Nat
  BY <1>2 DEF Strings
<1> HIDE DEF v
<1>4. Len(w) <= Len(v) /\ Len(v) = Len(w) + n
  BY <1>1, <1>2, <1>3
<1>5. \A j \in 1 .. Len(w) : w[j] = v[j]
  BY <1>2
<1>6. Begins(v, w)
  BY <1>4, <1>5 DEF Begins
<1>7. ASSUME NEW j \in Len(w) + 1 .. Len(v) PROVE v[j] = 0
  <2> DEFINE k == j - Len(w)
  <2>1. k \in 1 .. n /\ j = Len(w) + k
    BY <1>3, <1>4
  <2> HIDE DEF k
  <2>2. v[Len(w) + k] = zeros[k] /\ zeros[k] = 0
    BY <1>1, <1>2, <2>1
  <2> QED
    BY <2>1, <2>2
<1>8. Padded(w, v)
  BY <1>3, <1>6, <1>7 DEF Padded
<1>9. Suffered(w, v, "padded")
  BY <1>8, Zenon DEF Suffered
<1> QED
  BY <1>9 DEF v, zeros

LEMMA SegmentFacts ==
    ASSUME WireAssumption, NEW m \in Segments
    PROVE  m \in MessageType /\ Len(m.payload) <= 1000 /\ m \notin ARPMessages
<1>1. /\ m \in [seqno : Word \X Word, ackno : (Word \X Word) \union {NoAckno},
                reset : BOOLEAN, SYN : BOOLEAN, FIN : BOOLEAN,
                window_size : Word, payload : Seq(Octet)]
      /\ Len(m.payload) <= 1000
  BY DEF WireAssumption
<1>2. m \in MessageType
  BY <1>1 DEF MessageType, Strings
<1>3. m \notin ARPMessages
  <2> SUFFICES ASSUME m \in ARPMessages PROVE FALSE
    OBVIOUS
  <2>1. m \in [opcode : {OPCODE_REQUEST, OPCODE_REPLY},
        sender_ethernet_address : EthernetAddress, sender_ip_address : IPAddress,
        target_ethernet_address : EthernetAddress, target_ip_address : IPAddress]
    BY DEF WireAssumption
  <2>2. "opcode" \in DOMAIN m
    BY <2>1
  <2>3. "opcode" \notin DOMAIN m
    BY <1>1
  <2> QED
    BY <2>2, <2>3
<1> QED
  BY <1>1, <1>2, <1>3

LEMMA ARPFacts ==
    ASSUME WireAssumption, NEW m \in ARPMessages
    PROVE  m \in ARPType
  BY DEF WireAssumption, ARPType

LEMMA AddressFacts ==
    ASSUME WireAssumption
    PROVE  /\ Writer \in EthernetAddress /\ RouterIn \in EthernetAddress
           /\ RouterOut \in EthernetAddress /\ Reader \in EthernetAddress
           /\ TYPE_IPv4 \in Word /\ TYPE_ARP \in Word
           /\ \A stop : EthernetOf(stop) \in EthernetAddress
<1>1. /\ Writer \in EthernetAddress /\ RouterIn \in EthernetAddress
      /\ RouterOut \in EthernetAddress /\ Reader \in EthernetAddress
  BY DEF WireAssumption
<1>2. TYPE_IPv4 \in Word /\ TYPE_ARP \in Word
  BY WordIs DEF TYPE_IPv4, TYPE_ARP
<1>3. \A stop : EthernetOf(stop) \in EthernetAddress
  BY <1>1 DEF EthernetOf
<1> QED
  BY <1>1, <1>2, <1>3

\* The octets w that carry the message m on its way of this kind to a stop, if
\* nothing has happened to them.
Intact(kind, w, m, stop) ==
    \/ /\ m \in Segments /\ kind = "tun" /\ stop = "reader"
       /\ \E options \in {<<>>, Options} : Carries(w, m, options)
    \/ /\ m \in Segments /\ kind # "tun"
       /\ InFrame(w, EthernetOf(stop), TYPE_IPv4)
       /\ Carries(Beyond(w, 14), m, <<>>)
       /\ stop = "router" => Young(Beyond(w, 14))
    \/ /\ m \in ARPMessages /\ kind = "segment" /\ stop = "reader"
       /\ InFrame(w, Reader, TYPE_ARP)
       /\ Beyond(w, 14) = FlattenSeq(SerializeARP(m))

LEMMA IntactType ==
    ASSUME NEW kind, NEW w, NEW m, NEW stop, Intact(kind, w, m, stop)
    PROVE  w \in Strings
  BY DEF Intact, Carries, InFrame

\* ReadsWhatWasWritten, of a result r that was read.
Kept(kind, r, m, what) ==
    \/ r = Valid(m)
    \/ what # "none" /\ ~r.valid
    \/ /\ r.valid /\ SameButPayload(r.object, m)
       /\ \/ /\ what = "cut short"
             /\ \E options \in IF kind = "tun" THEN {<<>>, Options} ELSE {<<>>} :
                    \E n \in 0 .. Len(options \o m.payload) - 1 :
                        /\ r.object.payload = SubSeq(options \o m.payload, Len(options) + 1, n)
                        /\ Unseen(n, options \o m.payload)
          \/ /\ what = "padded"
             /\ IsPrefix(m.payload, r.object.payload)
             /\ \A k \in Len(m.payload) + 1 .. Len(r.object.payload) : r.object.payload[k] = 0

LEMMA OtherPayloads ==
    ASSUME NEW m \in MessageType, NEW q
    PROVE  SameButPayload([m EXCEPT !.payload = q], m) /\ [m EXCEPT !.payload = q].payload = q
  BY DEF MessageType, SameButPayload

LEMMA ExtendedIs ==
    ASSUME NEW p, NEW q, Extended(p, q)
    PROVE  IsPrefix(p, q) /\ \A k \in Len(p) + 1 .. Len(q) : q[k] = 0
<1>1. /\ p \in Seq(Octet) /\ q \in Seq(Octet) /\ Len(p) <= Len(q)
      /\ Len(p) \in Nat /\ Len(q) \in Nat
  BY DEF Extended, Strings
<1>2. \A j \in 1 .. Len(p) : q[j] = p[j]
  BY DEF Extended
<1> DEFINE l == Len(p)
           u == Upto(p, l)
           v == Upto(q, l)
<1>3. l \in 0 .. Len(p) /\ l \in 0 .. Len(q) /\ l = Len(p)
  BY <1>1
<1> HIDE DEF l
<1>4. u \in Seq(Octet) /\ Len(u) = l /\ \A j \in 1 .. l : u[j] = p[j]
  BY <1>1, <1>3, UptoIs
<1>5. v \in Seq(Octet) /\ Len(v) = l /\ \A j \in 1 .. l : v[j] = q[j]
  BY <1>1, <1>3, UptoIs
<1> HIDE DEF u, v
<1>6. Len(u) = Len(v) /\ \A j \in 1 .. Len(u) : u[j] = v[j]
  BY <1>2, <1>3, <1>4, <1>5
<1>7. u = v
  BY <1>4, <1>5, <1>6, SameString
<1>8. SubSeq(p, 1, Len(p)) = SubSeq(q, 1, Len(p))
  BY <1>3, <1>7 DEF u, v, Upto
<1>9. IsPrefix(p, q)
  BY <1>1, <1>8 DEF IsPrefix
<1> QED
  BY <1>9 DEF Extended

LEMMA AllowedKept ==
    ASSUME NEW m \in MessageType, NEW kind,
           NEW options \in IF kind = "tun" THEN {<<>>, Options} ELSE {<<>>},
           NEW r, NEW what, Allowed(r, m, options, what)
    PROVE  Kept(kind, r, m, what)
<1>1. CASE r = Valid(m)
  BY <1>1, Zenon DEF Kept
<1>2. CASE what # "none" /\ r = Invalid
  <2>1. ~r.valid
    BY <1>2 DEF Invalid
  <2> QED
    BY <1>2, <2>1, Zenon DEF Kept
<1>3. CASE /\ what = "cut short"
           /\ \E n \in 0 .. Len(options \o m.payload) - 1 :
                r = Valid(Shortened(m, options, n)) /\ Unseen(n, options \o m.payload)
  <2>1. PICK n \in 0 .. Len(options \o m.payload) - 1 :
          r = Valid(Shortened(m, options, n)) /\ Unseen(n, options \o m.payload)
    BY <1>3
  <2> DEFINE q == SubSeq(options \o m.payload, Len(options) + 1, n)
             o == [m EXCEPT !.payload = q]
  <2>2. r = Valid(o)
    BY <2>1, Zenon DEF Shortened
  <2> HIDE DEF q
  <2>3. SameButPayload(o, m) /\ o.payload = q
    BY OtherPayloads
  <2> HIDE DEF o
  <2>4. r.valid /\ r.object = o
    BY <2>2 DEF Valid
  <2>5. SameButPayload(r.object, m) /\ r.object.payload = q
    BY <2>3, <2>4
  <2>6. r.object.payload = SubSeq(options \o m.payload, Len(options) + 1, n)
    BY <2>5 DEF q
  <2> QED
    BY <1>3, <2>1, <2>4, <2>5, <2>6, Zenon DEF Kept
<1>4. CASE /\ what = "padded"
           /\ \E p : Extended(m.payload, p) /\ r = Valid([m EXCEPT !.payload = p])
  <2>1. PICK p : Extended(m.payload, p) /\ r = Valid([m EXCEPT !.payload = p])
    BY <1>4
  <2> DEFINE o == [m EXCEPT !.payload = p]
  <2>2. SameButPayload(o, m) /\ o.payload = p
    BY OtherPayloads
  <2>3. r = Valid(o)
    BY <2>1
  <2> HIDE DEF o
  <2>4. r.valid /\ r.object = o
    BY <2>3 DEF Valid
  <2>5. SameButPayload(r.object, m) /\ r.object.payload = p
    BY <2>2, <2>4
  <2>6. IsPrefix(m.payload, p) /\ \A k \in Len(m.payload) + 1 .. Len(p) : p[k] = 0
    BY <2>1, ExtendedIs
  <2>7. /\ IsPrefix(m.payload, r.object.payload)
        /\ \A k \in Len(m.payload) + 1 .. Len(r.object.payload) : r.object.payload[k] = 0
    BY <2>5, <2>6
  <2> QED
    BY <1>4, <2>4, <2>5, <2>7, Zenon DEF Kept
<1> QED
  BY <1>1, <1>2, <1>3, <1>4, Zenon DEF Allowed

\* What the reader makes of a segment.
LEMMA SegmentHeard ==
    ASSUME WireAssumption, NEW m \in Segments, NEW w, Intact(way, w, m, "reader"),
           NEW what, Suffered(w, octets, what)
    PROVE  Kept(way, Result, m, what)
<1>1. m \in MessageType /\ m \notin ARPMessages
  BY SegmentFacts
<1>2. CASE way = "tun"
  <2>1. PICK options \in {<<>>, Options} : Carries(w, m, options)
    BY <1>1, <1>2 DEF Intact
  <2>2. options \in Strings /\ Fours(options)
    <3>1. CASE options = <<>>
      BY <3>1, NoOptionsFours
    <3>2. CASE options = Options
      <4>1. Options \in Strings /\ Fours(Options)
        BY OptionsFacts DEF Fours
      <4> QED
        BY <3>2, <4>1
    <3> QED
      BY <3>1, <3>2
  <2>3. Allowed(Result, m, options, what)
    BY <1>1, <1>2, <2>1, <2>2, TunRead
  <2>4. options \in IF way = "tun" THEN {<<>>, Options} ELSE {<<>>}
    BY <1>2
  <2> QED
    BY <1>1, <2>3, <2>4, AllowedKept
<1>3. CASE way # "tun"
  <2>1. InFrame(w, Reader, TYPE_IPv4) /\ Carries(Beyond(w, 14), m, <<>>)
    BY <1>1, <1>3 DEF Intact, EthernetOf
  <2>2. Allowed(Result, m, <<>>, what)
    BY <1>1, <1>3, <2>1, SegmentFrameRead
  <2>3. <<>> \in IF way = "tun" THEN {<<>>, Options} ELSE {<<>>}
    OBVIOUS
  <2> QED
    BY <1>1, <2>2, <2>3, AllowedKept
<1> QED
  BY <1>2, <1>3

\* What the reader makes of an ARP message.
LEMMA ARPHeardIntact ==
    ASSUME WireAssumption, NEW m \in ARPMessages, NEW w, Intact(way, w, m, "reader"),
           NEW what, Suffered(w, octets, what)
    PROVE  ARPAllowed(Result, m, octets, what)
<1>1. m \in ARPType
  BY ARPFacts
<1>2. m \notin Segments
  BY SegmentFacts
<1>3. /\ way # "tun" /\ InFrame(w, Reader, TYPE_ARP)
      /\ Beyond(w, 14) = FlattenSeq(SerializeARP(m))
  BY <1>2 DEF Intact
<1> QED
  BY <1>1, <1>3, ARPFrameRead

LEMMA FrameIs ==
    ASSUME NEW dst \in EthernetAddress, NEW src \in EthernetAddress, NEW type \in Word,
           NEW payload \in Seq(Strings), NEW h, h = EthernetHeader(dst, src, type),
           NEW y, y = FlattenSeq(payload)
    PROVE  Frame(dst, src, type, payload) = Cat(h, y)
<1>1. Frame(dst, src, type, payload) = EthernetHeader(dst, src, type) \o FlattenSeq(payload)
  BY FrameWritten
<1> QED
  BY <1>1 DEF Cat

\* What is written, in each of the three ways.
LEMMA WrittenSegment ==
    ASSUME WireAssumption, NEW m \in Segments, way \in {"tun", "segment", "router"},
           write_segment(m)
    PROVE  Intact(way, octets', m, FirstStop)
<1> DEFINE payload == SerializeDatagram(wrap_tcp_in_ip(m))
           y == FlattenSeq(payload)
<1>1. payload \in Seq(Strings) /\ Carries(y, m, <<>>) /\ Young(y)
  BY SegmentFacts, DatagramWritten
<1>2. octets' = IF way = "tun" THEN y
                ELSE Frame(EthernetOf(FirstStop), Writer, TYPE_IPv4, payload)
  BY DEF write_segment, Writes
<1> HIDE DEF payload
<1>3. y \in Strings
  BY <1>1 DEF Carries
<1>4. CASE way = "tun"
  <2>1. FirstStop = "reader" /\ octets' = y
    BY <1>2, <1>4 DEF FirstStop
  <2>2. \E options \in {<<>>, Options} : Carries(octets', m, options)
    BY <1>1, <2>1
  <2> QED
    BY <1>4, <2>1, <2>2, Zenon DEF Intact
<1>5. CASE way # "tun"
  <2> DEFINE dst == EthernetOf(FirstStop)
             h == EthernetHeader(dst, Writer, TYPE_IPv4)
             w == h \o y
  <2>1. dst \in EthernetAddress /\ Writer \in EthernetAddress /\ TYPE_IPv4 \in Word
    BY AddressFacts
  <2> HIDE DEF dst
  <2>2. octets' = w
    <3>1. Frame(dst, Writer, TYPE_IPv4, payload) = w
      <4>1. Frame(dst, Writer, TYPE_IPv4, payload) = Cat(h, y)
        BY <1>1, <2>1, FrameIs
      <4> QED
        BY <4>1 DEF Cat
    <3>2. octets' = Frame(dst, Writer, TYPE_IPv4, payload)
      BY <1>2, <1>5 DEF dst
    <3> QED
      BY <3>1, <3>2
  <2> HIDE DEF y
  <2>3. InFrame(w, dst, TYPE_IPv4) /\ Beyond(w, 14) = y
    BY <1>3, <2>1, FrameParts
  <2> HIDE DEF w
  <2>4. Carries(Beyond(w, 14), m, <<>>) /\ Young(Beyond(w, 14))
    BY <1>1, <2>3 DEF y
  <2>5. Intact(way, w, m, FirstStop)
    BY <1>5, <2>3, <2>4, Zenon DEF Intact, dst
  <2> QED
    BY <2>2, <2>5
<1> QED
  BY <1>4, <1>5

LEMMA WrittenWithOptions ==
    ASSUME WireAssumption, NEW m \in Segments, write_with_options(m)
    PROVE  way = "tun" /\ FirstStop = "reader" /\ Intact(way, octets', m, FirstStop)
<1>1. way = "tun" /\ FirstStop = "reader"
  BY DEF write_with_options, FirstStop
<1>2. Carries(octets', m, Options)
  <2>1. m \in MessageType /\ Len(m.payload) <= 1000
    BY SegmentFacts
  <2> DEFINE header == NewIPv4Header(Source.ip, Destination.ip,
                                     HeaderLength + 20 + Len(Options) + Len(m.payload))
             w == SerializeIPv4Header(compute_checksum(header))
                    \o TCPWithOptions(WithPorts(m), pseudo_checksum(header))
  <2>2. Carries(w, m, Options)
    BY <2>1, OptionsWritten
  <2>3. octets' = w
    BY DEF write_with_options, Writes
  <2> QED
    BY <2>2, <2>3
<1>3. \E options \in {<<>>, Options} : Carries(octets', m, options)
  BY <1>2
<1> QED
  BY <1>1, <1>3, Zenon DEF Intact

LEMMA WrittenARP ==
    ASSUME WireAssumption, NEW m \in ARPMessages, write_arp(m)
    PROVE  way = "segment" /\ FirstStop = "reader" /\ Intact(way, octets', m, FirstStop)
<1>1. way = "segment" /\ FirstStop = "reader"
  BY DEF write_arp, FirstStop
<1> DEFINE payload == SerializeARP(m)
           y == FlattenSeq(payload)
           h == EthernetHeader(Reader, Writer, TYPE_ARP)
           w == h \o y
<1>2. payload \in Seq(Strings)
  BY ARPFacts, ARPWritten
<1>3. y \in Strings
  <2> HIDE DEF payload
  <2>1. payload \in Seq(Seq(Octet))
    BY <1>2 DEF Strings
  <2> QED
    BY <2>1, FlatType DEF Strings
<1>4. Reader \in EthernetAddress /\ Writer \in EthernetAddress /\ TYPE_ARP \in Word
  BY AddressFacts
<1>5. octets' = Frame(Reader, Writer, TYPE_ARP, payload)
  BY DEF write_arp, Writes
<1>6. Frame(Reader, Writer, TYPE_ARP, payload) = w
  <2>1. Frame(Reader, Writer, TYPE_ARP, payload) = Cat(h, y)
    BY <1>2, <1>4, FrameIs
  <2> QED
    BY <2>1 DEF Cat
<1> HIDE DEF y
<1>7. InFrame(w, Reader, TYPE_ARP) /\ Beyond(w, 14) = y
  BY <1>3, <1>4, FrameParts
<1>8. octets' = w
  BY <1>5, <1>6
<1>9. InFrame(octets', Reader, TYPE_ARP) /\ Beyond(octets', 14) = FlattenSeq(SerializeARP(m))
  BY <1>7, <1>8 DEF y
<1> QED
  BY <1>1, <1>9, Zenon DEF Intact

\* A frame that is as it was written is found by the router.
LEMMA RouterFinds ==
    ASSUME WireAssumption, NEW m, NEW w, way = "router", Intact(way, w, m, "router"),
           NEW what, Suffered(w, octets, what),
           NEW found, found = Datagram(maybe_receive_frame, RouterIn)
    PROVE  /\ m \in Segments
           /\ ~found.valid => what # "none"
           /\ found.valid => found.object.header.ttl > 1
           /\ found.valid =>
                \E v : /\ Intact(way, v, m, "reader")
                       /\ Suffered(v, Frame(Reader, RouterOut, TYPE_IPv4,
                                            SerializeDatagram(Forwarded(found.object))), what)
<1> DEFINE none == <<>>
           y == Beyond(w, 14)
           x == Beyond(octets, 14)
           new(p) == Frame(Reader, RouterOut, TYPE_IPv4, SerializeDatagram(Forwarded(p)))
<1>1. /\ m \in Segments /\ InFrame(w, RouterIn, TYPE_IPv4)
      /\ Carries(y, m, none) /\ Young(y)
  BY DEF Intact, EthernetOf
<1>2. /\ octets \in Strings
      /\ Len(octets) < 14 => what = "cut short"
      /\ Len(octets) >= 14 => Suffered(y, x, what)
      /\ Len(octets) >= 14 /\ what # "damaged" =>
           Upto(octets, 6) = RouterIn /\ At(octets, 12, 2) = TYPE_IPv4
  BY <1>1, FrameSuffered, ZenonT(60)
<1>3. /\ Len(octets) < 14 => found = Invalid
      /\ Len(octets) >= 14 =>
           \E p \in Buffers :
               /\ FlattenSeq(p) = x
               /\ found = Found(p, At(octets, 12, 2), Upto(octets, 6), RouterIn)
  BY <1>2, DatagramFound, ZenonT(60)
<1>4. ~Invalid.valid
  BY DEF Invalid
<1>5. Len(octets) < 14 \/ Len(octets) >= 14
  <2>1. octets \in Strings
    BY <1>2
  <2>2. Len(octets) \in Nat
    BY <2>1 DEF Strings
  <2> QED
    BY <2>2
<1> HIDE DEF none, y, x, new
<1>6. CASE Len(octets) < 14
  <2>1. ~found.valid /\ what # "none"
    BY <1>2, <1>3, <1>4, <1>6
  <2> QED
    BY <1>1, <2>1
<1>7. CASE Len(octets) >= 14
  <2> DEFINE type == At(octets, 12, 2)
             dst == Upto(octets, 6)
  <2>1. PICK p \in Buffers : FlattenSeq(p) = x /\ found = Found(p, type, dst, RouterIn)
    BY <1>3, <1>7
  <2>2. what # "damaged" => dst = RouterIn /\ type = TYPE_IPv4
    BY <1>2, <1>7
  <2>3. Suffered(y, x, what)
    BY <1>2, <1>7
  <2> HIDE DEF type, dst
  <2>4. CASE ~(type = TYPE_IPv4 /\ dst = RouterIn)
    <3>1. found = Invalid
      BY <2>1, <2>4, Zenon DEF Found
    <3>2. what # "none"
      BY <2>2, <2>4
    <3> QED
      BY <1>1, <1>4, <3>1, <3>2
  <2>5. CASE type = TYPE_IPv4 /\ dst = RouterIn
    <3>1. found = ParseDatagram(p)
      BY <2>1, <2>5, Zenon DEF Found
    <3>2. Suffered(y, FlattenSeq(p), what)
      BY <2>1, <2>3
    <3>3. ~found.valid => what # "none"
      <4> SUFFICES ASSUME what = "none" PROVE found.valid
        OBVIOUS
      <4>1. FlattenSeq(p) = y
        BY <3>2 DEF Suffered
      <4>2. Accepted(FlattenSeq(p))
        BY <1>1, <4>1 DEF Carries
      <4>3. PICK q : ParseDatagram(p) = Valid([header |-> Header(FlattenSeq(p)), payload |-> q])
        BY <4>2, DatagramRead
      <4> QED
        BY <3>1, <4>3 DEF Valid
    <3>4. ASSUME found.valid
          PROVE  /\ found.object.header.ttl > 1
                 /\ \E v : Intact(way, v, m, "reader") /\ Suffered(v, new(found.object), what)
      <4> DEFINE d == ParseDatagram(p).object
                 f == SerializeDatagram(Forwarded(d))
                 h == EthernetHeader(Reader, RouterOut, TYPE_IPv4)
      <4>1. ParseDatagram(p).valid /\ found.object = d
        BY <3>1, <3>4
      <4>2. Carries(y, m, <<>>)
        BY <1>1 DEF none
      <4>3. /\ d.header.ttl > 1 /\ f \in Seq(Strings)
            /\ \E z : Carries(z, m, <<>>) /\ Suffered(z, FlattenSeq(f), what)
        BY <1>1, <3>2, <4>1, <4>2, PassedOn
      <4> HIDE DEF d, f
      <4>4. PICK z : Carries(z, m, <<>>) /\ Suffered(z, FlattenSeq(f), what)
        BY <4>3
      <4>5. z \in Strings
        BY <4>4 DEF Carries
      <4>6. Reader \in EthernetAddress /\ RouterOut \in EthernetAddress /\ TYPE_IPv4 \in Word
        BY AddressFacts
      <4>7. h \in Strings /\ InFrame(h \o z, Reader, TYPE_IPv4) /\ Beyond(h \o z, 14) = z
        BY <4>5, <4>6, FrameParts
      <4>8. Frame(Reader, RouterOut, TYPE_IPv4, f) = h \o FlattenSeq(f)
        <5>1. Frame(Reader, RouterOut, TYPE_IPv4, f) = Cat(h, FlattenSeq(f))
          BY <4>3, <4>6, FrameIs
        <5> QED
          BY <5>1 DEF Cat
      <4> HIDE DEF h
      <4>9. Suffered(h \o z, h \o FlattenSeq(f), what)
        BY <4>4, <4>5, <4>7, SufferedBehind
      <4>10. Intact(way, h \o z, m, "reader")
        <5>1. way # "tun" /\ EthernetOf("reader") = Reader /\ "reader" # "router"
          BY DEF EthernetOf
        <5>2. Carries(Beyond(h \o z, 14), m, <<>>)
          BY <4>4, <4>7
        <5>3. InFrame(h \o z, EthernetOf("reader"), TYPE_IPv4)
          BY <4>7, <5>1
        <5> QED
          BY <1>1, <5>1, <5>2, <5>3, Zenon DEF Intact
      <4>11. new(found.object) = h \o FlattenSeq(f)
        BY <4>1, <4>8 DEF new, f
      <4> QED
        BY <4>1, <4>3, <4>9, <4>10, <4>11
    <3> QED
      BY <1>1, <3>3, <3>4 DEF new
  <2> QED
    BY <2>4, <2>5
<1> QED
  BY <1>5, <1>6, <1>7

\* Some message is on its way, and one thing at most has happened to it.
Moving ==
    \E m \in Segments \union ARPMessages :
        /\ sent = Valid(m)
        /\ \E w : Intact(way, w, m, goes) /\ Suffered(w, octets, trouble)

\* ReadsWhatWasWritten speaks of the end of the way alone.  Inductive it is
\* with what is on the way until then.
IInv ==
    /\ way \in {"tun", "segment", "router"}
    /\ goes \in {"nowhere", "router", "reader", "read"}
    /\ goes = "nowhere" => trouble = "none"
    /\ goes # "read" => result = Invalid
    /\ goes = "router" => way = "router"
    /\ goes \in {"router", "reader"} => Moving
    /\ ReadsWhatWasWritten

LEMMA InitIInv == Init => IInv
  BY DEF Init, IInv, ReadsWhatWasWritten

LEMMA WritesIInv ==
    ASSUME IInv, NEW m \in Segments \union ARPMessages, NEW w, Writes(m, w),
           Intact(way, w, m, FirstStop), w \in Strings
    PROVE  IInv'
<1>1. /\ sent' = Valid(m) /\ octets' = w /\ goes' = FirstStop
      /\ way' = way /\ trouble' = trouble /\ result' = result /\ goes = "nowhere"
  BY DEF Writes
<1>2. /\ way \in {"tun", "segment", "router"} /\ trouble = "none" /\ result = Invalid
  BY <1>1 DEF IInv
<1>3. goes' \in {"router", "reader"} /\ (goes' = "router" => way = "router")
  BY <1>1 DEF FirstStop
<1>4. Moving'
  <2>1. Suffered(w, octets', trouble')
    BY <1>1, <1>2 DEF Suffered
  <2>2. Intact(way', w, m, goes')
    BY <1>1
  <2> QED
    BY <1>1, <2>1, <2>2, Zenon DEF Moving
<1>5. ReadsWhatWasWritten'
  BY <1>3 DEF ReadsWhatWasWritten
<1> QED
  BY <1>1, <1>2, <1>3, <1>4, <1>5 DEF IInv

LEMMA SuffersIInv ==
    ASSUME IInv, NEW what, NEW x, Suffers(what, x),
           \A w \in Strings : octets = w => Suffered(w, x, what)
    PROVE  IInv'
<1>1. /\ goes \in {"router", "reader"} /\ trouble = "none" /\ trouble' = what /\ octets' = x
      /\ way' = way /\ sent' = sent /\ goes' = goes /\ result' = result
  BY DEF Suffers
<1>2. /\ way \in {"tun", "segment", "router"} /\ result = Invalid
      /\ (goes = "router" => way = "router") /\ Moving
  BY <1>1 DEF IInv
<1>3. PICK m \in Segments \union ARPMessages :
        sent = Valid(m) /\ \E w : Intact(way, w, m, goes) /\ Suffered(w, octets, trouble)
  BY <1>2 DEF Moving
<1>4. PICK w : Intact(way, w, m, goes) /\ Suffered(w, octets, trouble)
  BY <1>3
<1>5. w \in Strings
  BY <1>4, IntactType
<1>6. octets = w
  BY <1>1, <1>4 DEF Suffered
<1>7. Suffered(w, octets', trouble')
  BY <1>1, <1>5, <1>6
<1>8. Moving'
  BY <1>1, <1>3, <1>4, <1>7, Zenon DEF Moving
<1>9. ReadsWhatWasWritten'
  BY <1>1 DEF ReadsWhatWasWritten
<1> QED
  BY <1>1, <1>2, <1>8, <1>9 DEF IInv

\* The property of a segment that has been read, and of an ARP message.
LEMMA KeptReads ==
    ASSUME NEW m, m \notin ARPMessages, sent' = Valid(m), Kept(way', result', m, trouble')
    PROVE  ReadsWhatWasWritten'
<1>1. sent'.object = m
  BY DEF Valid
<1>2. /\ \/ result' = sent'
         \/ trouble' # "none" /\ ~result'.valid
         \/ /\ result'.valid /\ SameButPayload(result'.object, sent'.object)
            /\ \/ /\ trouble' = "cut short"
                  /\ CutUnseen(result.object.payload, sent.object.payload)'
               \/ /\ trouble' = "padded"
                  /\ IsPrefix(sent'.object.payload, result'.object.payload)
                  /\ \A k \in Len(sent'.object.payload) + 1 .. Len(result'.object.payload) :
                       result'.object.payload[k] = 0
  BY <1>1, Zenon DEF Kept, CutUnseen
<1>3. ~(sent'.object \in ARPMessages)
  BY <1>1
<1> QED
  BY <1>2, <1>3, Zenon DEF ReadsWhatWasWritten

LEMMA ARPReads ==
    ASSUME NEW m \in ARPMessages, sent' = Valid(m), ARPAllowed(result', m, octets', trouble')
    PROVE  ReadsWhatWasWritten'
<1>1. sent'.object = m
  BY DEF Valid
<1>2. ARPRead'
  <2>1. CASE result' = Invalid /\ trouble' \in {"cut short", "damaged"}
    <3>1. ~result'.valid
      BY <2>1 DEF Invalid
    <3> QED
      BY <2>1, <3>1, Zenon DEF ARPRead
  <2>2. CASE \E n \in ARPType : /\ result' = Valid(n)
                                /\ SubSeq(octets', 15, 42) = FlattenSeq(SerializeARP(n))
                                /\ trouble' # "damaged" => n = m
    <3>1. PICK n \in ARPType : /\ result' = Valid(n)
                               /\ SubSeq(octets', 15, 42) = FlattenSeq(SerializeARP(n))
                               /\ trouble' # "damaged" => n = m
      BY <2>2
    <3>2. result'.valid /\ result'.object = n
      BY <3>1 DEF Valid
    <3>3. trouble' # "damaged" => result' = sent'
      BY <3>1
    <3>4. SubSeq(octets', 15, 42) = FlattenSeq(SerializeARP(result'.object))
      BY <3>1, <3>2
    <3> QED
      BY <3>2, <3>3, <3>4, Zenon DEF ARPRead
  <2> QED
    BY <2>1, <2>2, Zenon DEF ARPAllowed
<1> QED
  BY <1>1, <1>2, Zenon DEF ReadsWhatWasWritten

LEMMA ReadIInv ==
    ASSUME WireAssumption, IInv, read
    PROVE  IInv'
<1>1. /\ goes = "reader" /\ result' = Result /\ goes' = "read"
      /\ way' = way /\ sent' = sent /\ octets' = octets /\ trouble' = trouble
  BY DEF read
<1>2. way \in {"tun", "segment", "router"} /\ Moving
  BY <1>1 DEF IInv
<1>3. PICK m \in Segments \union ARPMessages :
        sent = Valid(m) /\ \E w : Intact(way, w, m, goes) /\ Suffered(w, octets, trouble)
  BY <1>2 DEF Moving
<1>4. PICK w : Intact(way, w, m, "reader") /\ Suffered(w, octets, trouble)
  BY <1>1, <1>3
<1>5. ReadsWhatWasWritten'
  <2>1. CASE m \in Segments
    <3>1. Kept(way, Result, m, trouble) /\ m \notin ARPMessages
      BY <1>4, <2>1, SegmentHeard, SegmentFacts
    <3>2. Kept(way', result', m, trouble')
      BY <1>1, <3>1
    <3> QED
      BY <1>1, <1>3, <3>1, <3>2, KeptReads
  <2>2. CASE m \in ARPMessages
    <3>1. ARPAllowed(Result, m, octets, trouble)
      BY <1>4, <2>2, ARPHeardIntact
    <3>2. ARPAllowed(result', m, octets', trouble')
      BY <1>1, <3>1
    <3> QED
      BY <1>1, <1>3, <2>2, <3>2, ARPReads
  <2> QED
    BY <1>3, <2>1, <2>2
<1> QED
  BY <1>1, <1>2, <1>5 DEF IInv

\* What the router holds, with what it finds in it.
LEMMA RouterHolds ==
    ASSUME WireAssumption, IInv, goes = "router",
           NEW found, found = Datagram(maybe_receive_frame, RouterIn)
    PROVE  \E m \in Segments :
             /\ sent = Valid(m) /\ way = "router"
             /\ ~found.valid => trouble # "none"
             /\ found.valid => found.object.header.ttl > 1
             /\ found.valid =>
                  \E v : /\ Intact(way, v, m, "reader")
                         /\ Suffered(v, Frame(Reader, RouterOut, TYPE_IPv4,
                                              SerializeDatagram(Forwarded(found.object))), trouble)
<1>1. way = "router" /\ Moving
  BY DEF IInv
<1>2. PICK m \in Segments \union ARPMessages :
        sent = Valid(m) /\ \E w : Intact(way, w, m, goes) /\ Suffered(w, octets, trouble)
  BY <1>1 DEF Moving
<1>3. PICK w : Intact(way, w, m, "router") /\ Suffered(w, octets, trouble)
  BY <1>2
<1>4. /\ m \in Segments
      /\ ~found.valid => trouble # "none"
      /\ found.valid => found.object.header.ttl > 1
      /\ found.valid =>
           \E v : /\ Intact(way, v, m, "reader")
                  /\ Suffered(v, Frame(Reader, RouterOut, TYPE_IPv4,
                                       SerializeDatagram(Forwarded(found.object))), trouble)
  BY <1>1, <1>3, RouterFinds
<1> QED
  BY <1>1, <1>2, <1>4, Zenon

LEMMA RouteIInv ==
    ASSUME WireAssumption, IInv, route
    PROVE  IInv'
<1> DEFINE found == Datagram(maybe_receive_frame, RouterIn)
           new == Frame(Reader, RouterOut, TYPE_IPv4, SerializeDatagram(Forwarded(found.object)))
<1>1. /\ goes = "router" /\ found.valid /\ octets' = new /\ goes' = "reader"
      /\ way' = way /\ sent' = sent /\ trouble' = trouble /\ result' = result
  BY DEF route
<1>2. \E m \in Segments :
        /\ sent = Valid(m) /\ way = "router"
        /\ found.valid => \E v : Intact(way, v, m, "reader") /\ Suffered(v, new, trouble)
  BY <1>1, RouterHolds
<1> HIDE DEF found, new
<1>3. PICK m \in Segments :
        sent = Valid(m) /\ way = "router"
        /\ \E v : Intact(way, v, m, "reader") /\ Suffered(v, new, trouble)
  BY <1>1, <1>2
<1>4. PICK v : Intact(way, v, m, "reader") /\ Suffered(v, new, trouble)
  BY <1>3
<1>5. Moving'
  <2>1. Intact(way', v, m, goes') /\ Suffered(v, octets', trouble') /\ sent' = Valid(m)
    BY <1>1, <1>3, <1>4
  <2>2. m \in Segments \union ARPMessages
    OBVIOUS
  <2> QED
    BY <2>1, <2>2, Zenon DEF Moving
<1>6. ReadsWhatWasWritten'
  BY <1>1 DEF ReadsWhatWasWritten
<1>7. result = Invalid
  BY <1>1 DEF IInv
<1> QED
  BY <1>1, <1>3, <1>5, <1>6, <1>7 DEF IInv

LEMMA DropIInv ==
    ASSUME WireAssumption, IInv, drop
    PROVE  IInv'
<1> DEFINE found == Datagram(maybe_receive_frame, RouterIn)
           new == Frame(Reader, RouterOut, TYPE_IPv4, SerializeDatagram(Forwarded(found.object)))
<1>1. /\ goes = "router" /\ ~(found.valid /\ found.object.header.ttl > 1) /\ goes' = "read"
      /\ way' = way /\ sent' = sent /\ octets' = octets
      /\ trouble' = trouble /\ result' = result
  BY DEF drop
<1>2. \E m \in Segments :
        /\ sent = Valid(m) /\ way = "router"
        /\ ~found.valid => trouble # "none"
        /\ found.valid => found.object.header.ttl > 1
  BY <1>1, RouterHolds
<1> HIDE DEF found
<1>3. PICK m \in Segments : sent = Valid(m) /\ way = "router" /\ trouble # "none"
  BY <1>1, <1>2
<1>4. result' = Invalid /\ m \notin ARPMessages
  BY <1>1, SegmentFacts DEF IInv
<1>5. ~result'.valid
  BY <1>4 DEF Invalid
<1>6. Kept(way', result', m, trouble')
  BY <1>1, <1>3, <1>5, Zenon DEF Kept
<1>7. ReadsWhatWasWritten'
  BY <1>1, <1>3, <1>4, <1>6, KeptReads
<1> QED
  BY <1>1, <1>3, <1>7 DEF IInv

LEMMA StepPreserves == WireAssumption /\ IInv /\ [Next]_vars => IInv'
<1> SUFFICES ASSUME WireAssumption, IInv, [Next]_vars PROVE IInv'
  OBVIOUS
<1>1. ASSUME NEW m \in Segments, write_segment(m) PROVE IInv'
  <2>1. Intact(way, octets', m, FirstStop)
    BY <1>1, WrittenSegment DEF IInv
  <2>2. Writes(m, octets')
    BY <1>1 DEF write_segment, Writes
  <2>3. octets' \in Strings
    BY <2>1, IntactType
  <2>4. m \in Segments \union ARPMessages
    OBVIOUS
  <2> QED
    BY <2>1, <2>2, <2>3, <2>4, WritesIInv
<1>2. ASSUME NEW m \in Segments, write_with_options(m) PROVE IInv'
  <2>1. Intact(way, octets', m, FirstStop)
    BY <1>2, WrittenWithOptions
  <2>2. Writes(m, octets')
    BY <1>2 DEF write_with_options, Writes
  <2>3. octets' \in Strings
    BY <2>1, IntactType
  <2>4. m \in Segments \union ARPMessages
    OBVIOUS
  <2> QED
    BY <2>1, <2>2, <2>3, <2>4, WritesIInv
<1>3. ASSUME NEW m \in ARPMessages, write_arp(m) PROVE IInv'
  <2>1. Intact(way, octets', m, FirstStop)
    BY <1>3, WrittenARP
  <2>2. Writes(m, octets')
    BY <1>3 DEF write_arp, Writes
  <2>3. octets' \in Strings
    BY <2>1, IntactType
  <2>4. m \in Segments \union ARPMessages
    OBVIOUS
  <2> QED
    BY <2>1, <2>2, <2>3, <2>4, WritesIInv
<1>4. CASE damage
  <2>1. PICK k \in DOMAIN octets :
          \E n \in Damaged(octets[k]) : Suffers("damaged", [octets EXCEPT ![k] = n])
    BY <1>4 DEF damage
  <2>2. PICK n \in Damaged(octets[k]) : Suffers("damaged", [octets EXCEPT ![k] = n])
    BY <2>1
  <2>3. \A w \in Strings : octets = w => Suffered(w, [octets EXCEPT ![k] = n], "damaged")
    BY Struck
  <2> QED
    BY <2>2, <2>3, SuffersIInv
<1>5. CASE cut_short
  <2>1. PICK n \in 0 .. Len(octets) - 1 : Suffers("cut short", SubSeq(octets, 1, n))
    BY <1>5 DEF cut_short
  <2>2. \A w \in Strings : octets = w => Suffered(w, SubSeq(octets, 1, n), "cut short")
    BY CutOff
  <2> QED
    BY <2>1, <2>2, SuffersIInv
<1>6. CASE pad
  <2>1. PICK n \in 1 .. MaxPadding : Suffers("padded", octets \o [k \in 1 .. n |-> 0])
    BY <1>6 DEF pad
  <2>2. n \in Nat
    BY DEF WireAssumption
  <2>3. \A w \in Strings : octets = w => Suffered(w, octets \o [k \in 1 .. n |-> 0], "padded")
    BY <2>2, PaddedWith
  <2> QED
    BY <2>1, <2>3, SuffersIInv
<1>7. CASE route
  BY <1>7, RouteIInv
<1>8. CASE drop
  BY <1>8, DropIInv
<1>9. CASE read
  BY <1>9, ReadIInv
<1>10. CASE UNCHANGED vars
  <2>1. way' = way /\ sent' = sent /\ octets' = octets /\ goes' = goes
        /\ trouble' = trouble /\ result' = result
    BY <1>10 DEF vars
  <2>2. Moving' = Moving
    BY <2>1 DEF Moving
  <2>3. ReadsWhatWasWritten' = ReadsWhatWasWritten
    BY <2>1 DEF ReadsWhatWasWritten, ARPRead, CutUnseen
  <2> QED
    BY <2>1, <2>2, <2>3 DEF IInv
<1> QED
  BY <1>1, <1>2, <1>3, <1>4, <1>5, <1>6, <1>7, <1>8, <1>9, <1>10 DEF Next

\* The inductive invariant holds in every reachable state of Wire, for all
\* segments, options, ARP messages and addresses: until it is read, what is on
\* the way is what Intact says of a message of the right kind for its next
\* stop, after at most one misfortune.
THEOREM Invariance == Spec => []IInv
<1>1. Init => IInv
  BY InitIInv
<1>2. IInv /\ [Next]_vars => IInv'
  BY WireAssumption, StepPreserves
<1> QED
  BY <1>1, <1>2, PTL DEF Spec

\* Whatever Reader reads is the message that was written, with a router on the
\* way or not; or nothing, if something happened to it; or the same segment with
\* less of its payload, if it was cut where the sum does not see it; or with
\* zeros after it, if it was padded (tuntap_adapter.cc:6-83,
\* tcp_over_ip.cc:26-95, router.cc:26-68, network_interface.cc:61-91).
THEOREM WhatIsRead == Spec => []ReadsWhatWasWritten
<1>1. IInv => ReadsWhatWasWritten
  BY DEF IInv
<1> QED
  BY <1>1, Invariance, PTL
=============================================================================
