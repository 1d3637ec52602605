------------------------- MODULE ReassemblerProofs --------------------------
(***************************************************************************)
(* The list of the Reassembler behaves as the set of bytes of Assembly, for *)
(* every capacity, every stream and every list the code can build.  The two *)
(* passes over the list are followed entry by entry; where induction would  *)
(* be used, the first entry at which a claim fails is derived to absurdity. *)
(***************************************************************************)
EXTENDS Reassembler, FiniteSetTheorems, SequenceTheorems, WellFoundedInduction,
        TLAPS

Entry == [starti_ : Nat, len : Nat]

-----------------------------------------------------------------------------
\* Numbers and sets

\* What stands in for induction: a set of naturals has a least element.
LEMMA LeastElement ==
    ASSUME NEW T \in SUBSET Nat, T # {}
    PROVE  \E m \in T : \A k \in T : m <= k
<1> DEFINE R == {ss \in Nat \X Nat : ss[1] < ss[2]}
<1>1. R = OpToRel(<, Nat)
  BY DEF OpToRel
<1>2. IsWellFoundedOn(R, Nat)
  BY <1>1, NatLessThanWellFounded
<1>3. \A x, y \in Nat : <<x, y>> \in R <=> x < y
  OBVIOUS
<1> HIDE DEF R
<1>4. PICK m \in T : \A y \in T : ~ (<<y, m>> \in R)
  BY <1>2, WFMin
<1>5. ASSUME NEW k \in T PROVE m <= k
  <2>1. k \in Nat /\ m \in Nat /\ ~ (<<k, m>> \in R)
    BY <1>4
  <2> QED BY <1>3, <2>1
<1> QED BY <1>5

\* A run of bytes added to a set that has none of them.
LEMMA CountRun ==
    ASSUME NEW S, IsFiniteSet(S), NEW e \in Entry, S \cap Bytes(e) = {}
    PROVE  /\ IsFiniteSet(S \union Bytes(e))
           /\ Cardinality(S \union Bytes(e)) = Cardinality(S) + e.len
<1>1. e.starti_ \in Nat /\ e.len \in Nat
  BY DEF Entry
<1>2. IsFiniteSet(Bytes(e)) /\ Cardinality(Bytes(e)) = e.len
  <2> DEFINE a == e.starti_
             b == e.starti_ + e.len - 1
  <2>1. a \in Int /\ b \in Int /\ Bytes(e) = a .. b
    BY <1>1 DEF Bytes, End
  <2>2. (IF a > b THEN 0 ELSE b - a + 1) = e.len
    BY <1>1
  <2> HIDE DEF a, b
  <2> QED BY <2>1, <2>2, FS_Interval
<1>3. Cardinality(S) \in Nat
  BY FS_CardinalityType
<1>4. Cardinality(S \cap Bytes(e)) = 0
  BY FS_EmptySet
<1>5. /\ IsFiniteSet(S \union Bytes(e))
      /\ Cardinality(S \union Bytes(e))
           = Cardinality(S) + Cardinality(Bytes(e)) - Cardinality(S \cap Bytes(e))
  BY <1>2, FS_Union
<1> QED BY <1>1, <1>2, <1>3, <1>4, <1>5

-----------------------------------------------------------------------------
\* Lists

\* The bytes of the first n entries.
HeldTo(list, n) == UNION {Bytes(list[i]) : i \in 1 .. n}

\* The bytes of the first n entries without those of entry m.
OthersTo(list, m, n) == UNION {Bytes(list[i]) : i \in (1 .. n) \ {m}}

Solid(list) ==
    /\ list \in Seq(Entry)
    /\ \A i \in 1 .. Len(list) : list[i].len > 0

Normal(list) ==
    /\ Solid(list)
    /\ \A i, j \in 1 .. Len(list) : i < j => End(list[i]) <= list[j].starti_

\* Sorted, and disjoint but for entry m.
NormalBut(list, m) ==
    /\ Solid(list)
    /\ \A i, j \in 1 .. Len(list) : i < j =>
         /\ list[i].starti_ <= list[j].starti_
         /\ i # m /\ j # m => End(list[i]) <= list[j].starti_

LEMMA EntriesAre ==
    ASSUME NEW list, Solid(list)
    PROVE  /\ Len(list) \in Nat
           /\ DOMAIN list = 1 .. Len(list)
           /\ \A i \in 1 .. Len(list) :
                /\ list[i] \in Entry
                /\ list[i].starti_ \in Nat /\ list[i].len \in Nat
                /\ list[i].len > 0
                /\ End(list[i]) = list[i].starti_ + list[i].len
                /\ End(list[i]) \in Nat /\ list[i].starti_ < End(list[i])
<1>1. Len(list) \in Nat /\ DOMAIN list = 1 .. Len(list)
  BY LenProperties DEF Solid
<1>2. ASSUME NEW i \in 1 .. Len(list)
      PROVE  list[i] \in Entry /\ list[i].len > 0
  BY ElementOfSeq DEF Solid
<1> QED BY <1>1, <1>2 DEF Entry, End

LEMMA HeldIsHeldTo ==
    ASSUME NEW list, Solid(list)
    PROVE  Held(list) = HeldTo(list, Len(list))
BY EntriesAre DEF Held, HeldTo

LEMMA HeldToNext ==
    ASSUME NEW list, NEW n \in Nat
    PROVE  /\ HeldTo(list, 0) = {}
           /\ HeldTo(list, n + 1) = HeldTo(list, n) \union Bytes(list[n + 1])
<1>1. 1 .. 0 = {} /\ 1 .. (n + 1) = (1 .. n) \union {n + 1}
  OBVIOUS
<1> QED BY <1>1 DEF HeldTo

LEMMA OthersToNext ==
    ASSUME NEW list, NEW m, NEW n \in Nat
    PROVE  /\ OthersTo(list, m, 0) = {}
           /\ OthersTo(list, m, n + 1)
                = IF n + 1 = m THEN OthersTo(list, m, n)
                  ELSE OthersTo(list, m, n) \union Bytes(list[n + 1])
<1>1. 1 .. 0 = {} /\ 1 .. (n + 1) = (1 .. n) \union {n + 1}
  OBVIOUS
<1> QED BY <1>1 DEF OthersTo

LEMMA InHeldTo ==
    ASSUME NEW list, Solid(list), NEW n \in 0 .. Len(list), NEW b
    PROVE  b \in HeldTo(list, n)
             <=> b \in Nat /\ \E i \in 1 .. n : list[i].starti_ <= b /\ b < End(list[i])
<1>1. \A i \in 1 .. n : list[i].starti_ \in Nat /\ End(list[i]) \in Nat
  BY EntriesAre
<1>2. b \in HeldTo(list, n) <=> \E i \in 1 .. n : b \in Bytes(list[i])
  BY DEF HeldTo
<1>3. \A i \in 1 .. n :
        b \in Bytes(list[i]) <=> b \in Nat /\ list[i].starti_ <= b /\ b < End(list[i])
  BY <1>1 DEF Bytes
<1> QED BY <1>2, <1>3, Zenon

LEMMA HeldAppend ==
    ASSUME NEW list, Solid(list), NEW e \in Entry, e.len > 0
    PROVE  /\ Solid(Append(list, e))
           /\ Len(Append(list, e)) = Len(list) + 1
           /\ \A i \in 1 .. Len(list) : Append(list, e)[i] = list[i]
           /\ Append(list, e)[Len(list) + 1] = e
           /\ Held(Append(list, e)) = Held(list) \union Bytes(e)
<1>1. Len(list) \in Nat /\ list \in Seq(Entry)
  BY EntriesAre DEF Solid
<1>2. /\ Append(list, e) \in Seq(Entry)
      /\ Len(Append(list, e)) = Len(list) + 1
      /\ \A i \in 1 .. Len(list) : Append(list, e)[i] = list[i]
      /\ Append(list, e)[Len(list) + 1] = e
  BY <1>1, AppendProperties
<1>3. Solid(Append(list, e))
  BY <1>1, <1>2 DEF Solid
<1>4. HeldTo(Append(list, e), Len(list)) = HeldTo(list, Len(list))
  BY <1>2 DEF HeldTo
<1> QED BY <1>1, <1>2, <1>3, <1>4, HeldIsHeldTo, HeldToNext, ZenonT(30)

LEMMA HeldNothing ==
    /\ Normal(<<>>) /\ Held(<<>>) = {} /\ Len(<<>>) = 0
    /\ \A list : Solid(list) /\ Len(list) = 0 => list = <<>>
BY DEF Normal, Solid, Held

\* The bytes of a normal list are all different.
LEMMA RunsAreDisjoint ==
    ASSUME NEW list, Normal(list), NEW n \in 0 .. Len(list) - 1
    PROVE  HeldTo(list, n) \cap Bytes(list[n + 1]) = {}
<1>1. Solid(list) /\ Len(list) \in Nat
  BY EntriesAre DEF Normal
<1>2. \A i \in 1 .. n : End(list[i]) <= list[n + 1].starti_
  BY <1>1 DEF Normal
<1>3. \A i \in 1 .. n + 1 : list[i].starti_ \in Nat /\ End(list[i]) \in Nat
  BY <1>1, EntriesAre
<1> QED BY <1>1, <1>2, <1>3 DEF HeldTo, Bytes

-----------------------------------------------------------------------------
\* The trimming pass

NothingTrimmed == [list |-> <<>>, removed |-> 0]

\* The results of the pass after each entry.
TrimPass(list) ==
    LET pass[i \in 0 .. Len(list)] ==
          IF i = 0 THEN [list |-> <<>>, removed |-> 0]
                   ELSE TrimEntry(pass[i - 1], list[i])
    IN  pass

TrimsFrom(list, n, pass) ==
    pass = [i \in 0 .. n |-> IF i = 0 THEN NothingTrimmed
                             ELSE TrimEntry(pass[i - 1], list[i])]

LEMMA TrimPassExists ==
    ASSUME NEW list, NEW n \in Nat
    PROVE  \E pass : TrimsFrom(list, n, pass)
<1> DEFINE Bad == {k \in Nat : ~ \E pass : TrimsFrom(list, k, pass)}
<1>1. SUFFICES ASSUME Bad # {} PROVE FALSE
  OBVIOUS
<1>2. PICK k \in Bad : \A m \in Bad : k <= m
  <2> HIDE DEF Bad
  <2>1. Bad \in SUBSET Nat
    BY DEF Bad
  <2> QED BY <1>1, <2>1, LeastElement
<1>3. CASE k = 0
  <2>1. TrimsFrom(list, 0, [i \in 0 .. 0 |-> NothingTrimmed])
    BY DEF TrimsFrom
  <2> QED BY <1>2, <1>3, <2>1
<1>4. CASE k # 0
  <2>1. k - 1 \in Nat /\ k - 1 \notin Bad
    BY <1>2, <1>4
  <2>2. PICK p : TrimsFrom(list, k - 1, p)
    BY <2>1
  <2> DEFINE q == [i \in 0 .. k |-> IF i = k THEN TrimEntry(p[k - 1], list[k])
                                    ELSE p[i]]
  <2>3. TrimsFrom(list, k, q)
    BY <1>2, <1>4, <2>2 DEF TrimsFrom
  <2> QED BY <1>2, <2>3
<1> QED BY <1>3, <1>4

LEMMA TrimPassSteps ==
    ASSUME NEW list, Len(list) \in Nat
    PROVE  /\ TrimPass(list)[0] = NothingTrimmed
           /\ \A i \in 1 .. Len(list) :
                TrimPass(list)[i] = TrimEntry(TrimPass(list)[i - 1], list[i])
<1>1. \E pass : TrimsFrom(list, Len(list), pass)
  BY TrimPassExists
<1>2. TrimsFrom(list, Len(list), TrimPass(list))
  BY <1>1 DEF TrimPass, TrimsFrom, NothingTrimmed
<1> QED BY <1>2 DEF TrimsFrom

\* What the pass has made of the first n entries: a normal list of the same
\* bytes, and the number of bytes that were there twice.
Trimmed(list, m, n, acc) ==
    /\ Normal(acc.list)
    /\ acc.removed \in Nat
    /\ Held(acc.list) = HeldTo(list, n)
    /\ acc.list # <<>> =>
         /\ \E k \in 1 .. n : End(Last(acc.list)) = End(list[k])
         /\ \A j \in (n + 1) .. Len(list) :
              Last(acc.list).starti_ <= list[j].starti_
    /\ IsFiniteSet(Held(acc.list)) /\ IsFiniteSet(OthersTo(list, m, n))
    /\ acc.removed + Cardinality(Held(acc.list))
         = Cardinality(OthersTo(list, m, n)) + (IF m \in 1 .. n THEN list[m].len ELSE 0)

\* An entry that begins in the one before it is cut at the front, or dropped
\* when nothing of it is left.
LEMMA TrimStep ==
    ASSUME NEW list, NEW m \in Nat, NormalBut(list, m),
           NEW n \in 0 .. Len(list) - 1, NEW acc, Trimmed(list, m, n, acc)
    PROVE  Trimmed(list, m, n + 1, TrimEntry(acc, list[n + 1]))
<1> DEFINE x == list[n + 1]
           p == Last(acc.list)
           cut == IF acc.list = <<>> THEN 0 ELSE Overlap(p, x)
           rest == Behind(x, cut)
           next == TrimEntry(acc, x)
<1> SUFFICES Trimmed(list, m, n + 1, next)
  OBVIOUS
<1>1. /\ Solid(list) /\ Len(list) \in Nat /\ n \in Nat /\ n + 1 \in 1 .. Len(list)
      /\ x \in Entry /\ x.starti_ \in Nat /\ x.len \in Nat /\ x.len > 0
      /\ End(x) = x.starti_ + x.len
  BY EntriesAre DEF NormalBut
<1>2. /\ Solid(acc.list) /\ Len(acc.list) \in Nat /\ acc.removed \in Nat
      /\ Held(acc.list) = HeldTo(list, n)
      /\ \A i, j \in 1 .. Len(acc.list) :
           i < j => End(acc.list[i]) <= acc.list[j].starti_
  BY EntriesAre DEF Trimmed, Normal
<1>3. ASSUME acc.list # <<>>
      PROVE  /\ Len(acc.list) > 0 /\ p = acc.list[Len(acc.list)]
             /\ p.starti_ \in Nat /\ End(p) \in Nat
             /\ p.starti_ < End(p) /\ End(p) = p.starti_ + p.len
             /\ p.len \in Nat
             /\ p.starti_ <= x.starti_
  <2>1. Len(acc.list) > 0
    BY <1>2, <1>3, HeldNothing
  <2>2. p = acc.list[Len(acc.list)] /\ Len(acc.list) \in 1 .. Len(acc.list)
    BY <1>2, <2>1 DEF Last
  <2>3. p.starti_ <= x.starti_
    BY <1>1, <1>3 DEF Trimmed
  <2> QED BY <1>2, <2>1, <2>2, <2>3, EntriesAre
<1>4. /\ cut \in 0 .. x.len
      /\ acc.list # <<>> /\ x.starti_ < End(p) =>
           cut = IF End(p) <= End(x) THEN End(p) - x.starti_ ELSE x.len
      /\ acc.list = <<>> \/ End(p) <= x.starti_ => cut = 0
      /\ acc.list # <<>> => End(p) <= x.starti_ + cut \/ cut = x.len
  BY <1>1, <1>3, SMTT(30) DEF Overlap
<1>5. /\ rest.starti_ = x.starti_ + cut /\ rest.len = x.len - cut
      /\ rest \in Entry /\ End(rest) = End(x)
      /\ Bytes(rest) = (x.starti_ + cut) .. (End(x) - 1)
  <2> HIDE DEF x, cut
  <2>1. rest = [starti_ |-> x.starti_ + cut, len |-> x.len - cut]
    BY DEF Behind
  <2>2. x.starti_ + cut \in Nat /\ x.len - cut \in Nat
    BY <1>1, <1>4
  <2>3. End(rest) = End(x)
    BY <1>1, <1>4, <2>1 DEF End
  <2> QED BY <2>1, <2>2, <2>3 DEF Entry, Bytes
<1>n. cut \in Nat /\ cut <= x.len /\ rest.starti_ \in Nat /\ rest.len \in Nat
  BY <1>1, <1>4, <1>5 DEF Entry
<1>o. ASSUME NEW i \in 1 .. Len(acc.list), rest.len > 0
      PROVE  End(acc.list[i]) <= rest.starti_
  <2>1. acc.list # <<>>
    BY <1>2, HeldNothing
  <2>2. End(acc.list[i]) \in Nat
    BY <1>2, EntriesAre
  <2>3. End(acc.list[i]) <= End(p)
    <3>1. CASE i = Len(acc.list)
      BY <1>3, <2>1, <2>2, <3>1
    <3>2. CASE i # Len(acc.list)
      <4>1. Len(acc.list) \in 1 .. Len(acc.list) /\ i < Len(acc.list)
        BY <1>2, <3>2
      <4>2. End(acc.list[i]) <= p.starti_
        BY <1>2, <1>3, <2>1, <4>1
      <4> HIDE DEF p
      <4> QED BY <1>3, <2>1, <2>2, <4>2
    <3> QED BY <3>1, <3>2
  <2> HIDE DEF x, p, cut, rest
  <2>4. cut # x.len /\ cut \in Nat
    BY <1>1, <1>4, <1>5, <1>o
  <2>5. End(p) <= rest.starti_
    BY <1>4, <1>5, <2>1, <2>4
  <2>6. End(p) \in Nat /\ rest.starti_ \in Nat
    BY <1>3, <1>n, <2>1
  <2> QED BY <2>2, <2>3, <2>5, <2>6
<1>6. Held(acc.list) \cap Bytes(rest) = {}
  <2>2. rest.len = 0 => Bytes(rest) = {}
    <3> HIDE DEF x, cut, rest
    <3>1. rest.len = 0 => x.starti_ + cut > End(x) - 1
      <4>1. rest.len = x.len - cut
        BY <1>5
      <4> QED BY <1>1, <1>n, <4>1
    <3>2. x.starti_ + cut \in Int /\ End(x) - 1 \in Int
      BY <1>1, <1>n
    <3> QED BY <1>5, <3>1, <3>2
  <2>3. rest.len \in Nat /\ rest.starti_ \in Nat /\ End(rest) \in Nat
    BY <1>1, <1>5, <1>n
  <2>4. Held(acc.list) = HeldTo(acc.list, Len(acc.list))
    BY <1>2, HeldIsHeldTo
  <2>5. ASSUME NEW b \in Held(acc.list), b \in Bytes(rest) PROVE FALSE
    <3>1. PICK i \in 1 .. Len(acc.list) : b < End(acc.list[i]) /\ b \in Nat
      BY <1>2, <2>4, <2>5, InHeldTo
    <3>2. End(acc.list[i]) \in Nat
      BY <1>2, EntriesAre
    <3>3. rest.starti_ <= b
      BY <2>3, <2>5 DEF Bytes
    <3> HIDE DEF rest
    <3> QED BY <1>o, <2>2, <2>3, <2>5, <3>1, <3>2, <3>3, SMTT(30)
  <2> QED BY <2>5
<1>7. \A b \in x.starti_ .. (x.starti_ + cut - 1) : b \in Held(acc.list)
  <2> SUFFICES ASSUME NEW b \in x.starti_ .. (x.starti_ + cut - 1)
               PROVE  b \in Held(acc.list)
    OBVIOUS
  <2> HIDE DEF x, p, cut, rest
  <2>1. acc.list # <<>> /\ cut > 0 /\ b \in Nat
    BY <1>1, <1>4
  <2>2. p.starti_ <= b /\ b < End(p)
    <3>1. /\ x.starti_ < End(p) /\ p.starti_ <= x.starti_
          /\ p.starti_ \in Nat /\ End(p) \in Nat
      BY <1>1, <1>3, <1>4, <2>1
    <3>2. cut = IF End(p) <= End(x) THEN End(p) - x.starti_ ELSE x.len
      BY <1>4, <2>1, <3>1
    <3>3. x.starti_ + cut <= End(p)
      <4>1. CASE End(p) <= End(x)
        <5>1. cut = End(p) - x.starti_
          BY <3>2, <4>1
        <5> QED BY <1>1, <3>1, <5>1
      <4>2. CASE ~(End(p) <= End(x))
        <5>1. cut = x.len /\ End(x) < End(p)
          BY <1>1, <3>1, <3>2, <4>2
        <5> QED BY <1>1, <3>1, <5>1
      <4> QED BY <4>1, <4>2
    <3>4. x.starti_ <= b /\ b < x.starti_ + cut /\ b \in Nat
      BY <1>1, <1>n
    <3>5. x.starti_ + cut \in Nat /\ x.starti_ \in Nat
      BY <1>1, <1>n
    <3> QED BY <3>1, <3>3, <3>4, <3>5
  <2>3. Len(acc.list) \in 1 .. Len(acc.list)
    BY <1>2, <1>3, <2>1
  <2> QED BY <1>2, <1>3, <2>1, <2>2, <2>3, InHeldTo, HeldIsHeldTo
<1>8. HeldTo(list, n + 1) = Held(acc.list) \union Bytes(rest)
  <2>1. HeldTo(list, n + 1) = Held(acc.list) \union Bytes(x)
    BY <1>1, <1>2, HeldToNext
  <2>2. Bytes(x) = (x.starti_ .. (x.starti_ + cut - 1)) \union Bytes(rest)
    <3> HIDE DEF x, cut, rest
    <3>1. Bytes(x) = x.starti_ .. (End(x) - 1)
      BY DEF Bytes
    <3> QED BY <1>1, <1>4, <1>5, <3>1, SMTT(30)
  <2> QED BY <1>7, <2>1, <2>2
<1>9. /\ IsFiniteSet(OthersTo(list, m, n + 1))
      /\ Cardinality(OthersTo(list, m, n + 1))
           + (IF m \in 1 .. (n + 1) THEN list[m].len ELSE 0)
           = Cardinality(OthersTo(list, m, n))
           + (IF m \in 1 .. n THEN list[m].len ELSE 0) + x.len
      /\ Cardinality(OthersTo(list, m, n + 1)) \in Nat
  <2>1. /\ IsFiniteSet(OthersTo(list, m, n))
        /\ Cardinality(OthersTo(list, m, n)) \in Nat
    BY FS_CardinalityType DEF Trimmed
  <2>0. OthersTo(list, m, n + 1) = IF n + 1 = m THEN OthersTo(list, m, n)
                                  ELSE OthersTo(list, m, n) \union Bytes(x)
    BY <1>1, OthersToNext, ZenonT(30)
  <2>2. CASE n + 1 = m
    <3>1. OthersTo(list, m, n + 1) = OthersTo(list, m, n)
      BY <2>0, <2>2
    <3>2. m \in 1 .. (n + 1) /\ m \notin 1 .. n
      BY <1>1, <2>2
    <3> QED BY <1>1, <2>1, <2>2, <3>1, <3>2
  <2>3. CASE n + 1 # m
    <3>1. OthersTo(list, m, n + 1) = OthersTo(list, m, n) \union Bytes(x)
      BY <2>0, <2>3
    <3>2. m \in 1 .. (n + 1) <=> m \in 1 .. n
      BY <1>1, <2>3
    <3>3. OthersTo(list, m, n) \cap Bytes(x) = {}
      <4>1. \A i \in (1 .. n) \ {m} : End(list[i]) <= x.starti_
        BY <1>1, <2>3 DEF NormalBut
      <4>2. \A i \in 1 .. n : End(list[i]) \in Nat /\ list[i].starti_ \in Nat
        BY <1>1, EntriesAre
      <4> HIDE DEF x
      <4> QED BY <1>1, <4>1, <4>2 DEF OthersTo, Bytes
    <3>4. m \in 1 .. n => list[m].len \in Nat
      BY <1>1, EntriesAre
    <3> HIDE DEF x
    <3>5. /\ IsFiniteSet(OthersTo(list, m, n + 1))
          /\ Cardinality(OthersTo(list, m, n + 1))
               = Cardinality(OthersTo(list, m, n)) + x.len
      BY <1>1, <2>1, <3>1, <3>3, CountRun
    <3> QED BY <1>1, <2>1, <3>2, <3>4, <3>5
  <2> QED BY <2>2, <2>3
<1>10. /\ IsFiniteSet(Held(acc.list) \union Bytes(rest))
       /\ Cardinality(Held(acc.list) \union Bytes(rest))
            = Cardinality(Held(acc.list)) + (x.len - cut)
       /\ Cardinality(Held(acc.list)) \in Nat
  <2>1. IsFiniteSet(Held(acc.list))
    BY DEF Trimmed
  <2> HIDE DEF rest, x, cut
  <2> QED BY <1>5, <1>6, <2>1, CountRun, FS_CardinalityType
<1>11. (acc.removed + cut) + Cardinality(Held(acc.list) \union Bytes(rest))
         = Cardinality(OthersTo(list, m, n + 1))
         + (IF m \in 1 .. (n + 1) THEN list[m].len ELSE 0)
  <2> DEFINE c == Cardinality(Held(acc.list))
             o == Cardinality(OthersTo(list, m, n))
             extra == IF m \in 1 .. n THEN list[m].len ELSE 0
  <2>1. acc.removed + c = o + extra
    BY DEF Trimmed
  <2>2. extra \in Nat /\ o \in Nat
    <3>1. m \in 1 .. n => list[m].len \in Nat
      BY <1>1, EntriesAre
    <3>2. o \in Nat
      BY FS_CardinalityType DEF Trimmed
    <3> QED BY <3>1, <3>2
  <2> HIDE DEF c, o, extra, x, cut, rest
  <2>3. Cardinality(Held(acc.list) \union Bytes(rest)) = c + (x.len - cut) /\ c \in Nat
    BY <1>10 DEF c
  <2>4. Cardinality(OthersTo(list, m, n + 1))
          + (IF m \in 1 .. (n + 1) THEN list[m].len ELSE 0) = o + extra + x.len
    BY <1>9 DEF o, extra
  <2>5. (acc.removed + cut) + (c + (x.len - cut)) = o + extra + x.len
    BY <1>1, <1>2, <1>4, <2>1, <2>2, <2>3
  <2> QED BY <2>3, <2>4, <2>5
<1>12. next = [list |-> IF cut > 0 /\ cut = x.len THEN acc.list
                       ELSE Append(acc.list, rest),
              removed |-> acc.removed + cut]
  BY DEF TrimEntry
<1>13. \A j \in (n + 2) .. Len(list) :
         /\ x.starti_ <= list[j].starti_ /\ list[j].starti_ \in Nat
         /\ acc.list # <<>> => p.starti_ <= list[j].starti_
         /\ acc.list # <<>> /\ cut > 0 => End(p) <= list[j].starti_ \/ cut = x.len
  <2> SUFFICES ASSUME NEW j \in (n + 2) .. Len(list)
               PROVE  /\ x.starti_ <= list[j].starti_ /\ list[j].starti_ \in Nat
                      /\ acc.list # <<>> => p.starti_ <= list[j].starti_
                      /\ acc.list # <<>> /\ cut > 0
                           => End(p) <= list[j].starti_ \/ cut = x.len
    OBVIOUS
  <2>1. j \in 1 .. Len(list) /\ n + 1 < j /\ j \in (n + 1) .. Len(list)
    BY <1>1
  <2>2. x.starti_ <= list[j].starti_
    BY <1>1, <2>1 DEF NormalBut
  <2>3. list[j].starti_ \in Nat
    BY <1>1, <2>1, EntriesAre
  <2>4. acc.list # <<>> => p.starti_ <= list[j].starti_
    BY <2>1 DEF Trimmed
  <2>5. ASSUME acc.list # <<>>, cut > 0, cut # x.len
        PROVE  End(p) <= list[j].starti_
    <3>1. PICK k \in 1 .. n : End(p) = End(list[k])
      BY <2>5 DEF Trimmed
    <3>2. k \in 1 .. Len(list) /\ k < n + 1 /\ k < j
      BY <1>1, <2>1
    <3>3. End(list[k]) \in Nat /\ End(x) \in Nat
      BY <1>1, <3>2, EntriesAre
    <3>4. CASE k # m /\ j # m
      BY <1>1, <2>1, <3>1, <3>2, <3>4 DEF NormalBut
    <3>5. CASE k = m
      <4>1. End(x) <= list[j].starti_
        BY <1>1, <2>1, <3>2, <3>5 DEF NormalBut
      <4>2. End(p) <= x.starti_ + cut
        BY <1>4, <2>5
      <4>3. x.starti_ + cut <= End(x)
        BY <1>1, <1>n, SMTT(30)
      <4>4. x.starti_ + cut \in Nat
        BY <1>1, <1>n
      <4> HIDE DEF x, p, cut
      <4> QED BY <2>3, <3>1, <3>3, <4>1, <4>2, <4>3, <4>4
    <3>6. CASE j = m /\ k # m
      <4>1. End(list[k]) <= x.starti_
        BY <1>1, <2>1, <3>2, <3>6 DEF NormalBut
      <4>2. cut = 0
        BY <1>4, <2>5, <3>1, <4>1
      <4> QED BY <2>5, <4>2
    <3> QED BY <3>4, <3>5, <3>6
  <2> QED BY <2>2, <2>3, <2>4, <2>5
<1>14. CASE cut > 0 /\ cut = x.len
  <2>1. next.list = acc.list /\ next.removed = acc.removed + cut
    BY <1>12, <1>14
  <2>2. acc.list # <<>>
    BY <1>4, <1>14
  <2>3. Bytes(rest) = {}
    <3> HIDE DEF x, cut, rest
    <3> QED BY <1>1, <1>5, <1>14
  <2>4. Held(acc.list) \union Bytes(rest) = Held(acc.list)
    BY <2>3
  <2>5. Normal(next.list) /\ next.removed \in Nat
    BY <1>2, <1>n, <2>1 DEF Trimmed
  <2>6. Held(next.list) = HeldTo(list, n + 1) /\ IsFiniteSet(Held(next.list))
    BY <1>8, <1>10, <2>1, <2>4
  <2>7. next.removed + Cardinality(Held(next.list))
          = Cardinality(OthersTo(list, m, n + 1))
          + (IF m \in 1 .. (n + 1) THEN list[m].len ELSE 0)
    BY <1>11, <2>1, <2>4
  <2>8. \E k \in 1 .. (n + 1) : End(Last(next.list)) = End(list[k])
    <3>1. PICK k \in 1 .. n : End(p) = End(list[k])
      BY <2>2 DEF Trimmed
    <3>2. k \in 1 .. (n + 1)
      BY <1>1
    <3> QED BY <2>1, <3>1, <3>2
  <2>9. \A j \in (n + 1 + 1) .. Len(list) : Last(next.list).starti_ <= list[j].starti_
    BY <1>1, <1>13, <2>1, <2>2
  <2> HIDE DEF next
  <2> QED BY <1>9, <2>5, <2>6, <2>7, <2>8, <2>9 DEF Trimmed
<1>15. CASE ~(cut > 0 /\ cut = x.len)
  <2>1. next.list = Append(acc.list, rest) /\ next.removed = acc.removed + cut
    BY <1>12, <1>15
  <2>2. rest.len > 0
    <3>1. rest.len = x.len - cut
      BY <1>5
    <3> HIDE DEF x, cut, rest
    <3> QED BY <1>1, <1>n, <1>15, <3>1
  <2>3. /\ Solid(next.list)
        /\ Len(next.list) = Len(acc.list) + 1
        /\ \A i \in 1 .. Len(acc.list) : next.list[i] = acc.list[i]
        /\ next.list[Len(next.list)] = rest
        /\ Held(next.list) = Held(acc.list) \union Bytes(rest)
    <3>1. rest \in Entry
      BY <1>5
    <3> HIDE DEF rest, next
    <3>2. /\ Solid(Append(acc.list, rest))
          /\ Len(Append(acc.list, rest)) = Len(acc.list) + 1
          /\ \A i \in 1 .. Len(acc.list) : Append(acc.list, rest)[i] = acc.list[i]
          /\ Append(acc.list, rest)[Len(acc.list) + 1] = rest
          /\ Held(Append(acc.list, rest)) = Held(acc.list) \union Bytes(rest)
      BY <1>2, <2>2, <3>1, HeldAppend
    <3> QED BY <2>1, <3>2
  <2>4. Last(next.list) = rest
    BY <2>3 DEF Last
  <2>5. \A i \in 1 .. Len(acc.list) : End(acc.list[i]) <= rest.starti_
    BY <1>o, <2>2
  <2>6. Normal(next.list)
    <3> SUFFICES ASSUME NEW i \in 1 .. Len(next.list), NEW j \in 1 .. Len(next.list),
                        i < j
                 PROVE  End(next.list[i]) <= next.list[j].starti_
      BY <2>3 DEF Normal
    <3> HIDE DEF next, rest
    <3>1. i \in 1 .. Len(acc.list) /\ next.list[i] = acc.list[i]
      BY <1>2, <2>3
    <3>2. CASE j = Len(next.list)
      BY <2>3, <2>5, <3>1, <3>2
    <3>3. CASE j # Len(next.list)
      <4>1. j \in 1 .. Len(acc.list) /\ next.list[j] = acc.list[j]
        BY <1>2, <2>3, <3>3
      <4> QED BY <1>2, <3>1, <4>1
    <3> QED BY <3>2, <3>3
  <2>7. next.removed \in Nat
    BY <1>2, <1>n, <2>1
  <2>8. Held(next.list) = HeldTo(list, n + 1) /\ IsFiniteSet(Held(next.list))
    BY <1>8, <1>10, <2>3
  <2>9. next.removed + Cardinality(Held(next.list))
          = Cardinality(OthersTo(list, m, n + 1))
          + (IF m \in 1 .. (n + 1) THEN list[m].len ELSE 0)
    BY <1>11, <2>1, <2>3
  <2>10. End(Last(next.list)) = End(list[n + 1]) /\ n + 1 \in 1 .. (n + 1)
    BY <1>1, <1>5, <2>4
  <2>11. \A j \in (n + 1 + 1) .. Len(list) : rest.starti_ <= list[j].starti_
    <3> SUFFICES ASSUME NEW j \in (n + 1 + 1) .. Len(list)
                 PROVE  rest.starti_ <= list[j].starti_
      OBVIOUS
    <3>1. j \in (n + 2) .. Len(list)
      BY <1>1
    <3>2. CASE cut = 0
      <4>1. rest.starti_ = x.starti_
        BY <1>1, <1>5, <3>2
      <4> QED BY <1>13, <3>1, <4>1
    <3>3. CASE cut > 0
      <4>1. cut # x.len /\ acc.list # <<>>
        BY <1>4, <1>15, <3>3
      <4>2. End(p) <= list[j].starti_
        BY <1>13, <3>1, <3>3, <4>1
      <4>3. End(p) \in Nat /\ (x.starti_ < End(p) \/ cut = 0)
        BY <1>1, <1>3, <1>4, <4>1
      <4>4. cut = IF End(p) <= End(x) THEN End(p) - x.starti_ ELSE x.len
        BY <1>4, <3>3, <4>1, <4>3
      <4>5. cut = End(p) - x.starti_ /\ End(p) \in Nat
        BY <1>1, <3>3, <4>1, <4>3, <4>4
      <4>6. rest.starti_ = End(p)
        BY <1>1, <1>5, <4>5
      <4> QED BY <4>2, <4>6
    <3> QED BY <1>n, <3>2, <3>3
  <2> HIDE DEF next
  <2> QED BY <1>9, <2>4, <2>6, <2>7, <2>8, <2>9, <2>10, <2>11 DEF Trimmed
<1> HIDE DEF next
<1> QED BY <1>14, <1>15

LEMMA TrimStart ==
    ASSUME NEW list, NEW m \in Nat, NormalBut(list, m)
    PROVE  Trimmed(list, m, 0, NothingTrimmed)
<1>1. 1 .. 0 = {} /\ m \notin 1 .. 0 /\ 0 \in Nat
  OBVIOUS
<1>2. HeldTo(list, 0) = {} /\ OthersTo(list, m, 0) = {}
  BY <1>1, HeldToNext, OthersToNext
<1>3. NothingTrimmed.list = <<>> /\ NothingTrimmed.removed = 0
  BY DEF NothingTrimmed
<1> HIDE DEF NothingTrimmed
<1> QED BY <1>1, <1>2, <1>3, HeldNothing, FS_EmptySet DEF Trimmed

\* reassembler.cc:36-59 (src/src): the pass leaves the bytes of the list as
\* they were, each of them once.
LEMMA TrimIsRight ==
    ASSUME NEW list, NEW m \in Nat, NormalBut(list, m)
    PROVE  Trimmed(list, m, Len(list), Trim(list))
<1> DEFINE Bad == {k \in 0 .. Len(list) : ~ Trimmed(list, m, k, TrimPass(list)[k])}
<1>1. Len(list) \in Nat
  BY EntriesAre DEF NormalBut
<1>2. ASSUME Bad # {} PROVE FALSE
  <2>1. Bad \in SUBSET Nat
    BY <1>1
  <2>2. PICK k \in Bad : \A j \in Bad : k <= j
    <3> HIDE DEF Bad
    <3> QED BY <1>2, <2>1, LeastElement
  <2>3. CASE k = 0
    BY <1>1, <2>2, <2>3, TrimStart, TrimPassSteps
  <2>4. CASE k # 0
    <3>1. k \in 1 .. Len(list) /\ k - 1 \in 0 .. Len(list) - 1 /\ (k - 1) + 1 = k
      BY <1>1, <2>2, <2>4
    <3>2. k - 1 \notin Bad /\ k - 1 \in 0 .. Len(list)
      BY <1>1, <2>2, <3>1
    <3>3. Trimmed(list, m, k - 1, TrimPass(list)[k - 1])
      BY <3>2
    <3>4. Trimmed(list, m, (k - 1) + 1,
                  TrimEntry(TrimPass(list)[k - 1], list[(k - 1) + 1]))
      BY <3>1, <3>3, TrimStep
    <3>5. Trimmed(list, m, k, TrimPass(list)[k])
      BY <1>1, <3>1, <3>4, TrimPassSteps
    <3> QED BY <2>2, <3>5
  <2> QED BY <2>3, <2>4
<1>3. Len(list) \notin Bad /\ Len(list) \in 0 .. Len(list)
  BY <1>1, <1>2
<1> QED BY <1>3 DEF Trim, TrimPass

-----------------------------------------------------------------------------
\* The pass that pushes what has become contiguous

NothingFlushed(s) == [list |-> <<>>, removed |-> 0, output |-> s]

FlushPass(list, s) ==
    LET pass[i \in 0 .. Len(list)] ==
          IF i = 0 THEN [list |-> <<>>, removed |-> 0, output |-> s]
                   ELSE FlushEntry(pass[i - 1], list[i])
    IN  pass

FlushesFrom(list, s, n, pass) ==
    pass = [i \in 0 .. n |-> IF i = 0 THEN NothingFlushed(s)
                             ELSE FlushEntry(pass[i - 1], list[i])]

LEMMA FlushPassExists ==
    ASSUME NEW list, NEW s, NEW n \in Nat
    PROVE  \E pass : FlushesFrom(list, s, n, pass)
<1> DEFINE Bad == {k \in Nat : ~ \E pass : FlushesFrom(list, s, k, pass)}
<1>1. SUFFICES ASSUME Bad # {} PROVE FALSE
  OBVIOUS
<1>2. PICK k \in Bad : \A m \in Bad : k <= m
  <2> HIDE DEF Bad
  <2>1. Bad \in SUBSET Nat
    BY DEF Bad
  <2> QED BY <1>1, <2>1, LeastElement
<1>3. CASE k = 0
  <2>1. FlushesFrom(list, s, 0, [i \in 0 .. 0 |-> NothingFlushed(s)])
    BY DEF FlushesFrom
  <2> QED BY <1>2, <1>3, <2>1
<1>4. CASE k # 0
  <2>1. k - 1 \in Nat /\ k - 1 \notin Bad
    BY <1>2, <1>4
  <2>2. PICK p : FlushesFrom(list, s, k - 1, p)
    BY <2>1
  <2> DEFINE q == [i \in 0 .. k |-> IF i = k THEN FlushEntry(p[k - 1], list[k])
                                    ELSE p[i]]
  <2>3. FlushesFrom(list, s, k, q)
    BY <1>2, <1>4, <2>2 DEF FlushesFrom
  <2> QED BY <1>2, <2>3
<1> QED BY <1>3, <1>4

LEMMA FlushPassSteps ==
    ASSUME NEW list, NEW s, Len(list) \in Nat
    PROVE  /\ FlushPass(list, s)[0] = NothingFlushed(s)
           /\ \A i \in 1 .. Len(list) :
                FlushPass(list, s)[i] = FlushEntry(FlushPass(list, s)[i - 1], list[i])
<1>1. \E pass : FlushesFrom(list, s, Len(list), pass)
  BY FlushPassExists
<1>2. FlushesFrom(list, s, Len(list), FlushPass(list, s))
  BY <1>1 DEF FlushPass, FlushesFrom, NothingFlushed
<1> QED BY <1>2 DEF FlushesFrom

\* What a stream has room for.
Limit(s) == s.pushed + Available(s)

\* A normal list inside the window of the stream it is to be pushed to.
Fits(list, s) ==
    /\ Normal(list)
    /\ StreamOK(s)
    /\ \A i \in 1 .. Len(list) : End(list[i]) <= Limit(s)

\* What the pass has made of the first n entries: the stream has grown by
\* pushes alone, and stream and list hold the bytes they held.
Flushed(list, s, n, acc) ==
    /\ Normal(acc.list)
    /\ acc.removed \in Nat
    /\ acc.output = [s EXCEPT !.pushed = acc.output.pushed]
    /\ acc.output.pushed \in s.pushed .. Limit(s)
    /\ \A i \in 1 .. Len(acc.list) :
         /\ acc.list[i].starti_ > acc.output.pushed
         /\ End(acc.list[i]) <= Limit(s)
         /\ \A j \in (n + 1) .. Len(list) : End(acc.list[i]) <= list[j].starti_
    /\ (0 .. (acc.output.pushed - 1)) \union Held(acc.list)
         = (0 .. (s.pushed - 1)) \union HeldTo(list, n)
    /\ IsFiniteSet(Held(acc.list)) /\ IsFiniteSet(HeldTo(list, n))
    /\ acc.removed + Cardinality(Held(acc.list)) = Cardinality(HeldTo(list, n))

LEMMA StreamFacts ==
    ASSUME NEW s, StreamOK(s)
    PROVE  /\ s \in StreamType
           /\ s.pushed \in Nat /\ s.popped \in Nat /\ s.capacity \in Nat
           /\ Limit(s) = s.popped + s.capacity /\ Limit(s) \in Nat
           /\ s.pushed <= Limit(s)
BY DEF StreamOK, StreamType, Limit, Available, Buffered

LEMMA FlushStart ==
    ASSUME NEW list, NEW s, Fits(list, s)
    PROVE  Flushed(list, s, 0, NothingFlushed(s))
<1>1. /\ s.pushed \in s.pushed .. Limit(s)
      /\ s = [s EXCEPT !.pushed = s.pushed]
  BY StreamFacts DEF Fits, StreamType
<1>2. HeldTo(list, 0) = {}
  BY HeldToNext
<1>3. /\ NothingFlushed(s).list = <<>> /\ NothingFlushed(s).removed = 0
      /\ NothingFlushed(s).output = s
  BY DEF NothingFlushed
<1>4. 1 .. 0 = {} /\ 0 \in Nat
  OBVIOUS
<1>5. /\ Normal(<<>>) /\ Held(<<>>) = {} /\ Len(<<>>) = 0
      /\ IsFiniteSet({}) /\ Cardinality({}) = 0
  BY HeldNothing, FS_EmptySet
<1> DEFINE acc == NothingFlushed(s)
<1>6. acc.list = <<>> /\ acc.removed = 0 /\ acc.output = s
  BY <1>3
<1> HIDE DEF acc
<1>7. acc.removed + Cardinality(Held(acc.list)) = Cardinality(HeldTo(list, 0))
  BY <1>2, <1>5, <1>6
<1>8. 1 .. Len(acc.list) = {}
  BY <1>4, <1>5, <1>6
<1>9. Flushed(list, s, 0, acc)
  BY <1>1, <1>2, <1>4, <1>5, <1>6, <1>7, <1>8 DEF Flushed
<1> QED BY <1>9 DEF acc

LEMMA FlushStep ==
    ASSUME NEW list, NEW s, Fits(list, s),
           NEW n \in 0 .. Len(list) - 1, NEW acc, Flushed(list, s, n, acc)
    PROVE  Flushed(list, s, n + 1, FlushEntry(acc, list[n + 1]))
<1> DEFINE x == list[n + 1]
           pushed == acc.output.pushed
           next == FlushEntry(acc, x)
<1> SUFFICES Flushed(list, s, n + 1, next)
  OBVIOUS
<1>1. /\ Solid(list) /\ Len(list) \in Nat /\ n \in Nat /\ n + 1 \in 1 .. Len(list)
      /\ x \in Entry /\ x.starti_ \in Nat /\ x.len \in Nat /\ x.len > 0
      /\ End(x) = x.starti_ + x.len
      /\ End(x) <= Limit(s)
      /\ Bytes(x) = x.starti_ .. (End(x) - 1)
  BY EntriesAre DEF Fits, Normal, Bytes
<1>2. /\ s \in StreamType /\ s.pushed \in Nat /\ s.popped \in Nat
      /\ s.capacity \in Nat
      /\ Limit(s) = s.popped + s.capacity /\ Limit(s) \in Nat
  BY StreamFacts DEF Fits
<1>3. /\ pushed \in Nat /\ s.pushed <= pushed /\ pushed <= Limit(s)
      /\ acc.output = [s EXCEPT !.pushed = pushed]
      /\ acc.output.popped = s.popped /\ acc.output.capacity = s.capacity
  BY <1>2 DEF Flushed, StreamType
<1>4. /\ Normal(acc.list) /\ Solid(acc.list) /\ Len(acc.list) \in Nat
      /\ acc.removed \in Nat
      /\ IsFiniteSet(Held(acc.list)) /\ Cardinality(Held(acc.list)) \in Nat
      /\ \A i \in 1 .. Len(acc.list) :
           /\ acc.list[i].starti_ > pushed
           /\ End(acc.list[i]) <= x.starti_
           /\ acc.list[i].starti_ \in Nat /\ End(acc.list[i]) \in Nat
           /\ acc.list[i].starti_ < End(acc.list[i])
  <2>1. /\ Normal(acc.list) /\ Solid(acc.list) /\ Len(acc.list) \in Nat
        /\ acc.removed \in Nat /\ IsFiniteSet(Held(acc.list))
    BY EntriesAre DEF Flushed, Normal
  <2>2. Cardinality(Held(acc.list)) \in Nat
    BY <2>1, FS_CardinalityType
  <2>3. n + 1 \in (n + 1) .. Len(list)
    BY <1>1
  <2>4. ASSUME NEW i \in 1 .. Len(acc.list)
        PROVE  acc.list[i].starti_ > pushed /\ End(acc.list[i]) <= x.starti_
    BY <2>3 DEF Flushed
  <2> QED BY <2>1, <2>2, <2>4, EntriesAre
<1>5. HeldTo(list, n + 1) = HeldTo(list, n) \union Bytes(x)
  BY <1>1, HeldToNext
<1>6. /\ IsFiniteSet(HeldTo(list, n + 1))
      /\ Cardinality(HeldTo(list, n + 1)) = Cardinality(HeldTo(list, n)) + x.len
      /\ Cardinality(HeldTo(list, n)) \in Nat
  <2>1. HeldTo(list, n) \cap Bytes(x) = {}
    BY RunsAreDisjoint DEF Fits
  <2>2. IsFiniteSet(HeldTo(list, n))
    BY DEF Flushed
  <2> HIDE DEF x
  <2> QED BY <1>1, <1>5, <2>1, <2>2, CountRun, FS_CardinalityType
<1>7. \A j \in (n + 2) .. Len(list) : j \in (n + 1) .. Len(list) /\ End(x) <= list[j].starti_
  BY <1>1 DEF Fits, Normal
<1>8. CASE pushed >= x.starti_
  <2> DEFINE reached == IF End(x) > pushed THEN End(x) ELSE pushed
  <2>1. acc.list = <<>>
    <3> SUFFICES ASSUME 1 \in 1 .. Len(acc.list) PROVE FALSE
      BY <1>4, HeldNothing
    <3> DEFINE a == acc.list[1]
    <3>1. /\ a.starti_ > pushed /\ End(a) <= x.starti_ /\ a.starti_ < End(a)
          /\ a.starti_ \in Nat /\ End(a) \in Nat
      BY <1>4
    <3> HIDE DEF a, x, pushed
    <3> QED BY <1>1, <1>3, <1>8, <3>1
  <2>2. next.output = [s EXCEPT !.pushed = reached]
    <3>1. CASE End(x) > pushed
      <4>1. Fitting(acc.output, End(x) - pushed) = End(x) - pushed
        <5> HIDE DEF x
        <5>1. End(x) - pushed \in Nat
          BY <1>1, <1>3, <3>1
        <5>2. Available(acc.output) = Limit(s) - pushed
          BY <1>2, <1>3 DEF Available, Buffered
        <5>3. End(x) - pushed <= Limit(s) - pushed
          BY <1>1, <1>2, <1>3, SMTT(30)
        <5> QED BY <5>2, <5>3 DEF Fitting, AtMost
      <4>2. next.output = PushTo(acc.output, End(x) - pushed)
        BY <1>8, <3>1 DEF FlushEntry
      <4>3. next.output = [acc.output EXCEPT !.pushed = @ + (End(x) - pushed)]
        BY <4>1, <4>2 DEF PushTo
      <4>4. pushed + (End(x) - pushed) = End(x)
        BY <1>1, <1>3
      <4> QED BY <1>2, <1>3, <3>1, <4>3, <4>4 DEF StreamType
    <3>2. CASE ~(End(x) > pushed)
      BY <1>3, <1>8, <3>2 DEF FlushEntry
    <3> QED BY <3>1, <3>2
  <2>3. next.list = <<>> /\ next.removed = acc.removed + x.len
    BY <1>8, <2>1 DEF FlushEntry
  <2>4. reached \in Nat /\ s.pushed <= reached /\ reached <= Limit(s)
    BY <1>1, <1>2, <1>3, SMTT(30)
  <2>5. next.output.pushed = reached
    BY <1>2, <2>2 DEF StreamType
  <2>6. (0 .. (reached - 1)) = (0 .. (pushed - 1)) \union Bytes(x)
    BY <1>1, <1>3, <1>8, SMTT(30)
  <2>7. (0 .. (reached - 1)) = (0 .. (s.pushed - 1)) \union HeldTo(list, n + 1)
    BY <1>5, <2>1, <2>6, HeldNothing DEF Flushed
  <2>8. next.removed = Cardinality(HeldTo(list, n + 1)) /\ next.removed \in Nat
    <3>1. Cardinality(Held(acc.list)) = 0
      BY <2>1, HeldNothing, FS_EmptySet
    <3>2. acc.removed = Cardinality(HeldTo(list, n))
      BY <1>4, <1>6, <3>1 DEF Flushed
    <3> QED BY <1>1, <1>4, <1>6, <2>3, <3>2
  <2>9. /\ Held(next.list) = {} /\ Normal(next.list) /\ Len(next.list) = 0
        /\ IsFiniteSet({}) /\ Cardinality({}) = 0
    BY <2>3, HeldNothing, FS_EmptySet
  <2> HIDE DEF next, reached
  <2>10. next.output = [s EXCEPT !.pushed = next.output.pushed]
    BY <2>2, <2>5
  <2>11. next.output.pushed \in s.pushed .. Limit(s)
    BY <1>2, <2>4, <2>5
  <2>12. 1 .. 0 = {}
    OBVIOUS
  <2> QED BY <1>6, <2>5, <2>7, <2>8, <2>9, <2>10, <2>11, <2>12 DEF Flushed
<1>9. CASE ~(pushed >= x.starti_)
  <2>1. next.list = Append(acc.list, x) /\ next.removed = acc.removed
        /\ next.output = acc.output
    BY <1>9 DEF FlushEntry
  <2>2. /\ Solid(next.list)
        /\ Len(next.list) = Len(acc.list) + 1
        /\ \A i \in 1 .. Len(acc.list) : next.list[i] = acc.list[i]
        /\ next.list[Len(next.list)] = x
        /\ Held(next.list) = Held(acc.list) \union Bytes(x)
    <3> HIDE DEF x, next
    <3>1. /\ Solid(Append(acc.list, x))
          /\ Len(Append(acc.list, x)) = Len(acc.list) + 1
          /\ \A i \in 1 .. Len(acc.list) : Append(acc.list, x)[i] = acc.list[i]
          /\ Append(acc.list, x)[Len(acc.list) + 1] = x
          /\ Held(Append(acc.list, x)) = Held(acc.list) \union Bytes(x)
      BY <1>1, <1>4, HeldAppend
    <3> QED BY <2>1, <3>1
  <2>3. ASSUME NEW i \in 1 .. Len(next.list)
        PROVE  \/ i \in 1 .. Len(acc.list) /\ next.list[i] = acc.list[i]
               \/ i = Len(next.list) /\ next.list[i] = x
    BY <1>4, <2>2
  <2>4. Normal(next.list)
    <3> SUFFICES ASSUME NEW i \in 1 .. Len(next.list), NEW j \in 1 .. Len(next.list),
                        i < j
                 PROVE  End(next.list[i]) <= next.list[j].starti_
      BY <2>2 DEF Normal
    <3> HIDE DEF next, x
    <3>1. i \in 1 .. Len(acc.list) /\ next.list[i] = acc.list[i]
      BY <1>4, <2>2
    <3>2. CASE j = Len(next.list)
      BY <1>4, <2>2, <3>1, <3>2
    <3>3. CASE j # Len(next.list)
      <4>1. j \in 1 .. Len(acc.list) /\ next.list[j] = acc.list[j]
        BY <1>4, <2>2, <3>3
      <4> QED BY <1>4, <3>1, <4>1 DEF Normal
    <3> QED BY <3>2, <3>3
  <2>5. ASSUME NEW i \in 1 .. Len(next.list)
        PROVE  /\ next.list[i].starti_ > next.output.pushed
               /\ End(next.list[i]) <= Limit(s)
               /\ \A j \in (n + 1 + 1) .. Len(list) :
                    End(next.list[i]) <= list[j].starti_
    <3>1. CASE i \in 1 .. Len(acc.list) /\ next.list[i] = acc.list[i]
      <4>1. /\ acc.list[i].starti_ > acc.output.pushed
            /\ End(acc.list[i]) <= Limit(s)
            /\ \A j \in (n + 1) .. Len(list) : End(acc.list[i]) <= list[j].starti_
        BY <3>1 DEF Flushed
      <4>2. \A j \in (n + 1 + 1) .. Len(list) : j \in (n + 1) .. Len(list)
        BY <1>1
      <4> HIDE DEF next
      <4> QED BY <2>1, <3>1, <4>1, <4>2
    <3>2. CASE next.list[i] = x
      <4>1. \A j \in (n + 1 + 1) .. Len(list) : j \in (n + 2) .. Len(list)
        BY <1>1
      <4> HIDE DEF next, x
      <4> QED BY <1>1, <1>3, <1>7, <1>9, <2>1, <3>2, <4>1, SMTT(30)
    <3> QED BY <2>3, <3>1, <3>2
  <2>6. (0 .. (next.output.pushed - 1)) \union Held(next.list)
          = (0 .. (s.pushed - 1)) \union HeldTo(list, n + 1)
    BY <1>5, <2>1, <2>2 DEF Flushed
  <2>7. Held(acc.list) \cap Bytes(x) = {}
    <3> HIDE DEF x
    <3> SUFFICES ASSUME NEW b \in Held(acc.list), b \in Bytes(x) PROVE FALSE
      OBVIOUS
    <3>1. PICK i \in 1 .. Len(acc.list) : b < End(acc.list[i]) /\ b \in Nat
      BY <1>4, InHeldTo, HeldIsHeldTo
    <3>2. End(acc.list[i]) <= x.starti_ /\ End(acc.list[i]) \in Nat
      BY <1>4
    <3>3. x.starti_ <= b
      BY <1>1
    <3> QED BY <1>1, <3>1, <3>2, <3>3
  <2>8. /\ IsFiniteSet(Held(next.list))
        /\ Cardinality(Held(next.list)) = Cardinality(Held(acc.list)) + x.len
    <3> HIDE DEF x, next
    <3>1. /\ IsFiniteSet(Held(acc.list) \union Bytes(x))
          /\ Cardinality(Held(acc.list) \union Bytes(x))
               = Cardinality(Held(acc.list)) + x.len
      BY <1>1, <1>4, <2>7, CountRun
    <3> QED BY <2>2, <3>1
  <2>9. next.removed + Cardinality(Held(next.list)) = Cardinality(HeldTo(list, n + 1))
    <3>1. acc.removed + Cardinality(Held(acc.list)) = Cardinality(HeldTo(list, n))
      BY DEF Flushed
    <3> HIDE DEF x, next
    <3> QED BY <1>1, <1>4, <1>6, <2>1, <2>8, <3>1, SMTT(30)
  <2>10. /\ next.output = [s EXCEPT !.pushed = next.output.pushed]
         /\ next.output.pushed \in s.pushed .. Limit(s)
         /\ next.removed \in Nat
    BY <1>4, <2>1 DEF Flushed
  <2> HIDE DEF next
  <2> QED BY <1>6, <2>4, <2>5, <2>6, <2>8, <2>9, <2>10 DEF Flushed
<1> HIDE DEF next
<1> QED BY <1>8, <1>9

\* reassembler.cc:61-70 (src/src): the pass moves what has become contiguous
\* from the list to the stream and leaves the rest.
LEMMA FlushIsRight ==
    ASSUME NEW list, NEW s, Fits(list, s)
    PROVE  Flushed(list, s, Len(list), Flush(list, s))
<1> DEFINE Bad == {k \in 0 .. Len(list) : ~ Flushed(list, s, k, FlushPass(list, s)[k])}
<1>1. Len(list) \in Nat
  BY EntriesAre DEF Fits, Normal
<1>2. ASSUME Bad # {} PROVE FALSE
  <2>1. Bad \in SUBSET Nat
    BY <1>1
  <2>2. PICK k \in Bad : \A j \in Bad : k <= j
    <3> HIDE DEF Bad
    <3> QED BY <1>2, <2>1, LeastElement
  <2>3. CASE k = 0
    BY <1>1, <2>2, <2>3, FlushStart, FlushPassSteps
  <2>4. CASE k # 0
    <3>1. k \in 1 .. Len(list) /\ k - 1 \in 0 .. Len(list) - 1 /\ (k - 1) + 1 = k
      BY <1>1, <2>2, <2>4
    <3>2. k - 1 \notin Bad /\ k - 1 \in 0 .. Len(list)
      BY <1>1, <2>2, <3>1
    <3>3. Flushed(list, s, k - 1, FlushPass(list, s)[k - 1])
      BY <3>2
    <3>4. Flushed(list, s, (k - 1) + 1,
                  FlushEntry(FlushPass(list, s)[k - 1], list[(k - 1) + 1]))
      BY <3>1, <3>3, FlushStep
    <3>5. Flushed(list, s, k, FlushPass(list, s)[k])
      BY <1>1, <3>1, <3>4, FlushPassSteps
    <3> QED BY <2>2, <3>5
  <2> QED BY <2>3, <2>4
<1>3. Len(list) \notin Bad /\ Len(list) \in 0 .. Len(list)
  BY <1>1, <1>2
<1> QED BY <1>3 DEF Flush, FlushPass

-----------------------------------------------------------------------------
\* Where the substring goes in the list

PlacedAt(list, e, m, new) ==
    /\ m \in 1 .. (Len(list) + 1)
    /\ new \in Seq(Entry) /\ Len(new) = Len(list) + 1
    /\ \A i \in 1 .. Len(new) :
         new[i] = IF i < m THEN list[i] ELSE IF i = m THEN e ELSE list[i - 1]
    /\ \A i \in 1 .. Len(list) :
         IF i < m THEN list[i].starti_ < e.starti_ ELSE e.starti_ <= list[i].starti_

LEMMA NormalIsSorted ==
    ASSUME NEW list, Normal(list),
           NEW i \in 1 .. Len(list), NEW j \in 1 .. Len(list), i <= j
    PROVE  list[i].starti_ <= list[j].starti_
<1>1. /\ list[i].starti_ \in Nat /\ list[j].starti_ \in Nat /\ End(list[i]) \in Nat
      /\ list[i].starti_ < End(list[i])
  BY EntriesAre DEF Normal
<1>2. i = j \/ i < j
  BY EntriesAre DEF Normal
<1>3. i < j => End(list[i]) <= list[j].starti_
  BY DEF Normal
<1> QED BY <1>1, <1>2, <1>3

LEMMA InsertAtIs ==
    ASSUME NEW list \in Seq(Entry), NEW m \in 1 .. Len(list), NEW e \in Entry
    PROVE  /\ InsertAt(list, m, e) \in Seq(Entry)
           /\ Len(InsertAt(list, m, e)) = Len(list) + 1
           /\ \A i \in 1 .. (Len(list) + 1) : InsertAt(list, m, e)[i]
                = IF i < m THEN list[i] ELSE IF i = m THEN e ELSE list[i - 1]
<1> DEFINE a == SubSeq(list, 1, m - 1)
           b == SubSeq(list, m, Len(list))
           ae == a \o <<e>>
<1>1. Len(list) \in Nat /\ m \in Nat /\ m - 1 \in Nat
  BY LenProperties
<1>2. /\ a \in Seq(Entry) /\ Len(a) = m - 1
      /\ \A i \in 1 .. (m - 1) : a[i] = list[i]
  <2>1. \A i \in 1 .. (m - 1) : list[i] \in Entry
    BY <1>1, ElementOfSeq
  <2>2. \A i \in 1 .. (m - 1) - 1 + 1 : 1 + i - 1 = i
    BY <1>1
  <2> QED BY <1>1, <2>1, <2>2, SubSeqProperties
<1>3. /\ b \in Seq(Entry) /\ Len(b) = Len(list) - m + 1
      /\ \A i \in 1 .. Len(list) - m + 1 : b[i] = list[m + i - 1]
  <2>1. \A i \in m .. Len(list) : list[i] \in Entry
    BY <1>1, ElementOfSeq
  <2> QED BY <1>1, <2>1, SubSeqProperties
<1>4. <<e>> \in Seq(Entry) /\ Len(<<e>>) = 1 /\ <<e>>[1] = e
  OBVIOUS
<1> HIDE DEF a, b
<1>5. /\ ae \in Seq(Entry) /\ Len(ae) = m
      /\ \A i \in 1 .. m : ae[i] = IF i <= m - 1 THEN a[i] ELSE <<e>>[i - (m - 1)]
  <2>1. /\ ae \in Seq(Entry) /\ Len(ae) = (m - 1) + 1
        /\ \A i \in 1 .. (m - 1) + 1 :
             ae[i] = IF i <= m - 1 THEN a[i] ELSE <<e>>[i - (m - 1)]
    BY <1>2, <1>4, ConcatProperties
  <2> QED BY <1>1, <2>1
<1>6. \A i \in 1 .. m : ae[i] = IF i < m THEN list[i] ELSE e
  <2> SUFFICES ASSUME NEW i \in 1 .. m PROVE ae[i] = IF i < m THEN list[i] ELSE e
    OBVIOUS
  <2> HIDE DEF ae
  <2>1. CASE i < m
    BY <1>1, <1>2, <1>5, <2>1
  <2>2. CASE i = m
    <3>1. ~(i <= m - 1) /\ i - (m - 1) = 1
      BY <1>1, <2>2
    <3> QED BY <1>4, <1>5, <2>2, <3>1
  <2> QED BY <1>1, <2>1, <2>2
<1> HIDE DEF ae
<1>7. /\ ae \o b \in Seq(Entry) /\ Len(ae \o b) = Len(list) + 1
      /\ \A i \in 1 .. (Len(list) + 1) :
           (ae \o b)[i] = IF i <= m THEN ae[i] ELSE b[i - m]
  <2>1. /\ ae \o b \in Seq(Entry) /\ Len(ae \o b) = m + (Len(list) - m + 1)
        /\ \A i \in 1 .. m + (Len(list) - m + 1) :
             (ae \o b)[i] = IF i <= m THEN ae[i] ELSE b[i - m]
    <3>1. /\ ae \o b \in Seq(Entry) /\ Len(ae \o b) = Len(ae) + Len(b)
          /\ \A i \in 1 .. Len(ae) + Len(b) :
               (ae \o b)[i] = IF i <= Len(ae) THEN ae[i] ELSE b[i - Len(ae)]
      BY <1>3, <1>5, ConcatProperties
    <3> QED BY <1>3, <1>5, <3>1
  <2>2. m + (Len(list) - m + 1) = Len(list) + 1
    BY <1>1
  <2> QED BY <2>1, <2>2
<1>8. \A i \in 1 .. (Len(list) + 1) : (ae \o b)[i]
        = IF i < m THEN list[i] ELSE IF i = m THEN e ELSE list[i - 1]
  <2> SUFFICES ASSUME NEW i \in 1 .. (Len(list) + 1)
               PROVE  (ae \o b)[i]
                        = IF i < m THEN list[i] ELSE IF i = m THEN e ELSE list[i - 1]
    OBVIOUS
  <2>1. CASE i <= m
    BY <1>1, <1>6, <1>7, <2>1
  <2>2. CASE i > m
    <3>1. i - m \in 1 .. Len(list) - m + 1 /\ m + (i - m) - 1 = i - 1
      BY <1>1, <2>2
    <3>2. ~(i <= m) /\ ~(i < m) /\ i # m
      BY <1>1, <2>2
    <3> QED BY <1>3, <1>7, <3>1, <3>2
  <2>3. i <= m \/ i > m
    BY <1>1
  <2> QED BY <2>1, <2>2, <2>3
<1>9. InsertAt(list, m, e) = ae \o b
  BY DEF InsertAt, a, b, ae
<1> QED BY <1>7, <1>8, <1>9

LEMMA PlaceIsRight ==
    ASSUME NEW list, Normal(list), NEW e \in Entry, e.len > 0
    PROVE  \E m \in Nat : PlacedAt(list, e, m, Place(list, e))
<1>1. /\ list \in Seq(Entry) /\ Solid(list) /\ Len(list) \in Nat
      /\ e.starti_ \in Nat /\ e.len \in Nat /\ e.len # 0
  BY EntriesAre DEF Normal, Solid, Entry
<1>2. \A i \in 1 .. Len(list) : list[i].starti_ \in Nat
  BY <1>1, EntriesAre
<1>3. CASE list = <<>> \/ e.starti_ > Last(list).starti_
  <2> DEFINE m == Len(list) + 1
  <2>1. Place(list, e) = Append(list, e)
    BY <1>1, <1>3 DEF Place
  <2>2. /\ Append(list, e) \in Seq(Entry)
        /\ Len(Append(list, e)) = Len(list) + 1
        /\ \A i \in 1 .. Len(list) : Append(list, e)[i] = list[i]
        /\ Append(list, e)[Len(list) + 1] = e
    BY <1>1, AppendProperties
  <2>3. ASSUME NEW i \in 1 .. Len(list) PROVE list[i].starti_ < e.starti_
    <3>1. Len(list) \in 1 .. Len(list) /\ i <= Len(list) /\ list # <<>>
      BY <1>1, HeldNothing
    <3>2. list[i].starti_ <= list[Len(list)].starti_
      BY <3>1, NormalIsSorted
    <3>3. list[Len(list)].starti_ < e.starti_
      BY <1>1, <1>2, <1>3, <3>1 DEF Last
    <3> QED BY <1>1, <1>2, <3>1, <3>2, <3>3
  <2>4. PlacedAt(list, e, m, Append(list, e))
    BY <1>1, <2>2, <2>3 DEF PlacedAt
  <2> QED BY <1>1, <2>1, <2>4
<1>4. CASE ~(list = <<>> \/ e.starti_ > Last(list).starti_)
  <2> DEFINE T == {i \in 1 .. Len(list) : e.starti_ <= list[i].starti_}
  <2>1. Len(list) \in T /\ T \in SUBSET Nat
    <3>1. Len(list) \in 1 .. Len(list)
      BY <1>1, <1>4, HeldNothing
    <3>2. e.starti_ <= list[Len(list)].starti_
      BY <1>1, <1>2, <1>4, <3>1 DEF Last
    <3> QED BY <1>1, <3>1, <3>2
  <2> DEFINE m == Min(T)
  <2>2. m \in T /\ \A k \in T : m <= k
    <3> HIDE DEF T
    <3>1. \E x \in T : \A k \in T : x <= k
      BY <2>1, LeastElement
    <3> QED BY <3>1 DEF Min
  <2>3. SelectInSeq(list, LAMBDA x : e.starti_ <= x.starti_) = m
    BY <2>1 DEF SelectInSeq
  <2>4. Place(list, e) = InsertAt(list, m, e)
    BY <1>1, <1>4, <2>3 DEF Place
  <2> HIDE DEF m
  <2>5. m \in 1 .. Len(list) /\ e.starti_ <= list[m].starti_
    BY <2>2
  <2>6. ASSUME NEW i \in 1 .. Len(list)
        PROVE  IF i < m THEN list[i].starti_ < e.starti_ ELSE e.starti_ <= list[i].starti_
    <3>1. CASE i < m
      <4>1. i \notin T
        BY <1>1, <2>2, <2>5, <3>1
      <4> QED BY <1>1, <1>2, <3>1, <4>1
    <3>2. CASE ~(i < m)
      <4>1. m <= i
        BY <1>1, <2>5, <3>2
      <4>2. list[m].starti_ <= list[i].starti_
        BY <2>5, <4>1, NormalIsSorted
      <4> QED BY <1>1, <1>2, <2>5, <3>2, <4>2
    <3> QED BY <3>1, <3>2
  <2>7. PlacedAt(list, e, m, InsertAt(list, m, e))
    <3>1. /\ InsertAt(list, m, e) \in Seq(Entry)
          /\ Len(InsertAt(list, m, e)) = Len(list) + 1
          /\ \A i \in 1 .. (Len(list) + 1) : InsertAt(list, m, e)[i]
               = IF i < m THEN list[i] ELSE IF i = m THEN e ELSE list[i - 1]
      <4>1. \A k \in 1 .. Len(list) :
              /\ InsertAt(list, k, e) \in Seq(Entry)
              /\ Len(InsertAt(list, k, e)) = Len(list) + 1
              /\ \A i \in 1 .. (Len(list) + 1) : InsertAt(list, k, e)[i]
                   = IF i < k THEN list[i] ELSE IF i = k THEN e ELSE list[i - 1]
        BY <1>1, InsertAtIs
      <4> QED BY <2>5, <4>1
    <3>2. m \in 1 .. (Len(list) + 1)
      BY <1>1, <2>5
    <3> QED BY <2>6, <3>1, <3>2 DEF PlacedAt
  <2> QED BY <1>1, <2>4, <2>5, <2>7
<1> QED BY <1>3, <1>4

\* The list with the new entry is sorted, and only the new entry may share
\* bytes with others.
LEMMA PlacedIsNormalBut ==
    ASSUME NEW list, Normal(list), NEW e \in Entry, e.len > 0, NEW m \in Nat,
           NEW new, PlacedAt(list, e, m, new)
    PROVE  /\ NormalBut(new, m)
           /\ m \in 1 .. Len(new) /\ new[m] = e
           /\ HeldTo(new, Len(new)) = Held(list) \union Bytes(e)
           /\ OthersTo(new, m, Len(new)) = Held(list)
<1>1. /\ Solid(list) /\ Len(list) \in Nat /\ DOMAIN list = 1 .. Len(list)
      /\ e.starti_ \in Nat
      /\ Len(new) = Len(list) + 1 /\ m \in 1 .. (Len(list) + 1)
  BY EntriesAre DEF Normal, PlacedAt, Entry
<1>2. \A i \in 1 .. Len(list) :
        /\ list[i].starti_ \in Nat /\ End(list[i]) \in Nat
        /\ list[i].starti_ < End(list[i]) /\ list[i].len > 0
  BY <1>1, EntriesAre
<1>3. new[m] = e
  BY <1>1 DEF PlacedAt
<1>4. ASSUME NEW i \in 1 .. Len(new), i # m
      PROVE  \E k \in 1 .. Len(list) :
               /\ k = (IF i < m THEN i ELSE i - 1)
               /\ new[i] = list[k]
               /\ k < m => i < m /\ list[k].starti_ < e.starti_
               /\ k >= m => i > m /\ e.starti_ <= list[k].starti_
  <2> DEFINE k == IF i < m THEN i ELSE i - 1
  <2>1. k \in 1 .. Len(list) /\ (k < m <=> i < m) /\ (k >= m <=> i > m)
    BY <1>1, <1>4
  <2>2. new[i] = list[k]
    BY <1>1, <1>4 DEF PlacedAt
  <2> HIDE DEF k
  <2>3. IF k < m THEN list[k].starti_ < e.starti_ ELSE e.starti_ <= list[k].starti_
    BY <2>1 DEF PlacedAt
  <2>4. k < m \/ k >= m
    BY <1>1, <2>1
  <2>5. k >= m => ~(k < m)
    BY <1>1, <2>1
  <2>6. (k < m => list[k].starti_ < e.starti_) /\ (k >= m => e.starti_ <= list[k].starti_)
    BY <2>3, <2>5
  <2> QED BY <2>1, <2>2, <2>6 DEF k
<1>5. Solid(new)
  <2>1. new \in Seq(Entry)
    BY DEF PlacedAt
  <2>2. ASSUME NEW i \in 1 .. Len(new) PROVE new[i].len > 0
    <3>1. CASE i = m
      BY <1>3, <3>1
    <3>2. CASE i # m
      BY <1>2, <1>4, <3>2
    <3> QED BY <3>1, <3>2
  <2> QED BY <2>1, <2>2 DEF Solid
<1>6. ASSUME NEW i \in 1 .. Len(new), NEW j \in 1 .. Len(new), i < j
      PROVE  /\ new[i].starti_ <= new[j].starti_
             /\ i # m /\ j # m => End(new[i]) <= new[j].starti_
  <2>1. CASE i # m /\ j # m
    <3>1. PICK k \in 1 .. Len(list) :
            k = (IF i < m THEN i ELSE i - 1) /\ new[i] = list[k]
      BY <1>4, <2>1
    <3>2. PICK l \in 1 .. Len(list) :
            l = (IF j < m THEN j ELSE j - 1) /\ new[j] = list[l]
      BY <1>4, <2>1
    <3>3. k < l
      BY <1>1, <1>6, <2>1, <3>1, <3>2
    <3>4. End(list[k]) <= list[l].starti_
      BY <3>3 DEF Normal
    <3>5. /\ list[k].starti_ \in Nat /\ End(list[k]) \in Nat /\ list[l].starti_ \in Nat
          /\ list[k].starti_ < End(list[k])
      BY <1>2
    <3>6. list[k].starti_ <= list[l].starti_
      BY <3>4, <3>5
    <3> QED BY <3>1, <3>2, <3>4, <3>6
  <2>2. CASE i = m
    <3>1. PICK k \in 1 .. Len(list) :
            /\ new[j] = list[k]
            /\ k < m => j < m
            /\ k >= m => e.starti_ <= list[k].starti_
      BY <1>1, <1>4, <1>6, <2>2
    <3>2. k >= m
      BY <1>1, <1>6, <2>2, <3>1
    <3> QED BY <1>3, <2>2, <3>1, <3>2
  <2>3. CASE j = m
    <3>1. PICK k \in 1 .. Len(list) :
            /\ new[i] = list[k]
            /\ k >= m => i > m
            /\ k < m => list[k].starti_ < e.starti_
      BY <1>1, <1>4, <1>6, <2>3
    <3>2. k < m
      BY <1>1, <1>6, <2>3, <3>1
    <3> QED BY <1>1, <1>2, <1>3, <2>3, <3>1, <3>2
  <2> QED BY <2>1, <2>2, <2>3
<1>7. NormalBut(new, m)
  BY <1>5, <1>6 DEF NormalBut
<1>8. OthersTo(new, m, Len(new)) = Held(list)
  <2>1. ASSUME NEW i \in (1 .. Len(new)) \ {m}
        PROVE  \E k \in 1 .. Len(list) : new[i] = list[k]
    BY <1>4
  <2>2. ASSUME NEW k \in 1 .. Len(list)
        PROVE  \E i \in (1 .. Len(new)) \ {m} : new[i] = list[k]
    <3>1. CASE k < m
      <4>1. k \in (1 .. Len(new)) \ {m}
        BY <1>1, <3>1
      <4>2. new[k] = list[k]
        BY <3>1, <4>1 DEF PlacedAt
      <4> QED BY <4>1, <4>2
    <3>2. CASE ~(k < m)
      <4>1. k + 1 \in (1 .. Len(new)) \ {m} /\ ~(k + 1 < m) /\ (k + 1) - 1 = k
        BY <1>1, <3>2
      <4>2. new[k + 1] = list[k]
        BY <4>1 DEF PlacedAt
      <4> QED BY <4>1, <4>2
    <3> QED BY <3>1, <3>2
  <2> QED BY <1>1, <2>1, <2>2 DEF OthersTo, Held
<1>9. HeldTo(new, Len(new)) = OthersTo(new, m, Len(new)) \union Bytes(new[m])
  BY <1>1 DEF HeldTo, OthersTo
<1> QED BY <1>1, <1>3, <1>7, <1>8, <1>9

-----------------------------------------------------------------------------
\* The specification

InWindowNormal(list, s) ==
    /\ Normal(list)
    /\ StreamOK(s)
    /\ \A i \in 1 .. Len(list) :
         s.pushed < list[i].starti_ /\ End(list[i]) <= Limit(s)

\* The inductive invariant: the list is disjoint pair by pair, beyond the
\* gap, inside the window, and counted right.
IInv ==
    /\ InWindowNormal(substrs_, output)
    /\ output.capacity = Capacity
    /\ IsFiniteSet(Held(substrs_))
    /\ nbytes_substrs_ = Cardinality(Held(substrs_))
    /\ should_close_ \in BOOLEAN
    /\ (0 .. (output.pushed - 1)) \union Held(substrs_) = received

THEOREM InitIInv == Init => IInv
<1> SUFFICES ASSUME Init PROVE IInv
  OBVIOUS
<1>1. StreamOK(output) /\ output.capacity = Capacity
  BY SubstringsAssumption DEF Init, EmptyStream, StreamOK, StreamType
<1>2. /\ Normal(substrs_) /\ Len(substrs_) = 0
      /\ IsFiniteSet(Held(substrs_)) /\ Cardinality(Held(substrs_)) = 0
  BY HeldNothing, FS_EmptySet DEF Init
<1>3. 1 .. Len(substrs_) = {}
  BY <1>2
<1>4. (0 .. (output.pushed - 1)) \union Held(substrs_) = received
  BY HeldNothing DEF Init, EmptyStream
<1> QED BY <1>1, <1>2, <1>3, <1>4 DEF Init, IInv, InWindowNormal

THEOREM Correctness == IInv => ListIsNormal
<1> SUFFICES ASSUME IInv PROVE ListIsNormal
  OBVIOUS
<1>1. /\ StreamOK(output) /\ Normal(substrs_)
      /\ DOMAIN substrs_ = 1 .. Len(substrs_) /\ Len(substrs_) \in Nat
      /\ output.pushed \in Nat
  BY EntriesAre, StreamFacts DEF IInv, InWindowNormal, Normal
<1>2. limit = Limit(output)
  BY DEF limit, Limit
<1>3. ASSUME NEW i \in DOMAIN substrs_
      PROVE  /\ substrs_[i].len > 0
             /\ substrs_[i].starti_ > output.pushed
             /\ End(substrs_[i]) <= limit
             /\ i < Len(substrs_) => End(substrs_[i]) <= substrs_[i + 1].starti_
  <2>1. i \in 1 .. Len(substrs_)
    BY <1>1
  <2>2. /\ substrs_[i].starti_ > output.pushed /\ End(substrs_[i]) <= limit
    BY <1>1, <1>2, <2>1, EntriesAre DEF IInv, InWindowNormal, Normal
  <2>3. i < Len(substrs_) => i + 1 \in 1 .. Len(substrs_) /\ i < i + 1
    BY <1>1, <2>1
  <2>4. i < Len(substrs_) => End(substrs_[i]) <= substrs_[i + 1].starti_
    BY <1>1, <2>1, <2>3 DEF Normal
  <2> QED BY <1>1, <2>1, <2>2, <2>4 DEF Normal, Solid
<1> QED BY <1>1, <1>3 DEF ListIsNormal, IInv, bytes_pending

\* Placing a substring and trimming the list adds its bytes to the list, each
\* once, and the count goes along.
LEMMA PlacedAndTrimmed ==
    ASSUME NEW list, Normal(list), IsFiniteSet(Held(list)), NEW e \in Entry
    PROVE  LET t == Trim(Place(list, e))
           IN  /\ Normal(t.list) /\ t.removed \in Nat
               /\ Held(t.list) = Held(list) \union Bytes(e)
               /\ IsFiniteSet(Held(t.list))
               /\ t.removed + Cardinality(Held(t.list)) = Cardinality(Held(list)) + e.len
<1> DEFINE new == Place(list, e)
           t == Trim(new)
<1>1. e.starti_ \in Nat /\ e.len \in Nat /\ Cardinality(Held(list)) \in Nat
  BY FS_CardinalityType DEF Entry
<1>2. CASE e.len > 0
  <2>1. PICK m \in Nat : PlacedAt(list, e, m, new)
    BY <1>2, PlaceIsRight
  <2> HIDE DEF new
  <2>2. /\ NormalBut(new, m) /\ m \in 1 .. Len(new) /\ new[m] = e
        /\ HeldTo(new, Len(new)) = Held(list) \union Bytes(e)
        /\ OthersTo(new, m, Len(new)) = Held(list)
    BY <1>2, <2>1, PlacedIsNormalBut
  <2>3. Trimmed(new, m, Len(new), t)
    BY <2>2, TrimIsRight
  <2> HIDE DEF t
  <2>4. t.removed + Cardinality(Held(t.list)) = Cardinality(Held(list)) + e.len
    BY <2>2, <2>3 DEF Trimmed
  <2>5. Held(t.list) = Held(list) \union Bytes(e)
    BY <2>2, <2>3 DEF Trimmed
  <2>6. Normal(t.list) /\ t.removed \in Nat /\ IsFiniteSet(Held(t.list))
    BY <2>3 DEF Trimmed
  <2> QED BY <2>4, <2>5, <2>6 DEF t, new
<1>3. CASE ~(e.len > 0)
  <2>1. e.len = 0 /\ Bytes(e) = {}
    BY <1>1, <1>3 DEF Bytes, End
  <2>2. new = list
    BY <2>1 DEF Place
  <2>3. Solid(list) /\ Len(list) \in Nat
    BY EntriesAre DEF Normal
  <2>4. NormalBut(list, 0)
    <3>1. \A i, j \in 1 .. Len(list) : i < j => i <= j
      BY <2>3
    <3> QED BY <2>3, <3>1, NormalIsSorted DEF NormalBut, Normal
  <2>5. Trimmed(list, 0, Len(list), Trim(list))
    BY <2>4, TrimIsRight
  <2>6. 0 \notin 1 .. Len(list) /\ (1 .. Len(list)) \ {0} = 1 .. Len(list)
    BY <2>3
  <2>7. OthersTo(list, 0, Len(list)) = Held(list) /\ HeldTo(list, Len(list)) = Held(list)
    BY <2>3, <2>6, HeldIsHeldTo DEF OthersTo, HeldTo
  <2>8. t = Trim(list)
    BY <2>2
  <2> HIDE DEF t, new
  <2>9. Held(t.list) = Held(list) \union Bytes(e)
    BY <2>1, <2>5, <2>7, <2>8 DEF Trimmed
  <2>10. t.removed + Cardinality(Held(t.list)) = Cardinality(Held(list)) + e.len
    <3>1. t.removed + Cardinality(Held(t.list)) = Cardinality(Held(list)) + 0
      BY <2>5, <2>6, <2>7, <2>8 DEF Trimmed
    <3> QED BY <2>1, <3>1
  <2>11. Normal(t.list) /\ t.removed \in Nat /\ IsFiniteSet(Held(t.list))
    BY <2>5, <2>8 DEF Trimmed
  <2> QED BY <2>9, <2>10, <2>11 DEF t, new
<1> QED BY <1>2, <1>3

LEMMA InsertStep ==
    ASSUME IInv, NEW first \in Nat, NEW len \in Nat, NEW last \in BOOLEAN,
           insert(first, len, last)
    PROVE  IInv' /\ Abstract!insert(first, len, last)
<1> DEFINE size    == Resized(first, len)
           pushed  == IF Direct(first, size)
                      THEN PushTo(output, first + size - output.pushed)
                      ELSE output
           data    == [starti_ |-> first,
                       len |-> IF Direct(first, size) THEN 0 ELSE size]
           trimmed == Trim(Place(substrs_, data))
           flushed == Flush(trimmed.list, pushed)
           pending == nbytes_substrs_ + data.len - trimmed.removed - flushed.removed
           closing == should_close_ \/ last
           p0 == output.pushed
           p1 == pushed.pushed
           next == flushed.output.pushed
<1>1. /\ first < limit
      /\ substrs_' = flushed.list
      /\ nbytes_substrs_' = pending
      /\ should_close_' = closing
      /\ output' = CloseWhenEmpty(flushed.output, closing, pending)
      /\ received' = received \union
           {i \in first .. (first + len - 1) : output.pushed <= i /\ i < limit}
      /\ overtook' = (overtook \/ Overtakes(last, received'))
      /\ Substring(first, len, last)
  BY DEF insert
<1> HIDE DEF size
<1>2. /\ Normal(substrs_) /\ StreamOK(output) /\ output \in StreamType
      /\ IsFiniteSet(Held(substrs_)) /\ Cardinality(Held(substrs_)) \in Nat
      /\ nbytes_substrs_ = Cardinality(Held(substrs_))
      /\ output.pushed \in Nat /\ output.popped \in Nat /\ output.capacity \in Nat
      /\ limit = output.popped + output.capacity /\ limit \in Nat /\ limit = Limit(output)
      /\ output.pushed <= limit /\ output.capacity = Capacity
      /\ should_close_ \in BOOLEAN
  BY StreamFacts, FS_CardinalityType DEF IInv, InWindowNormal, limit, Limit
<1>3. /\ size \in Nat
      /\ size = IF first + len > limit THEN limit - first ELSE len
      /\ first + size <= limit
  BY <1>1, <1>2, SMTT(30) DEF size, Resized, End
<1>4. data \in Entry /\ data.starti_ = first /\ data.len \in Nat
  BY <1>3 DEF Entry
\* The stream after the direct push.
<1>5. /\ p1 \in Nat /\ p0 <= p1 /\ p1 <= limit
      /\ pushed = [output EXCEPT !.pushed = p1]
      /\ (0 .. (p1 - 1)) \union Bytes(data)
           = (0 .. (p0 - 1)) \union
             {i \in first .. (first + len - 1) : output.pushed <= i /\ i < limit}
  <2>1. CASE Direct(first, size)
    <3>1. output.pushed >= first /\ output.pushed < first + size
      BY <2>1 DEF Direct
    <3>2. Fitting(output, first + size - output.pushed) = first + size - output.pushed
      BY <1>2, <1>3, <3>1 DEF Fitting, AtMost, Available, Buffered
    <3>3. pushed = [output EXCEPT !.pushed = @ + (first + size - output.pushed)]
      BY <2>1, <3>2 DEF PushTo
    <3>4. pushed = [output EXCEPT !.pushed = first + size] /\ p1 = first + size
      BY <1>2, <1>3, <3>3 DEF StreamType
    <3>5. Bytes(data) = {}
      BY <1>3, <2>1 DEF Bytes, End
    <3> HIDE DEF pushed, data, p1
    <3>6. (0 .. (p1 - 1)) = (0 .. (p0 - 1)) \union
             {i \in first .. (first + len - 1) : output.pushed <= i /\ i < limit}
      BY <1>2, <1>3, <3>1, <3>4
    <3> QED BY <1>2, <1>3, <3>1, <3>4, <3>5, <3>6
  <2>2. CASE ~Direct(first, size)
    <3>1. pushed = output /\ p1 = p0 /\ data.len = size
      BY <2>2
    <3>2. Bytes(data) = first .. (first + size - 1)
      <4>1. data.starti_ = first /\ data.len = size
        BY <1>4, <3>1
      <4> HIDE DEF data
      <4>2. End(data) = first + size
        BY <4>1 DEF End
      <4>3. Bytes(data) = data.starti_ .. (End(data) - 1)
        BY DEF Bytes
      <4> QED BY <1>3, <4>1, <4>2, <4>3
    <3>3. output.pushed < first \/ output.pushed >= first + size
      BY <1>2, <1>3, <2>2 DEF Direct
    <3> HIDE DEF pushed, data, p1
    <3>4. (0 .. (p0 - 1)) \union (first .. (first + size - 1))
           = (0 .. (p0 - 1)) \union
             {i \in first .. (first + len - 1) : output.pushed <= i /\ i < limit}
      BY <1>2, <1>3, <3>3
    <3>5. output = [output EXCEPT !.pushed = p0]
      BY <1>2 DEF StreamType
    <3> QED BY <1>2, <3>1, <3>2, <3>4, <3>5
  <2> QED BY <2>1, <2>2
<1> HIDE DEF pushed, data
<1>6. /\ Normal(trimmed.list) /\ trimmed.removed \in Nat
      /\ Held(trimmed.list) = Held(substrs_) \union Bytes(data)
      /\ IsFiniteSet(Held(trimmed.list))
      /\ trimmed.removed + Cardinality(Held(trimmed.list))
           = Cardinality(Held(substrs_)) + data.len
  BY <1>2, <1>4, PlacedAndTrimmed
<1> HIDE DEF trimmed
<1>7. StreamOK(pushed) /\ Limit(pushed) = limit /\ pushed.capacity = Capacity
      /\ pushed.pushed = p1 /\ pushed \in StreamType
  <2>1. /\ pushed.capacity = output.capacity /\ pushed.popped = output.popped
        /\ pushed.pushed = p1 /\ pushed \in StreamType
    BY <1>2, <1>5 DEF StreamType
  <2> HIDE DEF p1
  <2> QED BY <1>2, <1>5, <2>1 DEF StreamOK, Limit, Available, Buffered
<1>8. ASSUME NEW b \in Held(substrs_) \union Bytes(data)
      PROVE  b \in Nat /\ b < limit
  <2>1. CASE b \in Held(substrs_)
    <3>1. PICK i \in 1 .. Len(substrs_) : b \in Nat /\ b < End(substrs_[i])
      BY <1>2, <2>1, InHeldTo, HeldIsHeldTo, EntriesAre DEF Normal
    <3>2. End(substrs_[i]) <= limit /\ End(substrs_[i]) \in Nat
      BY <1>2, EntriesAre DEF IInv, InWindowNormal, Normal
    <3> QED BY <1>2, <3>1, <3>2
  <2>2. CASE b \in Bytes(data)
    <3>1. data.len <= size
      BY <1>3 DEF data
    <3>2. first <= b /\ b < first + data.len /\ b \in Int
      BY <1>4, <2>2 DEF Bytes, End
    <3> QED BY <1>2, <1>3, <1>4, <3>1, <3>2
  <2> QED BY <2>1, <2>2
<1>9. Fits(trimmed.list, pushed)
  <2>1. ASSUME NEW i \in 1 .. Len(trimmed.list) PROVE End(trimmed.list[i]) <= limit
    <3> DEFINE b == End(trimmed.list[i]) - 1
    <3>1. /\ End(trimmed.list[i]) \in Nat /\ b \in Nat
          /\ trimmed.list[i].starti_ <= b /\ b < End(trimmed.list[i])
          /\ Solid(trimmed.list) /\ Len(trimmed.list) \in Nat
      BY <1>6, EntriesAre DEF Normal
    <3> HIDE DEF b
    <3>2. b \in Held(trimmed.list)
      BY <3>1, InHeldTo, HeldIsHeldTo
    <3>3. b < limit
      BY <1>6, <1>8, <3>2
    <3> QED BY <1>2, <3>1, <3>3 DEF b
  <2> QED BY <1>6, <1>7, <2>1 DEF Fits
<1>10. Flushed(trimmed.list, pushed, Len(trimmed.list), flushed)
  BY <1>9, FlushIsRight
<1> HIDE DEF flushed
\* What is left is what Assembly says.
<1> DEFINE asm == [held |-> Held(substrs_), closing |-> should_close_]
           arriving == Abstract!Arriving(output, first, len)
           known == Abstract!Known(asm, output, first, len)
<1>11. /\ next \in Nat /\ p1 <= next /\ next <= limit
       /\ flushed.output = [pushed EXCEPT !.pushed = next]
       /\ Normal(flushed.list)
       /\ \A i \in 1 .. Len(flushed.list) :
            next < flushed.list[i].starti_ /\ End(flushed.list[i]) <= limit
  <2> HIDE DEF p1
  <2>1. next \in p1 .. limit
    BY <1>7, <1>10 DEF Flushed
  <2>2. Normal(flushed.list) /\ flushed.output = [pushed EXCEPT !.pushed = next]
    BY <1>10 DEF Flushed
  <2>3. \A i \in 1 .. Len(flushed.list) :
            flushed.list[i].starti_ > next /\ End(flushed.list[i]) <= limit
    BY <1>7, <1>10 DEF Flushed
  <2>4. \A i \in 1 .. Len(flushed.list) : flushed.list[i].starti_ \in Nat
    BY <2>2, EntriesAre DEF Normal
  <2> HIDE DEF next
  <2>5. next \in Nat /\ p1 <= next /\ next <= limit
    BY <1>2, <1>5, <2>1
  <2> QED BY <2>2, <2>3, <2>4, <2>5
<1>12. /\ Abstract!WindowEnd(output) = limit
       /\ arriving
            = {i \in first .. (first + len - 1) : output.pushed <= i /\ i < limit}
       /\ known = Held(substrs_) \union arriving
       /\ Abstract!InWindow(output, first)
  <2>1. Abstract!WindowEnd(output) = limit
    BY DEF Abstract!WindowEnd, Abstract!Available, Abstract!Buffered,
           limit, Available, Buffered
  <2>2. first >= 0
    OBVIOUS
  <2> QED BY <1>1, <2>1, <2>2 DEF Abstract!Arriving, Abstract!Known, Abstract!InWindow
<1>13. (0 .. (next - 1)) \union Held(flushed.list)
         = (0 .. (p0 - 1)) \union known
  <2> HIDE DEF p0, p1, arriving, known
  <2>1. (0 .. (next - 1)) \union Held(flushed.list)
          = (0 .. (p1 - 1)) \union HeldTo(trimmed.list, Len(trimmed.list))
    BY <1>7, <1>10 DEF Flushed
  <2>2. HeldTo(trimmed.list, Len(trimmed.list)) = Held(substrs_) \union Bytes(data)
    BY <1>6, HeldIsHeldTo DEF Normal
  <2>3. (0 .. (p1 - 1)) \union Bytes(data) = (0 .. (p0 - 1)) \union arriving
    BY <1>5, <1>12
  <2> QED BY <1>12, <2>1, <2>2, <2>3
<1>14. ASSUME NEW b \in Held(flushed.list) PROVE b \in Nat /\ next < b /\ b < limit
  <2>1. Solid(flushed.list) /\ Len(flushed.list) \in 0 .. Len(flushed.list)
    BY <1>11, EntriesAre DEF Normal
  <2>2. PICK i \in 1 .. Len(flushed.list) :
          b \in Nat /\ flushed.list[i].starti_ <= b /\ b < End(flushed.list[i])
    BY <2>1, <1>14, InHeldTo, HeldIsHeldTo
  <2>3. /\ flushed.list[i].starti_ \in Nat /\ End(flushed.list[i]) \in Nat
        /\ next < flushed.list[i].starti_ /\ End(flushed.list[i]) <= limit
    BY <1>11, <2>1, EntriesAre
  <2>4. next \in Nat
    BY <1>11
  <2>5. limit \in Nat
    BY <1>2
  <2> HIDE DEF next
  <2> QED BY <2>2, <2>3, <2>4, <2>5
<1>15. ASSUME NEW b \in known PROVE b \in Nat /\ p0 <= b
  <2>1. CASE b \in Held(substrs_)
    <3>1. Solid(substrs_) /\ Len(substrs_) \in 0 .. Len(substrs_)
      BY <1>2, EntriesAre DEF Normal
    <3>2. PICK i \in 1 .. Len(substrs_) : b \in Nat /\ substrs_[i].starti_ <= b
      BY <2>1, <3>1, InHeldTo, HeldIsHeldTo
    <3>3. substrs_[i].starti_ \in Nat /\ p0 < substrs_[i].starti_
      BY <3>1, EntriesAre DEF IInv, InWindowNormal
    <3> QED BY <1>2, <3>2, <3>3
  <2>2. CASE b \in arriving
    BY <1>2, <1>12, <2>2
  <2> QED BY <1>12, <2>1, <2>2
<1> HIDE DEF known, arriving
<1>16. /\ \A b \in p0 .. (next - 1) : b \in known
       /\ next \notin known
       /\ {b \in known : b > next} = Held(flushed.list)
  <2> HIDE DEF next, p0
  <2>0. p0 \in Nat /\ next \in Nat /\ p0 <= next
    <3>1. p1 \in Nat /\ p0 \in Nat
      BY <1>2, <1>5 DEF p0
    <3> HIDE DEF p1
    <3> QED BY <1>5, <1>11, <3>1
  <2>1. ASSUME NEW b \in p0 .. (next - 1) PROVE b \in known
    <3>1. b \in 0 .. (next - 1) /\ b \notin 0 .. (p0 - 1)
      BY <2>0
    <3> QED BY <1>13, <3>1
  <2>2. next \notin known
    <3>1. next \notin 0 .. (next - 1) /\ next \notin Held(flushed.list)
      BY <1>14, <2>0
    <3> QED BY <1>13, <3>1
  <2>3. ASSUME NEW b \in known, b > next PROVE b \in Held(flushed.list)
    <3>1. b \in Nat /\ b \notin 0 .. (next - 1)
      BY <1>15, <2>0, <2>3
    <3> QED BY <1>13, <3>1
  <2>4. ASSUME NEW b \in Held(flushed.list) PROVE b \in known /\ b > next
    <3>1. b \in Nat /\ next < b
      BY <1>14
    <3>2. b \notin 0 .. (p0 - 1)
      BY <2>0, <3>1
    <3> QED BY <1>13, <2>0, <3>1, <3>2
  <2> QED BY <2>1, <2>2, <2>3, <2>4
<1>17. /\ Abstract!Reaches(asm, output, first, len, next)
       /\ Abstract!StillHeld(asm, output, first, len, next) = Held(flushed.list)
  <2>1. known = Abstract!Known(asm, output, first, len)
    BY DEF known
  <2> HIDE DEF next, asm
  <2> QED BY <1>16, <2>1 DEF Abstract!Reaches, Abstract!StillHeld
<1>18. /\ pending = Cardinality(Held(flushed.list)) /\ IsFiniteSet(Held(flushed.list))
       /\ pending = 0 <=> Held(flushed.list) = {}
  <2> DEFINE c0 == Cardinality(Held(substrs_))
             c1 == Cardinality(Held(trimmed.list))
             c2 == Cardinality(Held(flushed.list))
  <2>1. c0 \in Nat /\ nbytes_substrs_ = c0
    BY <1>2
  <2>2. c1 \in Nat /\ trimmed.removed \in Nat /\ trimmed.removed + c1 = c0 + data.len
    BY <1>6, FS_CardinalityType
  <2>3. Held(trimmed.list) = HeldTo(trimmed.list, Len(trimmed.list))
    BY <1>6, HeldIsHeldTo DEF Normal
  <2>4. flushed.removed \in Nat /\ flushed.removed + c2 = c1 /\ IsFiniteSet(Held(flushed.list))
    BY <1>10, <2>3 DEF Flushed
  <2>5. c2 \in Nat
    BY <2>4, FS_CardinalityType
  <2>6. c2 = 0 <=> Held(flushed.list) = {}
    BY <2>4, FS_EmptySet
  <2> HIDE DEF c0, c1, c2
  <2>7. pending = c2
    BY <1>4, <2>1, <2>2, <2>4, <2>5
  <2> QED BY <2>4, <2>6, <2>7 DEF c2
<1> HIDE DEF pending
<1>19. flushed.output = [output EXCEPT !.pushed = next]
  <2> HIDE DEF next, p1
  <2> QED BY <1>5, <1>11
<1>20. output' = Abstract!StreamAfter(asm, output, first, len, last, next)
  <2> HIDE DEF next
  <2>1. CASE closing /\ pending = 0
    <3>1. output' = [output EXCEPT !.pushed = next, !.closed = TRUE]
      BY <1>1, <1>2, <1>19, <2>1 DEF CloseWhenEmpty, CloseStream, StreamType
    <3>2. asm.closing \/ last
      BY <2>1
    <3> QED BY <1>2, <1>17, <1>18, <2>1, <3>1, <3>2 DEF Abstract!StreamAfter, StreamType
  <2>2. CASE ~(closing /\ pending = 0)
    <3>1. output' = [output EXCEPT !.pushed = next]
      BY <1>1, <1>19, <2>2 DEF CloseWhenEmpty
    <3>2. ~(asm.closing \/ last) \/ Held(flushed.list) # {}
      BY <1>18, <2>2
    <3> QED BY <1>2, <1>17, <3>1, <3>2 DEF Abstract!StreamAfter, StreamType
  <2> QED BY <2>1, <2>2
<1>21. [held |-> Held(substrs_), closing |-> should_close_]'
         = Abstract!AssemblyAfter(asm, output, first, len, last, next)
  <2>1. Held(substrs_)' = Held(flushed.list)
    BY <1>1 DEF Held
  <2>2. should_close_' = (asm.closing \/ last)
    BY <1>1
  <2> HIDE DEF asm, next
  <2> QED BY <1>17, <2>1, <2>2 DEF Abstract!AssemblyAfter
<1>22. Abstract!insert(first, len, last)
  <2>1. next \in output.pushed .. Abstract!WindowEnd(output)
    <3>1. p1 \in Nat /\ p0 \in Nat
      BY <1>2, <1>5
    <3> HIDE DEF p1, next
    <3> QED BY <1>2, <1>5, <1>11, <1>12, <3>1
  <2>2. Abstract!Substring(first, len, last)
    BY <1>1 DEF Substring, Abstract!Substring
  <2>3. received' = received \union Abstract!Arriving(output, first, len)
    BY <1>1, <1>12 DEF arriving
  <2>4. overtook' = (overtook \/ Abstract!Overtakes(last, received'))
    BY <1>1 DEF Overtakes, Abstract!Overtakes
  <2> HIDE DEF next
  <2> QED BY <1>12, <1>17, <1>20, <1>21, <2>1, <2>2, <2>3, <2>4 DEF Abstract!insert
<1>23. IInv'
  <2>1. /\ output'.pushed = next /\ output'.popped = output.popped
        /\ output'.capacity = output.capacity /\ output' \in StreamType
    <3>1. next \in Nat
      BY <1>11
    <3> HIDE DEF next
    <3> QED BY <1>1, <1>2, <1>19, <3>1 DEF CloseWhenEmpty, CloseStream, StreamType
  <2>2. StreamOK(output') /\ Limit(output') = limit
    <3>1. p1 \in Nat /\ output.popped <= p0 /\ p0 <= p1 /\ p0 \in Nat
      BY <1>2, <1>5 DEF StreamOK
    <3> HIDE DEF p1, p0, next
    <3> QED BY <1>2, <1>11, <2>1, <3>1 DEF StreamOK, Limit, Available, Buffered
  <2>3. InWindowNormal(substrs_', output')
    <3> HIDE DEF next
    <3> QED BY <1>1, <1>11, <2>1, <2>2 DEF InWindowNormal
  <2>4. /\ IsFiniteSet(Held(substrs_')) /\ nbytes_substrs_' = Cardinality(Held(substrs_'))
        /\ should_close_' \in BOOLEAN /\ output'.capacity = Capacity
    BY <1>1, <1>2, <1>18, <2>1
  <2>5. (0 .. (output'.pushed - 1)) \union Held(substrs_') = received'
    <3>1. (0 .. (p0 - 1)) \union Held(substrs_) = received
      BY DEF IInv
    <3> HIDE DEF p0, next
    <3> QED BY <1>1, <1>12, <1>13, <2>1, <3>1
  <2> QED BY <2>3, <2>4, <2>5 DEF IInv, Held
<1> QED BY <1>22, <1>23

LEMMA DrainStep ==
    ASSUME IInv, NEW n \in 1 .. Buffered(output), drain(n)
    PROVE  IInv' /\ Abstract!drain(n)
<1>1. /\ StreamOK(output) /\ output \in StreamType
      /\ output.pushed \in Nat /\ output.popped \in Nat /\ output.capacity \in Nat
      /\ Limit(output) = output.popped + output.capacity
      /\ output.popped <= output.pushed /\ output.pushed <= output.popped + output.capacity
      /\ Normal(substrs_)
  BY StreamFacts DEF IInv, InWindowNormal, StreamOK
<1>2. n \in Nat /\ n <= output.pushed - output.popped
  BY <1>1 DEF Buffered
<1>3. /\ output' = [output EXCEPT !.popped = @ + n]
      /\ UNCHANGED <<substrs_, nbytes_substrs_, should_close_, received, overtook>>
  BY DEF drain, PopFrom
<1>4. /\ output'.pushed = output.pushed /\ output'.popped = output.popped + n
      /\ output'.capacity = output.capacity /\ output' \in StreamType
  BY <1>1, <1>2, <1>3 DEF StreamType
<1>5. StreamOK(output')
  BY <1>1, <1>2, <1>4 DEF StreamOK
<1>6. Limit(output') = Limit(output) + n /\ Limit(output) \in Nat
  BY <1>1, <1>2, <1>4 DEF Limit, Available, Buffered
<1>7. ASSUME NEW i \in 1 .. Len(substrs_)
      PROVE  output'.pushed < substrs_[i].starti_ /\ End(substrs_[i]) <= Limit(output')
  <2>1. /\ output.pushed < substrs_[i].starti_ /\ End(substrs_[i]) <= Limit(output)
        /\ End(substrs_[i]) \in Nat
    BY <1>1, EntriesAre DEF IInv, InWindowNormal, Normal
  <2> QED BY <1>2, <1>4, <1>6, <2>1
<1>8. InWindowNormal(substrs_, output')
  BY <1>1, <1>5, <1>7 DEF InWindowNormal
<1>9. IInv'
  <2>1. (0 .. (output'.pushed - 1)) \union Held(substrs_') = received'
    BY <1>3, <1>4 DEF IInv, Held
  <2> QED BY <1>3, <1>4, <1>8, <2>1 DEF IInv, Held
<1>10. n <= Abstract!Buffered(output) /\ output' = Abstract!PopFrom(output, n)
  BY <1>2, <1>3 DEF Abstract!Buffered, Abstract!PopFrom
<1>11. UNCHANGED <<[held |-> Held(substrs_), closing |-> should_close_], received, overtook>>
  BY <1>3 DEF Held
<1> QED BY <1>9, <1>10, <1>11 DEF Abstract!drain

THEOREM StepPreserves == IInv /\ [Next]_vars => IInv' /\ [Abstract!Next]_(Abstract!vars)
<1> SUFFICES ASSUME IInv, [Next]_vars PROVE IInv' /\ [Abstract!Next]_(Abstract!vars)
  OBVIOUS
<1>1. ASSUME NEW first \in 0 .. Total, NEW last \in BOOLEAN,
             NEW len \in 0 .. (Total - first), insert(first, len, last)
      PROVE  IInv' /\ Abstract!Next
  <2>1. first \in Nat /\ len \in Nat
    BY SubstringsAssumption
  <2>2. IInv' /\ Abstract!insert(first, len, last)
    BY <1>1, <2>1, InsertStep
  <2> QED BY <1>1, <2>2 DEF Abstract!Next
<1>2. ASSUME NEW n \in 1 .. Buffered(output), drain(n)
      PROVE  IInv' /\ Abstract!Next
  <2>1. IInv' /\ Abstract!drain(n)
    BY <1>2, DrainStep
  <2>2. n \in 1 .. Abstract!Buffered(output)
    BY DEF Buffered, Abstract!Buffered
  <2> QED BY <2>1, <2>2 DEF Abstract!Next
<1>3. CASE UNCHANGED vars
  <2>1. IInv'
    BY <1>3 DEF vars, IInv, Held, InWindowNormal
  <2>2. UNCHANGED Abstract!vars
    BY <1>3 DEF vars, Abstract!vars, Held
  <2> QED BY <2>1, <2>2
<1> QED BY <1>1, <1>2, <1>3 DEF Next

THEOREM Invariance == Spec => []IInv
  BY InitIInv, StepPreserves, PTL DEF Spec

\* reassembler.cc:26-70 (src/src): the list stays sorted and disjoint, without
\* an empty entry, beyond the gap, inside the window, and counted right.
THEOREM ListAlwaysNormal == Spec => []ListIsNormal
  BY Invariance, Correctness, PTL

\* reassembler.cc (src/src): however the substrings arrive, the list and the
\* stream behave as the set of received bytes does.
THEOREM Refinement == Spec => ImplementsAssembly
<1>1. Init => Abstract!Init
  <2> SUFFICES ASSUME Init PROVE Abstract!Init
    OBVIOUS
  <2>1. Held(substrs_) = {}
    BY HeldNothing DEF Init
  <2> QED BY <2>1 DEF Init, Abstract!Init, Abstract!EmptyAssembly,
             Abstract!EmptyStream, EmptyStream
<1> QED BY <1>1, InitIInv, StepPreserves, PTL DEF Spec, ImplementsAssembly, Abstract!Spec

\* reassembler.cc (src/src): neither the list nor the stream loses a byte that
\* arrived inside the window, or holds one that did not.
THEOREM NothingEverLost == Spec => []NothingLost
<1>1. IInv => NothingLost
  BY DEF IInv, NothingLost, Abstract!NothingLost
<1> QED BY <1>1, Invariance, PTL

\* reassembler.cc:13-15, 43-70 (src/src): every byte held lies beyond the first
\* gap and inside the window, so that the stream and the list together never
\* hold more bytes than the capacity.
THEOREM AlwaysInWindow == Spec => []Abstract!HeldInWindow
<1>1. ASSUME IInv PROVE Abstract!HeldInWindow
  <2>1. /\ Solid(substrs_) /\ StreamOK(output)
        /\ \A i \in 1 .. Len(substrs_) :
             output.pushed < substrs_[i].starti_ /\ End(substrs_[i]) <= Limit(output)
    BY <1>1 DEF IInv, InWindowNormal, Normal
  <2>2. /\ output.pushed \in Nat /\ output.popped \in Nat
        /\ output.popped <= output.pushed /\ output.pushed <= output.popped + Capacity
        /\ Limit(output) = output.popped + Capacity
        /\ Abstract!WindowEnd(output) = Limit(output)
    BY <1>1, <2>1, StreamFacts DEF IInv, StreamOK, Limit, Available, Buffered,
         Abstract!WindowEnd, Abstract!Available, Abstract!Buffered
  <2>3. ASSUME NEW b \in Held(substrs_) PROVE output.pushed < b /\ b < Limit(output)
    <3>1. Len(substrs_) \in 0 .. Len(substrs_)
      BY <2>1, EntriesAre
    <3>2. PICK i \in 1 .. Len(substrs_) :
             b \in Nat /\ substrs_[i].starti_ <= b /\ b < End(substrs_[i])
      BY <2>1, <2>3, <3>1, InHeldTo, HeldIsHeldTo
    <3>3. substrs_[i].starti_ \in Nat /\ End(substrs_[i]) \in Nat
      BY <2>1, EntriesAre
    <3> QED BY <2>1, <2>2, <3>2, <3>3, SubstringsAssumption
  <2> QED BY <2>2, <2>3 DEF Abstract!HeldInWindow
<1> QED BY <1>1, Invariance, PTL

-----------------------------------------------------------------------------
\* When the stream closes

CloseInv ==
    /\ \A i \in received : i < Total
    /\ ~overtook /\ should_close_ => Total = 0 \/ Total - 1 \in received
    /\ ~overtook => (output.closed <=> should_close_ /\ Held(substrs_) = {})

LEMMA IInvFacts ==
    ASSUME IInv
    PROVE  /\ output.pushed \in Nat /\ output.closed \in BOOLEAN
           /\ output \in StreamType
           /\ (0 .. (output.pushed - 1)) \union Held(substrs_) = received
           /\ \A b \in Held(substrs_) : b \in Nat /\ output.pushed < b
           /\ should_close_ \in BOOLEAN
<1>1. /\ output.pushed \in Nat /\ output.closed \in BOOLEAN /\ output \in StreamType
      /\ Solid(substrs_) /\ Len(substrs_) \in 0 .. Len(substrs_)
  BY StreamFacts, EntriesAre DEF IInv, InWindowNormal, Normal, StreamType
<1>2. ASSUME NEW b \in Held(substrs_) PROVE b \in Nat /\ output.pushed < b
  <2>1. PICK i \in 1 .. Len(substrs_) : b \in Nat /\ substrs_[i].starti_ <= b
    BY <1>1, <1>2, InHeldTo, HeldIsHeldTo
  <2>2. substrs_[i].starti_ \in Nat /\ output.pushed < substrs_[i].starti_
    BY <1>1, EntriesAre DEF IInv, InWindowNormal
  <2> QED BY <1>1, <2>1, <2>2
<1> QED BY <1>1, <1>2 DEF IInv

\* A byte is in the stream, in the list, or has not arrived: so an empty list
\* with the last byte received means the whole stream is written.
LEMMA CloseInvSuffices ==
    ASSUME IInv, CloseInv
    PROVE  ~overtook => (output.closed <=> should_close_ /\ output.pushed = Total)
<1> USE SubstringsAssumption
<1>1. output.pushed <= Total
  <2>1. output.pushed > 0 => output.pushed - 1 \in received
    BY IInvFacts
  <2> QED BY <2>1, IInvFacts DEF CloseInv
<1>2. ASSUME ~overtook, should_close_, Held(substrs_) = {} PROVE output.pushed = Total
  <2>1. Total = 0 \/ Total - 1 \in received
    BY <1>2 DEF CloseInv
  <2> QED BY <1>1, <1>2, <2>1, IInvFacts
<1>3. ASSUME output.pushed = Total PROVE Held(substrs_) = {}
  <2>1. ASSUME NEW b \in Held(substrs_) PROVE FALSE
    <3>1. b \in received /\ b \in Nat /\ b > Total
      BY <1>3, IInvFacts
    <3>2. b < Total
      BY <3>1 DEF CloseInv
    <3> QED BY <3>1, <3>2
  <2> QED BY <2>1
<1> QED BY <1>2, <1>3 DEF CloseInv

LEMMA InsertCloses ==
    ASSUME IInv, CloseInv, NEW first \in 0 .. Total,
           NEW len \in 0 .. (Total - first), NEW last \in BOOLEAN,
           Abstract!insert(first, len, last)
    PROVE  CloseInv'
<1> DEFINE asm == [held |-> Held(substrs_), closing |-> should_close_]
           arriving == Abstract!Arriving(output, first, len)
<1> USE SubstringsAssumption
<1>1. PICK next \in output.pushed .. Abstract!WindowEnd(output) :
        /\ [held |-> Held(substrs_), closing |-> should_close_]'
             = Abstract!AssemblyAfter(asm, output, first, len, last, next)
        /\ output' = Abstract!StreamAfter(asm, output, first, len, last, next)
  BY DEF Abstract!insert
<1>2. /\ received' = received \union arriving
      /\ overtook' = (overtook \/ Overtakes(last, received'))
  BY DEF Abstract!insert, Abstract!Overtakes, Overtakes
<1>3. \A i \in received' : i < Total
  <2>1. \A i \in arriving : i < Total
    BY IInvFacts DEF Abstract!Arriving
  <2> HIDE DEF arriving
  <2> QED BY <1>2, <2>1 DEF CloseInv
<1>4. /\ should_close_' = (should_close_ \/ last)
      /\ Held(substrs_)' = Abstract!StillHeld(asm, output, first, len, next)
  <2> HIDE DEF asm
  <2>1. asm.closing = should_close_
    BY DEF asm
  <2> QED BY <1>1, <2>1 DEF Abstract!AssemblyAfter
<1>5. ~overtook' /\ should_close_' => Total = 0 \/ Total - 1 \in received'
  BY <1>2, <1>4 DEF CloseInv, Overtakes
<1>6. output'.closed = (output.closed \/ (should_close_' /\ Held(substrs_)' = {}))
  BY <1>1, <1>4, IInvFacts DEF Abstract!StreamAfter, StreamType
<1>7. ASSUME ~overtook', output.closed PROVE should_close_' /\ Held(substrs_)' = {}
  <2>1. ~overtook /\ should_close_ /\ Held(substrs_) = {}
    BY <1>2, <1>7 DEF CloseInv
  <2>2. output.pushed = Total
    BY <1>7, <2>1, CloseInvSuffices
  <2>3. \A i \in Abstract!Known(asm, output, first, len) : FALSE
    BY <2>1, <2>2, IInvFacts DEF Abstract!Known, Abstract!Arriving
  <2> QED BY <1>4, <2>1, <2>3 DEF Abstract!StillHeld
<1>8. ~overtook' => (output'.closed <=> should_close_' /\ Held(substrs_)' = {})
  BY <1>6, <1>7
<1> QED BY <1>3, <1>5, <1>8 DEF CloseInv

THEOREM CloseStep == IInv /\ CloseInv /\ [Next]_vars => CloseInv'
<1> SUFFICES ASSUME IInv, CloseInv, [Next]_vars PROVE CloseInv'
  OBVIOUS
<1>1. ASSUME NEW first \in 0 .. Total, NEW last \in BOOLEAN,
             NEW len \in 0 .. (Total - first), insert(first, len, last)
      PROVE  CloseInv'
  <2>1. first \in Nat /\ len \in Nat
    BY SubstringsAssumption
  <2> QED BY <1>1, <2>1, InsertStep, InsertCloses
<1>2. ASSUME NEW n \in 1 .. Buffered(output), drain(n) PROVE CloseInv'
  <2>1. /\ output'.closed = output.closed
        /\ UNCHANGED <<substrs_, should_close_, received, overtook>>
    BY <1>2, IInvFacts DEF drain, PopFrom, StreamType
  <2> QED BY <2>1 DEF CloseInv, Held
<1>3. CASE UNCHANGED vars
  BY <1>3 DEF vars, CloseInv, Held
<1> QED BY <1>1, <1>2, <1>3 DEF Next

\* reassembler.cc:17-19, 72-74 (src/src): by its own count of the list the code
\* closes the stream with its last byte, unless the mark of the last substring
\* was accepted without the last byte.
THEOREM AlwaysClosedWhenComplete == Spec => []ClosedWhenComplete
<1>1. Init => CloseInv
  <2> SUFFICES ASSUME Init PROVE CloseInv
    OBVIOUS
  <2> QED BY DEF Init, CloseInv, EmptyStream
<1>2. IInv /\ CloseInv => ClosedWhenComplete
  BY CloseInvSuffices DEF ClosedWhenComplete, Abstract!ClosedWhenComplete
<1> QED BY <1>1, <1>2, InitIInv, StepPreserves, CloseStep, PTL DEF Spec
=============================================================================
