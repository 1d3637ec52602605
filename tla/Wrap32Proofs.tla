---------------------------- MODULE Wrap32Proofs ----------------------------
(***************************************************************************)
(* What wrap and unwrap compute, for every even modulus and every pair of  *)
(* numbers.                                                                *)
(***************************************************************************)
EXTENDS Wrap32, TLAPS

\* Division with remainder by the modulus.
LEMMA DivMod ==
    ASSUME NEW a \in Int
    PROVE  /\ a = (M * (a \div M)) + (a % M)
           /\ a \div M \in Int
           /\ a % M \in Raw
  BY ModulusAssumption DEF Raw

\* The remainder is the only number of 0 .. M-1 that is a multiple of M away.
LEMMA ModUnique ==
    ASSUME NEW a \in Int, NEW q \in Int, NEW r \in Raw, a = (M * q) + r
    PROVE  a % M = r
<1> DEFINE d == q - (a \div M)
<1>1. d \in Int /\ a \div M \in Int /\ a % M \in Raw
  BY DivMod
<1>2. M * d = (a % M) - r
  BY DivMod, ModulusAssumption DEF Raw
<1>3. -M < M * d /\ M * d < M
  BY <1>1, <1>2, ModulusAssumption DEF Raw
<1> HIDE DEF d
<1>4. d = 0
  <2>1. ~(d >= 1)
    BY <1>1, <1>3, ModulusAssumption
  <2>2. ~(d <= -1)
    BY <1>1, <1>3, ModulusAssumption
  <2> QED BY <2>1, <2>2, <1>1
<1> QED BY <1>1, <1>2, <1>4, ModulusAssumption DEF Raw

\* The modulus is even, so its half is exact.
LEMMA HalfExact == Half \in Nat /\ M = 2 * Half /\ Half > 0
  BY ModulusAssumption DEF Half

LEMMA WrapType ==
    ASSUME NEW n \in Int, NEW zero \in Int
    PROVE  Wrap(n, zero) \in Raw
  BY DivMod DEF Wrap

\* Two numbers wrap to the same raw value exactly when they differ by a
\* multiple of the modulus.
LEMMA WrapCongruent ==
    ASSUME NEW m \in Int, NEW n \in Int, NEW zero \in Int,
           Wrap(m, zero) = Wrap(n, zero)
    PROVE  \E k \in Int : m = n + (M * k)
<1> DEFINE k == ((zero + m) \div M) - ((zero + n) \div M)
<1>1. /\ zero + m = (M * ((zero + m) \div M)) + Wrap(m, zero)
      /\ (zero + m) \div M \in Int
  BY DivMod DEF Wrap
<1>2. /\ zero + n = (M * ((zero + n) \div M)) + Wrap(n, zero)
      /\ (zero + n) \div M \in Int
  BY DivMod DEF Wrap
<1>3. k \in Int
  BY <1>1, <1>2
<1>4. Wrap(m, zero) \in Int
  BY WrapType, ModulusAssumption DEF Raw
<1>5. m = n + (M * k)
  BY <1>1, <1>2, <1>4, ModulusAssumption
<1> QED BY <1>3, <1>5

\* The offset from the checkpoint: raw minus the wrapped checkpoint, as a
\* number of 0 .. M-1 congruent to it.
LEMMA OffsetIs ==
    ASSUME NEW n \in Int, NEW zero \in Int, NEW c \in Int, NEW r \in Raw,
           NEW k \in Int, n - c = (M * k) + r
    PROVE  Offset(Wrap(n, zero), zero, c) = r
<1>1. /\ zero + n = (M * ((zero + n) \div M)) + Wrap(n, zero)
      /\ (zero + n) \div M \in Int
  BY DivMod DEF Wrap
<1>2. /\ zero + c = (M * ((zero + c) \div M)) + Wrap(c, zero)
      /\ (zero + c) \div M \in Int
  BY DivMod DEF Wrap
<1>3. Wrap(n, zero) \in Int /\ Wrap(c, zero) \in Int
  BY WrapType, ModulusAssumption DEF Raw
<1> DEFINE q == (k - ((zero + n) \div M)) + ((zero + c) \div M)
<1>4. q \in Int
  BY <1>1, <1>2
<1>5. Wrap(n, zero) - Wrap(c, zero) = (M * q) + r
  BY <1>1, <1>2, <1>3, ModulusAssumption DEF Raw
<1> HIDE DEF q
<1> QED BY <1>3, <1>4, <1>5, ModUnique DEF Offset

\* unwrap undoes wrap for every number within half the modulus of the
\* checkpoint: what the sender and the receiver both rely on.
THEOREM UnwrapWrap ==
    ASSUME NEW n \in Nat, NEW zero \in Raw, NEW c \in Nat,
           n - c <= Half, c - n < Half
    PROVE  Unwrap(Wrap(n, zero), zero, c) = n
<1>0. zero \in Int
  BY ModulusAssumption DEF Raw
<1>1. CASE n >= c
  <2>1. n - c \in Raw /\ n - c = (M * 0) + (n - c)
    BY <1>1, HalfExact, ModulusAssumption DEF Raw
  <2>2. Offset(Wrap(n, zero), zero, c) = n - c
    BY <1>0, <2>1, OffsetIs
  <2> QED BY <2>2 DEF Unwrap
<1>2. CASE n < c
  <2> DEFINE r == (n - c) + M
  <2>1. r \in Raw /\ n - c = (M * (-1)) + r /\ -1 \in Int
    BY <1>2, HalfExact, ModulusAssumption DEF Raw
  <2> HIDE DEF r
  <2>2. Offset(Wrap(n, zero), zero, c) = r
    BY <1>0, <2>1, OffsetIs
  <2>3. c + r = n + M /\ r > Half
    BY <1>2, <2>1, HalfExact, ModulusAssumption DEF Raw
  <2>4. ~(c + r < M) /\ (c + r) - c = r /\ (c + r) - M = n
    BY <2>3, <2>1, HalfExact, ModulusAssumption DEF Raw
  <2> QED BY <2>2, <2>3, <2>4, <2>1, HalfExact, ModulusAssumption DEF Unwrap, Raw
<1> QED BY <1>1, <1>2

\* The number unwrap returns is a natural that wraps to the given raw value.
THEOREM UnwrapSound ==
    ASSUME NEW raw \in Raw, NEW zero \in Raw, NEW c \in Nat
    PROVE  /\ Unwrap(raw, zero, c) \in Nat
           /\ Wrap(Unwrap(raw, zero, c), zero) = raw
           /\ \/ Unwrap(raw, zero, c) - c <= Half /\ c - Unwrap(raw, zero, c) < Half
              \/ c < Unwrap(raw, zero, c) /\ Unwrap(raw, zero, c) < M
<1> DEFINE o == Offset(raw, zero, c)
           up == c + o
<1>0. zero \in Int /\ raw \in Int
  BY ModulusAssumption DEF Raw
<1>1. Wrap(c, zero) \in Int
  BY <1>0, WrapType, ModulusAssumption DEF Raw
<1>2. o \in Raw
  BY <1>0, <1>1, DivMod DEF Offset
<1> HIDE DEF o
<1>3. PICK k \in Int : zero + up = (M * k) + raw
  <2>1. PICK i \in Int : raw - Wrap(c, zero) = (M * i) + o
    BY <1>0, <1>1, DivMod DEF Offset, o
  <2>2. PICK j \in Int : zero + c = (M * j) + Wrap(c, zero)
    BY <1>0, DivMod DEF Wrap
  <2>3. M * (j - i) = (M * j) - (M * i) /\ j - i \in Int
    BY <2>1, <2>2, ModulusAssumption
  <2>4. zero + up = (M * (j - i)) + raw
    BY <1>0, <1>1, <1>2, <2>1, <2>2, <2>3, ModulusAssumption DEF Raw
  <2> QED BY <2>3, <2>4
<1>4. up \in Nat /\ Wrap(up, zero) = raw
  <2>1. up \in Nat /\ zero + up \in Int
    BY <1>0, <1>2, ModulusAssumption DEF Raw
  <2>2. (zero + up) % M = raw
    BY <2>1, <1>3, ModUnique
  <2> QED BY <2>1, <2>2 DEF Wrap
<1>5. Wrap(up - M, zero) = raw
  <2>1. k - 1 \in Int /\ zero + (up - M) = (M * (k - 1)) + raw
    BY <1>0, <1>2, <1>3, ModulusAssumption DEF Raw
  <2>2. zero + (up - M) \in Int
    BY <1>0, <1>4, ModulusAssumption
  <2> QED BY <2>1, <2>2, ModUnique DEF Wrap
<1>6. Unwrap(raw, zero, c) = IF o <= Half \/ up < M THEN up ELSE up - M
  BY <1>2, ModulusAssumption DEF Unwrap, Raw, o
<1> HIDE DEF up
<1>7. up = c + o
  BY DEF up
<1>8. CASE o <= Half \/ up < M
  <2>1. Unwrap(raw, zero, c) = up
    BY <1>6, <1>8
  <2>2. CASE o <= Half
    BY <1>2, <1>4, <1>7, <2>1, <2>2, HalfExact, ModulusAssumption DEF Raw
  <2>3. CASE ~(o <= Half)
    BY <1>2, <1>4, <1>7, <1>8, <2>1, <2>3, HalfExact, ModulusAssumption DEF Raw
  <2> QED BY <2>2, <2>3
<1>9. CASE ~(o <= Half \/ up < M)
  <2>1. Unwrap(raw, zero, c) = up - M
    BY <1>6, <1>9
  <2> QED BY <1>2, <1>4, <1>5, <1>7, <1>9, <2>1, HalfExact, ModulusAssumption DEF Raw
<1> QED BY <1>8, <1>9

\* unwrap returns the absolute number closest to the checkpoint among the
\* naturals that wrap to the raw value (wrapping_integers.hh:27), whatever the
\* zero point and the checkpoint.
THEOREM UnwrapClosest ==
    ASSUME NEW raw \in Raw, NEW zero \in Raw, NEW c \in Nat, NEW limit \in Nat
    PROVE  IsClosest(Unwrap(raw, zero, c), raw, zero, c, limit)
<1> DEFINE u == Unwrap(raw, zero, c)
<1>1. /\ u \in Nat
      /\ Wrap(u, zero) = raw
      /\ \/ u - c <= Half /\ c - u < Half
         \/ c < u /\ u < M
  BY UnwrapSound
<1> HIDE DEF u
<1>2. ASSUME NEW v \in 0 .. limit, Wrap(v, zero) = raw
      PROVE  Distance(u, c) <= Distance(v, c)
  <2>0. zero \in Int /\ v \in Nat
    BY ModulusAssumption DEF Raw
  <2>1. PICK k \in Int : v = u + (M * k)
    BY <1>1, <1>2, <2>0, WrapCongruent
  <2>2. CASE k = 0
    BY <1>1, <2>1, <2>2, ModulusAssumption DEF Distance
  <2>3. CASE k >= 1
    <3>1. M * k >= M
      BY <2>3, ModulusAssumption
    <3>2. v >= u + M
      BY <1>1, <2>0, <2>1, <3>1, ModulusAssumption
    <3> QED BY <1>1, <2>0, <3>2, HalfExact, ModulusAssumption DEF Distance
  <2>4. CASE k <= -1
    <3>1. M * k <= -M
      BY <2>4, ModulusAssumption
    <3>2. v <= u - M
      BY <1>1, <2>0, <2>1, <3>1, ModulusAssumption
    <3> QED BY <1>1, <2>0, <3>2, HalfExact, ModulusAssumption DEF Distance
  <2> QED BY <2>1, <2>2, <2>3, <2>4
<1> QED BY <1>1, <1>2 DEF IsClosest, u
=============================================================================
