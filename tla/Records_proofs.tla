--------------------------- MODULE Records_proofs -----------------------------
(***************************************************************************)
(* Proofs about the components that encode, store, count and configure:    *)
(* Sv2Codec, OneTimeCodes, Backup, SavedWorkers, LiveConfig,               *)
(* WorkerHistory, ConnStats, BestShares and FoundBlockLog, each by itself  *)
(* and for every value of its constants.                                   *)
(***************************************************************************)
EXTENDS Sv2Codec, OneTimeCodes, Backup, SavedWorkers, LiveConfig,
        WorkerHistory, ConnStats, BestShares, FoundBlockLog,
        FiniteSetTheorems, SequenceTheorems, WellFoundedInduction, TLAPS

-----------------------------------------------------------------------------
(* Sets of numbers *)

\* Every set of natural numbers has a least one.
LEMMA LeastNatural == ASSUME NEW T \in SUBSET Nat, T # {} PROVE \E x \in T : \A y \in T : x <= y
<1> DEFINE R == OpToRel(<, Nat)
<1>1. IsWellFoundedOn(R, Nat)
  BY NatLessThanWellFounded, Zenon
<1>2. \A y, x \in Nat : y < x => <<y, x>> \in R
  BY DEF OpToRel
<1> HIDE DEF R
<1>3. PICK x \in T : \A y \in T : ~(<<y, x>> \in R)
  BY <1>1, WFMin
<1>4. ASSUME NEW y \in T PROVE x <= y
  <2>1. ~(<<y, x>> \in R) /\ x \in Nat /\ y \in Nat
    BY <1>3
  <2>2. ~(y < x)
    BY <1>2, <2>1
  <2> QED
    BY <2>1, <2>2
<1> QED
  BY <1>4

\* Max of a nonempty finite set of integers is its greatest element: one above which as few
\* as possible are left has none above it.
LEMMA GreatestOfFinite ==
    ASSUME NEW T \in SUBSET Int, T # {}, IsFiniteSet(T)
    PROVE  Max(T) \in T /\ \A y \in T : Max(T) >= y
<1> DEFINE Above(x) == {y \in T : y > x}
           Counts == {Cardinality(Above(x)) : x \in T}
<1>1. \A x \in T : IsFiniteSet(Above(x)) /\ Cardinality(Above(x)) \in Nat
  <2> SUFFICES ASSUME NEW x \in T PROVE IsFiniteSet(Above(x)) /\ Cardinality(Above(x)) \in Nat
    OBVIOUS
  <2>1. Above(x) \in SUBSET T
    OBVIOUS
  <2> HIDE DEF Above
  <2> QED
    BY <2>1, FS_Subset, FS_CardinalityType
<1>2. PICK c \in Counts : \A d \in Counts : c <= d
  <2>1. Counts \in SUBSET Nat /\ Counts # {}
    BY <1>1
  <2> HIDE DEF Counts
  <2> QED
    BY <2>1, LeastNatural
<1>3. PICK x \in T : c = Cardinality(Above(x))
  BY <1>2
<1>4. ASSUME NEW y \in T, y > x PROVE FALSE
  <2>1. PICK A, B : A = Above(x) /\ B = Above(y)
    OBVIOUS
  <2>2. B \in SUBSET A /\ y \in A /\ y \notin B
    <3>1. \A z \in T : z > y => z > x
      <4> SUFFICES ASSUME NEW z \in T, z > y PROVE z > x
        OBVIOUS
      <4>1. z \in Int /\ y \in Int /\ x \in Int
        OBVIOUS
      <4> QED
        BY <1>4, <4>1
    <3>2. ~(y > y)
      OBVIOUS
    <3> QED
      BY <1>4, <2>1, <3>1, <3>2
  <2>3. IsFiniteSet(A) /\ Cardinality(A) \in Nat /\ Cardinality(B) \in Nat
    BY <1>1, <2>1
  <2>4. Cardinality(B) <= Cardinality(A) /\ Cardinality(B) # Cardinality(A)
    BY <2>2, <2>3, FS_Subset
  <2>5. Cardinality(A) <= Cardinality(B)
    BY <1>2, <1>3, <2>1
  <2> HIDE DEF Above, Counts
  <2> QED
    BY <2>3, <2>4, <2>5
<1>5. \A y \in T : x >= y
  <2> SUFFICES ASSUME NEW y \in T PROVE x >= y
    OBVIOUS
  <2>1. x \in Int /\ y \in Int /\ ~(y > x)
    BY <1>4
  <2> QED
    BY <2>1
<1> QED
  BY <1>3, <1>5 DEF Max

\* Max of a nonempty set of bounded integers is its greatest element.
LEMMA GreatestOf ==
    ASSUME NEW T \in SUBSET Int, T # {}, NEW b \in Int, \A x \in T : x <= b
    PROVE  Max(T) \in T /\ \A y \in T : Max(T) >= y
<1> DEFINE D == {b - x : x \in T}
<1>1. D \in SUBSET Nat /\ D # {}
  <2>1. \A x \in T : b - x \in Nat
    <3> SUFFICES ASSUME NEW x \in T PROVE b - x \in Nat
      OBVIOUS
    <3>1. x \in Int /\ x <= b
      OBVIOUS
    <3> QED
      BY <3>1
  <2> QED
    BY <2>1
<1>2. PICK d \in D : \A e \in D : d <= e
  <2> HIDE DEF D
  <2> QED
    BY <1>1, LeastNatural
<1>3. PICK x \in T : d = b - x
  BY <1>2
<1>4. \A y \in T : x >= y
  <2> SUFFICES ASSUME NEW y \in T PROVE x >= y
    OBVIOUS
  <2>1. b - x <= b - y
    BY <1>2, <1>3
  <2> QED
    BY <2>1
<1> QED
  BY <1>3, <1>4 DEF Max

-----------------------------------------------------------------------------
(* Sv2Codec *)

\* A quotient and a remainder below the divisor are the quotient and the remainder.
LEMMA DivisionUnique ==
    ASSUME NEW b \in Nat, NEW q \in Nat, NEW r \in Nat, r < b
    PROVE  (b * q + r) \div b = q /\ (b * q + r) % b = r
<1>1. PICK a \in Nat : a = b * q + r
  OBVIOUS
<1>2. PICK d \in Int, m \in Int : d = a \div b /\ m = a % b
  OBVIOUS
<1>3. a = b * d + m /\ 0 <= m /\ m < b
  BY <1>1, <1>2
<1>4. d = q
  <2>1. b * (d - q) = r - m
    BY <1>1, <1>3
  <2>2. CASE d > q
    <3>1. b * (d - q) >= b
      BY <2>2
    <3> QED
      BY <1>3, <2>1, <3>1
  <2>3. CASE d < q
    <3>1. b * (q - d) >= b
      BY <2>3
    <3>2. b * (q - d) = m - r
      BY <1>1, <1>3
    <3> QED
      BY <1>3, <3>1, <3>2
  <2> QED
    BY <2>2, <2>3
<1> QED
  BY <1>1, <1>2, <1>3, <1>4

\* The low digit and what is above it
LEMMA LowDigit ==
    ASSUME NEW n \in Nat
    PROVE  /\ n \div Base \in Nat /\ n % Base \in Nat
           /\ n = Base * (n \div Base) + (n % Base) /\ n % Base < Base
<1>1. PICK B \in Nat : B = Base /\ B >= 2
  BY CodecAssumption
<1>2. PICK q \in Int, r \in Int : q = n \div B /\ r = n % B
  BY <1>1
<1>3. n = B * q + r /\ 0 <= r /\ r < B
  BY <1>1, <1>2
<1>4. q >= 0
  <2> SUFFICES ASSUME q <= -1 PROVE FALSE
    OBVIOUS
  <2>1. B * q <= -B
    <3>1. PICK z \in Nat : z = -q - 1
      OBVIOUS
    <3>2. B * z >= 0
      BY <1>1
    <3>3. B * q = -(B * z) - B
      BY <1>1, <3>1
    <3> QED
      BY <1>1, <3>2, <3>3
  <2> QED
    BY <1>3, <2>1
<1> QED
  BY <1>1, <1>2, <1>3, <1>4

\* The digits of a number are those of its repeated quotients.
LEMMA Digits ==
    ASSUME NEW n \in Nat
    PROVE  /\ n \div Place[1] = n /\ n \div Place[2] = n \div Base
           /\ n \div Place[3] = (n \div Base) \div Base
<1>1. PICK B \in Nat : B = Base /\ B >= 2
  BY CodecAssumption
<1>2. PICK q \in Nat, r \in Nat : q = n \div B /\ r = n % B /\ n = B * q + r /\ r < B
  BY <1>1, LowDigit
<1>3. PICK t \in Nat, s \in Nat : t = q \div B /\ s = q % B /\ q = B * t + s /\ s < B
  BY <1>1, LowDigit
<1>4. n = (B * B) * t + (B * s + r)
  <2>1. PICK x \in Nat : x = B * (B * t + s)
    OBVIOUS
  <2>2. x = (B * B) * t + B * s
    BY <2>1
  <2>3. n = x + r
    BY <1>2, <1>3, <2>1
  <2> QED
    BY <2>2, <2>3
<1>5. B * s + r < B * B
  <2>1. B * s <= B * (B - 1)
    BY <1>1, <1>3
  <2>2. B * (B - 1) = B * B - B
    OBVIOUS
  <2> QED
    BY <1>2, <2>1, <2>2
<1>6. n \div (B * B) = t
  <2>1. B * B \in Nat /\ B * s + r \in Nat
    OBVIOUS
  <2> QED
    BY <1>3, <1>4, <1>5, <2>1, DivisionUnique
<1>7. n \div 1 = n
  OBVIOUS
<1> QED
  BY <1>1, <1>2, <1>3, <1>6, <1>7 DEF Place

\* What a number of one, two or three bytes is, its first byte counting least
LEMMA NumberOf ==
    ASSUME NEW b \in Seq(Nat)
    PROVE  /\ Len(b) = 1 => Number(b) = b[1]
           /\ Len(b) = 2 => Number(b) = b[1] + b[2] * Base
           /\ Len(b) = 3 => Number(b) = b[1] + b[2] * Base + b[3] * (Base * Base)
<1> DEFINE P(g) == g = [i \in 0..Len(b) |->
                          IF i = 0 THEN 0 ELSE g[i - 1] + b[i] * Place[i]]
           Sum == CHOOSE g : P(g)
<1>1. Number(b) = Sum[Len(b)]
  BY DEF Number
<1>2. PICK B \in Nat, BB \in Nat : B = Base /\ BB = Base * Base
  BY CodecAssumption
<1>3. Place = <<1, B, BB>>
  BY <1>2 DEF Place
<1>4. PICK x, y, z : x = b[1] * 1 /\ y = b[2] * B /\ z = b[3] * BB
  OBVIOUS
<1> DEFINE W == [i \in 0..Len(b) |-> IF i = 0 THEN 0
                                     ELSE IF i = 1 THEN 0 + x
                                     ELSE IF i = 2 THEN (0 + x) + y
                                     ELSE ((0 + x) + y) + z]
<1>5. ASSUME Len(b) \in 1..3 PROVE P(Sum)
  <2>1. \A i \in 1..Len(b) : W[i] = W[i - 1] + b[i] * Place[i]
    <3> SUFFICES ASSUME NEW i \in 1..Len(b) PROVE W[i] = W[i - 1] + b[i] * Place[i]
      OBVIOUS
    <3>1. i \in 1..3 /\ i - 1 \in 0..Len(b) /\ i \in 0..Len(b)
      <4>1. PICK l \in 1..3 : l = Len(b)
        BY <1>5
      <4> QED
        BY <4>1
    <3>2. CASE i = 1
      BY <1>3, <1>4, <3>1, <3>2
    <3>3. CASE i = 2
      BY <1>3, <1>4, <3>1, <3>3
    <3>4. CASE i = 3
      BY <1>3, <1>4, <3>1, <3>4
    <3> QED
      BY <3>1, <3>2, <3>3, <3>4
  <2>2. P(W)
    <3>1. \A i \in 0..Len(b) : i # 0 => i \in 1..Len(b)
      OBVIOUS
    <3>2. \A i \in 0..Len(b) : W[i] = IF i = 0 THEN 0 ELSE W[i - 1] + b[i] * Place[i]
      BY <2>1, <3>1
    <3> HIDE DEF W
    <3>3. W = [i \in 0..Len(b) |-> W[i]]
      BY DEF W
    <3> QED
      BY <3>2, <3>3, Zenon
  <2> HIDE DEF P, W
  <2> QED
    BY <2>2
<1>6. ASSUME Len(b) \in 1..3
      PROVE  /\ Sum[0] = 0
             /\ \A i \in 1..Len(b) : Sum[i] = Sum[i - 1] + b[i] * Place[i]
  <2> HIDE DEF Sum
  <2> QED
    BY <1>5, <1>6
<1> HIDE DEF P, Sum, W
<1>7. CASE Len(b) = 1
  <2>1. Sum[0] = 0 /\ Sum[1] = Sum[0] + b[1] * Place[1]
    BY <1>6, <1>7
  <2>2. b[1] \in Nat
    BY <1>7
  <2>3. Sum[1] = b[1]
    BY <1>3, <2>1, <2>2
  <2> QED
    BY <1>1, <1>7, <2>3
<1>8. CASE Len(b) = 2
  <2>1. Sum[0] = 0 /\ Sum[1] = Sum[0] + b[1] * Place[1] /\ Sum[2] = Sum[1] + b[2] * Place[2]
    BY <1>6, <1>8
  <2>2. b[1] \in Nat /\ b[2] \in Nat
    <3>1. \A i \in 1..Len(b) : b[i] \in Nat
      OBVIOUS
    <3>2. 1 \in 1..Len(b) /\ 2 \in 1..Len(b)
      BY <1>8
    <3> QED
      BY <3>1, <3>2
  <2>3. Sum[2] = b[1] + b[2] * B
    BY <1>3, <2>1, <2>2
  <2> QED
    BY <1>1, <1>2, <1>8, <2>3
<1>9. CASE Len(b) = 3
  <2>1. /\ Sum[0] = 0 /\ Sum[1] = Sum[0] + b[1] * Place[1] /\ Sum[2] = Sum[1] + b[2] * Place[2]
        /\ Sum[3] = Sum[2] + b[3] * Place[3]
    BY <1>6, <1>9
  <2>2. b[1] \in Nat /\ b[2] \in Nat /\ b[3] \in Nat
    <3>1. \A i \in 1..Len(b) : b[i] \in Nat
      OBVIOUS
    <3>2. 1 \in 1..Len(b) /\ 2 \in 1..Len(b) /\ 3 \in 1..Len(b)
      BY <1>9
    <3> QED
      BY <3>1, <3>2
  <2>3. Sum[3] = b[1] + b[2] * B + b[3] * BB
    BY <1>3, <2>1, <2>2
  <2> QED
    BY <1>1, <1>2, <1>9, <2>3
<1> QED
  BY <1>7, <1>8, <1>9

\* Numbers are written as bytes, and as many as asked for.
LEMMA LittleEndianType ==
    ASSUME NEW n \in Nat, NEW w \in 0..3
    PROVE  LittleEndian(n, w) \in Seq(Nat) /\ Len(LittleEndian(n, w)) = w
<1>1. \A i \in 1..w : (n \div Place[i]) % Base \in Nat
  <2> SUFFICES ASSUME NEW i \in 1..w PROVE (n \div Place[i]) % Base \in Nat
    OBVIOUS
  <2>1. n \div Place[i] \in Nat
    <3>1. i = 1 \/ i = 2 \/ i = 3
      OBVIOUS
    <3> QED
      BY <3>1, Digits, LowDigit
  <2> QED
    BY <2>1, LowDigit
<1>2. LittleEndian(n, w) \in [1..w -> Nat]
  BY <1>1 DEF LittleEndian
<1> QED
  BY <1>2

\* A number that fits its bytes reads back as it was written.
LEMMA NumberReadsBack ==
    ASSUME NEW n \in Nat
    PROVE  /\ n < Base => Number(LittleEndian(n, 1)) = n
           /\ n < Base * Base => Number(LittleEndian(n, 2)) = n
           /\ n < Base * (Base * Base) => Number(LittleEndian(n, 3)) = n
<1>1. PICK B \in Nat : B = Base /\ B >= 2
  BY CodecAssumption
<1>2. PICK q \in Nat, r \in Nat : q = n \div B /\ r = n % B /\ n = B * q + r /\ r < B
  BY <1>1, LowDigit
<1>3. PICK t \in Nat, s \in Nat : t = q \div B /\ s = q % B /\ q = B * t + s /\ s < B
  BY <1>1, LowDigit
<1>4. PICK u \in Nat, v \in Nat : u = t \div B /\ v = t % B /\ t = B * u + v /\ v < B
  BY <1>1, LowDigit
<1>5. \A w \in 1..3 : \A i \in 1..w :
        LittleEndian(n, w)[i] = IF i = 1 THEN r ELSE IF i = 2 THEN s ELSE v
  <2> SUFFICES ASSUME NEW w \in 1..3, NEW i \in 1..w
               PROVE  LittleEndian(n, w)[i] = IF i = 1 THEN r ELSE IF i = 2 THEN s ELSE v
    OBVIOUS
  <2>1. LittleEndian(n, w)[i] = (n \div Place[i]) % Base
    BY DEF LittleEndian
  <2>2. i = 1 \/ i = 2 \/ i = 3
    OBVIOUS
  <2> QED
    BY <1>1, <1>2, <1>3, <1>4, <2>1, <2>2, Digits
<1>6. ASSUME n < B PROVE Number(LittleEndian(n, 1)) = n
  <2>1. q = 0
    <3> SUFFICES ASSUME q >= 1 PROVE FALSE
      OBVIOUS
    <3>1. B * q >= B
      BY <1>1
    <3> QED
      BY <1>2, <1>6, <3>1
  <2>2. n = r
    BY <1>2, <2>1
  <2>3. LittleEndian(n, 1)[1] = r
    BY <1>5
  <2>9. LittleEndian(n, 1) \in Seq(Nat) /\ Len(LittleEndian(n, 1)) = 1
    <3> 1 \in 0..3
      OBVIOUS
    <3> QED
      BY LittleEndianType, Zenon
  <2> QED
    BY <2>2, <2>3, <2>9, NumberOf
<1>7. ASSUME n < B * B PROVE Number(LittleEndian(n, 2)) = n
  <2>1. t = 0
    <3> SUFFICES ASSUME t >= 1 PROVE FALSE
      OBVIOUS
    <3>1. B * t >= B
      BY <1>1
    <3>2. q >= B
      BY <1>3, <3>1
    <3>3. B * q >= B * B
      BY <1>1, <3>2
    <3> QED
      BY <1>2, <1>7, <3>3
  <2>2. n = r + s * B
    <3>1. B * 0 = 0 /\ q = B * 0 + s
      BY <1>3, <2>1
    <3>2. q = s
      BY <3>1
    <3> QED
      BY <1>2, <3>2
  <2>3. LittleEndian(n, 2)[1] = r /\ LittleEndian(n, 2)[2] = s
    BY <1>5
  <2>9. LittleEndian(n, 2) \in Seq(Nat) /\ Len(LittleEndian(n, 2)) = 2
    <3> 2 \in 0..3
      OBVIOUS
    <3> QED
      BY LittleEndianType, Zenon
  <2> QED
    BY <1>1, <2>2, <2>3, <2>9, NumberOf
<1>8. ASSUME n < B * (B * B) PROVE Number(LittleEndian(n, 3)) = n
  <2>1. u = 0
    <3> SUFFICES ASSUME u >= 1 PROVE FALSE
      OBVIOUS
    <3>1. B * u >= B
      BY <1>1
    <3>2. t >= B
      BY <1>4, <3>1
    <3>3. B * t >= B * B
      BY <1>1, <3>2
    <3>4. q >= B * B
      BY <1>3, <3>3
    <3>5. B * q >= B * (B * B)
      BY <1>1, <3>4
    <3> QED
      BY <1>2, <1>8, <3>5
  <2>2. t = v
    BY <1>4, <2>1
  <2>3. n = r + s * B + v * (B * B)
    <3>1. q = B * v + s
      BY <1>3, <2>2
    <3>2. B * q = v * (B * B) + s * B
      BY <3>1
    <3> QED
      BY <1>2, <3>2
  <2>4. /\ LittleEndian(n, 3)[1] = r /\ LittleEndian(n, 3)[2] = s
        /\ LittleEndian(n, 3)[3] = v
    BY <1>5
  <2>9. LittleEndian(n, 3) \in Seq(Nat) /\ Len(LittleEndian(n, 3)) = 3
    <3> 3 \in 0..3
      OBVIOUS
    <3> QED
      BY LittleEndianType, Zenon
  <2> QED
    BY <1>1, <2>3, <2>4, <2>9, NumberOf
<1> QED
  BY <1>1, <1>6, <1>7, <1>8

\* FlattenSeq puts the sequences one behind the other: at[i] is where the i-th ends.
LEMMA Concatenation ==
    ASSUME NEW S, NEW s \in Seq(Seq(S))
    PROVE  /\ FlattenSeq(s) \in Seq(S)
           /\ \E at \in [0..Len(s) -> Nat] :
                 /\ at[0] = 0 /\ at[Len(s)] = Len(FlattenSeq(s))
                 /\ \A i \in 1..Len(s) :
                       /\ at[i] = at[i - 1] + Len(s[i]) /\ at[i] <= Len(FlattenSeq(s))
                       /\ \A k \in 1..Len(s[i]) : FlattenSeq(s)[at[i - 1] + k] = s[i][k]
<1>1. PICK N \in Nat : N = Len(s)
  OBVIOUS
<1>2. \A i \in 1..N : s[i] \in Seq(S)
  BY <1>1
<1> DEFINE Joins(F, n) == /\ F \in [0..n -> Seq(S)] /\ F[0] = <<>>
                          /\ \A i \in 1..n : F[i] = F[i - 1] \o s[i]
\* The joins of the first n sequences, for every n
<1>3. PICK F : Joins(F, N)
  <2> DEFINE T == {n \in 0..N : ~ \E F : Joins(F, n)}
  <2> SUFFICES ASSUME T # {} PROVE FALSE
    <3>1. N \in 0..N
      OBVIOUS
    <3> QED
      BY <3>1
  <2>1. PICK n \in T : \A m \in T : n <= m
    <3> HIDE DEF Joins
    <3>1. T \in SUBSET Nat
      OBVIOUS
    <3> HIDE DEF T
    <3> QED
      BY <3>1, LeastNatural
  <2>2. n \in 0..N /\ ~ \E F : Joins(F, n)
    BY <2>1
  <2>3. n # 0
    <3>1. Joins([i \in 0..0 |-> <<>>], 0)
      <4>1. <<>> \in Seq(S)
        OBVIOUS
      <4> QED
        BY <4>1
    <3> HIDE DEF Joins
    <3> QED
      BY <2>2, <3>1
  <2>4. PICK G : Joins(G, n - 1)
    <3>1. n - 1 \in 0..N /\ ~(n <= n - 1)
      BY <2>2, <2>3
    <3> HIDE DEF Joins
    <3> QED
      BY <2>1, <3>1
  <2> DEFINE H == [i \in 0..n |-> IF i < n THEN G[i] ELSE G[n - 1] \o s[n]]
  <2>5. Joins(H, n)
    <3>1. n \in 1..N /\ n - 1 \in 0..(n - 1) /\ G[n - 1] \in Seq(S)
      BY <2>2, <2>3, <2>4
    <3>2. H \in [0..n -> Seq(S)]
      <4>1. G[n - 1] \o s[n] \in Seq(S)
        BY <1>2, <3>1, ConcatProperties
      <4>2. \A i \in 0..n : i < n => i \in 0..(n - 1)
        BY <3>1
      <4> QED
        BY <2>4, <4>1, <4>2
    <3>3. H[0] = <<>>
      BY <2>4, <3>1
    <3>4. ASSUME NEW i \in 1..n PROVE H[i] = H[i - 1] \o s[i]
      <4>1. i - 1 \in 0..n /\ i - 1 < n /\ i \in 0..n /\ n \in Nat
        BY <3>1
      <4>2. H[i - 1] = G[i - 1]
        BY <4>1
      <4>3. CASE i < n
        <5>1. i \in 1..(n - 1)
          BY <4>1, <4>3
        <5>2. G[i] = G[i - 1] \o s[i]
          BY <2>4, <5>1
        <5>3. H[i] = G[i]
          BY <4>1, <4>3
        <5> HIDE DEF H
        <5> QED
          BY <4>2, <5>2, <5>3
      <4>4. CASE i = n
        <5>0. i \in 0..n /\ ~(i < n)
          BY <4>1, <4>4
        <5>1. H[i] = G[n - 1] \o s[n]
          BY <5>0
        <5> HIDE DEF H
        <5> QED
          BY <4>2, <4>4, <5>1
      <4>5. i < n \/ i = n
        BY <4>1
      <4> QED
        BY <4>3, <4>4, <4>5
    <3> HIDE DEF H
    <3> QED
      BY <3>2, <3>3, <3>4
  <2> HIDE DEF Joins, H
  <2> QED
    BY <2>2, <2>5
<1>4. FlattenSeq(s) = F[N]
  <2>1. CASE N = 0
    <3>2. Len(s) = 0
      BY <1>1, <2>1
    <3>1. s = <<>> /\ F[N] = <<>>
      <4>1. s = <<>>
        BY <3>2, EmptySeq
      <4>2. F[0] = <<>>
        BY <1>3
      <4> QED
        BY <2>1, <4>1, <4>2
    <3>3. FlattenSeq(s) = s
      BY <3>2 DEF FlattenSeq
    <3> QED
      BY <3>1, <3>3
  <2>2. CASE N > 0
    <3> DEFINE P(g) == g = [i \in 1..Len(s) |-> IF i = 1 THEN s[i] ELSE g[i - 1] \o s[i]]
               Flat == CHOOSE g : P(g)
    <3>1. FlattenSeq(s) = Flat[Len(s)]
      BY <1>1, <2>2 DEF FlattenSeq
    <3> DEFINE W == [i \in 1..N |-> F[i]]
    <3>2. P(W)
      <4>1. ASSUME NEW i \in 1..N PROVE F[i] = IF i = 1 THEN s[i] ELSE W[i - 1] \o s[i]
        <5>1. F[i] = F[i - 1] \o s[i]
          BY <1>3
        <5>2. CASE i = 1
          <6>1. F[0] = <<>> /\ s[1] \in Seq(S)
            BY <1>2, <1>3, <5>2
          <6>2. i - 1 = 0 /\ <<>> \o s[1] = s[1]
            BY <5>2, <6>1, ConcatEmptySeq
          <6>3. F[i] = s[i]
            BY <5>1, <5>2, <6>1, <6>2
          <6> QED
            BY <5>2, <6>3
        <5>3. CASE i # 1
          <6>1. i - 1 \in 1..N
            BY <5>3
          <6>2. W[i - 1] = F[i - 1]
            BY <6>1
          <6> HIDE DEF W
          <6> QED
            BY <5>1, <5>3, <6>2
        <5> QED
          BY <5>2, <5>3
      <4> QED
        BY <1>1, <4>1
    <3>3. P(Flat)
      <4> HIDE DEF P, W
      <4> QED
        BY <3>2
    <3>4. /\ Flat[1] = s[1]
          /\ \A i \in 2..N : Flat[i] = Flat[i - 1] \o s[i]
      <4> HIDE DEF Flat
      <4>1. \A i \in 1..N : Flat[i] = IF i = 1 THEN s[i] ELSE Flat[i - 1] \o s[i]
        BY <1>1, <3>3
      <4>2. 1 \in 1..N /\ \A i \in 2..N : i \in 1..N /\ i # 1
        BY <2>2
      <4> QED
        BY <4>1, <4>2
    <3> HIDE DEF P, Flat, W
    <3>5. \A i \in 1..N : Flat[i] = F[i]
      <4> DEFINE T == {i \in 1..N : Flat[i] # F[i]}
      <4> SUFFICES ASSUME T # {} PROVE FALSE
        OBVIOUS
      <4>1. PICK i \in T : \A j \in T : i <= j
        <5>1. T \in SUBSET Nat
          OBVIOUS
        <5> HIDE DEF T
        <5> QED
          BY <5>1, LeastNatural
      <4>2. F[i] = F[i - 1] \o s[i] /\ i \in 1..N /\ Flat[i] # F[i]
        BY <1>3, <4>1
      <4>3. CASE i = 1
        <5>1. F[0] = <<>> /\ s[1] \in Seq(S)
          BY <1>2, <1>3, <4>2, <4>3
        <5>2. i - 1 = 0 /\ <<>> \o s[1] = s[1]
          BY <4>3, <5>1, ConcatEmptySeq
        <5>3. F[i] = s[i]
          BY <4>2, <4>3, <5>1, <5>2
        <5> QED
          BY <3>4, <4>2, <4>3, <5>3
      <4>4. CASE i # 1
        <5>1. i - 1 \in 1..N /\ i \in 2..N /\ ~(i <= i - 1)
          BY <4>2, <4>4
        <5>2. Flat[i - 1] = F[i - 1]
          BY <4>1, <5>1
        <5>3. Flat[i] = Flat[i - 1] \o s[i]
          BY <3>4, <5>1
        <5> QED
          BY <4>2, <5>2, <5>3
      <4> QED
        BY <4>3, <4>4
    <3>6. N \in 1..N
      BY <2>2
    <3> QED
      BY <1>1, <3>1, <3>5, <3>6
  <2> QED
    BY <2>1, <2>2
<1> DEFINE at == [i \in 0..N |-> Len(F[i])]
<1>5. /\ at \in [0..N -> Nat] /\ at[0] = 0
      /\ \A i \in 1..N : at[i] = at[i - 1] + Len(s[i])
  <2>1. \A i \in 0..N : F[i] \in Seq(S)
    BY <1>3
  <2>2. ASSUME NEW i \in 1..N PROVE at[i] = at[i - 1] + Len(s[i])
    <3>1. i - 1 \in 0..N /\ i \in 0..N /\ F[i - 1] \in Seq(S) /\ s[i] \in Seq(S)
      BY <1>2, <2>1
    <3>2. F[i] = F[i - 1] \o s[i]
      BY <1>3
    <3>3. Len(F[i]) = Len(F[i - 1]) + Len(s[i])
      BY <3>1, <3>2, ConcatProperties
    <3>4. at[i] = Len(F[i]) /\ at[i - 1] = Len(F[i - 1])
      BY <3>1
    <3> HIDE DEF at
    <3> QED
      BY <3>3, <3>4
  <2>3. at[0] = 0
    BY <1>3
  <2>4. at \in [0..N -> Nat]
    BY <2>1
  <2> HIDE DEF at
  <2> QED
    BY <2>2, <2>3, <2>4
\* What was joined stays where it is.
<1>6. ASSUME NEW i \in 0..N
      PROVE  \A j \in i..N : at[i] <= at[j] /\ \A k \in 1..at[i] : F[j][k] = F[i][k]
  <2> DEFINE Stays(j) == at[i] <= at[j] /\ \A k \in 1..at[i] : F[j][k] = F[i][k]
             T == {j \in i..N : ~Stays(j)}
  <2> SUFFICES ASSUME T # {} PROVE FALSE
    OBVIOUS
  <2>1. PICK j \in T : \A m \in T : j <= m
    <3>1. T \in SUBSET Nat
      OBVIOUS
    <3> HIDE DEF T
    <3> QED
      BY <3>1, LeastNatural
  <2>2. j \in i..N /\ ~Stays(j)
    BY <2>1
  <2>3. j # i
    BY <1>5, <2>2
  <2>4. j - 1 \in i..N /\ j \in 1..N /\ j - 1 \in 0..N /\ ~(j <= j - 1)
    BY <2>2, <2>3
  <2>5. Stays(j - 1)
    <3> HIDE DEF Stays
    <3> QED
      BY <2>1, <2>4
  <2>6. F[j] = F[j - 1] \o s[j] /\ F[j - 1] \in Seq(S) /\ s[j] \in Seq(S)
    BY <1>2, <1>3, <2>4
  <2>7. at[j - 1] = Len(F[j - 1]) /\ at[j] = Len(F[j - 1]) + Len(s[j])
    BY <1>5, <2>4
  <2> HIDE DEF at
  <2>8. PICK a \in Nat, x \in Nat, y \in Nat :
           a = at[i] /\ x = Len(F[j - 1]) /\ y = Len(s[j])
    BY <1>5, <2>6
  <2>9. \A k \in 1..a : F[j][k] = F[i][k]
    <3> SUFFICES ASSUME NEW k \in 1..a PROVE F[j][k] = F[i][k]
      OBVIOUS
    <3>1. a <= x
      BY <2>5, <2>7, <2>8
    <3>2. k \in 1..x + y /\ k <= x
      BY <3>1
    <3>3. F[j][k] = F[j - 1][k]
      BY <2>6, <2>8, <3>2, ConcatProperties
    <3>4. F[j - 1][k] = F[i][k]
      BY <2>5, <2>8
    <3> QED
      BY <3>3, <3>4
  <2>10. at[i] <= at[j]
    <3>1. a <= x /\ at[j] = x + y
      BY <2>5, <2>7, <2>8
    <3>2. a <= x + y
      BY <3>1
    <3> QED
      BY <2>8, <3>1, <3>2
  <2> QED
    BY <2>2, <2>8, <2>9, <2>10
<1>7. ASSUME NEW i \in 1..N, NEW k \in 1..Len(s[i])
      PROVE  F[N][at[i - 1] + k] = s[i][k]
  <2>1. /\ i \in 0..N /\ i - 1 \in 0..N /\ N \in i..N
        /\ F[i - 1] \in Seq(S) /\ s[i] \in Seq(S) /\ F[i] = F[i - 1] \o s[i]
    <3>1. i \in 0..N /\ i - 1 \in 0..N /\ N \in i..N
      OBVIOUS
    <3> QED
      BY <1>2, <1>3, <3>1
  <2>2. at[i - 1] = Len(F[i - 1]) /\ at[i] = Len(F[i - 1]) + Len(s[i])
    BY <1>5, <2>1
  <2> HIDE DEF at
  <2>3. PICK x \in Nat, y \in Nat : x = Len(F[i - 1]) /\ y = Len(s[i])
    BY <2>1
  <2>4. x + k \in 1..x + y /\ ~(x + k <= x) /\ x + k - x = k
    <3>1. k \in 1..y
      BY <2>3
    <3> QED
      BY <3>1
  <2>5. F[N][x + k] = F[i][x + k]
    BY <1>6, <2>1, <2>2, <2>3, <2>4
  <2>6. F[i][x + k] = s[i][x + k - x]
    <3>1. PICK j \in Nat : j = x + k /\ j \in 1..x + y /\ ~(j <= x)
      BY <2>4
    <3>2. (F[i - 1] \o s[i])[j] = s[i][j - x]
      BY <2>1, <2>3, <3>1, ConcatProperties
    <3>3. F[i][j] = s[i][j - x]
      BY <2>1, <3>2
    <3> QED
      BY ONLY <3>1, <3>3
  <2> QED
    BY <2>2, <2>3, <2>4, <2>5, <2>6
<1>8. N \in 0..N /\ F[N] \in Seq(S) /\ at[N] = Len(F[N])
  BY <1>3
<1>9. \A i \in 1..N : at[i] <= Len(F[N])
  <2> HIDE DEF at
  <2> QED
    BY <1>6, <1>8
<1>10. /\ at[Len(s)] = Len(FlattenSeq(s))
       /\ \A i \in 1..Len(s) :
             /\ at[i] = at[i - 1] + Len(s[i]) /\ at[i] <= Len(FlattenSeq(s))
             /\ \A k \in 1..Len(s[i]) : FlattenSeq(s)[at[i - 1] + k] = s[i][k]
  <2> HIDE DEF at
  <2> QED
    BY <1>1, <1>4, <1>5, <1>7, <1>8, <1>9
<1> HIDE DEF at
<1> QED
  BY <1>1, <1>4, <1>5, <1>8, <1>10

Fields == {U8, U16, U32, U64, U256, Str, U256Seq, Bytes64K}

\* Every message is a sequence of fields.
LEMMA SchemaType ==
    ASSUME NEW type \in MessageTypes
    PROVE  Schema[type] \in Seq(Fields) /\ Len(Schema[type]) \in 1..10
<1>1. /\ U8 \in Fields /\ U16 \in Fields /\ U32 \in Fields /\ U64 \in Fields /\ U256 \in Fields 
      /\ Str \in Fields /\ U256Seq \in Fields /\ Bytes64K \in Fields
  BY DEF Fields
<1>2. MessageTypes =
        {"SetupConnection", "SetupConnectionSuccess", "SetupConnectionError",
         "OpenStandardMiningChannel", "OpenStdMiningChannelSuccess",
         "OpenStdMiningChannelError", "NewMiningJob", "SetNewPrevHash", "SetTarget",
         "SubmitSharesStandard", "SubmitSharesSuccess", "SubmitSharesError"}
  BY DEF MessageTypes, Schema
<1>3. CASE type = "SetupConnection"
  BY <1>1, <1>3 DEF Schema
<1>4. CASE type = "SetupConnectionSuccess"
  BY <1>1, <1>4 DEF Schema
<1>5. CASE type = "SetupConnectionError"
  BY <1>1, <1>5 DEF Schema
<1>6. CASE type = "OpenStandardMiningChannel"
  BY <1>1, <1>6 DEF Schema
<1>7. CASE type = "OpenStdMiningChannelSuccess"
  BY <1>1, <1>7 DEF Schema
<1>8. CASE type = "OpenStdMiningChannelError"
  BY <1>1, <1>8 DEF Schema
<1>9. CASE type = "NewMiningJob"
  BY <1>1, <1>9 DEF Schema
<1>10. CASE type = "SetNewPrevHash"
  BY <1>1, <1>10 DEF Schema
<1>11. CASE type = "SetTarget"
  BY <1>1, <1>11 DEF Schema
<1>12. CASE type = "SubmitSharesStandard"
  BY <1>1, <1>12 DEF Schema
<1>13. CASE type = "SubmitSharesSuccess"
  BY <1>1, <1>13 DEF Schema
<1>14. CASE type = "SubmitSharesError"
  BY <1>1, <1>14 DEF Schema
<1> QED
  BY <1>2, <1>3, <1>4, <1>5, <1>6, <1>7, <1>8, <1>9, <1>10, <1>11, <1>12, <1>13, <1>14

\* What a field is made of
LEMMA FieldType ==
    ASSUME NEW field \in Fields
    PROVE  field.prefix \in 0..2 /\ field.each \in Nat
  BY DEF Fields, U8, U16, U32, U64, U256, Str, U256Seq, Bytes64K, Fixed

\* The count of a field is what its prefix can express, and reads back.
LEMMA FittingType ==
    ASSUME NEW field \in Fields, NEW n \in Nat
    PROVE  /\ Fitting(field, n) \in Nat
           /\ field.prefix = 0 => Fitting(field, n) = 1
           /\ field.prefix = 1 => Fitting(field, n) <= Base - 1
           /\ field.prefix = 2 => Fitting(field, n) <= Base * Base - 1
           /\ field.prefix # 0 =>
                 Number(LittleEndian(Fitting(field, n), field.prefix)) = Fitting(field, n)
<1>1. PICK B \in Nat, BB \in Nat : B = Base /\ BB = Base * Base /\ B >= 1 /\ BB >= 1
  <2>1. PICK B \in Nat : B = Base /\ B >= 1
    BY CodecAssumption
  <2>2. B * B >= 1
    BY <2>1
  <2> QED
    BY <2>1, <2>2
<1>2. Place[2] = B /\ Place[3] = BB
  BY <1>1 DEF Place
<1>3. CASE field.prefix = 0
  BY <1>3 DEF Fitting
<1>4. CASE field.prefix = 1
  <2>1. Fitting(field, n) = IF n < B THEN n ELSE B - 1
    BY <1>2, <1>4 DEF Fitting
  <2>2. Fitting(field, n) \in Nat /\ Fitting(field, n) <= B - 1 /\ Fitting(field, n) < B
    BY <1>1, <2>1
  <2> QED
    BY <1>1, <1>4, <2>2, NumberReadsBack
<1>5. CASE field.prefix = 2
  <2>1. Fitting(field, n) = IF n < BB THEN n ELSE BB - 1
    BY <1>2, <1>5 DEF Fitting
  <2>2. Fitting(field, n) \in Nat /\ Fitting(field, n) <= BB - 1 /\ Fitting(field, n) < BB
    BY <1>1, <2>1
  <2> QED
    BY <1>1, <1>5, <2>2, NumberReadsBack
<1> QED
  BY <1>3, <1>4, <1>5, FieldType

\* The elements of a field are as many as asked for.
LEMMA ContentType ==
    ASSUME NEW i \in Nat, NEW l \in Nat
    PROVE  /\ Content(i, l) \in Seq(Nat) /\ Len(Content(i, l)) = l
           /\ \A k \in 1..l : Content(i, l)[k] = (i + k) % Base
<1>1. \A k \in 1..l : (i + k) % Base \in Nat
  <2> SUFFICES ASSUME NEW k \in 1..l PROVE (i + k) % Base \in Nat
    OBVIOUS
  <2>1. i + k \in Nat
    OBVIOUS
  <2> QED
    BY <2>1, LowDigit
<1>2. Content(i, l) \in [1..l -> Nat] /\ \A k \in 1..l : Content(i, l)[k] = (i + k) % Base
  BY <1>1 DEF Content
<1> QED
  BY <1>2

\* A count and the elements behind it
Written(i, c, w, l) == LittleEndian(c, w) \o Content(i, l)

WellWritten(i, c, w, l) ==
    /\ Written(i, c, w, l) \in Seq(Nat) /\ Len(Written(i, c, w, l)) = w + l
    /\ \A k \in 1..w : Written(i, c, w, l)[k] = LittleEndian(c, w)[k]
    /\ \A k \in 1..l : Written(i, c, w, l)[w + k] = Content(i, l)[k]

\* The count comes first, the elements follow.
LEMMA WrittenType ==
    ASSUME NEW i \in Nat, NEW c \in Nat, NEW w \in 0..3, NEW l \in Nat
    PROVE  WellWritten(i, c, w, l)
<1>0. PICK f : f = Written(i, c, w, l)
  OBVIOUS
<1>1. PICK p, q : p = LittleEndian(c, w) /\ q = Content(i, l)
  OBVIOUS
<1>2. p \in Seq(Nat) /\ Len(p) = w /\ q \in Seq(Nat) /\ Len(q) = l
  <2>1. p \in Seq(Nat) /\ Len(p) = w
    BY <1>1, LittleEndianType, Zenon
  <2>2. q \in Seq(Nat) /\ Len(q) = l
    BY <1>1, ContentType
  <2> QED
    BY <2>1, <2>2
<1>3. f = p \o q
  BY <1>0, <1>1 DEF Written
<1>4. /\ f \in Seq(Nat) /\ Len(f) = w + l
      /\ \A k \in 1..w + l : f[k] = IF k <= w THEN p[k] ELSE q[k - w]
  BY <1>2, <1>3, ConcatProperties
<1>5. \A k \in 1..w : k \in 1..w + l /\ k <= w
  OBVIOUS
<1>6. \A k \in 1..w : f[k] = p[k]
  BY <1>4, <1>5
<1>7. ASSUME NEW k \in 1..l PROVE f[w + k] = q[k]
  <2>1. PICK j \in 1..w + l : j = w + k /\ ~(j <= w) /\ j - w = k
    OBVIOUS
  <2> QED
    BY <1>4, <2>1
<1> QED
  BY <1>0, <1>1, <1>4, <1>6, <1>7 DEF WellWritten

\* How long a field is
LEMMA EncodeFieldType ==
    ASSUME NEW i \in Nat, NEW field \in Fields, NEW n \in Nat
    PROVE  /\ EncodeField(i, field, n) \in Seq(Nat)
           /\ Len(EncodeField(i, field, n)) = field.prefix + Fitting(field, n) * field.each
<1>1. PICK c \in Nat, w \in 0..2, e \in Nat :
         c = Fitting(field, n) /\ w = field.prefix /\ e = field.each
  BY FittingType, FieldType
<1>2. PICK l \in Nat : l = c * e
  OBVIOUS
<1>3. EncodeField(i, field, n) = Written(i, c, w, l)
  BY <1>1, <1>2 DEF EncodeField, Written
<1>4. Written(i, c, w, l) \in Seq(Nat) /\ Len(Written(i, c, w, l)) = w + l
  <2>1. w \in 0..3
    OBVIOUS
  <2> QED
    <3>1. WellWritten(i, c, w, l)
      BY ONLY <2>1, WrittenType, Zenon
    <3> QED
      BY <3>1 DEF WellWritten
<1> QED
  BY <1>1, <1>2, <1>3, <1>4

\* What EncodeField wrote at off is what ReadField reads there, if all of it arrived, and
\* is an unexpected end otherwise.
LiesAt(b, off, f) == \A k \in 1..Len(f) : off + k <= Len(b) => b[off + k] = f[k]
ReadsBack(i, field, n, b, off) ==
    LET from == IF off <= Len(b) THEN off ELSE Short
        end == off + Len(EncodeField(i, field, n))
    IN  ReadField(field, b, from)
          = IF end <= Len(b)
            THEN [off |-> end, content |-> Content(i, Fitting(field, n) * field.each)]
            ELSE [off |-> Short, content |-> <<>>]

\* A field is read where it lies.
LEMMA FieldReadsBack ==
    ASSUME NEW i \in Nat, NEW field \in Fields, NEW n \in Nat, NEW b \in Seq(Nat),
           NEW off \in Nat, LiesAt(b, off, EncodeField(i, field, n))
    PROVE  ReadsBack(i, field, n, b, off)
<1>0. PICK f : f = EncodeField(i, field, n)
  OBVIOUS
<1>14. f \in Seq(Nat)
  BY <1>0, EncodeFieldType
<1>15. PICK end \in Nat : end = off + Len(f)
  BY <1>14
<1>16. \A k \in 1..Len(f) : off + k <= Len(b) => b[off + k] = f[k]
  BY <1>0 DEF LiesAt
<1>17. PICK from : from = IF off <= Len(b) THEN off ELSE Short
  OBVIOUS
<1>1. PICK c \in Nat, w \in 0..2, e \in Nat :
         c = Fitting(field, n) /\ w = field.prefix /\ e = field.each
  BY FittingType, FieldType
<1>2. PICK l \in Nat : l = c * e
  OBVIOUS
<1>13. w \in 0..3
  OBVIOUS
<1>3. f = Written(i, c, w, l)
  BY <1>0, <1>1, <1>2 DEF EncodeField, Written
<1>4. /\ Len(f) = w + l
      /\ \A k \in 1..w : f[k] = LittleEndian(c, w)[k]
      /\ \A k \in 1..l : f[w + k] = Content(i, l)[k]
  <2>1. /\ Len(Written(i, c, w, l)) = w + l
        /\ \A k \in 1..w : Written(i, c, w, l)[k] = LittleEndian(c, w)[k]
        /\ \A k \in 1..l : Written(i, c, w, l)[w + k] = Content(i, l)[k]
    <3>1. WellWritten(i, c, w, l)
      BY ONLY <1>13, WrittenType, Zenon
    <3> QED
      BY <3>1 DEF WellWritten
  <2> QED
    BY <1>3, <2>1
<1>11. end = off + (w + l)
  BY <1>4, <1>15
<1>12. \A k \in 1..w + l : off + k <= Len(b) => b[off + k] = f[k]
  BY <1>4, <1>16
<1>18. SUFFICES /\ end <= Len(b) =>
                     ReadField(field, b, from)
                       = [off |-> end, content |-> Content(i, Fitting(field, n) * field.each)]
                /\ ~(end <= Len(b)) =>
                     ReadField(field, b, from) = [off |-> Short, content |-> <<>>]
  BY <1>0, <1>15, <1>17 DEF ReadsBack
<1>5. PICK m \in Nat : m = Len(b)
  OBVIOUS
<1>6. PICK nothing : nothing = [off |-> Short, content |-> <<>>]
  OBVIOUS
<1>7. CASE off > m
  <2>1. end > m /\ ~(off <= m) /\ ~(end <= m)
    BY <1>11, <1>7
  <2>2. ReadField(field, b, Short) = nothing
    BY <1>6 DEF ReadField
  <2> QED
    BY <1>5, <1>6, <1>17, <2>1, <2>2
<1>8. CASE off <= m /\ off + w > m
  <2>1. ~(end <= m)
    BY <1>11, <1>8
  <2>2. off # Short
    BY DEF Short
  <2>3. ReadField(field, b, off) = nothing
    BY <1>1, <1>5, <1>6, <1>8, <2>2 DEF ReadField
  <2> QED
    BY <1>5, <1>6, <1>8, <1>17, <2>1, <2>3
<1>9. CASE off + w <= m
  <2>1. off <= m /\ ~(off + w > m) /\ off # Short
    BY <1>9 DEF Short
  \* The count
  <2>2. ASSUME w # 0 PROVE Number(SubSeq(b, off + 1, off + w)) = c
    <3>1. /\ SubSeq(b, off + 1, off + w) \in Seq(Nat)
          /\ Len(SubSeq(b, off + 1, off + w)) = w
          /\ \A k \in 1..w : SubSeq(b, off + 1, off + w)[k] = b[off + k]
      <4>1. \A k \in (off + 1)..(off + w) : b[k] \in Nat
        <5> SUFFICES ASSUME NEW k \in (off + 1)..(off + w) PROVE b[k] \in Nat
          OBVIOUS
        <5>1. k \in 1..m
          BY <1>9
        <5> QED
          BY <1>5, <5>1
      <4>2. off + 1 <= off + w /\ off + w - (off + 1) + 1 = w
        BY <2>2
      <4>3. /\ SubSeq(b, off + 1, off + w) \in Seq(Nat)
            /\ Len(SubSeq(b, off + 1, off + w)) = w
            /\ \A k \in 1..w : SubSeq(b, off + 1, off + w)[k] = b[off + 1 + k - 1]
        <5>1. PICK x \in Nat, y \in Nat : x = off + 1 /\ y = off + w
          OBVIOUS
        <5>2. \A k \in x..y : b[k] \in Nat
          BY <4>1, <5>1
        <5>3. x <= y /\ y - x + 1 = w
          BY <4>2, <5>1
        <5>4. x \in Int /\ y \in Int
          OBVIOUS
        <5>5. /\ SubSeq(b, x, y) \in Seq(Nat)
              /\ Len(SubSeq(b, x, y)) = IF x <= y THEN y - x + 1 ELSE 0
              /\ \A k \in 1..y - x + 1 : SubSeq(b, x, y)[k] = b[x + k - 1]
          BY <5>2, <5>4, SubSeqProperties
        <5> QED
          BY <5>1, <5>3, <5>5
      <4>4. \A k \in 1..w : off + 1 + k - 1 = off + k
        OBVIOUS
      <4> QED
        BY <4>3, <4>4
    <3>2. LittleEndian(c, w) \in Seq(Nat) /\ Len(LittleEndian(c, w)) = w
      <4>1. w \in 0..3
        OBVIOUS
      <4> QED
        BY <4>1, LittleEndianType, Zenon
    <3>3. ASSUME NEW k \in 1..w
          PROVE  SubSeq(b, off + 1, off + w)[k] = LittleEndian(c, w)[k]
      <4>1. k \in 1..w + l /\ off + k <= m
        BY <1>9
      <4> QED
        BY <1>4, <1>5, <1>12, <3>1, <4>1
    <3>4. SubSeq(b, off + 1, off + w) = LittleEndian(c, w)
      BY <3>1, <3>2, <3>3, SeqEqual
    <3> QED
      BY <1>1, <2>2, <3>4, FittingType
  <2>3. (IF w = 0 THEN 1 ELSE Number(SubSeq(b, off + 1, off + w))) = c
    BY <1>1, <2>2, FittingType
  <2>4. off + w + c * e = end
    <3>1. c * e = l
      BY <1>2
    <3> QED
      BY <1>11, <3>1
  <2>5. ReadField(field, b, off)
          = IF end > m THEN nothing
            ELSE [off |-> end, content |-> SubSeq(b, off + w + 1, end)]
    <3>1. PICK v : v = IF w = 0 THEN 1 ELSE Number(SubSeq(b, off + 1, off + w))
      OBVIOUS
    <3>2. ReadField(field, b, off)
            = IF off + w + v * e > m THEN nothing
              ELSE [off |-> off + w + v * e, content |-> SubSeq(b, off + w + 1, off + w + v * e)]
      BY <1>1, <1>5, <1>6, <2>1, <3>1 DEF ReadField
    <3> QED
      BY <2>3, <2>4, <3>1, <3>2
  <2>6. CASE end > m
    <3>1. ~(end <= m)
      BY <2>6
    <3> QED
      BY <1>5, <1>6, <1>17, <2>1, <2>5, <2>6, <3>1
  \* The elements
  <2>7. CASE end <= m
    <3>1. SubSeq(b, off + w + 1, end) = Content(i, l)
      <4>1. \A k \in (off + w + 1)..end : b[k] \in Nat
        <5> SUFFICES ASSUME NEW k \in (off + w + 1)..end PROVE b[k] \in Nat
          OBVIOUS
        <5>1. k \in 1..m
          BY <2>7
        <5> QED
          BY <1>5, <5>1
      <4>2. PICK x \in Nat : x = off + w + 1 /\ end - x + 1 = l /\ end = (x + l) - 1
        BY <1>11
      <4>3. /\ SubSeq(b, x, end) \in Seq(Nat)
            /\ Len(SubSeq(b, x, end)) = l
            /\ \A k \in 1..l : SubSeq(b, x, end)[k] = b[x + k - 1]
        <5>1. \A k \in x..end : b[k] \in Nat
          BY <4>1, <4>2
        <5>2. (IF x <= end THEN end - x + 1 ELSE 0) = l
          BY <4>2
        <5>3. x \in Int /\ end \in Int
          OBVIOUS
        <5>4. /\ SubSeq(b, x, end) \in Seq(Nat)
              /\ Len(SubSeq(b, x, end)) = IF x <= end THEN end - x + 1 ELSE 0
              /\ \A k \in 1..end - x + 1 : SubSeq(b, x, end)[k] = b[x + k - 1]
          BY <5>1, <5>3, SubSeqProperties
        <5> QED
          BY <4>2, <5>2, <5>4
      <4>4. ASSUME NEW k \in 1..l PROVE SubSeq(b, x, end)[k] = Content(i, l)[k]
        <5>1. /\ w + k \in 1..w + l /\ off + (w + k) <= m
              /\ x + k - 1 = off + (w + k)
          BY <1>11, <2>7, <4>2
        <5>2. b[off + (w + k)] = f[w + k]
          BY <1>5, <1>12, <5>1
        <5> QED
          BY <1>4, <4>3, <5>1, <5>2
      <4>5. Content(i, l) \in Seq(Nat) /\ Len(Content(i, l)) = l
        BY ContentType
      <4>6. SubSeq(b, x, end) = Content(i, l)
        BY <4>3, <4>4, <4>5, SeqEqual
      <4> QED
        BY <4>2, <4>6
    <3>2. ~(end > m)
      BY <2>7
    <3> QED
      BY <1>1, <1>2, <1>5, <1>17, <2>1, <2>5, <2>7, <3>1, <3>2
  <2> QED
    BY <2>6, <2>7
<1>10. off > m \/ (off <= m /\ off + w > m) \/ off + w <= m
  OBVIOUS
<1> QED
  BY <1>7, <1>8, <1>9, <1>10

\* A message of n elements in each counted field, as it is read
Contents(type, n) ==
    [i \in 1..Len(Schema[type]) |->
       Content(i, Fitting(Schema[type][i], n) * Schema[type][i].each)]
MessageBytes(type, n) == Encode(type, Sizes(type, n))

\* The fields of a message lie one behind the other.
LEMMA Layout ==
    ASSUME NEW type \in MessageTypes, NEW n \in Nat
    PROVE  /\ MessageBytes(type, n) \in Seq(Nat)
           /\ \E at \in [0..Len(Schema[type]) -> Nat] :
                 /\ at[0] = 0 /\ at[Len(Schema[type])] = Len(MessageBytes(type, n))
                 /\ \A i \in 1..Len(Schema[type]) :
                       LET field == EncodeField(i, Schema[type][i], n)
                       IN  /\ at[i] = at[i - 1] + Len(field) /\ at[i] <= Len(MessageBytes(type, n))
                           /\ \A k \in 1..Len(field) :
                                 MessageBytes(type, n)[at[i - 1] + k] = field[k]
<1>1. PICK N \in Nat : N = Len(Schema[type])
  BY SchemaType
<1>2. \A i \in 1..N : Schema[type][i] \in Fields
  BY <1>1, SchemaType
<1> DEFINE fields == [i \in 1..N |-> EncodeField(i, Schema[type][i], n)]
\* A field without a prefix is written the same whatever its size is said to be.
<1>3. ASSUME NEW i \in 1..N
      PROVE  EncodeField(i, Schema[type][i], Sizes(type, n)[i])
               = EncodeField(i, Schema[type][i], n)
  <2>1. Sizes(type, n)[i] = IF Schema[type][i].prefix = 0 THEN 1 ELSE n
    BY <1>1 DEF Sizes
  <2>2. Fitting(Schema[type][i], Sizes(type, n)[i]) = Fitting(Schema[type][i], n)
    BY <2>1 DEF Fitting
  <2> QED
    BY <2>2 DEF EncodeField
<1>4. MessageBytes(type, n) = FlattenSeq(fields)
  <2>1. MessageBytes(type, n)
          = FlattenSeq([i \in 1..N |-> EncodeField(i, Schema[type][i], Sizes(type, n)[i])])
    BY <1>1 DEF MessageBytes, Encode
  <2>2. [i \in 1..N |-> EncodeField(i, Schema[type][i], Sizes(type, n)[i])] = fields
    BY <1>3
  <2> HIDE DEF fields
  <2> QED
    BY <2>1, <2>2
<1>5. fields \in Seq(Seq(Nat)) /\ Len(fields) = N
  <2>1. \A i \in 1..N : EncodeField(i, Schema[type][i], n) \in Seq(Nat)
    <3> SUFFICES ASSUME NEW i \in 1..N PROVE EncodeField(i, Schema[type][i], n) \in Seq(Nat)
      OBVIOUS
    <3>1. i \in Nat /\ Schema[type][i] \in Fields
      BY <1>2
    <3> QED
      BY <3>1, EncodeFieldType
  <2>2. fields \in [1..N -> Seq(Nat)]
    BY <2>1
  <2> HIDE DEF fields
  <2> QED
    BY <2>2
<1>6. \A i \in 1..N : fields[i] = EncodeField(i, Schema[type][i], n)
  OBVIOUS
<1> HIDE DEF fields
<1>7. FlattenSeq(fields) \in Seq(Nat)
  BY <1>5, Concatenation
<1>10. PICK at \in [0..Len(fields) -> Nat] :
         /\ at[0] = 0 /\ at[Len(fields)] = Len(FlattenSeq(fields))
         /\ \A i \in 1..Len(fields) :
               /\ at[i] = at[i - 1] + Len(fields[i]) /\ at[i] <= Len(FlattenSeq(fields))
               /\ \A k \in 1..Len(fields[i]) : FlattenSeq(fields)[at[i - 1] + k] = fields[i][k]
  BY <1>5, Concatenation, ZenonT(40)
<1>8. /\ at \in [0..N -> Nat] /\ at[0] = 0 /\ at[N] = Len(FlattenSeq(fields))
      /\ \A i \in 1..N :
            /\ at[i] = at[i - 1] + Len(fields[i]) /\ at[i] <= Len(FlattenSeq(fields))
            /\ \A k \in 1..Len(fields[i]) : FlattenSeq(fields)[at[i - 1] + k] = fields[i][k]
  BY <1>5, <1>10
<1>9. \A i \in 1..N :
        LET field == EncodeField(i, Schema[type][i], n)
        IN  /\ at[i] = at[i - 1] + Len(field) /\ at[i] <= Len(MessageBytes(type, n))
            /\ \A k \in 1..Len(field) : MessageBytes(type, n)[at[i - 1] + k] = field[k]
  BY <1>4, <1>6, <1>8
<1> QED
  BY <1>1, <1>4, <1>7, <1>8, <1>9

\* A message decodes to what was encoded, and to nothing if only a part of it arrived.
LEMMA DecodeOfPart ==
    ASSUME NEW type \in MessageTypes, NEW n \in Nat, NEW b \in Seq(Nat),
           Len(b) <= Len(MessageBytes(type, n)),
           \A k \in 1..Len(b) : b[k] = MessageBytes(type, n)[k]
    PROVE  Decode(type, b) = IF Len(b) = Len(MessageBytes(type, n)) THEN Contents(type, n) ELSE <<>>
<1>1. PICK N \in Nat : N = Len(Schema[type])
  BY SchemaType
<1>2. PICK m \in Nat, p \in Nat : m = Len(b) /\ p = Len(MessageBytes(type, n)) /\ m <= p
  BY Layout
<1> DEFINE E(i) == EncodeField(i, Schema[type][i], n)
<1>17. PICK at \in [0..Len(Schema[type]) -> Nat] :
         /\ at[0] = 0 /\ at[Len(Schema[type])] = Len(MessageBytes(type, n))
         /\ \A i \in 1..Len(Schema[type]) :
               /\ at[i] = at[i - 1] + Len(E(i)) /\ at[i] <= Len(MessageBytes(type, n))
               /\ \A k \in 1..Len(E(i)) : MessageBytes(type, n)[at[i - 1] + k] = E(i)[k]
  BY Layout
<1>3. /\ at \in [0..N -> Nat] /\ at[0] = 0 /\ at[N] = p
      /\ \A i \in 1..N :
            /\ at[i] = at[i - 1] + Len(E(i)) /\ at[i] <= p
            /\ \A k \in 1..Len(E(i)) : MessageBytes(type, n)[at[i - 1] + k] = E(i)[k]
  BY <1>1, <1>2, <1>17
<1> HIDE DEF E
<1>4. \A i \in 1..N : Schema[type][i] \in Fields
  BY <1>1, SchemaType
<1> DEFINE P(g) == g = [i \in 0..Len(Schema[type]) |->
                          IF i = 0 THEN [off |-> 0, content |-> <<>>]
                          ELSE ReadField(Schema[type][i], b, g[i - 1].off)]
           Read == CHOOSE g : P(g)
           C(i) == Content(i, Fitting(Schema[type][i], n) * Schema[type][i].each)
           W == [i \in 0..N |-> IF i = 0 THEN [off |-> 0, content |-> <<>>]
                                ELSE IF at[i] <= m THEN [off |-> at[i], content |-> C(i)]
                                ELSE [off |-> Short, content |-> <<>>]]
\* What is read next follows from where the reading is.
<1>5. ASSUME NEW i \in 1..N, NEW r, r.off = IF at[i - 1] <= m THEN at[i - 1] ELSE Short
      PROVE  ReadField(Schema[type][i], b, r.off) = W[i]
  <2>1. PICK e \in Seq(Nat) : e = EncodeField(i, Schema[type][i], n)
    <3>1. i \in Nat
      OBVIOUS
    <3> QED
      BY <1>4, <3>1, EncodeFieldType
  <2>2. PICK x \in Nat, y \in Nat : x = at[i - 1] /\ y = at[i]
    <3>1. i - 1 \in 0..N /\ i \in 0..N
      OBVIOUS
    <3> QED
      BY <1>3, <3>1
  <2>3. y = x + Len(e) /\ y <= p
    BY <1>3, <2>1, <2>2 DEF E
  <2>4. ASSUME NEW k \in 1..Len(e), x + k <= Len(b) PROVE b[x + k] = e[k]
    <3>1. MessageBytes(type, n)[x + k] = e[k]
      BY <1>3, <2>1, <2>2 DEF E
    <3>2. x + k \in 1..m
      <4>1. k \in Nat /\ k >= 1
        OBVIOUS
      <4> QED
        BY <1>2, <2>4, <4>1
    <3> QED
      BY <1>2, <3>1, <3>2
  <2>5. ReadField(Schema[type][i], b, IF x <= Len(b) THEN x ELSE Short)
          = IF y <= Len(b) THEN [off |-> y, content |-> C(i)]
            ELSE [off |-> Short, content |-> <<>>]
    <3>1. i \in Nat /\ Schema[type][i] \in Fields
      BY <1>4
    <3>2. PICK field \in Fields : field = Schema[type][i]
      BY <3>1
    <3>3. LiesAt(b, x, EncodeField(i, field, n))
      BY <2>1, <2>4, <3>2 DEF LiesAt
    <3>4. ReadsBack(i, field, n, b, x)
      BY <3>1, <3>3, FieldReadsBack
    <3> QED
      BY <2>1, <2>3, <3>2, <3>4 DEF ReadsBack
  <2>6. W[i] = IF at[i] <= m THEN [off |-> at[i], content |-> C(i)]
               ELSE [off |-> Short, content |-> <<>>]
    <3>1. i \in 0..N /\ i # 0
      OBVIOUS
    <3> QED
      BY <3>1
  <2> HIDE DEF W, C
  <2> QED
    BY <1>2, <1>5, <2>2, <2>5, <2>6
<1>6. /\ W[0] = [off |-> 0, content |-> <<>>]
      /\ \A i \in 0..N : W[i].off = IF at[i] <= m THEN at[i] ELSE Short
  <2>1. 0 \in 0..N /\ at[0] <= m
    BY <1>3
  <2>2. W[0] = [off |-> 0, content |-> <<>>]
    BY <2>1
  <2>3. ASSUME NEW i \in 1..N PROVE W[i].off = IF at[i] <= m THEN at[i] ELSE Short
    <3>1. i \in 0..N /\ i # 0
      OBVIOUS
    <3> HIDE DEF C
    <3> QED
      BY <3>1
  <2>4. \A i \in 0..N : i = 0 \/ i \in 1..N
    OBVIOUS
  <2> HIDE DEF W
  <2> QED
    BY <1>3, <2>1, <2>2, <2>3, <2>4
<1>7. W = [i \in 0..N |-> W[i]]
  OBVIOUS
<1> HIDE DEF W
<1>8. \A i \in 1..N : i - 1 \in 0..N /\ i \in 0..N /\ i # 0
  OBVIOUS
<1>9. \A i \in 1..N : ReadField(Schema[type][i], b, W[i - 1].off) = W[i]
  BY <1>5, <1>6, <1>8
<1>10. P(Read)
  <2>1. ASSUME NEW i \in 0..N
        PROVE  W[i] = IF i = 0 THEN [off |-> 0, content |-> <<>>]
                      ELSE ReadField(Schema[type][i], b, W[i - 1].off)
    <3>1. i = 0 \/ i \in 1..N
      OBVIOUS
    <3> QED
      BY <1>6, <1>9, <1>8, <3>1
  <2>2. P(W)
    BY <1>1, <1>7, <2>1, Zenon
  <2> HIDE DEF P
  <2> QED
    BY <2>2
<1>11. /\ Read[0] = [off |-> 0, content |-> <<>>]
       /\ \A i \in 1..N : Read[i] = ReadField(Schema[type][i], b, Read[i - 1].off)
  <2> HIDE DEF Read
  <2>1. \A i \in 0..N : Read[i] = IF i = 0 THEN [off |-> 0, content |-> <<>>]
                                  ELSE ReadField(Schema[type][i], b, Read[i - 1].off)
    BY <1>1, <1>10
  <2>2. 0 \in 0..N
    OBVIOUS
  <2> QED
    BY <1>8, <2>1, <2>2
<1>12. /\ Read[N].off = Short => Decode(type, b) = <<>>
       /\ Read[N].off # Short => Decode(type, b) = [i \in 1..N |-> Read[i].content]
  BY <1>1 DEF Decode
<1> HIDE DEF P, Read
<1>13. \A i \in 0..N : Read[i] = W[i]
  <2> DEFINE T == {i \in 0..N : Read[i] # W[i]}
  <2> SUFFICES ASSUME T # {} PROVE FALSE
    OBVIOUS
  <2>1. PICK i \in T : \A j \in T : i <= j
    <3>1. T \in SUBSET Nat
      OBVIOUS
    <3> HIDE DEF T
    <3> QED
      BY <3>1, LeastNatural
  <2>2. i \in 0..N /\ Read[i] # W[i]
    BY <2>1
  <2>3. i # 0
    BY <1>6, <1>11, <2>2
  <2>4. i \in 1..N /\ i - 1 \in 0..N /\ ~(i <= i - 1)
    BY <2>2, <2>3
  <2>5. Read[i - 1] = W[i - 1]
    BY <2>1, <2>4
  <2> QED
    BY <1>9, <1>11, <2>2, <2>4, <2>5
<1>14. N \in 0..N /\ (\A i \in 1..N : at[i] <= p) /\ at[N] = p
  <2>1. N \in 0..N
    OBVIOUS
  <2>2. at[N] = p
    BY <1>3
  <2>3. \A i \in 1..N : at[i] <= p
    BY <1>3
  <2> QED
    BY <2>1, <2>2, <2>3
<1>15. CASE m = p
  <2>1. Read[N].off # Short
    <3>1. Read[N].off = p
      BY <1>6, <1>13, <1>14, <1>15
    <3> QED
      BY <3>1 DEF Short
  <2>2. ASSUME NEW i \in 1..N PROVE Read[i].content = C(i)
    <3>1. W[i] = [off |-> at[i], content |-> C(i)]
      BY <1>8, <1>14, <1>15 DEF W
    <3>2. Read[i] = W[i]
      BY <1>8, <1>13
    <3> HIDE DEF C
    <3> QED
      BY <3>1, <3>2
  <2>3. Contents(type, n) = [i \in 1..N |-> C(i)]
    BY <1>1 DEF Contents
  <2> HIDE DEF C
  <2>4. Decode(type, b) = [i \in 1..N |-> C(i)]
    BY <1>12, <2>1, <2>2
  <2> QED
    BY <1>2, <1>15, <2>3, <2>4
<1>16. CASE m # p
  <2>1. ~(at[N] <= m)
    BY <1>2, <1>14, <1>16
  <2>2. Read[N].off = Short
    BY <1>6, <1>13, <1>14, <2>1
  <2> QED
    BY <1>2, <1>12, <1>16, <2>2
<1> QED
  BY <1>15, <1>16

\* How long a field is at most
FieldLengths(i, n) ==
    /\ Len(EncodeField(i, U8, n)) = 1 /\ Len(EncodeField(i, U16, n)) = 2
    /\ Len(EncodeField(i, U32, n)) = 4 /\ Len(EncodeField(i, U64, n)) = 8
    /\ Len(EncodeField(i, U256, n)) = 32
    /\ Len(EncodeField(i, Str, n)) <= Base
    /\ Len(EncodeField(i, U256Seq, n)) <= 32 * Base
    /\ Len(EncodeField(i, Bytes64K, n)) <= Base * Base + 1
    /\ \A field \in Fields : Len(EncodeField(i, field, n)) >= 1

\* Every field keeps its bound.
LEMMA FieldLength ==
    ASSUME NEW i \in Nat, NEW n \in Nat
    PROVE  FieldLengths(i, n)
<1>1. PICK B \in Nat, BB \in Nat : B = Base /\ BB = Base * Base /\ B >= 1
  BY CodecAssumption
<1>2. ASSUME NEW field \in Fields, NEW c, c = Fitting(field, n)
      PROVE  /\ Len(EncodeField(i, field, n)) = field.prefix + c * field.each
             /\ c \in Nat /\ (field.prefix = 0 => c = 1)
             /\ (field.prefix = 1 => c <= B - 1) /\ (field.prefix = 2 => c <= BB - 1)
  BY <1>1, <1>2, FittingType, EncodeFieldType
<1>3. Len(EncodeField(i, U8, n)) = 1
  <2>1. U8 \in Fields /\ U8.prefix = 0 /\ U8.each = 1
    BY DEF Fields, U8, Fixed
  <2>2. PICK c : c = Fitting(U8, n)
    OBVIOUS
  <2>3. Len(EncodeField(i, U8, n)) = 0 + c * 1 /\ c \in Nat /\ c = 1
    BY <1>2, <2>1, <2>2
  <2> QED
    BY <1>1, <2>3
<1>4. Len(EncodeField(i, U16, n)) = 2
  <2>1. U16 \in Fields /\ U16.prefix = 0 /\ U16.each = 2
    BY DEF Fields, U16, Fixed
  <2>2. PICK c : c = Fitting(U16, n)
    OBVIOUS
  <2>3. Len(EncodeField(i, U16, n)) = 0 + c * 2 /\ c \in Nat /\ c = 1
    BY <1>2, <2>1, <2>2
  <2> QED
    BY <1>1, <2>3
<1>5. Len(EncodeField(i, U32, n)) = 4
  <2>1. U32 \in Fields /\ U32.prefix = 0 /\ U32.each = 4
    BY DEF Fields, U32, Fixed
  <2>2. PICK c : c = Fitting(U32, n)
    OBVIOUS
  <2>3. Len(EncodeField(i, U32, n)) = 0 + c * 4 /\ c \in Nat /\ c = 1
    BY <1>2, <2>1, <2>2
  <2> QED
    BY <1>1, <2>3
<1>6. Len(EncodeField(i, U64, n)) = 8
  <2>1. U64 \in Fields /\ U64.prefix = 0 /\ U64.each = 8
    BY DEF Fields, U64, Fixed
  <2>2. PICK c : c = Fitting(U64, n)
    OBVIOUS
  <2>3. Len(EncodeField(i, U64, n)) = 0 + c * 8 /\ c \in Nat /\ c = 1
    BY <1>2, <2>1, <2>2
  <2> QED
    BY <1>1, <2>3
<1>7. Len(EncodeField(i, U256, n)) = 32
  <2>1. U256 \in Fields /\ U256.prefix = 0 /\ U256.each = 32
    BY DEF Fields, U256, Fixed
  <2>2. PICK c : c = Fitting(U256, n)
    OBVIOUS
  <2>3. Len(EncodeField(i, U256, n)) = 0 + c * 32 /\ c \in Nat /\ c = 1
    BY <1>2, <2>1, <2>2
  <2> QED
    BY <1>1, <2>3
<1>8. Len(EncodeField(i, Str, n)) <= B
  <2>1. Str \in Fields /\ Str.prefix = 1 /\ Str.each = 1
    BY DEF Fields, Str
  <2>2. PICK c : c = Fitting(Str, n)
    OBVIOUS
  <2>3. Len(EncodeField(i, Str, n)) = 1 + c * 1 /\ c \in Nat /\ c <= B - 1
    BY <1>2, <2>1, <2>2
  <2> QED
    BY <1>1, <2>3
<1>9. Len(EncodeField(i, U256Seq, n)) <= 32 * B
  <2>1. U256Seq \in Fields /\ U256Seq.prefix = 1 /\ U256Seq.each = 32
    BY DEF Fields, U256Seq
  <2>2. PICK c : c = Fitting(U256Seq, n)
    OBVIOUS
  <2>3. Len(EncodeField(i, U256Seq, n)) = 1 + c * 32 /\ c \in Nat /\ c <= B - 1
    BY <1>2, <2>1, <2>2
  <2> QED
    BY <1>1, <2>3
<1>10. Len(EncodeField(i, Bytes64K, n)) <= BB + 1
  <2>1. Bytes64K \in Fields /\ Bytes64K.prefix = 2 /\ Bytes64K.each = 1
    BY DEF Fields, Bytes64K
  <2>2. PICK c : c = Fitting(Bytes64K, n)
    OBVIOUS
  <2>3. Len(EncodeField(i, Bytes64K, n)) = 2 + c * 1 /\ c \in Nat /\ c <= BB - 1
    BY <1>2, <2>1, <2>2
  <2> QED
    BY <1>1, <2>3
<1>11. ASSUME NEW field \in Fields PROVE Len(EncodeField(i, field, n)) >= 1
  <2>1. PICK c \in Nat, w \in Nat, e \in Nat :
           /\ c = Fitting(field, n) /\ w = field.prefix /\ e = field.each
           /\ e >= 1 /\ (w = 0 => c = 1)
    <3>1. field.prefix \in Nat /\ field.each \in Nat /\ field.each >= 1
      BY DEF Fields, U8, U16, U32, U64, U256, Str, U256Seq, Bytes64K, Fixed
    <3> QED
      BY <1>2, <3>1
  <2>2. Len(EncodeField(i, field, n)) = w + c * e
    BY <1>2, <2>1
  <2>3. CASE w = 0
    <3>1. c * e = e
      BY <2>1, <2>3
    <3> QED
      BY <2>1, <2>2, <2>3, <3>1
  <2>4. CASE w # 0
    <3>1. c * e >= 0
      OBVIOUS
    <3> QED
      BY <2>2, <2>4, <3>1
  <2> QED
    BY <2>3, <2>4
<1> QED
  BY <1>1, <1>3, <1>4, <1>5, <1>6, <1>7, <1>8, <1>9, <1>10, <1>11 DEF FieldLengths

\* Three bytes tell the length of every message, and no message is empty.
LEMMA MessageLength ==
    ASSUME NEW type \in MessageTypes, NEW n \in Nat
    PROVE  /\ Len(MessageBytes(type, n)) \in Nat /\ Len(MessageBytes(type, n)) >= 1
           /\ Len(MessageBytes(type, n)) < Base * (Base * Base)
<1>1. PICK N \in 1..10 : N = Len(Schema[type])
  BY SchemaType
<1>2. PICK B \in Nat, BB \in Nat, L \in Nat :
         /\ B = Base /\ BB = B * B /\ L = B * BB
         /\ B >= 7 /\ BB >= 7 * B /\ L >= 7 * BB
  <2>1. PICK B \in Nat : B = Base /\ B >= 7
    BY CodecAssumption
  <2>2. PICK BB \in Nat : BB = B * B
    OBVIOUS
  <2>3. PICK L \in Nat : L = B * BB
    OBVIOUS
  <2>4. BB >= 7 * B
    BY <2>1, <2>2
  <2>5. L >= 7 * BB
    BY <2>1, <2>3
  <2> QED
    BY <2>1, <2>2, <2>3, <2>4, <2>5
<1> DEFINE E(i) == EncodeField(i, Schema[type][i], n)
<1>3. PICK at \in [0..Len(Schema[type]) -> Nat] :
         /\ at[0] = 0 /\ at[Len(Schema[type])] = Len(MessageBytes(type, n))
         /\ \A i \in 1..Len(Schema[type]) :
               /\ at[i] = at[i - 1] + Len(E(i)) /\ at[i] <= Len(MessageBytes(type, n))
               /\ \A k \in 1..Len(E(i)) : MessageBytes(type, n)[at[i - 1] + k] = E(i)[k]
  BY Layout
<1> HIDE DEF E
<1>4. PICK p \in Nat : p = Len(MessageBytes(type, n))
  BY Layout
<1>5. /\ at[0] = 0 /\ at[N] = p /\ \A i \in 0..N : at[i] \in Nat
      /\ \A i \in 1..N : at[i] = at[i - 1] + Len(E(i)) /\ at[i] <= p
  BY <1>1, <1>3, <1>4
<1>6. ASSUME NEW i \in 1..N
      PROVE  /\ Len(E(i)) \in Nat /\ Len(E(i)) >= 1
             /\ Schema[type][i] = U8 => Len(E(i)) = 1
             /\ Schema[type][i] = U16 => Len(E(i)) = 2
             /\ Schema[type][i] = U32 => Len(E(i)) = 4
             /\ Schema[type][i] = U64 => Len(E(i)) = 8
             /\ Schema[type][i] = U256 => Len(E(i)) = 32
             /\ Schema[type][i] = Str => Len(E(i)) <= B
             /\ Schema[type][i] = U256Seq => Len(E(i)) <= 32 * B
             /\ Schema[type][i] = Bytes64K => Len(E(i)) <= BB + 1
  <2>1. i \in Nat /\ Schema[type][i] \in Fields
    BY <1>1, SchemaType
  <2>2. PICK field \in Fields : field = Schema[type][i]
    BY <2>1
  <2>3. E(i) = EncodeField(i, field, n)
    BY <2>2 DEF E
  <2>4. Len(E(i)) \in Nat
    <3>1. E(i) \in Seq(Nat)
      BY <2>1, <2>3, EncodeFieldType
    <3> QED
      BY <3>1
  <2>5. FieldLengths(i, n)
    BY <2>1, FieldLength
  <2>6. Len(EncodeField(i, field, n)) >= 1
    BY <2>5 DEF FieldLengths
  <2>7. PICK len \in Nat : len = Len(E(i))
    BY <2>4
  <2>8. /\ field = U8 => len = 1
        /\ field = U16 => len = 2
        /\ field = U32 => len = 4
        /\ field = U64 => len = 8
        /\ field = U256 => len = 32
        /\ field = Str => len <= Base
        /\ field = U256Seq => len <= 32 * Base
        /\ field = Bytes64K => len <= Base * Base + 1
    BY <2>3, <2>5, <2>7 DEF FieldLengths
  <2> QED
    BY <1>2, <2>2, <2>3, <2>6, <2>7, <2>8
<1>12. PICK len \in [1..N -> Nat] :
          /\ \A i \in 1..N : at[i] = at[i - 1] + len[i]
          /\ \A i \in 1..N :
               /\ len[i] >= 1
               /\ Schema[type][i] = U8 => len[i] = 1
               /\ Schema[type][i] = U16 => len[i] = 2
               /\ Schema[type][i] = U32 => len[i] = 4
               /\ Schema[type][i] = U64 => len[i] = 8
               /\ Schema[type][i] = U256 => len[i] = 32
               /\ Schema[type][i] = Str => len[i] <= B
               /\ Schema[type][i] = U256Seq => len[i] <= 32 * B
               /\ Schema[type][i] = Bytes64K => len[i] <= BB + 1
  <2>1. PICK len : len = [i \in 1..N |-> Len(E(i))]
    OBVIOUS
  <2>2. \A i \in 1..N : len[i] = Len(E(i))
    BY <2>1
  <2>3. len \in [1..N -> Nat]
    BY <1>6, <2>1
  <2>4. \A i \in 1..N : at[i] = at[i - 1] + len[i]
    BY <1>5, <2>2
  <2>5. ASSUME NEW i \in 1..N
        PROVE  /\ len[i] >= 1
               /\ Schema[type][i] = U8 => len[i] = 1
               /\ Schema[type][i] = U16 => len[i] = 2
               /\ Schema[type][i] = U32 => len[i] = 4
               /\ Schema[type][i] = U64 => len[i] = 8
               /\ Schema[type][i] = U256 => len[i] = 32
               /\ Schema[type][i] = Str => len[i] <= B
               /\ Schema[type][i] = U256Seq => len[i] <= 32 * B
               /\ Schema[type][i] = Bytes64K => len[i] <= BB + 1
    <3>1. len[i] = Len(E(i))
      BY <2>2
    <3> QED
      BY <1>6, <3>1
  <2> QED
    BY ONLY <2>3, <2>4, <2>5
<1>13. \A i \in 1..N : len[i] \in Nat
  OBVIOUS
<1>7. p >= 1
  <2>1. 1 \in 1..N /\ 1 - 1 = 0
    OBVIOUS
  <2>2. at[1] = 0 + len[1] /\ at[1] <= p /\ len[1] \in Nat /\ len[1] >= 1
    BY <1>5, <1>12, <2>1
  <2> QED
    BY <2>2
\* When no field is longer than X
<1>8. ASSUME NEW X \in Nat, \A i \in 1..N : len[i] <= X PROVE p <= N * X
  <2> DEFINE T == {i \in 0..N : ~(at[i] <= i * X)}
  <2>1. T = {}
    <3> SUFFICES ASSUME T # {} PROVE FALSE
      OBVIOUS
    <3>1. PICK i \in T : \A j \in T : i <= j
      <4>1. T \in SUBSET Nat
        OBVIOUS
      <4> HIDE DEF T
      <4> QED
        BY <4>1, LeastNatural
    <3>2. i \in 0..N /\ ~(at[i] <= i * X)
      BY <3>1
    <3>3. i # 0
      BY <1>5, <3>2
    <3>4. PICK j \in 0..N : j = i - 1 /\ i \in 1..N
      BY <3>2, <3>3
    <3>5. at[j] <= j * X
      BY <3>1, <3>4
    <3>6. at[i] = at[j] + len[i] /\ len[i] <= X
      BY <1>8, <1>12, <3>4
    <3>7. i * X = j * X + X
      BY <3>4
    <3>8. PICK x \in Nat, y \in Nat, z \in Nat : x = at[j] /\ y = len[i] /\ z = j * X
      <4>1. at[j] \in Nat
        BY <1>5
      <4>2. len[i] \in Nat
        BY <1>13, <3>4
      <4>3. j * X \in Nat
        OBVIOUS
      <4> QED
        BY <4>1, <4>2, <4>3
    <3>9. x + y <= z + X
      <4>1. x <= z /\ y <= X
        BY <3>5, <3>6, <3>8
      <4> QED
        BY ONLY <4>1
    <3> QED
      BY <3>2, <3>6, <3>7, <3>8, <3>9
  <2>2. N \in 0..N
    OBVIOUS
  <2> QED
    BY <1>5, <2>1, <2>2
\* The longest message
<1>9. CASE type = "NewMiningJob"
  <2>1. N = 8
    BY <1>1, <1>9 DEF Schema
  <2>2. /\ len[1] = 4 /\ len[2] = 4 /\ len[3] = 1 /\ len[4] = 4
        /\ len[5] = 1 /\ len[6] <= 32 * B /\ len[7] <= BB + 1
        /\ len[8] <= BB + 1
    <3>1. Schema[type] = <<U32, U32, U8, U32, U8, U256Seq, Bytes64K, Bytes64K>>
      BY <1>9 DEF Schema
    <3>2. /\ Schema[type][1] = U32 /\ Schema[type][2] = U32 /\ Schema[type][3] = U8
          /\ Schema[type][4] = U32 /\ Schema[type][5] = U8 /\ Schema[type][6] = U256Seq
          /\ Schema[type][7] = Bytes64K /\ Schema[type][8] = Bytes64K
      BY <3>1
    <3>3. /\ 1 \in 1..N /\ 2 \in 1..N /\ 3 \in 1..N /\ 4 \in 1..N
          /\ 5 \in 1..N /\ 6 \in 1..N /\ 7 \in 1..N /\ 8 \in 1..N
      BY <2>1
    <3>4. len[1] = 4 /\ len[2] = 4 /\ len[3] = 1
      BY ONLY <1>12, <3>2, <3>3
    <3>5. len[4] = 4 /\ len[5] = 1 /\ len[6] <= 32 * B
      BY ONLY <1>12, <3>2, <3>3
    <3>6. len[7] <= BB + 1 /\ len[8] <= BB + 1
      BY ONLY <1>12, <3>2, <3>3
    <3> QED
      BY <3>4, <3>5, <3>6
  <2>3. PICK s \in Nat, t \in Nat, u \in Nat : s = len[6] /\ t = len[7] /\ u = len[8]
    <3>1. 6 \in 1..N /\ 7 \in 1..N /\ 8 \in 1..N
      BY <2>1
    <3> QED
      BY <1>13, <3>1
  <2>4. /\ at[1] = at[0] + len[1] /\ at[2] = at[1] + len[2]
        /\ at[3] = at[2] + len[3] /\ at[4] = at[3] + len[4]
        /\ at[5] = at[4] + len[5] /\ at[6] = at[5] + len[6]
        /\ at[7] = at[6] + len[7] /\ at[8] = at[7] + len[8]
    <3>1. \A i \in 1..8 : at[i] = at[i - 1] + len[i]
      BY <1>12, <2>1
    <3> QED
      BY <3>1
  <2>5. at[5] = 14
    <3>1. at[1] = 4 /\ at[2] = 8 /\ at[3] = 9 /\ at[4] = 13
      BY <1>5, <2>2, <2>4
    <3> QED
      BY <2>2, <2>4, <3>1
  <2>6. p = 14 + s + t + u
    BY <1>5, <2>1, <2>3, <2>4, <2>5
  <2>7. s <= 32 * B /\ t <= BB + 1 /\ u <= BB + 1
    BY <2>2, <2>3
  <2>8. p < L
    BY <1>2, <2>6, <2>7
  <2> QED
    BY <1>2, <1>4, <1>7, <2>8
<1>10. CASE type = "SetupConnection"
  <2>1. N = 10
    BY <1>1, <1>10 DEF Schema
  <2>2. ASSUME NEW i \in 1..N PROVE len[i] <= B
    <3>1. Schema[type] = <<U8, U16, U16, U32, Str, U16, Str, Str, Str, Str>>
      BY <1>10 DEF Schema
    <3>2. Schema[type][i] \in {U8, U16, U32, Str}
      BY <2>1, <3>1
    <3> QED
      <4>1. PICK l \in Nat : l = len[i]
        BY <1>13
      <4>2. l = 1 \/ l = 2 \/ l = 4 \/ l <= B
        BY <1>12, <3>2, <4>1
      <4> QED
        BY <1>2, <4>1, <4>2
  <2>3. p <= N * B
    BY <1>8, <2>2
  <2>5. p <= 10 * B
    BY <2>1, <2>3
  <2>6. 7 * BB >= 7 * (7 * B) /\ L >= 49 * B /\ L > 10 * B
    BY <1>2
  <2>4. p < L
    BY <2>5, <2>6
  <2> QED
    BY <1>2, <1>4, <1>7, <2>4
<1>11. CASE type \notin {"NewMiningJob", "SetupConnection"}
  <2> DEFINE Small(s) == Len(s) <= 6
                         /\ \A i \in 1..Len(s) : s[i] \in {U8, U16, U32, U64, U256, Str}
  <2>1. Small(Schema[type])
    <3>1. MessageTypes =
            {"SetupConnection", "SetupConnectionSuccess", "SetupConnectionError",
             "OpenStandardMiningChannel", "OpenStdMiningChannelSuccess",
             "OpenStdMiningChannelError", "NewMiningJob", "SetNewPrevHash", "SetTarget",
             "SubmitSharesStandard", "SubmitSharesSuccess", "SubmitSharesError"}
      BY DEF MessageTypes, Schema
    <3>2. CASE type = "SetupConnectionSuccess"
      BY <3>2 DEF Schema
    <3>3. CASE type = "SetupConnectionError"
      BY <3>3 DEF Schema
    <3>4. CASE type = "OpenStandardMiningChannel"
      BY <3>4 DEF Schema
    <3>5. CASE type = "OpenStdMiningChannelSuccess"
      BY <3>5 DEF Schema
    <3>6. CASE type = "OpenStdMiningChannelError"
      BY <3>6 DEF Schema
    <3>7. CASE type = "SetNewPrevHash"
      BY <3>7 DEF Schema
    <3>8. CASE type = "SetTarget"
      BY <3>8 DEF Schema
    <3>9. CASE type = "SubmitSharesStandard"
      <4>1. PICK s : s = <<U32, U32, U32, U32, U32, U32>>
        OBVIOUS
      <4>2. Schema[type] = s
        BY <3>9, <4>1 DEF Schema
      <4>3. Len(s) = 6 /\ \A i \in 1..6 : s[i] = U32
        BY <4>1
      <4> QED
        BY <4>2, <4>3
    <3>10. CASE type = "SubmitSharesSuccess"
      BY <3>10 DEF Schema
    <3>11. CASE type = "SubmitSharesError"
      BY <3>11 DEF Schema
    <3> QED
      BY <1>11, <3>1, <3>2, <3>3, <3>4, <3>5, <3>6, <3>7, <3>8, <3>9, <3>10, <3>11
  <2>2. N <= 6
    BY <1>1, <2>1
  <2>3. ASSUME NEW i \in 1..N PROVE len[i] <= B + 32
    <3>1. Schema[type][i] \in {U8, U16, U32, U64, U256, Str}
      BY <1>1, <2>1
    <3> QED
      <4>1. PICK l \in Nat : l = len[i]
        BY <1>13
      <4>2. l = 1 \/ l = 2 \/ l = 4 \/ l = 8 \/ l = 32 \/ l <= B
        BY <1>12, <3>1, <4>1
      <4> QED
        BY <1>2, <4>1, <4>2
  <2>4. p <= N * (B + 32)
    <3>1. B + 32 \in Nat
      OBVIOUS
    <3> QED
      BY <1>8, <2>3, <3>1
  <2>5. N * (B + 32) <= 6 * (B + 32)
    <3>1. PICK X \in Nat : X = B + 32
      OBVIOUS
    <3>2. N * X <= 6 * X
      BY <2>2
    <3> QED
      BY <3>1, <3>2
  <2>6. p <= 6 * (B + 32)
    BY <2>4, <2>5
  <2>7. p < L
    BY <1>2, <2>6
  <2> QED
    BY <1>2, <1>4, <1>7, <2>7
<1> QED
  BY <1>9, <1>10, <1>11

\* What the connection carries: type bytes, lengths and payloads
Bytes == Nat \cup MessageTypes

\* A frame is its type, its length and its payload, one behind the other.
LEMMA FrameLayout ==
    ASSUME NEW type \in MessageTypes, NEW p \in Seq(Nat)
    PROVE  /\ Frame(type, p) \in Seq(Bytes) /\ Len(Frame(type, p)) = 4 + Len(p)
           /\ Frame(type, p)[1] = type
           /\ \A k \in 1..3 : Frame(type, p)[1 + k] = LittleEndian(Len(p), 3)[k]
           /\ \A k \in 1..Len(p) : Frame(type, p)[4 + k] = p[k]
<1>1. PICK l \in Nat : l = Len(p)
  OBVIOUS
<1>2. PICK h : h = LittleEndian(l, 3)
  OBVIOUS
<1>3. h \in Seq(Nat) /\ Len(h) = 3
  <2>1. 3 \in 0..3
    OBVIOUS
  <2> QED
    BY <1>2, <2>1, LittleEndianType, Zenon
<1>4. PICK t : t = <<type>> \o h
  OBVIOUS
<1>5. <<type>> \in Seq(Bytes) /\ Len(<<type>>) = 1 /\ <<type>>[1] = type
  BY DEF Bytes
<1>6. h \in Seq(Bytes) /\ p \in Seq(Bytes)
  <2> SUFFICES ASSUME NEW s \in Seq(Nat) PROVE s \in Seq(Bytes)
    BY <1>3
  <2>1. \A i \in 1..Len(s) : s[i] \in Bytes
    <3> SUFFICES ASSUME NEW i \in 1..Len(s) PROVE s[i] \in Bytes
      OBVIOUS
    <3>1. s[i] \in Nat
      BY ElementOfSeq
    <3> QED
      BY <3>1 DEF Bytes
  <2>2. s = [i \in 1..Len(s) |-> s[i]] /\ Len(s) \in Nat
    BY LenProperties
  <2>3. s \in [1..Len(s) -> Bytes]
    BY <2>1, <2>2
  <2> QED
    BY <2>2, <2>3
<1>7. /\ t \in Seq(Bytes) /\ Len(t) = 4
      /\ \A k \in 1..4 : t[k] = IF k <= 1 THEN <<type>>[k] ELSE h[k - 1]
  <2>1. PICK s : s = <<type>>
    OBVIOUS
  <2>2. s \in Seq(Bytes) /\ Len(s) = 1
    BY <1>5, <2>1
  <2>3. /\ s \o h \in Seq(Bytes) /\ Len(s \o h) = Len(s) + Len(h)
        /\ \A k \in 1..Len(s) + Len(h) : (s \o h)[k] = IF k <= Len(s) THEN s[k] ELSE h[k - Len(s)]
    BY ONLY <2>2, <1>6, ConcatProperties
  <2> QED
    BY <1>3, <1>4, <2>1, <2>2, <2>3
<1>8. Frame(type, p) = t \o p
  BY <1>1, <1>2, <1>4 DEF Frame
<1>9. PICK f : f = t \o p
  OBVIOUS
<1>10. /\ f \in Seq(Bytes) /\ Len(f) = 4 + l
       /\ \A k \in 1..4 + l : f[k] = IF k <= 4 THEN t[k] ELSE p[k - 4]
  <2>1. /\ t \o p \in Seq(Bytes) /\ Len(t \o p) = Len(t) + Len(p)
        /\ \A k \in 1..Len(t) + Len(p) : (t \o p)[k] = IF k <= Len(t) THEN t[k] ELSE p[k - Len(t)]
    BY ONLY <1>6, <1>7, ConcatProperties
  <2> QED
    BY <1>1, <1>7, <1>9, <2>1
<1>11. f[1] = type /\ \A k \in 1..3 : f[1 + k] = h[k]
  <2>1. 1 \in 1..4 + l /\ f[1] = t[1] /\ t[1] = <<type>>[1]
    BY <1>7, <1>10
  <2>2. ASSUME NEW k \in 1..3 PROVE f[1 + k] = h[k]
    <3>1. PICK j \in 1..4 : j = 1 + k /\ ~(j <= 1) /\ j - 1 = k
      OBVIOUS
    <3>2. j \in 1..4 + l /\ j <= 4
      OBVIOUS
    <3> QED
      BY <1>7, <1>10, <3>1, <3>2
  <2> QED
    BY <1>5, <2>1, <2>2
<1>12. ASSUME NEW k \in 1..l PROVE f[4 + k] = p[k]
  <2>1. PICK j \in 1..4 + l : j = 4 + k /\ ~(j <= 4) /\ j - 4 = k
    OBVIOUS
  <2> QED
    BY <1>10, <2>1
<1> QED
  BY <1>1, <1>2, <1>8, <1>9, <1>10, <1>11, <1>12

\* The header tells the type and the length once it has arrived.
LEMMA HeaderReadsBack ==
    ASSUME NEW type \in MessageTypes, NEW p \in Seq(Nat), Len(p) < Base * (Base * Base),
           NEW b \in Seq(Bytes), Len(b) >= 4,
           \A k \in 1..4 : b[k] = Frame(type, p)[k]
    PROVE  b[1] = type /\ Number(SubSeq(b, 2, HeaderSize)) = Len(p)
<1>1. PICK l \in Nat : l = Len(p)
  OBVIOUS
<1>2. PICK h : h = LittleEndian(l, 3)
  OBVIOUS
<1>3. h \in Seq(Nat) /\ Len(h) = 3
  <2>1. 3 \in 0..3
    OBVIOUS
  <2> QED
    BY <1>2, <2>1, LittleEndianType, Zenon
<1>4. Number(h) = l
  BY <1>1, <1>2, NumberReadsBack
<1>5. b[1] = type
  BY FrameLayout
<1>6. ASSUME NEW k \in 1..3 PROVE b[1 + k] = h[k]
  <2>1. PICK j \in 1..4 : j = 1 + k
    OBVIOUS
  <2> QED
    BY <1>1, <1>2, <2>1, FrameLayout
<1>7. \A k \in 2..4 : b[k] \in Nat
  <2> SUFFICES ASSUME NEW k \in 2..4 PROVE b[k] \in Nat
    OBVIOUS
  <2>1. PICK j \in 1..3 : k = 1 + j
    <3>1. k - 1 \in 1..3 /\ k = 1 + (k - 1)
      OBVIOUS
    <3> QED
      BY <3>1
  <2>2. h[j] \in Nat
    <3>1. j \in 1..Len(h)
      BY <1>3
    <3> QED
      BY <1>3, <3>1, ElementOfSeq
  <2> QED
    BY <1>6, <2>1, <2>2
<1>8. /\ SubSeq(b, 2, 4) \in Seq(Nat) /\ Len(SubSeq(b, 2, 4)) = 3
      /\ \A k \in 1..3 : SubSeq(b, 2, 4)[k] = b[2 + k - 1]
  BY <1>7, SubSeqProperties
<1>9. SubSeq(b, 2, 4) = h
  <2>1. ASSUME NEW k \in 1..3 PROVE SubSeq(b, 2, 4)[k] = h[k]
    <3>1. 2 + k - 1 = 1 + k
      OBVIOUS
    <3> QED
      BY <1>6, <1>8, <3>1
  <2> QED
    BY <1>3, <1>8, <2>1, SeqEqual
<1> QED
  BY <1>1, <1>4, <1>5, <1>9 DEF HeaderSize

\* What follows the header of a part of a frame is a part of its payload.
PayloadArrived(b, m, p) ==
    /\ SubSeq(b, 5, 4 + m) \in Seq(Nat) /\ Len(SubSeq(b, 5, 4 + m)) = m
    /\ \A k \in 1..m : SubSeq(b, 5, 4 + m)[k] = p[k]

\* As much of the payload as has arrived is read as it was written.
LEMMA PayloadReadsBack ==
    ASSUME NEW type \in MessageTypes, NEW p \in Seq(Nat), NEW b \in Seq(Bytes),
           NEW m \in Nat, m <= Len(p), 4 + m <= Len(b),
           \A k \in 1..4 + m : b[k] = Frame(type, p)[k]
    PROVE  PayloadArrived(b, m, p)
<1>1. PICK l \in Nat : l = Len(p)
  OBVIOUS
<1>2. ASSUME NEW k \in 1..m PROVE b[4 + k] = p[k] /\ p[k] \in Nat
  <2>1. PICK j \in 1..4 + m : j = 4 + k
    OBVIOUS
  <2>2. k \in 1..l
    BY <1>1
  <2> QED
    BY <1>1, <2>1, <2>2, FrameLayout
<1>3. PICK e \in Nat : e = 4 + m
  OBVIOUS
<1>4. \A k \in 5..e : b[k] \in Nat
  <2> SUFFICES ASSUME NEW k \in 5..e PROVE b[k] \in Nat
    OBVIOUS
  <2>1. PICK j \in 1..m : k = 4 + j
    <3>1. k - 4 \in 1..m /\ k = 4 + (k - 4)
      BY <1>3
    <3> QED
      BY <3>1
  <2> QED
    BY <1>2, <2>1
<1>5. /\ SubSeq(b, 5, e) \in Seq(Nat)
      /\ Len(SubSeq(b, 5, e)) = IF 5 <= e THEN e - 5 + 1 ELSE 0
      /\ \A k \in 1..e - 5 + 1 : SubSeq(b, 5, e)[k] = b[5 + k - 1]
  BY <1>4, SubSeqProperties
<1>6. e - 5 + 1 = m /\ (IF 5 <= e THEN e - 5 + 1 ELSE 0) = m
  BY <1>3
<1>7. \A k \in 1..m : 5 + k - 1 = 4 + k
  OBVIOUS
<1> QED
  BY <1>2, <1>3, <1>5, <1>6, <1>7 DEF PayloadArrived

FrameOf(message) == Frame(message.type, MessageBytes(message.type, message.size))

SentMessages == [type : MessageTypes, size : Nat]

\* What is sent is a frame.
LEMMA FrameOfType ==
    ASSUME NEW message \in SentMessages
    PROVE  /\ FrameOf(message) \in Seq(Bytes)
           /\ Len(FrameOf(message)) = 4 + Len(MessageBytes(message.type, message.size))
           /\ message.type \in MessageTypes /\ message.size \in Nat
           /\ MessageBytes(message.type, message.size) \in Seq(Nat)
<1>1. PICK type \in MessageTypes, n \in Nat : type = message.type /\ n = message.size
  BY DEF SentMessages
<1>2. MessageBytes(type, n) \in Seq(Nat)
  BY Layout
<1> QED
  BY <1>1, <1>2, FrameLayout DEF FrameOf

\* A frame that has arrived is read as it was written, and what follows it is left.
FrameReadsBack(message, b, tail) ==
    LET size == Number(SubSeq(b, 2, HeaderSize))
    IN  /\ Decode(b[1], SubSeq(b, HeaderSize + 1, HeaderSize + size))
             = Contents(message.type, message.size)
        /\ SubSeq(b, HeaderSize + size + 1, Len(b)) = tail

\* A frame at the front is read as it was written.
LEMMA FrameReads ==
    ASSUME NEW message \in SentMessages, NEW tail \in Seq(Bytes),
           NEW b, b = FrameOf(message) \o tail
    PROVE  FrameReadsBack(message, b, tail)
<1>1. PICK type \in MessageTypes, n \in Nat : type = message.type /\ n = message.size
  BY DEF SentMessages
<1>2. PICK p \in Seq(Nat) : p = MessageBytes(type, n)
  BY Layout
<1>3. PICK m \in Nat, t \in Nat : m = Len(p) /\ t = Len(tail)
  OBVIOUS
<1>4. PICK f \in Seq(Bytes) : f = Frame(type, p) /\ Len(f) = 4 + m
  BY <1>3, FrameLayout
<1>5. /\ b \in Seq(Bytes) /\ Len(b) = 4 + m + t
      /\ \A k \in 1..4 + m + t : b[k] = IF k <= 4 + m THEN f[k] ELSE tail[k - (4 + m)]
  <2>1. b = f \o tail
    BY <1>1, <1>2, <1>4 DEF FrameOf
  <2>2. /\ f \o tail \in Seq(Bytes) /\ Len(f \o tail) = Len(f) + Len(tail)
        /\ \A k \in 1..Len(f) + Len(tail) :
              (f \o tail)[k] = IF k <= Len(f) THEN f[k] ELSE tail[k - Len(f)]
    BY ONLY ConcatProperties
  <2> QED
    BY <1>3, <1>4, <2>1, <2>2
<1>6. \A k \in 1..4 + m : b[k] = f[k]
  <2>1. \A k \in 1..4 + m : k \in 1..4 + m + t /\ k <= 4 + m
    OBVIOUS
  <2> QED
    BY <1>5, <2>1
<1>7. b[1] = type /\ Number(SubSeq(b, 2, HeaderSize)) = m
  <2>1. \A k \in 1..4 : k \in 1..4 + m
    OBVIOUS
  <2>2. \A k \in 1..4 : b[k] = Frame(type, p)[k]
    BY <1>4, <1>6, <2>1
  <2>3. Len(b) >= 4
    BY <1>5
  <2>4. Len(p) < Base * (Base * Base)
    BY <1>2, MessageLength
  <2> QED
    BY <1>3, <1>5, <2>2, <2>3, <2>4, HeaderReadsBack
<1>8. PICK payload : payload = SubSeq(b, 5, 4 + m)
  OBVIOUS
<1>9. /\ payload \in Seq(Nat) /\ Len(payload) = m /\ \A k \in 1..m : payload[k] = p[k]
  <2>1. m <= Len(p) /\ 4 + m <= Len(b)
    BY <1>3, <1>5
  <2>2. \A k \in 1..4 + m : b[k] = Frame(type, p)[k]
    BY <1>4, <1>6
  <2> QED
    <3>1. PayloadArrived(b, m, p)
      BY <1>5, <2>1, <2>2, PayloadReadsBack
    <3> QED
      BY <1>8, <3>1 DEF PayloadArrived
<1>10. Decode(type, payload) = Contents(type, n)
  <2>1. Len(payload) <= Len(MessageBytes(type, n)) /\ Len(payload) = Len(MessageBytes(type, n))
    BY <1>2, <1>3, <1>9
  <2>2. \A k \in 1..Len(payload) : payload[k] = MessageBytes(type, n)[k]
    BY <1>2, <1>9
  <2> QED
    BY <1>9, <2>1, <2>2, DecodeOfPart
<1>11. SubSeq(b, 4 + m + 1, Len(b)) = tail
  <2>1. PICK x \in Nat, y \in Nat : x = 4 + m + 1 /\ y = 4 + m + t
    OBVIOUS
  <2>2. ASSUME NEW k \in 1..t PROVE b[x + k - 1] = tail[k]
    <3>1. PICK j \in 1..4 + m + t : j = 4 + m + k /\ ~(j <= 4 + m) /\ j - (4 + m) = k
      OBVIOUS
    <3>2. x + k - 1 = j
      BY <2>1, <3>1
    <3> QED
      BY <1>5, <3>1, <3>2
  <2>3. \A k \in 1..t : tail[k] \in Bytes
    BY <1>3
  <2>4. \A k \in x..y : b[k] \in Bytes
    <3> SUFFICES ASSUME NEW k \in x..y PROVE b[k] \in Bytes
      OBVIOUS
    <3>1. k \in 1..4 + m + t
      BY <2>1
    <3> QED
      BY <1>5, <3>1
  <2>5. /\ SubSeq(b, x, y) \in Seq(Bytes)
        /\ Len(SubSeq(b, x, y)) = IF x <= y THEN y - x + 1 ELSE 0
        /\ \A k \in 1..y - x + 1 : SubSeq(b, x, y)[k] = b[x + k - 1]
    <3>1. x \in Int /\ y \in Int
      OBVIOUS
    <3> QED
      BY ONLY <2>4, <3>1, SubSeqProperties
  <2>6. y - x + 1 = t /\ (IF x <= y THEN y - x + 1 ELSE 0) = t
    BY <2>1
  <2>7. SubSeq(b, x, y) = tail
    <3>1. PICK s \in Seq(Bytes) : s = SubSeq(b, x, y)
      BY <2>5
    <3>2. Len(s) = Len(tail) /\ \A k \in 1..Len(s) : s[k] = tail[k]
      BY <1>3, <2>2, <2>5, <2>6, <3>1
    <3>3. s = tail
      BY ONLY <3>2, SeqEqual
    <3> QED
      BY <3>1, <3>3
  <2> QED
    BY <1>5, <2>1, <2>7
<1> QED
  <2>1. HeaderSize + 1 = 5 /\ HeaderSize + m = 4 + m
    BY DEF HeaderSize
  <2>2. /\ Decode(b[1], SubSeq(b, HeaderSize + 1, HeaderSize + m)) = Contents(type, n)
        /\ SubSeq(b, HeaderSize + m + 1, Len(b)) = tail
    BY <1>7, <1>8, <1>10, <1>11, <2>1
  <2> QED
    BY <1>1, <1>7, <2>2 DEF FrameReadsBack

\* Of a frame that has not arrived as a whole nothing is read or decoded.
NothingOf(message, b) ==
    /\ Len(b) >= HeaderSize => ~(Len(b) >= HeaderSize + Number(SubSeq(b, 2, HeaderSize)))
    /\ Decode(message.type, SubSeq(b, HeaderSize + 1, Len(b))) = <<>>

\* The header of a part asks for more than arrived, and its payload is a part.
LEMMA PartOfFrame ==
    ASSUME NEW message \in SentMessages, NEW b \in Seq(Bytes), Len(b) < Len(FrameOf(message)),
           \A k \in 1..Len(b) : b[k] = FrameOf(message)[k]
    PROVE  NothingOf(message, b)
<1>1. PICK type \in MessageTypes, n \in Nat : type = message.type /\ n = message.size
  BY DEF SentMessages
<1>2. PICK p \in Seq(Nat) : p = MessageBytes(type, n)
  BY Layout
<1>3. PICK l \in Nat, m \in Nat : l = Len(p) /\ m = Len(b)
  OBVIOUS
<1>4. PICK f \in Seq(Bytes) : f = Frame(type, p) /\ Len(f) = 4 + l /\ f = FrameOf(message)
  BY <1>1, <1>2, <1>3, FrameLayout DEF FrameOf
<1>5. m < 4 + l /\ \A k \in 1..m : b[k] = f[k]
  BY <1>3, <1>4
<1>6. l >= 1 /\ l < Base * (Base * Base)
  BY <1>2, <1>3, MessageLength
\* Too short for a header
<1>7. CASE m < 4
  <2>1. PICK s \in Seq(Nat) : s = <<>> /\ Len(s) = 0
    BY EmptySeq
  <2>2. SubSeq(b, 5, m) = s
    <3>1. m < 5 /\ m \in Int /\ 5 \in Int
      BY <1>7
    <3> QED
      BY <2>1, <3>1, SubSeqEmpty
  <2>3. Decode(type, s) = <<>>
    <3>1. Len(s) <= Len(MessageBytes(type, n)) /\ Len(s) # Len(MessageBytes(type, n))
      BY <1>2, <1>3, <1>6, <2>1
    <3>2. \A k \in 1..Len(s) : s[k] = MessageBytes(type, n)[k]
      BY <2>1
    <3> QED
      BY <3>1, <3>2, DecodeOfPart
  <2> QED
    <3>1. HeaderSize + 1 = 5 /\ ~(Len(b) >= HeaderSize)
      BY <1>3, <1>7 DEF HeaderSize
    <3> QED
      BY <1>1, <1>3, <2>1, <2>2, <2>3, <3>1 DEF NothingOf
\* Too short for what the header says
<1>8. CASE m >= 4
  <2>1. Number(SubSeq(b, 2, HeaderSize)) = l
    <3>1. \A k \in 1..4 : k \in 1..m
      BY <1>8
    <3>2. \A k \in 1..4 : b[k] = Frame(type, p)[k]
      BY <1>4, <1>5, <3>1
    <3>3. Len(b) >= 4 /\ Len(p) < Base * (Base * Base)
      BY <1>3, <1>6, <1>8
    <3> QED
      BY <1>3, <3>2, <3>3, HeaderReadsBack
  <2>2. PICK r \in Nat : r = m - 4
    BY <1>8
  <2>3. PICK s : s = SubSeq(b, 5, 4 + r)
    OBVIOUS
  <2>4. s \in Seq(Nat) /\ Len(s) = r /\ \A k \in 1..r : s[k] = p[k]
    <3>1. r <= Len(p) /\ 4 + r <= Len(b)
      BY <1>3, <1>5, <2>2
    <3>2. \A k \in 1..4 + r : b[k] = Frame(type, p)[k]
      BY <1>4, <1>5, <2>2
    <3> QED
      <4>1. PayloadArrived(b, r, p)
        BY <3>1, <3>2, PayloadReadsBack
      <4> QED
        BY <2>3, <4>1 DEF PayloadArrived
  <2>5. Decode(type, s) = <<>>
    <3>1. Len(s) <= Len(MessageBytes(type, n)) /\ Len(s) # Len(MessageBytes(type, n))
      BY <1>2, <1>3, <1>5, <2>2, <2>4
    <3>2. \A k \in 1..Len(s) : s[k] = MessageBytes(type, n)[k]
      BY <1>2, <2>4
    <3> QED
      BY <2>4, <3>1, <3>2, DecodeOfPart
  <2>6. SubSeq(b, HeaderSize + 1, Len(b)) = s
    BY <1>3, <2>2, <2>3 DEF HeaderSize
  <2>7. ~(m >= 4 + l)
    BY <1>5
  <2> QED
    <3>1. HeaderSize + l = 4 + l
      BY DEF HeaderSize
    <3> QED
      BY <1>1, <1>3, <2>1, <2>5, <2>6, <2>7, <3>1 DEF NothingOf
<1> QED
  BY <1>7, <1>8

\* What is received was sent in this order; what is left to read are the frames that follow,
\* or, once the connection broke off, a part of the last one.
Unread(f) ==
    /\ f \in [0..Len(sent) -> Seq(Bytes)]
    /\ f[Len(received)] = rest /\ f[Len(sent)] = <<>>
    /\ \A k \in 1..Len(sent) : k > Len(received) => f[k - 1] = FrameOf(sent[k]) \o f[k]
LastPart ==
    /\ Len(sent) >= 1 /\ Len(received) = Len(sent) - 1 /\ rest \in Seq(Bytes)
    /\ Len(rest) < Len(FrameOf(sent[Len(sent)]))
    /\ \A k \in 1..Len(rest) : rest[k] = FrameOf(sent[Len(sent)])[k]
CodecInv ==
    /\ sent \in Seq(SentMessages) /\ broken \in BOOLEAN
    /\ received \in Seq({Contents(type, n) : type \in MessageTypes, n \in Nat})
    /\ Len(received) <= Len(sent)
    /\ \A i \in 1..Len(received) : received[i] = Contents(sent[i].type, sent[i].size)
    /\ ~broken => \E f : Unread(f)
    /\ broken => LastPart

\* Before anything is sent nothing is left to read.
LEMMA CodecInvInit == CodecInit => CodecInv
<1> SUFFICES ASSUME CodecInit PROVE CodecInv
  OBVIOUS
<1>1. sent = <<>> /\ received = <<>> /\ rest = <<>> /\ broken = FALSE
  BY DEF CodecInit
<1>2. <<>> \in Seq(Bytes) /\ Len(<<>>) = 0
  BY EmptySeq
<1>3. PICK f : f = [k \in 0..0 |-> <<>>]
  OBVIOUS
<1>4. Unread(f)
  <2>1. f \in [0..0 -> Seq(Bytes)] /\ f[0] = <<>>
    BY <1>2, <1>3
  <2>2. \A k \in 1..0 : FALSE
    OBVIOUS
  <2> QED
    BY <1>1, <1>2, <2>1, <2>2 DEF Unread
<1>5. \E g : Unread(g)
  BY <1>4
<1> QED
  <2>1. sent \in Seq(SentMessages) /\ Len(sent) = 0
    BY <1>1, EmptySeq
  <2>2. received \in Seq({Contents(type, n) : type \in MessageTypes, n \in Nat})
    BY <1>1, EmptySeq
  <2>3. Len(received) = 0 /\ \A i \in 1..0 : FALSE
    BY <1>1
  <2>4. Len(received) <= Len(sent)
    BY <2>1, <2>3
  <2>5. \A i \in 1..Len(received) : received[i] = Contents(sent[i].type, sent[i].size)
    BY <2>3
  <2>6. broken \in BOOLEAN /\ ~broken
    BY <1>1
  <2> QED
    BY <1>5, <2>1, <2>2, <2>4, <2>5, <2>6 DEF CodecInv

\* Writing puts the frame behind the others.
LEMMA WriteFrameKeeps == CodecInv /\ WriteFrame => CodecInv'
<1> SUFFICES ASSUME CodecInv, WriteFrame PROVE CodecInv'
  OBVIOUS
<1>1. /\ sent \in Seq(SentMessages) /\ ~broken /\ broken' = broken /\ received' = received
      /\ Len(received) <= Len(sent)
      /\ received \in Seq({Contents(type, n) : type \in MessageTypes, n \in Nat})
      /\ \A i \in 1..Len(received) : received[i] = Contents(sent[i].type, sent[i].size)
  BY DEF CodecInv, WriteFrame
<1>2. PICK type \in MessageTypes, n \in FieldSizes :
         /\ sent' = Append(sent, [type |-> type, size |-> n])
         /\ rest' = rest \o Frame(type, Encode(type, Sizes(type, n)))
  BY DEF WriteFrame
<1>3. n \in Nat
  BY CodecAssumption
<1>4. PICK message \in SentMessages : message = [type |-> type, size |-> n]
  BY <1>3 DEF SentMessages
<1>5. PICK frame \in Seq(Bytes) :
         /\ frame = FrameOf(message)
         /\ sent' = Append(sent, message) /\ rest' = rest \o frame
  <2>1. FrameOf(message) = Frame(type, Encode(type, Sizes(type, n)))
    BY <1>4 DEF FrameOf, MessageBytes
  <2>2. FrameOf(message) \in Seq(Bytes)
    BY FrameOfType
  <2> QED
    BY <1>2, <1>4, <2>1, <2>2
<1>6. PICK s \in Nat, r \in Nat : s = Len(sent) /\ r = Len(received) /\ r <= s
  BY <1>1
<1>7. /\ sent' \in Seq(SentMessages) /\ Len(sent') = s + 1 /\ sent'[s + 1] = message
      /\ \A i \in 1..s : sent'[i] = sent[i]
  BY <1>1, <1>5, <1>6, AppendProperties
<1>8. PICK f : Unread(f)
  BY DEF CodecInv, WriteFrame
<1>9. /\ f \in [0..s -> Seq(Bytes)] /\ f[r] = rest /\ f[s] = <<>>
      /\ \A k \in 1..s : k > r => f[k - 1] = FrameOf(sent[k]) \o f[k]
  BY <1>6, <1>8 DEF Unread
<1>10. PICK g : g = [k \in 0..s + 1 |-> IF k <= s THEN f[k] \o frame ELSE <<>>]
  OBVIOUS
<1>11. \A k \in 0..s : k \in 0..s + 1 /\ k <= s
  OBVIOUS
<1>12. \A k \in 0..s : g[k] = f[k] \o frame
  BY <1>10, <1>11
<1>13. g[s + 1] = <<>>
  <2>1. s + 1 \in 0..s + 1 /\ ~(s + 1 <= s)
    OBVIOUS
  <2> QED
    BY <1>10, <2>1
<1>14. \A k \in 0..s : f[k] \in Seq(Bytes) /\ f[k] \o frame \in Seq(Bytes)
  <2> SUFFICES ASSUME NEW k \in 0..s
               PROVE  f[k] \in Seq(Bytes) /\ f[k] \o frame \in Seq(Bytes)
    OBVIOUS
  <2>1. f[k] \in Seq(Bytes)
    BY <1>9
  <2> QED
    BY ONLY <2>1, ConcatProperties
<1>15. g \in [0..s + 1 -> Seq(Bytes)]
  <2>1. <<>> \in Seq(Bytes)
    BY EmptySeq
  <2>2. \A k \in 0..s + 1 : k <= s => k \in 0..s
    OBVIOUS
  <2> QED
    BY <1>10, <1>14, <2>1, <2>2
<1>16. g[r] = rest'
  <2>1. r \in 0..s
    BY <1>6
  <2> QED
    BY <1>5, <1>9, <1>12, <2>1
<1>17. ASSUME NEW k \in 1..s + 1, k > r
       PROVE  g[k - 1] = FrameOf(sent'[k]) \o g[k]
  <2>1. CASE k = s + 1
    <3>1. k - 1 = s /\ s \in 0..s
      BY <2>1
    <3>2. g[k - 1] = <<>> \o frame
      BY <1>9, <1>12, <3>1
    <3>3. <<>> \o frame = frame /\ frame \o <<>> = frame
      BY ConcatEmptySeq
    <3> QED
      BY <1>5, <1>7, <1>13, <2>1, <3>2, <3>3
  <2>2. CASE k # s + 1
    <3>1. k \in 1..s /\ k - 1 \in 0..s /\ k \in 0..s
      BY <2>2
    <3>2. sent[k] \in SentMessages
      BY <1>1, <1>6, <3>1
    <3>3. PICK a \in Seq(Bytes), c \in Seq(Bytes) : a = FrameOf(sent[k]) /\ c = f[k]
      BY <1>14, <3>1, <3>2, FrameOfType
    <3>4. g[k - 1] = (a \o c) \o frame
      BY <1>9, <1>12, <1>17, <3>1, <3>3
    <3>5. g[k] = c \o frame
      BY <1>12, <3>1, <3>3
    <3>6. (a \o c) \o frame = a \o (c \o frame)
      BY ONLY ConcatAssociative
    <3>7. sent'[k] = sent[k]
      BY <1>7, <3>1
    <3> QED
      BY <3>3, <3>4, <3>5, <3>6, <3>7
  <2> QED
    BY <2>1, <2>2
<1>18. Unread(g)'
  <2>1. Len(sent') = s + 1 /\ Len(received') = r
    BY <1>1, <1>6, <1>7
  <2> QED
    BY <1>13, <1>15, <1>16, <1>17, <2>1 DEF Unread
<1>19. (\E h : Unread(h))'
  BY <1>18
<1>20. \A i \in 1..Len(received') : received'[i] = Contents(sent'[i].type, sent'[i].size)
  <2>1. \A i \in 1..r : i \in 1..s
    BY <1>6
  <2> QED
    BY <1>1, <1>6, <1>7, <2>1
<1>21. Len(received') <= Len(sent')
  BY <1>1, <1>6, <1>7
<1> QED
  BY <1>1, <1>7, <1>19, <1>20, <1>21 DEF CodecInv

\* Whatever arrived of the last frame is a part of it.
LEMMA BreakOffKeeps == CodecInv /\ BreakOff => CodecInv'
<1> SUFFICES ASSUME CodecInv, BreakOff PROVE CodecInv'
  OBVIOUS
<1>1. /\ sent \in Seq(SentMessages) /\ ~broken /\ broken' = TRUE
      /\ received' = received /\ sent' = sent
      /\ Len(received) <= Len(sent) /\ Len(received) = Len(sent) - 1
      /\ received \in Seq({Contents(type, n) : type \in MessageTypes, n \in Nat})
      /\ \A i \in 1..Len(received) : received[i] = Contents(sent[i].type, sent[i].size)
  BY DEF CodecInv, BreakOff
<1>2. PICK n \in 0..Len(rest) - 1 : rest' = SubSeq(rest, 1, n)
  BY DEF BreakOff
<1>3. PICK f : Unread(f)
  BY DEF CodecInv, BreakOff
<1>4. PICK s \in Nat : s = Len(sent) /\ s >= 1 /\ Len(received) = s - 1
  <2>1. Len(sent) \in Nat /\ Len(received) \in Nat
    BY <1>1
  <2> QED
    BY <1>1, <2>1
<1>5. rest = FrameOf(sent[s]) /\ rest \in Seq(Bytes)
  <2>1. s \in 1..s /\ s > s - 1 /\ s \in 0..s /\ sent[s] \in SentMessages
    BY <1>1, <1>4
  <2>2. rest = FrameOf(sent[s]) \o f[s] /\ f[s] = <<>>
    BY <1>3, <1>4, <2>1 DEF Unread
  <2>3. PICK frame \in Seq(Bytes) : frame = FrameOf(sent[s])
    BY <2>1, FrameOfType
  <2>4. frame \o <<>> = frame
    BY ONLY ConcatEmptySeq
  <2> QED
    BY <2>2, <2>3, <2>4
<1>6. PICK m \in Nat : m = Len(rest)
  BY <1>5
<1>7. \A k \in 1..n : rest[k] \in Bytes
  <2> SUFFICES ASSUME NEW k \in 1..n PROVE rest[k] \in Bytes
    OBVIOUS
  <2>1. k \in 1..Len(rest)
    BY <1>6
  <2> QED
    BY <1>5, <2>1, ElementOfSeq
<1>8. /\ rest' \in Seq(Bytes) /\ Len(rest') = n /\ \A k \in 1..n : rest'[k] = rest[k]
  <2>1. n \in Nat /\ 1 \in Int /\ n \in Int
    BY <1>6
  <2>2. PICK b : b = SubSeq(rest, 1, n)
    OBVIOUS
  <2>3. /\ b \in Seq(Bytes) /\ Len(b) = IF 1 <= n THEN n - 1 + 1 ELSE 0
        /\ \A k \in 1..n - 1 + 1 : b[k] = rest[1 + k - 1]
    BY ONLY <1>7, <2>1, <2>2, SubSeqProperties
  <2>4. n - 1 + 1 = n /\ (IF 1 <= n THEN n - 1 + 1 ELSE 0) = n /\ \A k \in 1..n : 1 + k - 1 = k
    BY <2>1
  <2> QED
    BY <1>2, <2>2, <2>3, <2>4
<1>9. LastPart'
  <2>1. n < m
    BY <1>6
  <2> QED
    BY <1>1, <1>4, <1>5, <1>6, <1>8, <2>1 DEF LastPart
<1> QED
  BY <1>1, <1>9 DEF CodecInv

\* The next frame is read, and it is the next one sent.
LEMMA ReadFrameKeeps == CodecInv /\ ReadFrame => CodecInv'
<1> SUFFICES ASSUME CodecInv, ReadFrame PROVE CodecInv'
  OBVIOUS
<1> DEFINE size == Number(SubSeq(rest, 2, HeaderSize))
<1>1. /\ sent \in Seq(SentMessages) /\ broken \in BOOLEAN /\ broken' = broken /\ sent' = sent
      /\ Len(received) <= Len(sent)
      /\ received \in Seq({Contents(type, n) : type \in MessageTypes, n \in Nat})
      /\ \A i \in 1..Len(received) : received[i] = Contents(sent[i].type, sent[i].size)
  BY DEF CodecInv, ReadFrame
<1>2. /\ Len(rest) >= HeaderSize /\ Len(rest) >= HeaderSize + size
      /\ received' = Append(received,
            Decode(rest[1], SubSeq(rest, HeaderSize + 1, HeaderSize + size)))
      /\ rest' = SubSeq(rest, HeaderSize + size + 1, Len(rest))
  BY DEF ReadFrame
<1>3. PICK s \in Nat, r \in Nat : s = Len(sent) /\ r = Len(received) /\ r <= s
  BY <1>1
\* Not from a broken connection
<1>4. ~broken
  <2> SUFFICES ASSUME broken PROVE FALSE
    OBVIOUS
  <2>1. LastPart
    BY DEF CodecInv
  <2>2. /\ s \in 1..s /\ rest \in Seq(Bytes) /\ Len(rest) < Len(FrameOf(sent[s]))
        /\ \A k \in 1..Len(rest) : rest[k] = FrameOf(sent[s])[k]
    BY <1>3, <2>1 DEF LastPart
  <2>3. PICK message \in SentMessages : message = sent[s]
    BY <1>1, <1>3, <2>2
  <2>4. NothingOf(message, rest)
    BY <2>2, <2>3, PartOfFrame
  <2> QED
    BY <1>2, <2>4 DEF NothingOf
<1>5. PICK f : Unread(f)
  BY <1>4 DEF CodecInv
<1>6. /\ f \in [0..s -> Seq(Bytes)] /\ f[r] = rest /\ f[s] = <<>>
      /\ \A k \in 1..s : k > r => f[k - 1] = FrameOf(sent[k]) \o f[k]
  BY <1>3, <1>5 DEF Unread
<1>7. r # s
  <2> SUFFICES ASSUME r = s PROVE FALSE
    OBVIOUS
  <2>1. rest = <<>> /\ Len(<<>>) = 0
    BY <1>6
  <2> QED
    BY <1>2, <2>1 DEF HeaderSize
<1>8. PICK k \in 1..s : k = r + 1 /\ k - 1 = r /\ k > r
  <2>1. r + 1 \in 1..s /\ r + 1 - 1 = r /\ r + 1 > r
    BY <1>3, <1>7
  <2> QED
    BY <2>1
<1>9. PICK message \in SentMessages : message = sent[k]
  BY <1>1, <1>3
<1>10. PICK tail \in Seq(Bytes) : tail = f[k] /\ rest = FrameOf(message) \o tail
  <2>1. k \in 0..s
    OBVIOUS
  <2>2. f[k] \in Seq(Bytes)
    BY <1>6, <2>1
  <2>3. f[k - 1] = FrameOf(sent[k]) \o f[k]
    BY <1>6, <1>8
  <2> QED
    BY <1>6, <1>8, <1>9, <2>2, <2>3
<1>11. FrameReadsBack(message, rest, tail)
  BY <1>10, FrameReads
<1>12. received' = Append(received, Contents(message.type, message.size)) /\ rest' = tail
  BY <1>2, <1>11 DEF FrameReadsBack
<1> HIDE DEF size
<1>13. PICK content : content = Contents(message.type, message.size)
  OBVIOUS
<1> DEFINE All == {Contents(type, n) : type \in MessageTypes, n \in Nat}
<1>14. content \in All
  BY <1>13 DEF SentMessages
<1>19. received \in Seq(All) /\ received' = Append(received, content)
  BY <1>1, <1>12, <1>13
<1> HIDE DEF All
<1>15. /\ received' \in Seq(All) /\ Len(received') = r + 1
       /\ received'[r + 1] = content
       /\ \A i \in 1..r : received'[i] = received[i]
  BY <1>3, <1>14, <1>19, AppendProperties
<1>16. \A i \in 1..Len(received') : received'[i] = Contents(sent'[i].type, sent'[i].size)
  <2> SUFFICES ASSUME NEW i \in 1..r + 1
               PROVE  received'[i] = Contents(sent[i].type, sent[i].size)
    BY <1>1, <1>15
  <2>1. i = r + 1 \/ i \in 1..r
    OBVIOUS
  <2> QED
    BY <1>1, <1>3, <1>8, <1>9, <1>13, <1>15, <2>1
<1>17. Unread(f)'
  <2>1. Len(sent') = s /\ Len(received') = k
    BY <1>1, <1>3, <1>8, <1>15
  <2>2. f[k] = rest'
    BY <1>10, <1>12
  <2>3. \A j \in 1..s : j > k => j > r
    BY <1>8
  <2>4. \A j \in 1..s : j > k => f[j - 1] = FrameOf(sent'[j]) \o f[j]
    BY <1>1, <1>6, <2>3
  <2> QED
    BY <1>6, <2>1, <2>2, <2>4 DEF Unread
<1>18. (\E g : Unread(g))'
  BY <1>17
<1>20. Len(received') <= Len(sent')
  BY <1>1, <1>3, <1>8, <1>15
<1>21. received' \in Seq({Contents(type, n) : type \in MessageTypes, n \in Nat})
  BY <1>15 DEF All
<1> QED
  BY <1>1, <1>4, <1>16, <1>18, <1>20, <1>21 DEF CodecInv

LEMMA CodecInvHolds == CodecSpec => []CodecInv
<1>1. CodecInit => CodecInv
  BY CodecInvInit
<1>2. CodecInv /\ [CodecNext]_codecVars => CodecInv'
  <2> SUFFICES ASSUME CodecInv, [CodecNext]_codecVars PROVE CodecInv'
    OBVIOUS
  <2>1. CASE UNCHANGED codecVars
    <3>1. sent' = sent /\ received' = received /\ rest' = rest /\ broken' = broken
      BY <2>1 DEF codecVars
    <3>2. ~broken' => (\E f : Unread(f))'
      <4>1. ASSUME NEW f, Unread(f) PROVE Unread(f)'
        BY <3>1, <4>1 DEF Unread
      <4> QED
        BY <3>1, <4>1 DEF CodecInv
    <3>3. broken' => LastPart'
      BY <3>1 DEF CodecInv, LastPart
    <3> QED
      BY <3>1, <3>2, <3>3 DEF CodecInv
  <2> QED
    BY <2>1, WriteFrameKeeps, BreakOffKeeps, ReadFrameKeeps DEF CodecNext
<1> QED
  BY <1>1, <1>2, PTL DEF CodecSpec

\* Every message is read as it was written, field by field and in the order it was written, and
\* of a message that broke off nothing is read or decoded: sv2WriteFrame and the encode
\* methods against readFrame and the decode methods, for every size of a byte from 7 values on.
THEOREM CodecRoundTripsHolds == CodecSpec => []CodecRoundTrips
<1>1. CodecInv => CodecRoundTrips
  <2> SUFFICES ASSUME CodecInv PROVE CodecRoundTrips
    OBVIOUS
  <2>1. ASSUME NEW i \in 1..Len(received), NEW f \in 1..Len(Schema[sent[i].type])
        PROVE  received[i][f] = Sent(i, f)
    <3>1. received[i] = Contents(sent[i].type, sent[i].size)
      BY DEF CodecInv
    <3> QED
      BY <3>1 DEF Contents, Sent
  <2>2. ASSUME broken
        PROVE  /\ Len(received) = Len(sent) - 1
               /\ Decode(sent[Len(sent)].type, SubSeq(rest, HeaderSize + 1, Len(rest))) = <<>>
    <3>1. LastPart /\ sent \in Seq(SentMessages)
      BY <2>2 DEF CodecInv
    <3>2. PICK message \in SentMessages : message = sent[Len(sent)]
      <4>1. Len(sent) \in 1..Len(sent)
        BY <3>1 DEF LastPart
      <4> QED
        BY <3>1, <4>1, ElementOfSeq
    <3>3. NothingOf(message, rest)
      BY <3>1, <3>2, PartOfFrame DEF LastPart
    <3> QED
      BY <3>1, <3>2, <3>3 DEF LastPart, NothingOf
  <2> QED
    BY <2>1, <2>2 DEF CodecRoundTrips
<1> QED
  BY <1>1, CodecInvHolds, PTL

-----------------------------------------------------------------------------
(* OneTimeCodes *)

USE OneTimeCodesAssumption

OnePerUser(C) == \A e, f \in C : e.user = f.user => e = f

CodesTypes ==
    /\ CodesTypeOK /\ time \in 0..MaxTime /\ issued \in 0..MaxIssued /\ kept \in BOOLEAN
    /\ IsFiniteSet(codes) /\ IsFiniteSet(table) /\ IsFiniteSet(batch)
    /\ OnePerUser(table) /\ OnePerUser(batch) /\ \A c \in spent : c \in 1..issued

\* Every copy of an entry, in memory, in the table or on its way between them
Copies == codes \cup table \cup batch

\* A code belongs to one entry and was issued.
CodesDistinct ==
    /\ \A e, f \in Copies : e.code = f.code => e = f
    /\ \A e \in Copies : e.code <= issued

\* While codes can be spent the table is empty; the copies of a spent code that are
\* left were taken before it was spent.
SpentInv ==
    ~kept =>
        /\ process \in {"serving", "saving", "writing"} => table = {}
        /\ process \in {"serving", "saving", "saved"} => batch = {}
        /\ \A e \in Copies : e.code \in spent => e.code \in late
        /\ again \subseteq late

CodesInv == CodesTypes /\ CodesDistinct /\ SpentInv

LEMMA CodesConstants ==
    /\ CodeLimit \in Nat /\ CodeLimit >= 1 /\ Lifetime \in Nat /\ Lifetime >= 1
    /\ MaxIssued \in Nat /\ MaxTime \in Nat /\ MaxStarts \in Nat /\ MaxDbFaults \in Nat
OBVIOUS

\* The n newest entries are at most n: all of them but the oldest are newer than that one.
LEMMA NewestBounded ==
    ASSUME NEW C, C \subseteq Entry, IsFiniteSet(C), \A e, f \in C : e.code = f.code => e = f,
           NEW n \in Nat
    PROVE  /\ Newest(C, n) \subseteq C /\ IsFiniteSet(Newest(C, n))
           /\ Cardinality(Newest(C, n)) <= n
<1> DEFINE N == Newest(C, n)
<1>1. N \subseteq C
  BY DEF Newest
<1>2. IsFiniteSet(N) /\ Cardinality(N) \in Nat
  BY <1>1, FS_Subset, FS_CardinalityType
<1>3. ASSUME N # {} PROVE Cardinality(N) <= n
  <2>0. \A e \in C : e.expires \in Nat /\ e.code \in Nat
    BY CodesConstants DEF Entry
  <2>1. PICK x \in {e.expires : e \in N} : \A y \in {e.expires : e \in N} : x <= y
    <3>1. {e.expires : e \in N} \in SUBSET Nat /\ {e.expires : e \in N} # {}
      BY <1>1, <1>3, <2>0
    <3> QED
      BY <3>1, LeastNatural
  <2> DEFINE Oldest == {e.code : e \in {f \in N : f.expires = x}}
  <2>2. PICK c \in Oldest : \A y \in Oldest : c <= y
    <3>1. Oldest \in SUBSET Nat /\ Oldest # {}
      BY <1>1, <2>0, <2>1
    <3> HIDE DEF Oldest
    <3> QED
      BY <3>1, LeastNatural
  <2>3. PICK m \in N : m.expires = x /\ m.code = c
    BY <2>2
  <2> DEFINE Newer == {f \in C : f.expires > m.expires \/ (f.expires = m.expires /\ f.code > m.code)}
  <2>4. Cardinality(Newer) < n /\ m \in C
    BY <2>3 DEF Newest
  <2>5. N \ {m} \subseteq Newer
    <3> SUFFICES ASSUME NEW f \in N, f # m PROVE f \in Newer
      OBVIOUS
    <3>1. f \in C /\ f.code # m.code /\ f.expires \in Nat /\ f.code \in Nat
      BY <1>1, <2>0, <2>4
    <3>2. f.expires >= x
      BY <2>1
    <3>3. f.expires = x => f.code >= c
      BY <2>2
    <3>4. m.expires \in Nat /\ m.code \in Nat
      BY <2>0, <2>4
    <3> QED
      BY <2>3, <3>1, <3>2, <3>3, <3>4
  <2>6. IsFiniteSet(Newer) /\ Cardinality(Newer) \in Nat
    <3>1. Newer \in SUBSET C
      OBVIOUS
    <3> HIDE DEF Newer
    <3> QED
      BY <3>1, FS_Subset, FS_CardinalityType
  <2> HIDE DEF Newer, N
  <2>7. Cardinality(N \ {m}) <= Cardinality(Newer)
    BY <2>5, <2>6, FS_Subset
  <2>8. Cardinality(N \ {m}) = Cardinality(N) - 1
    BY <1>2, <2>3, FS_RemoveElement
  <2> QED
    BY <1>2, <2>4, <2>6, <2>7, <2>8
<1>4. CASE N = {}
  BY <1>4, FS_EmptySet
<1> QED
  BY <1>1, <1>2, <1>3, <1>4

LEMMA CodesStart == CodesInit => CodesInv
<1> SUFFICES ASSUME CodesInit PROVE CodesInv
  OBVIOUS
<1>1. codes = {} /\ table = {} /\ batch = {} /\ spent = {} /\ again = {} /\ Copies = {}
  BY DEF CodesInit, Copies
<1>2. CodesTypes
  <2>1. IsFiniteSet({}) /\ Cardinality({}) = 0
    BY FS_EmptySet
  <2>2. kept \in BOOLEAN /\ process = "serving"
    BY DEF CodesInit
  <2> QED
    BY <1>1, <2>1, <2>2, CodesConstants DEF CodesInit, CodesTypes, CodesTypeOK, OnePerUser
<1> QED
  BY <1>1, <1>2 DEF CodesInit, CodesInv, CodesDistinct, SpentInv

\* Entries leave memory, and the code of the one that left is spent or not.
LEMMA LeaveKept ==
    ASSUME CodesInv, codes' \subseteq codes, NEW C,
           \A c \in C : c \in 1..issued /\ \A e \in codes' : e.code # c,
           (C = {} /\ UNCHANGED <<spent, late>>) \/ (Serving /\ Spend(C)),
           again' = again \/ (C \subseteq {e.code : e \in codes} /\ again' = again \cup (C \cap spent)),
           time' \in 0..MaxTime, UNCHANGED <<process, table, batch, issued, kept>>
    PROVE  CodesInv'
<1>0. CodesTypes /\ CodesDistinct /\ SpentInv
  BY DEF CodesInv
<1>1. CodesTypes'
  <2>1. IsFiniteSet(codes') /\ Cardinality(codes') <= CodeLimit /\ \A c \in spent' : c \in 1..issued'
    <3>1. IsFiniteSet(codes') /\ Cardinality(codes') <= Cardinality(codes)
          /\ Cardinality(codes) \in Nat /\ Cardinality(codes') \in Nat
      BY <1>0, FS_Subset, FS_CardinalityType DEF CodesTypes
    <3>2. Cardinality(codes) <= CodeLimit
      BY <1>0 DEF CodesTypes, CodesTypeOK
    <3>3. \A c \in spent' : c \in 1..issued'
      BY <1>0 DEF CodesTypes, Spend
    <3> QED
      BY <3>1, <3>2, <3>3, CodesConstants
  <2> QED
    BY <2>1, <1>0 DEF CodesTypes, CodesTypeOK, OnePerUser
<1>2. Copies' \subseteq Copies
  BY DEF Copies
<1>3. CodesDistinct'
  BY <1>0, <1>2 DEF CodesDistinct
<1>4. SpentInv'
  <2> SUFFICES ASSUME ~kept
               PROVE  /\ \A e \in Copies' : e.code \in spent' => e.code \in late'
                      /\ again' \subseteq late'
    BY <1>0 DEF SpentInv
  <2>1. late \subseteq late' /\ spent' \subseteq spent \cup C
    BY DEF Spend
  <2>2. ASSUME NEW e \in Copies', e.code \in C PROVE e.code \in late'
    <3>1. e \notin codes' /\ C # {}
      BY <2>2
    <3>2. e \in table \cup batch /\ Serving
      BY <3>1 DEF Copies
    <3>3. process \in {"writing", "saved"}
      BY <3>2, <1>0 DEF Serving, SpentInv
    <3> QED
      BY <3>1, <3>3, <2>2 DEF Spend
  <2>3. \A c \in C \cap spent : again' # again => c \in late
    BY <1>0 DEF SpentInv, Copies
  <2> QED
    BY <1>0, <1>2, <2>1, <2>2, <2>3 DEF SpentInv
<1> QED
  BY <1>1, <1>3, <1>4 DEF CodesInv

LEMMA SpendStep ==
    ASSUME CodesInv, NEW e \in codes, Clear(e) \/ Redeem(e)
    PROVE  CodesInv'
<1>1. /\ Serving /\ codes' = Live(codes) \ {e} /\ Spend({e.code})
      /\ again' = again \/ again' = again \cup ({e.code} \cap spent)
      /\ UNCHANGED <<time, process, table, batch, issued, kept>>
  BY DEF Clear, Redeem
<1>2. codes' \subseteq codes /\ e \in Copies
  BY <1>1 DEF Live, Copies
<1>3. e.code \in 1..issued /\ time \in 0..MaxTime
  <2>1. e \in Entry /\ e.code <= issued /\ issued \in 0..MaxIssued /\ time \in 0..MaxTime
    BY <1>2 DEF CodesInv, CodesTypes, CodesTypeOK, CodesDistinct
  <2> QED
    BY <2>1, CodesConstants DEF Entry
<1>4. \A f \in codes' : f.code # e.code
  BY <1>1, <1>2 DEF CodesInv, CodesDistinct, Copies
<1> QED
  BY <1>1, <1>2, <1>3, <1>4, LeaveKept

LEMMA JanitorStep == ASSUME CodesInv, Janitor \/ TimeTicks PROVE CodesInv'
<1>1. /\ codes' \subseteq codes /\ time' \in 0..MaxTime
      /\ UNCHANGED <<process, table, batch, issued, spent, late, again, kept>>
  <2>1. time \in 0..MaxTime
    BY DEF CodesInv, CodesTypes
  <2> QED
    BY <2>1, CodesConstants DEF Janitor, TimeTicks, Live
<1> DEFINE C == {}
<1>2. C = {} /\ \A c \in C : c \in 1..issued /\ \A e \in codes' : e.code # c
  OBVIOUS
<1> HIDE DEF C
<1> QED
  BY <1>1, <1>2, LeaveKept

\* The new code is no copy's, and the codes it replaces are no longer in memory.
LEMMA IssueStep == ASSUME CodesInv, NEW u \in Owners, Issue(u) PROVE CodesInv'
<1>0. CodesTypes /\ CodesDistinct /\ SpentInv /\ time \in 0..MaxTime /\ issued \in 0..MaxIssued
  BY DEF CodesInv, CodesTypes
<1> DEFINE others == {e \in Live(codes) : e.user # u}
           new == [user |-> u, code |-> issued + 1, expires |-> time + Lifetime]
           C == {e.code : e \in {f \in codes : f.user = u}}
           left == Newest(others, CodeLimit - 1)
<1>1. /\ Serving /\ issued < MaxIssued /\ issued' = issued + 1
      /\ codes' = left \cup {new} /\ Spend(C)
      /\ UNCHANGED <<time, process, table, batch, again, kept>>
  BY DEF Issue
<1>2. new \in Entry /\ new.user = u /\ new.code = issued + 1
  BY <1>0, <1>1, CodesConstants DEF Entry
<1>3. others \subseteq codes /\ codes \subseteq Entry /\ IsFiniteSet(others)
  <2>1. others \subseteq codes /\ codes \subseteq Entry /\ IsFiniteSet(codes)
    BY <1>0 DEF Live, CodesTypes, CodesTypeOK
  <2> QED
    BY <2>1, FS_Subset
<1>4. left \subseteq others /\ IsFiniteSet(left) /\ Cardinality(left) <= CodeLimit - 1
      /\ Cardinality(left) \in Nat
  <2>1. \A e, f \in others : e.code = f.code => e = f
    BY <1>0, <1>3 DEF CodesDistinct, Copies
  <2>2. CodeLimit - 1 \in Nat /\ others \subseteq Entry
    BY <1>3, CodesConstants
  <2> HIDE DEF others
  <2> QED
    BY <1>3, <2>1, <2>2, NewestBounded, FS_CardinalityType
<1>5. \A e \in left : e \in codes /\ e.user # u
  BY <1>3, <1>4
<1> HIDE DEF new, others, left
<1>6. IsFiniteSet(codes') /\ Cardinality(codes') <= CodeLimit
  <2>1. IsFiniteSet(codes') /\ Cardinality(codes') <= Cardinality(left) + 1
    BY <1>1, <1>4, FS_AddElement
  <2>2. Cardinality(codes') \in Nat
    BY <2>1, FS_CardinalityType
  <2> QED
    BY <1>4, <2>1, <2>2, CodesConstants
<1>7. \A e \in Copies : e \in Entry /\ e.code \in 1..issued
  <2>1. \A e \in Copies : e \in Entry /\ e.code <= issued
    BY <1>0 DEF CodesTypes, CodesTypeOK, CodesDistinct, Copies
  <2> QED
    BY <2>1, <1>0, CodesConstants DEF Entry
<1>8. CodesTypes'
  <2>1. \A c \in spent' : c \in 1..issued'
    <3>1. \A c \in C : c \in 1..issued
      BY <1>7 DEF Copies
    <3> HIDE DEF C
    <3> QED
      BY <3>1, <1>0, <1>1 DEF CodesTypes, Spend
  <2>2. codes' \subseteq Entry /\ OnePerUser(codes')
    BY <1>0, <1>1, <1>2, <1>3, <1>5 DEF CodesTypes, CodesTypeOK, OnePerUser
  <2>3. issued' \in 0..MaxIssued
    BY <1>0, <1>1, CodesConstants
  <2> QED
    BY <2>1, <2>2, <2>3, <1>0, <1>1, <1>6 DEF CodesTypes, CodesTypeOK, OnePerUser
<1>9. Copies' \subseteq Copies \cup {new}
  BY <1>1, <1>5 DEF Copies
<1>10. CodesDistinct'
  <2>1. issued + 1 \notin 1..issued /\ issued' \in Int /\ \A e \in Copies : e.code <= issued'
    BY <1>0, <1>1, <1>7
  <2> QED
    BY <2>1, <1>0, <1>1, <1>2, <1>7, <1>9 DEF CodesDistinct
<1>11. SpentInv'
  <2> SUFFICES ASSUME ~kept
               PROVE  \A e \in Copies' : e.code \in spent' => e.code \in late'
    BY <1>0, <1>1 DEF SpentInv, Spend
  <2> SUFFICES ASSUME NEW e \in Copies', e.code \in spent' PROVE e.code \in late'
    OBVIOUS
  <2>1. spent' = spent \cup C /\ late \subseteq late'
    BY <1>1 DEF Spend
  <2>2. e \in Copies
    <3>1. \A c \in C : c \in 1..issued
      BY <1>7 DEF Copies
    <3> HIDE DEF C
    <3>2. \A c \in spent' : c \in 1..issued
      BY <3>1, <2>1, <1>0 DEF CodesTypes
    <3>3. issued + 1 \notin 1..issued
      BY <1>0
    <3> QED
      BY <3>2, <3>3, <1>2, <1>9
  <2>3. CASE e.code \in spent
    BY <2>1, <2>2, <2>3, <1>0 DEF SpentInv
  <2>4. CASE e.code \in C
    <3>1. PICK f \in codes : f.user = u /\ f.code = e.code
      BY <2>4
    <3>2. e = f
      BY <2>2, <3>1, <1>0 DEF CodesDistinct, Copies
    <3>3. e \notin codes'
      <4>1. e # new
        BY <3>1, <3>2, <1>0, <1>2, <1>7 DEF Copies
      <4> QED
        BY <3>1, <3>2, <4>1, <1>1, <1>5
    <3>4. e \in table \cup batch
      BY <3>3, <1>1 DEF Copies
    <3>5. process \in {"writing", "saved"}
      BY <3>4, <1>0, <1>1 DEF Serving, SpentInv
    <3> QED
      BY <3>5, <2>4, <1>1 DEF Spend
  <2> QED
    BY <2>1, <2>3, <2>4
<1> QED
  BY <1>8, <1>10, <1>11 DEF CodesInv

\* Copies are moved, not made, and nothing is spent.
LEMMA MoveKept ==
    ASSUME CodesInv, Copies' \subseteq Copies, UNCHANGED <<time, issued, spent, late, again>>,
           kept' \in BOOLEAN, kept => kept',
           process' \in {"starting", "clearing", "serving", "saving", "writing", "saved", "down"},
           IsFiniteSet(codes'), IsFiniteSet(table'), IsFiniteSet(batch'), Cardinality(codes') <= CodeLimit,
           OnePerUser(codes'), OnePerUser(table'), OnePerUser(batch'),
           ~kept' => /\ process' \in {"serving", "saving", "writing"} => table' = {}
                     /\ process' \in {"serving", "saving", "saved"} => batch' = {}
    PROVE  CodesInv'
<1>1. CodesTypes'
  BY DEF CodesInv, CodesTypes, CodesTypeOK, Copies, OnePerUser
<1>2. CodesDistinct' /\ SpentInv'
  BY DEF CodesInv, CodesDistinct, SpentInv
<1> QED
  BY <1>1, <1>2 DEF CodesInv

LEMMA CodeStopStep == ASSUME CodesInv, Stop \/ CodesCrash PROVE CodesInv'
<1>1. IsFiniteSet({}) /\ Cardinality({}) = 0 /\ OnePerUser({})
  BY FS_EmptySet DEF OnePerUser
<1>2. /\ IsFiniteSet(codes) /\ IsFiniteSet(table) /\ IsFiniteSet(batch)
      /\ Cardinality(codes) <= CodeLimit /\ OnePerUser(codes) /\ OnePerUser(table) /\ OnePerUser(batch)
      /\ kept \in BOOLEAN
  BY DEF CodesInv, CodesTypes, CodesTypeOK, OnePerUser
<1>3. CASE Stop
  <2>1. Copies' = Copies
    BY <1>3 DEF Stop, Copies
  <2>2. ~kept => table = {} /\ batch = {}
    BY <1>3 DEF Stop, CodesInv, SpentInv
  <2> QED
    BY <1>2, <1>3, <2>1, <2>2, MoveKept DEF Stop
<1>4. CASE CodesCrash
  <2>1. Copies' \subseteq Copies
    BY <1>4 DEF CodesCrash, Copies
  <2>2. Cardinality({}) <= CodeLimit
    BY <1>1, CodesConstants
  <2> QED
    BY <1>1, <1>2, <1>4, <2>1, <2>2, MoveKept DEF CodesCrash
<1> QED
  BY <1>3, <1>4

LEMMA SaveStep ==
    ASSUME CodesInv, NEW ok \in BOOLEAN, ClearTable(ok) \/ WriteBatch(ok) \/ Start(ok)
    PROVE  CodesInv'
<1>0. SpentInv
  BY DEF CodesInv
<1>1. IsFiniteSet({}) /\ OnePerUser({})
  BY FS_EmptySet DEF OnePerUser
<1>2. /\ IsFiniteSet(codes) /\ IsFiniteSet(table) /\ IsFiniteSet(batch)
      /\ Cardinality(codes) <= CodeLimit /\ OnePerUser(codes) /\ OnePerUser(table) /\ OnePerUser(batch)
      /\ kept \in BOOLEAN
  BY DEF CodesInv, CodesTypes, CodesTypeOK, OnePerUser
<1>3. CASE ClearTable(ok)
  <2>1. /\ table' \in {{}, table} /\ (~kept' => table' = {} /\ ~kept) /\ kept' \in BOOLEAN
        /\ codes' = Live(codes) /\ batch' = Live(codes) /\ process' = "writing"
        /\ UNCHANGED <<time, issued, spent, late, again>>
    BY <1>2, <1>3 DEF ClearTable
  <2>2. Live(codes) \subseteq codes
    BY DEF Live
  <2>3. IsFiniteSet(Live(codes)) /\ Cardinality(Live(codes)) <= CodeLimit /\ OnePerUser(Live(codes))
    <3>1. IsFiniteSet(Live(codes)) /\ Cardinality(Live(codes)) <= Cardinality(codes)
      BY <1>2, <2>2, FS_Subset
    <3>2. Cardinality(Live(codes)) \in Nat /\ Cardinality(codes) \in Nat
      BY <1>2, <3>1, FS_CardinalityType
    <3> QED
      BY <3>1, <3>2, <1>2, <2>2, CodesConstants DEF OnePerUser
  <2>4. Copies' \subseteq Copies
    BY <2>1, <2>2 DEF Copies
  <2>5. IsFiniteSet(table') /\ OnePerUser(table')
    BY <1>1, <1>2, <2>1
  <2> QED
    BY <1>2, <2>1, <2>3, <2>4, <2>5, MoveKept
<1>4. CASE WriteBatch(ok)
  <2> DEFINE elsewhere == {e \in table : \A f \in batch : f.user # e.user}
  <2>1. /\ process = "writing" /\ process' = "saved" /\ batch' = {} /\ codes' = codes
        /\ table' = table \/ table' = batch \cup elsewhere
        /\ UNCHANGED <<time, issued, spent, late, again, kept>>
    BY <1>4 DEF WriteBatch
  <2>2. IsFiniteSet(batch \cup elsewhere) /\ OnePerUser(batch \cup elsewhere)
    <3>1. IsFiniteSet(elsewhere)
      BY <1>2, FS_Subset
    <3>2. OnePerUser(batch \cup elsewhere)
      BY <1>2 DEF OnePerUser
    <3> HIDE DEF elsewhere
    <3> QED
      BY <1>2, <3>1, <3>2, FS_Union
  <2>3. Copies' \subseteq Copies
    BY <2>1 DEF Copies
  <2>4. IsFiniteSet(table') /\ OnePerUser(table')
    BY <1>2, <2>1, <2>2
  <2> QED
    BY <1>1, <1>2, <2>1, <2>3, <2>4, MoveKept
<1>5. CASE Start(ok)
  <2>1. /\ process = "down" /\ process' \in {"clearing", "serving"} /\ batch' \in {table, {}}
        /\ (~kept' => ~kept /\ process' = "clearing") /\ kept' \in BOOLEAN /\ codes' = codes /\ table' = table
        /\ UNCHANGED <<time, issued, spent, late, again>>
    BY <1>2, <1>5 DEF Start
  <2>2. Copies' \subseteq Copies /\ IsFiniteSet(batch') /\ OnePerUser(batch')
    BY <1>1, <1>2, <2>1 DEF Copies
  <2> QED
    BY <1>2, <2>1, <2>2, MoveKept
<1> QED
  BY <1>3, <1>4, <1>5

LEMMA LoadStep == ASSUME CodesInv, NEW ok \in BOOLEAN, Load(ok) PROVE CodesInv'
<1>0. SpentInv /\ CodesDistinct
  BY DEF CodesInv
<1>1. IsFiniteSet({}) /\ OnePerUser({})
  BY FS_EmptySet DEF OnePerUser
<1>2. /\ IsFiniteSet(table) /\ IsFiniteSet(batch) /\ batch \subseteq Entry
      /\ OnePerUser(table) /\ OnePerUser(batch) /\ kept \in BOOLEAN
  BY DEF CodesInv, CodesTypes, CodesTypeOK
<1>3. PICK C \in SUBSET Live(batch) : codes' = Newest(C, CodeLimit - 1)
  BY DEF Load
<1>4. /\ table' \in {{}, table} /\ (~kept' => table' = {} /\ ~kept) /\ kept' \in BOOLEAN
      /\ process' = "serving" /\ batch' = {} /\ UNCHANGED <<time, issued, spent, late, again>>
  BY <1>2 DEF Load
<1>5. /\ C \subseteq batch /\ C \subseteq Entry /\ IsFiniteSet(C)
      /\ \A e, f \in C : e.code = f.code => e = f
  <2>1. C \subseteq batch
    BY DEF Live
  <2> QED
    BY <2>1, <1>0, <1>2, FS_Subset DEF CodesDistinct, Copies
<1>6. codes' \subseteq C /\ IsFiniteSet(codes') /\ Cardinality(codes') <= CodeLimit
  <2>1. CodeLimit - 1 \in Nat
    BY CodesConstants
  <2>2. codes' \subseteq C /\ IsFiniteSet(codes') /\ Cardinality(codes') <= CodeLimit - 1
    BY <1>3, <1>5, <2>1, NewestBounded
  <2>3. Cardinality(codes') \in Nat
    BY <2>2, FS_CardinalityType
  <2> QED
    BY <2>2, <2>3, CodesConstants
<1>7. Copies' \subseteq Copies /\ OnePerUser(codes') /\ IsFiniteSet(table') /\ OnePerUser(table')
  BY <1>1, <1>2, <1>4, <1>5, <1>6 DEF Copies, OnePerUser
<1> QED
  BY <1>1, <1>4, <1>6, <1>7, MoveKept

LEMMA CodesKept == CodesInv /\ [CodesNext]_codeVars => CodesInv'
<1> SUFFICES ASSUME CodesInv, [CodesNext]_codeVars PROVE CodesInv'
  OBVIOUS
<1>1. CASE TimeTicks \/ Janitor \/ Stop \/ CodesCrash
  BY <1>1, JanitorStep, CodeStopStep
<1>2. ASSUME NEW u \in Owners, Issue(u) PROVE CodesInv'
  BY <1>2, IssueStep
<1>3. ASSUME NEW e \in codes, Clear(e) \/ Redeem(e) PROVE CodesInv'
  BY <1>3, SpendStep
<1>4. ASSUME NEW ok \in BOOLEAN, ClearTable(ok) \/ WriteBatch(ok) \/ Start(ok) \/ Load(ok)
      PROVE  CodesInv'
  BY <1>4, SaveStep, LoadStep
<1>5. CASE UNCHANGED codeVars
  BY <1>5 DEF codeVars, CodesInv, CodesTypes, CodesTypeOK, CodesDistinct, SpentInv, Copies, OnePerUser
<1> QED
  BY <1>1, <1>2, <1>3, <1>4, <1>5 DEF CodesNext

LEMMA CodesInvHolds == CodesSpec => []CodesInv
BY CodesStart, CodesKept, PTL DEF CodesSpec

(* A code that was redeemed, replaced or cleared is not accepted again,     *)
(* across any number of restarts, unless it was spent while the codes were  *)
(* being saved, or the table could not be read or cleared.                  *)
THEOREM SpentCodesRefused == CodesSpec => []SpentCodesStaySpent
<1>1. CodesInv => SpentCodesStaySpent
  BY DEF CodesInv, SpentInv, SpentCodesStaySpent
<1> QED
  BY <1>1, CodesInvHolds, PTL

\* Codes and their table keep their types (one_time_code.go).
THEOREM CodesTypesCorrect == CodesSpec => []CodesTypeOK
<1>1. CodesInv => CodesTypeOK
  BY DEF CodesInv, CodesTypes
<1> QED
  BY <1>1, CodesInvHolds, PTL

HIDE OneTimeCodesAssumption

-----------------------------------------------------------------------------
(* Backup *)

USE BackupAssumption

Runs == [step : {"none", "snapshot", "stamp", "upload", "uploaded"}, source : 0..MaxVersion]

BackupTypes ==
    /\ BackupTypeOK /\ backup \in Runs
    /\ ~KeepsCopy => localCopy = 0

\* Nothing that was noted is newer than v.
CoversAll(v) == v >= lastSnapshot /\ v >= lastUpload /\ v >= snapshotRow /\ v >= uploadRow

\* Without a lost copy, what could still be uploaded covers all that was noted.
CopiesCover ==
    ~copyFailed =>
        /\ localCopy # 0 => CoversAll(localCopy)
        /\ backup.step \in {"stamp", "upload"} /\ backup.source # 0 => CoversAll(backup.source)
        /\ remote >= lastUpload /\ remote >= uploadRow

BackupInv == BackupTypes /\ CopiesCover

LEMMA BackupConstants ==
    /\ CloudEnabled \in BOOLEAN /\ KeepsCopy \in BOOLEAN /\ ForceInterval \in BOOLEAN
    /\ MaxVersion \in Nat /\ MaxVersion >= 1 /\ MaxBackupFaults \in Nat /\ MaxBackupStops \in Nat
OBVIOUS

LEMMA BackupStarts == BackupInit => BackupInv
<1> SUFFICES ASSUME BackupInit PROVE BackupInv
  OBVIOUS
<1>1. bucket \in BOOLEAN /\ copyFailed \in BOOLEAN
  BY DEF BackupInit
<1>2. backup \in Runs /\ backup.step = "none" /\ backup.source = 0
  BY BackupConstants DEF BackupInit, NoBackup, Runs
<1> QED
  BY <1>1, <1>2, BackupConstants DEF BackupInit, BackupInv, BackupTypes, BackupTypeOK, CopiesCover

LEMMA BackupNumbers ==
    ASSUME BackupInv
    PROVE  /\ version \in 1..MaxVersion /\ lastSnapshot \in 0..version /\ lastUpload \in 0..version
           /\ snapshotRow \in 0..version /\ uploadRow \in 0..version /\ localCopy \in 0..version
           /\ remote \in 0..version /\ backup.source \in 0..version
           /\ bucket \in BOOLEAN /\ copyFailed \in BOOLEAN
           /\ backup.step \in {"none", "snapshot", "stamp", "upload", "uploaded"}
           /\ backupFaults \in 0..MaxBackupFaults /\ backupStops \in 0..MaxBackupStops
BY DEF BackupInv, BackupTypes, BackupTypeOK

\* The counters stay in their bounds.
LEMMA FaultsBounded ==
    ASSUME BackupInv, NEW ok \in BOOLEAN, Works(ok), Count(ok)
    PROVE  backupFaults' \in 0..MaxBackupFaults
BY BackupNumbers, BackupConstants DEF Works, Count

LEMMA WorldStep == ASSUME BackupInv, Write \/ CopyRemoved \/ StopAndStart PROVE BackupInv'
<1>0. /\ CopiesCover /\ backup \in Runs /\ (~KeepsCopy => localCopy = 0)
  BY DEF BackupInv, BackupTypes
<1>1. CASE Write
  <2>1. /\ version < MaxVersion /\ version' = version + 1
        /\ UNCHANGED <<lastSnapshot, lastUpload, snapshotRow, uploadRow, localCopy, remote, bucket,
                       backup, copyFailed, backupFaults, backupStops>>
    BY <1>1 DEF Write
  <2>2. BackupTypeOK'
    BY <2>1, BackupNumbers, BackupConstants DEF BackupTypeOK
  <2> QED
    BY <1>0, <2>1, <2>2 DEF BackupInv, BackupTypes, CopiesCover, CoversAll
<1>2. CASE CopyRemoved
  <2>1. /\ localCopy' = 0 /\ Works(FALSE) /\ Count(FALSE)
        /\ UNCHANGED <<version, lastSnapshot, lastUpload, snapshotRow, uploadRow, remote, bucket,
                       backup, copyFailed, backupStops>>
    BY <1>2 DEF CopyRemoved
  <2>2. backupFaults' \in 0..MaxBackupFaults
    BY <2>1, FaultsBounded
  <2>3. BackupTypeOK'
    BY <2>1, <2>2, BackupNumbers, BackupConstants DEF BackupTypeOK
  <2> QED
    BY <1>0, <2>1, <2>3 DEF BackupInv, BackupTypes, CopiesCover, CoversAll
<1>3. CASE StopAndStart
  <2>1. /\ backupStops < MaxBackupStops /\ backupStops' = backupStops + 1
        /\ backup' = NoBackup /\ bucket' = FALSE
        /\ lastSnapshot' = snapshotRow /\ lastUpload' = uploadRow
        /\ UNCHANGED <<version, snapshotRow, uploadRow, localCopy, remote, copyFailed, backupFaults>>
    BY <1>3 DEF StopAndStart
  <2>2. /\ backup' \in Runs /\ backup'.step = "none" /\ backup'.source = 0
        /\ bucket' \in BOOLEAN
    <3>1. bucket' \in BOOLEAN
      BY <2>1
    <3> QED
      BY <2>1, <3>1, BackupConstants DEF NoBackup, Runs
  <2>3. BackupTypeOK'
    BY <2>1, <2>2, BackupNumbers, BackupConstants DEF BackupTypeOK
  <2> QED
    BY <1>0, <2>1, <2>2, <2>3 DEF BackupInv, BackupTypes, CopiesCover, CoversAll
<1> QED
  BY <1>1, <1>2, <1>3

\* When only the upload is missing, the copy is uploaded.
LEMMA BeginBackupStep ==
    ASSUME BackupInv, NEW force \in BOOLEAN, NEW reachable \in BOOLEAN, NEW read \in BOOLEAN,
           BeginBackup(force, reachable, read)
    PROVE  BackupInv'
<1>0. /\ CopiesCover /\ backup \in Runs /\ (~KeepsCopy => localCopy = 0)
  BY DEF BackupInv, BackupTypes
<1>1. /\ Works(read) /\ Count(read) /\ bucket' = reachable
      /\ \/ backup' = [NoBackup EXCEPT !.step = "snapshot"]
         \/ backup' = [step |-> "upload", source |-> localCopy]
         \/ backup' = NoBackup
      /\ UNCHANGED <<version, lastSnapshot, lastUpload, snapshotRow, uploadRow, localCopy, remote,
                     copyFailed, backupStops>>
  BY DEF BeginBackup
<1>2. /\ backup' \in Runs /\ backup'.source \in {0, localCopy}
      /\ backup'.step \in {"none", "snapshot", "upload"}
  <2>1. localCopy \in 0..MaxVersion /\ 0 \in 0..MaxVersion
    BY BackupNumbers, BackupConstants
  <2> QED
    BY <1>1, <2>1 DEF NoBackup, Runs
<1>3. backupFaults' \in 0..MaxBackupFaults
  BY <1>1, FaultsBounded
<1>4. BackupTypeOK'
  BY <1>1, <1>2, <1>3, BackupNumbers, BackupConstants DEF BackupTypeOK
<1> QED
  BY <1>0, <1>1, <1>2, <1>4 DEF BackupInv, BackupTypes, CopiesCover, CoversAll

LEMMA SnapshotStep ==
    ASSUME BackupInv, NEW ok \in BOOLEAN, NEW copies \in BOOLEAN, TakeSnapshot(ok, copies)
    PROVE  BackupInv'
<1>0. /\ CopiesCover /\ backup \in Runs /\ (~KeepsCopy => localCopy = 0)
  BY DEF BackupInv, BackupTypes
<1>1. /\ UNCHANGED <<version, lastUpload, snapshotRow, uploadRow, remote, bucket, backupStops>>
      /\ (ok /\ copies) \in BOOLEAN /\ Works(ok /\ copies) /\ Count(ok /\ copies)
      /\ \/ backup' = NoBackup /\ UNCHANGED <<lastSnapshot, localCopy, copyFailed>>
         \/ /\ backup' = [step |-> "stamp", source |-> version] /\ lastSnapshot' = version
            /\ localCopy' = IF KeepsCopy /\ copies THEN version ELSE localCopy
            /\ copyFailed' = (copyFailed \/ ~copies)
  BY DEF TakeSnapshot
<1>2. backupFaults' \in 0..MaxBackupFaults
  BY <1>1, FaultsBounded
<1>3. CASE backup' = NoBackup /\ UNCHANGED <<lastSnapshot, localCopy, copyFailed>>
  <2>1. backup' \in Runs /\ backup'.step = "none" /\ backup'.source = 0
    BY <1>3, BackupConstants DEF NoBackup, Runs
  <2>2. BackupTypeOK'
    BY <1>1, <1>2, <1>3, <2>1, BackupNumbers, BackupConstants DEF BackupTypeOK
  <2> QED
    BY <1>0, <1>1, <1>3, <2>1, <2>2 DEF BackupInv, BackupTypes, CopiesCover, CoversAll
<1>4. CASE /\ backup' = [step |-> "stamp", source |-> version] /\ lastSnapshot' = version
           /\ localCopy' = IF KeepsCopy /\ copies THEN version ELSE localCopy
           /\ copyFailed' = (copyFailed \/ ~copies)
  <2>1. /\ backup' \in Runs /\ backup'.step = "stamp" /\ backup'.source = version
        /\ copyFailed' \in BOOLEAN /\ (~copyFailed' => ~copyFailed /\ copies)
    <3>1. version \in 0..MaxVersion
      BY BackupNumbers, BackupConstants
    <3>2. copyFailed' \in BOOLEAN /\ (~copyFailed' => ~copyFailed /\ copies)
      BY <1>4
    <3> QED
      BY <1>4, <3>1, <3>2 DEF Runs
  <2>2. localCopy' \in {0, version} \/ (localCopy' = localCopy /\ ~copies)
    BY <1>0, <1>4
  <2>3. localCopy' \in 0..version /\ (~KeepsCopy => localCopy' = 0)
    BY <1>0, <1>4, BackupNumbers, BackupConstants
  <2>4. BackupTypeOK'
    BY <1>1, <1>2, <1>4, <2>1, <2>3, BackupNumbers, BackupConstants DEF BackupTypeOK
  <2>5. CopiesCover'
    <3> SUFFICES ASSUME ~copyFailed'
                 PROVE  /\ localCopy' # 0 => CoversAll(localCopy)'
                        /\ CoversAll(backup.source)'
                        /\ remote' >= lastUpload' /\ remote' >= uploadRow'
      BY DEF CopiesCover
    <3>1. version >= lastUpload /\ version >= snapshotRow /\ version >= uploadRow /\ version >= version
      BY BackupNumbers
    <3> QED
      BY <1>0, <1>1, <1>4, <2>1, <2>2, <3>1 DEF CopiesCover, CoversAll
  <2> QED
    BY <1>1, <2>1, <2>3, <2>4, <2>5 DEF BackupInv, BackupTypes
<1> QED
  BY <1>1, <1>3, <1>4

LEMMA StampStep ==
    ASSUME BackupInv, NEW ok \in BOOLEAN, StampSnapshot(ok) \/ StampUpload(ok)
    PROVE  BackupInv'
<1>0. /\ CopiesCover /\ backup \in Runs /\ (~KeepsCopy => localCopy = 0)
  BY DEF BackupInv, BackupTypes
<1>1. /\ Works(ok) /\ Count(ok)
      /\ \/ /\ backup.step = "stamp" /\ snapshotRow' \in {lastSnapshot, snapshotRow}
            /\ uploadRow' = uploadRow
            /\ backup' \in {[backup EXCEPT !.step = "upload"], NoBackup}
         \/ snapshotRow' = snapshotRow /\ uploadRow' \in {lastUpload, uploadRow} /\ backup' = NoBackup
      /\ UNCHANGED <<version, lastSnapshot, lastUpload, localCopy, remote, bucket, copyFailed, backupStops>>
  BY DEF StampSnapshot, StampUpload
<1>2. /\ backup' \in Runs
      /\ \/ backup'.step = "none" /\ backup'.source = 0
         \/ backup.step = "stamp" /\ backup'.step = "upload" /\ backup'.source = backup.source
  BY <1>0, <1>1, BackupConstants DEF NoBackup, Runs
<1>3. backupFaults' \in 0..MaxBackupFaults
  BY <1>1, FaultsBounded
<1>4. BackupTypeOK'
  BY <1>1, <1>2, <1>3, BackupNumbers, BackupConstants DEF BackupTypeOK
<1> QED
  BY <1>0, <1>1, <1>2, <1>4 DEF BackupInv, BackupTypes, CopiesCover, CoversAll

\* The copy that is uploaded is no older than the snapshot it is noted as.
LEMMA UploadStep == ASSUME BackupInv, NEW ok \in BOOLEAN, Upload(ok) PROVE BackupInv'
<1>0. /\ CopiesCover /\ backup \in Runs /\ (~KeepsCopy => localCopy = 0)
  BY DEF BackupInv, BackupTypes
<1>1. /\ backup.step = "upload" /\ (Works(ok) \/ backup.source = 0) /\ (ok => backup.source > 0)
      /\ Count(ok \/ backup.source = 0)
      /\ \/ /\ ok /\ remote' = backup.source /\ lastUpload' = lastSnapshot
            /\ backup' = [backup EXCEPT !.step = "uploaded"]
         \/ backup' = NoBackup /\ UNCHANGED <<remote, lastUpload>>
      /\ UNCHANGED <<version, lastSnapshot, snapshotRow, uploadRow, localCopy, bucket, copyFailed,
                     backupStops>>
  BY DEF Upload
<1>2. /\ backup' \in Runs
      /\ \/ backup'.step = "none" /\ backup'.source = 0
         \/ backup'.step = "uploaded" /\ backup'.source = backup.source
  BY <1>0, <1>1, BackupConstants DEF NoBackup, Runs
<1>3. backupFaults' \in 0..MaxBackupFaults
  BY <1>1, BackupNumbers, BackupConstants DEF Works, Count
<1>4. BackupTypeOK'
  BY <1>1, <1>2, <1>3, BackupNumbers, BackupConstants DEF BackupTypeOK
<1>5. CopiesCover'
  <2>1. CASE ok /\ remote' = backup.source /\ lastUpload' = lastSnapshot
    <3>1. ~copyFailed => CoversAll(backup.source)
      BY <1>0, <1>1, <2>1, BackupNumbers DEF CopiesCover
    <3> QED
      BY <1>0, <1>1, <1>2, <2>1, <3>1 DEF CopiesCover, CoversAll
  <2>2. CASE UNCHANGED <<remote, lastUpload>>
    BY <1>0, <1>1, <1>2, <2>2 DEF CopiesCover, CoversAll
  <2> QED
    BY <1>1, <2>1, <2>2
<1> QED
  BY <1>0, <1>1, <1>2, <1>4, <1>5 DEF BackupInv, BackupTypes

LEMMA BackupKept == BackupInv /\ [BackupNext]_backupVars => BackupInv'
<1> SUFFICES ASSUME BackupInv, [BackupNext]_backupVars PROVE BackupInv'
  OBVIOUS
<1>1. CASE Write \/ CopyRemoved \/ StopAndStart
  BY <1>1, WorldStep
<1>2. ASSUME NEW force \in BOOLEAN, NEW reachable \in BOOLEAN, NEW read \in BOOLEAN,
             BeginBackup(force, reachable, read)
      PROVE  BackupInv'
  BY <1>2, BeginBackupStep
<1>3. ASSUME NEW ok \in BOOLEAN, NEW copies \in BOOLEAN, TakeSnapshot(ok, copies) PROVE BackupInv'
  BY <1>3, SnapshotStep
<1>4. ASSUME NEW ok \in BOOLEAN, StampSnapshot(ok) \/ Upload(ok) \/ StampUpload(ok) PROVE BackupInv'
  BY <1>4, StampStep, UploadStep
<1>5. CASE UNCHANGED backupVars
  BY <1>5 DEF backupVars, BackupInv, BackupTypes, BackupTypeOK, CopiesCover, CoversAll
<1> QED
  BY <1>1, <1>2, <1>3, <1>4, <1>5 DEF BackupNext

LEMMA BackupInvHolds == BackupSpec => []BackupInv
BY BackupStarts, BackupKept, PTL DEF BackupSpec

(* What counts as uploaded is in the bucket, across failures and restarts,  *)
(* as long as every local copy could be written.                            *)
THEOREM UploadsNotOverstated == BackupSpec => []UploadIsNotOverstated
<1>1. BackupInv => UploadIsNotOverstated
  BY BackupNumbers DEF BackupInv, CopiesCover, UploadIsNotOverstated
<1> QED
  BY <1>1, BackupInvHolds, PTL

\* The backup's variables keep their types (backblaze_backup.go).
THEOREM BackupTypesCorrect == BackupSpec => []BackupTypeOK
<1>1. BackupInv => BackupTypeOK
  BY DEF BackupInv, BackupTypes
<1> QED
  BY <1>1, BackupInvHolds, PTL

HIDE BackupAssumption

-----------------------------------------------------------------------------
(* SavedWorkers *)

USE SavedWorkersAssumption

Scores == [step : {"idle", "pending", "row", "record", "cache"}, name : Names \cup {Nobody},
           diff : 0..MaxBest, best : 0..MaxBest]

SavedTypes ==
    /\ SavedTypeOK /\ syncing \in BOOLEAN /\ tracked \in BOOLEAN /\ unknown \in BOOLEAN
    /\ scored \in Scores /\ (scored.step # "idle" => scored.name \in Names)

\* d, or better, is kept for worker w: in memory, in the batch or in a row.
Holds(w, d) == \/ d <= 0 \/ d <= pendingBest[w] \/ d <= flushing[w]
               \/ \E u \in Savers : d <= rows[<<u, w>>]

KeptNames == Names \ removed

\* Difficulties are kept for saved workers only, and the best ones are kept.
StoreInv ==
    /\ \A w \in KeptNames : /\ pendingBest[w] > 0 \/ flushing[w] > 0 \/ earnedBest[w] > 0 => IsSaved(w)
                       /\ Holds(w, earnedBest[w])
    /\ \A x \in updates : x[1] \in KeptNames => IsSaved(x[1])

\* What the connection and its lookups found is still so.
ConnInv ==
    /\ \A l \in lookups : l.name \in KeptNames => Holds(l.name, l.best) /\ (l.found => IsSaved(l.name))
    /\ registered \in KeptNames => Holds(registered, cachedBest) /\ (tracked => IsSaved(registered))

\* What was found for the share being recorded is still so.
ScoreInv ==
    scored.name \in KeptNames =>
        /\ Holds(scored.name, scored.best)
        /\ scored.step \in {"record", "cache"} => IsSaved(scored.name)
        /\ scored.step = "cache" => Holds(scored.name, scored.diff)

\* The latest lookup says whether the worker is saved.
SyncInv ==
    /\ \A l \in lookups : l.gen <= syncGeneration
    /\ registered \in Names \ toRefresh =>
         /\ \A l \in lookups : l.gen = syncGeneration /\ l.name = registered /\ l.step = "done" /\ l.ok
                => (l.found <=> IsSaved(registered))
         /\ ~syncing /\ ~unknown => (tracked <=> IsSaved(registered))

SavedInv == SavedTypes /\ StoreInv /\ ConnInv /\ ScoreInv /\ SyncInv

\* A worker that stays saved loses nothing.
Grows ==
    /\ removed \subseteq removed'
    /\ \A w \in Names \ removed' : /\ IsSaved(w) => IsSaved(w)'
                                   /\ \A d \in 0..MaxBest : Holds(w, d) => Holds(w, d)'

LEMMA SavedConstants ==
    /\ MaxBest \in Nat /\ MaxBest > 0 /\ MaxGeneration \in Nat /\ NotSaved = -1 /\ Nobody = "nobody"
    /\ "nobody" \notin Names
BY DEF NotSaved, Nobody

LEMMA HigherIs ==
    ASSUME NEW a \in 0..MaxBest, NEW b \in 0..MaxBest
    PROVE  Higher(a, b) \in 0..MaxBest /\ Higher(a, b) >= a /\ Higher(a, b) >= b
           /\ (Higher(a, b) = a \/ Higher(a, b) = b)
BY SavedConstants DEF Higher

LEMMA SavedFacts ==
    ASSUME SavedInv
    PROVE  /\ rows \in [Savers \X Names -> {NotSaved} \cup 0..MaxBest]
           /\ pendingBest \in [Names -> 0..MaxBest] /\ flushing \in [Names -> 0..MaxBest]
           /\ updates \subseteq Names \X (1..MaxBest) /\ store \in {"up", "closing"}
           /\ registered \in Names \cup {Nobody} /\ syncGeneration \in 0..MaxGeneration
           /\ syncing \in BOOLEAN /\ tracked \in BOOLEAN /\ unknown \in BOOLEAN
           /\ cachedBest \in 0..MaxBest /\ lookups \subseteq Lookup /\ scored \in Scores
           /\ scored.step # "idle" => scored.name \in Names
           /\ toRefresh \subseteq Names /\ removed \subseteq Names
           /\ earnedBest \in [Names -> 0..MaxBest]
BY DEF SavedInv, SavedTypes, SavedTypeOK

\* RowBest of a worker is the best of its rows, if any is better than nothing.
LEMMA RowBestIs ==
    ASSUME SavedInv, NEW w \in Names
    PROVE  /\ RowBest(w) \in 0..MaxBest
           /\ \A u \in Savers : rows[<<u, w>>] <= RowBest(w)
           /\ RowBest(w) = 0 \/ \E u \in Savers : rows[<<u, w>>] = RowBest(w)
<1> DEFINE T == {0} \cup {rows[<<u, w>>] : u \in Savers}
<1>1. \A u \in Savers : rows[<<u, w>>] \in {NotSaved} \cup 0..MaxBest
  BY SavedFacts
<1>2. T \in SUBSET Int /\ T # {} /\ 0 \in T /\ \A x \in T : x <= MaxBest
  <2>1. \A u \in Savers : rows[<<u, w>>] \in Int /\ rows[<<u, w>>] <= MaxBest
    BY <1>1, SavedConstants
  <2>2. ASSUME NEW x \in T PROVE x \in Int /\ x <= MaxBest
    <3>1. CASE x = 0
      BY <3>1, SavedConstants
    <3>2. CASE \E u \in Savers : x = rows[<<u, w>>]
      BY <2>1, <3>2
    <3> QED
      BY <3>1, <3>2
  <2> QED
    BY <2>2
<1>3. \A u \in Savers : rows[<<u, w>>] \in T
  OBVIOUS
<1>4. \A x \in T : x = 0 \/ \E u \in Savers : rows[<<u, w>>] = x
  OBVIOUS
<1>5. RowBest(w) = Max(T)
  BY DEF RowBest
<1> HIDE DEF T
<1>6. Max(T) \in T /\ \A y \in T : Max(T) >= y
  <2>1. MaxBest \in Int
    BY SavedConstants
  <2> QED
    BY <1>2, <2>1, GreatestOf
<1>7. PICK m : m = Max(T)
  OBVIOUS
<1>8. m = 0 \/ \E u \in Savers : rows[<<u, w>>] = m
  BY <1>4, <1>6, <1>7
<1>9. \A u \in Savers : rows[<<u, w>>] <= m
  BY <1>1, <1>2, <1>3, <1>6, <1>7, SavedConstants
<1>10. m >= 0
  BY <1>2, <1>6, <1>7
<1>11. m \in 0..MaxBest
  <2>1. CASE m = 0
    BY <2>1, SavedConstants
  <2>2. CASE \E u \in Savers : rows[<<u, w>>] = m
    BY <1>1, <1>10, <2>2, SavedConstants
  <2> QED
    BY <1>8, <2>1, <2>2
<1> QED
  BY <1>5, <1>7, <1>8, <1>9, <1>11

\* What RowBest says is held, and the lookup of the row says what is held.
LEMMA RowHeld ==
    ASSUME SavedInv, NEW w \in KeptNames, NEW d \in 0..MaxBest, Holds(w, d)
    PROVE  Holds(w, Higher(d, RowBest(w))) /\ Higher(d, RowBest(w)) \in 0..MaxBest
<1>1. w \in Names
  BY DEF KeptNames
<1>2. Holds(w, RowBest(w))
  BY <1>1, RowBestIs DEF Holds
<1> QED
  BY <1>1, <1>2, RowBestIs, HigherIs

LEMMA HeldIsSaved ==
    ASSUME SavedInv, NEW w \in KeptNames, NEW d \in 0..MaxBest, Holds(w, d), d > 0
    PROVE  IsSaved(w)
<1>1. w \in Names /\ pendingBest[w] \in 0..MaxBest /\ flushing[w] \in 0..MaxBest
  BY SavedFacts DEF KeptNames
<1>2. CASE \E u \in Savers : d <= rows[<<u, w>>]
  BY <1>2, SavedConstants DEF IsSaved
<1>3. CASE d <= pendingBest[w] \/ d <= flushing[w]
  BY <1>1, <1>3 DEF SavedInv, StoreInv
<1> QED
  BY <1>2, <1>3 DEF Holds

LEMMA ConnKept == SavedInv /\ Grows /\ UNCHANGED connVars => ConnInv'
<1> SUFFICES ASSUME SavedInv, Grows, UNCHANGED connVars PROVE ConnInv'
  OBVIOUS
<1>1. KeptNames' \subseteq KeptNames /\ KeptNames' \subseteq Names /\ KeptNames' = Names \ removed'
  BY DEF Grows, KeptNames
<1>2. lookups' = lookups /\ registered' = registered /\ cachedBest' = cachedBest /\ tracked' = tracked
  BY DEF connVars
<1>3. ASSUME NEW l \in lookups, l.name \in KeptNames'
      PROVE  Holds(l.name, l.best)' /\ (l.found => IsSaved(l.name)')
  <2>1. l.best \in 0..MaxBest
    BY SavedFacts DEF Lookup
  <2> QED
    BY <1>1, <1>3, <2>1 DEF Grows, SavedInv, ConnInv
<1>4. ASSUME NEW r \in KeptNames', NEW b \in 0..MaxBest, r = registered, b = cachedBest
      PROVE  Holds(r, b)' /\ (tracked => IsSaved(r)')
  BY <1>1, <1>4 DEF Grows, SavedInv, ConnInv
<1>5. \A l \in lookups' : l.name \in KeptNames' => Holds(l.name, l.best)' /\ (l.found => IsSaved(l.name)')
  BY <1>2, <1>3
<1>6. registered' \in KeptNames' => Holds(registered, cachedBest)' /\ (tracked' => IsSaved(registered)')
  BY <1>2, <1>4, SavedFacts DEF Holds, IsSaved
<1> QED
  BY <1>5, <1>6 DEF ConnInv

LEMMA ScoreKept == SavedInv /\ Grows /\ scored' = scored => ScoreInv'
<1> SUFFICES ASSUME SavedInv, Grows, scored' = scored, scored'.name \in KeptNames' PROVE ScoreInv'
  BY DEF ScoreInv
<1>1. KeptNames' \subseteq KeptNames /\ KeptNames' \subseteq Names /\ KeptNames' = Names \ removed'
  BY DEF Grows, KeptNames
<1>2. PICK w, d, b : w = scored.name /\ d = scored.diff /\ b = scored.best
  OBVIOUS
<1>3. w \in KeptNames' /\ d \in 0..MaxBest /\ b \in 0..MaxBest
  BY <1>2, SavedFacts DEF Scores
<1>4. Holds(w, b)' /\ (scored.step \in {"record", "cache"} => IsSaved(w)')
      /\ (scored.step = "cache" => Holds(w, d)')
  BY <1>1, <1>2, <1>3 DEF Grows, SavedInv, ScoreInv
<1> QED
  BY <1>2, <1>4 DEF ScoreInv, Holds, IsSaved

LEMMA RowsSame ==
    ASSUME UNCHANGED <<rows, removed, pendingBest, flushing>>
    PROVE  Grows
BY DEF Grows, IsSaved, Holds

\* Steps that leave the table and the store alone keep what is stored.
LEMMA StoreSame ==
    ASSUME SavedInv, UNCHANGED <<rows, removed, pendingBest, flushing, updates, earnedBest>>
    PROVE  StoreInv' /\ Grows
BY RowsSame DEF SavedInv, StoreInv, KeptNames, IsSaved, Holds

LEMMA SyncSame ==
    ASSUME SavedInv, UNCHANGED <<connVars, toRefresh>>,
           \A w \in Names \ toRefresh : IsSaved(w)' <=> IsSaved(w)
    PROVE  SyncInv'
<1>1. UNCHANGED <<registered, syncGeneration, syncing, tracked, lookups, unknown>>
  BY DEF connVars
<1>2. PICK r : r = registered
  OBVIOUS
<1>3. r \in Names \ toRefresh => (IsSaved(r)' <=> IsSaved(r))
  OBVIOUS
<1>4. r = registered' /\ (IsSaved(registered)' <=> IsSaved(r)')
  BY <1>1, <1>2 DEF IsSaved
<1> QED
  BY <1>1, <1>2, <1>3, <1>4 DEF SavedInv, SyncInv

-----------------------------------------------------------------------------
\* Users save and remove workers.
LEMMA AddStep ==
    ASSUME SavedInv, NEW u \in Savers, NEW w \in Names, Add(u, w) PROVE SavedInv'
<1>1. /\ rows' = rows \/ (rows[<<u, w>>] = NotSaved /\ rows' = [rows EXCEPT ![<<u, w>>] = 0])
      /\ toRefresh' = toRefresh \cup {w}
      /\ UNCHANGED <<pendingBest, flushing, updates, store, connVars, scored, earnedBest, removed>>
  BY DEF Add, ChangeKeeps, storeVars
<1>2. rows' \in [Savers \X Names -> {NotSaved} \cup 0..MaxBest]
      /\ \A v \in Savers, n \in Names :
           /\ rows'[<<v, n>>] >= rows[<<v, n>>] /\ (rows[<<v, n>>] # NotSaved => rows'[<<v, n>>] # NotSaved)
           /\ n # w => rows'[<<v, n>>] = rows[<<v, n>>]
  BY <1>1, SavedFacts, SavedConstants
<1>3. \A n \in Names : IsSaved(n) => IsSaved(n)'
  BY <1>2 DEF IsSaved
<1>4. ASSUME NEW n \in Names, NEW d \in 0..MaxBest, Holds(n, d) PROVE Holds(n, d)'
  <2>1. \A v \in Savers : d <= rows[<<v, n>>] => d <= rows'[<<v, n>>]
    BY <1>2, SavedFacts, SavedConstants
  <2> QED
    BY <1>1, <1>4, <2>1 DEF Holds
<1>5. Grows
  BY <1>1, <1>3, <1>4 DEF Grows
<1>6. SavedTypes'
  BY <1>1, <1>2 DEF SavedInv, SavedTypes, SavedTypeOK, connVars
<1>7. StoreInv'
  <2>1. \A n \in Names : earnedBest[n] \in 0..MaxBest
    BY SavedFacts
  <2>2. \A n \in KeptNames : Holds(n, earnedBest[n])'
    BY <1>1, <1>4, <2>1 DEF SavedInv, StoreInv, KeptNames
  <2>3. KeptNames' = KeptNames /\ KeptNames \subseteq Names
    BY <1>1 DEF KeptNames
  <2> QED
    BY <1>1, <1>3, <2>2, <2>3, SavedFacts DEF SavedInv, StoreInv
<1>8. SyncInv'
  <2>1. PICK r : r = registered
    OBVIOUS
  <2>2. r = registered' /\ (IsSaved(registered)' <=> IsSaved(r)')
    BY <1>1, <2>1 DEF IsSaved, connVars
  <2>3. r \in Names \ {w} => (IsSaved(r)' <=> IsSaved(r))
    BY <1>2 DEF IsSaved
  <2> QED
    BY <1>1, <2>1, <2>2, <2>3 DEF SavedInv, SyncInv, connVars
<1> QED
  BY <1>1, <1>5, <1>6, <1>7, <1>8, ConnKept, ScoreKept DEF SavedInv

LEMMA DeleteStep ==
    ASSUME SavedInv, NEW u \in Savers, NEW names \in SUBSET Names, Delete(u, names) PROVE SavedInv'
<1>1. /\ rows' = [x \in Savers \X Names |-> IF x[1] = u /\ x[2] \in names THEN NotSaved ELSE rows[x]]
      /\ removed' = removed \cup {w \in names : rows[<<u, w>>] # NotSaved}
      /\ toRefresh' = toRefresh \cup names
      /\ UNCHANGED <<pendingBest, flushing, updates, store, connVars, scored, earnedBest>>
  BY DEF Delete, ChangeKeeps, storeVars
<1>2. rows' \in [Savers \X Names -> {NotSaved} \cup 0..MaxBest]
  BY <1>1, SavedFacts
<1>3. /\ \A v \in Savers, n \in Names \ names : rows'[<<v, n>>] = rows[<<v, n>>]
      /\ \A v \in Savers, n \in Names \ removed' : rows'[<<v, n>>] = rows[<<v, n>>]
  BY <1>1, SavedFacts
<1>4. \A n \in Names \ removed' : /\ IsSaved(n)' <=> IsSaved(n)
                                  /\ \A d \in 0..MaxBest : Holds(n, d)' <=> Holds(n, d)
  BY <1>1, <1>3 DEF IsSaved, Holds
<1>5. Grows
  BY <1>1, <1>4 DEF Grows
<1>6. SavedTypes'
  BY <1>1, <1>2, SavedFacts DEF SavedInv, SavedTypes, SavedTypeOK, connVars
<1>7. StoreInv'
  <2>1. \A n \in Names : earnedBest[n] \in 0..MaxBest
    BY SavedFacts
  <2>2. KeptNames' = Names \ removed' /\ KeptNames' \subseteq KeptNames /\ KeptNames' \subseteq Names
    BY <1>1 DEF KeptNames
  <2>3. \A n \in KeptNames' : Holds(n, earnedBest[n])'
    BY <1>1, <1>4, <2>1, <2>2 DEF SavedInv, StoreInv
  <2> QED
    BY <1>1, <1>4, <2>2, <2>3, SavedFacts DEF SavedInv, StoreInv
<1>8. SyncInv'
  <2>1. PICK r : r = registered
    OBVIOUS
  <2>2. r = registered' /\ (IsSaved(registered)' <=> IsSaved(r)')
    BY <1>1, <2>1 DEF IsSaved, connVars
  <2>3. r \in Names \ names => (IsSaved(r)' <=> IsSaved(r))
    BY <1>3 DEF IsSaved
  <2> QED
    BY <1>1, <2>1, <2>2, <2>3 DEF SavedInv, SyncInv, connVars
<1> QED
  BY <1>1, <1>5, <1>6, <1>7, <1>8, ConnKept, ScoreKept DEF SavedInv

-----------------------------------------------------------------------------
\* The connection looks its worker up anew: no lookup counts but the one that begins.
LEMMA SyncBegun ==
    ASSUME SavedInv, NEW w \in Names, BeginSync(w), registered' = w, toRefresh' \subseteq Names,
           UNCHANGED <<rows, storeVars, scored, earnedBest, removed>>
    PROVE  SavedInv'
<1>0. PICK l0 : l0 = [name |-> w, gen |-> syncGeneration + 1, step |-> "pending", best |-> 0,
                      found |-> FALSE, ok |-> TRUE]
  OBVIOUS
<1>1. /\ syncGeneration < MaxGeneration /\ syncGeneration' = syncGeneration + 1
      /\ syncing' = TRUE /\ tracked' = FALSE /\ cachedBest' = 0 /\ unknown' = FALSE
      /\ lookups' = lookups \cup {l0}
      /\ UNCHANGED <<pendingBest, flushing, updates, store>>
  BY <1>0 DEF BeginSync, storeVars
<1>2. syncGeneration' \in 1..MaxGeneration /\ syncGeneration' > syncGeneration
  BY <1>1, SavedFacts, SavedConstants
<1>3. l0 \in Lookup /\ l0.step = "pending" /\ l0.best = 0 /\ l0.found = FALSE
      /\ l0.gen = syncGeneration' /\ l0.name = w
  <2>1. 0 \in 0..MaxBest /\ FALSE \in BOOLEAN /\ TRUE \in BOOLEAN
    BY SavedConstants
  <2> QED
    BY <1>0, <1>1, <1>2, <2>1 DEF Lookup
<1>4. StoreInv' /\ Grows
  BY <1>1, StoreSame
<1>5. ConnInv'
  <2>1. \A l \in lookups : l.name \in KeptNames => Holds(l.name, l.best)' /\ (l.found => IsSaved(l.name)')
    BY <1>1 DEF SavedInv, ConnInv, Holds, IsSaved
  <2>2. Holds(l0.name, l0.best)' /\ Holds(registered, cachedBest)'
    BY <1>1, <1>3 DEF Holds
  <2>3. KeptNames' = KeptNames
    BY DEF KeptNames
  <2> QED
    BY <1>1, <1>3, <2>1, <2>2, <2>3 DEF ConnInv
<1>6. ScoreInv'
  BY <1>4, ScoreKept
<1>7. SyncInv'
  <2>1. \A l \in lookups : l.gen \in Int /\ l.gen <= syncGeneration
    BY SavedFacts DEF SavedInv, SyncInv, Lookup
  <2>2. \A l \in lookups : l.gen < syncGeneration' /\ l.gen \in Int
    BY <1>2, <2>1, SavedFacts
  <2>3. ASSUME NEW l \in lookups'
        PROVE  l.gen <= syncGeneration' /\ (l.gen = syncGeneration' => l.step = "pending")
    <3>1. CASE l \in lookups
      BY <1>2, <2>2, <3>1
    <3>2. CASE l = l0
      BY <1>2, <1>3, <3>2
    <3> QED
      BY <1>1, <3>1, <3>2
  <2> QED
    BY <1>1, <2>3 DEF SyncInv
<1>8. SavedTypes'
  <2>1. {syncing', tracked', unknown'} \subseteq BOOLEAN /\ syncing' \in BOOLEAN /\ tracked' \in BOOLEAN
        /\ unknown' \in BOOLEAN
    BY <1>1
  <2>2. syncGeneration' \in 0..MaxGeneration /\ cachedBest' \in 0..MaxBest /\ lookups' \subseteq Lookup
    BY <1>1, <1>2, <1>3, SavedFacts, SavedConstants
  <2> QED
    BY <1>1, <2>1, <2>2, SavedFacts DEF SavedTypes, SavedTypeOK, SavedInv
<1> QED
  BY <1>4, <1>5, <1>6, <1>7, <1>8 DEF SavedInv

LEMMA RefreshStep ==
    ASSUME SavedInv, NEW w \in Names, Refresh(w) PROVE SavedInv'
<1>1. /\ toRefresh' = toRefresh \ {w}
      /\ UNCHANGED <<rows, storeVars, scored, earnedBest, removed>>
  BY DEF Refresh
<1>2. CASE registered = w
  <2>1. BeginSync(w) /\ registered' = w
    BY <1>2 DEF Refresh
  <2>2. toRefresh' \subseteq Names
    BY <1>1, SavedFacts
  <2> QED
    BY <1>1, <2>1, <2>2, SyncBegun
<1>3. CASE registered # w
  <2>1. UNCHANGED <<registered, syncGeneration, syncing, tracked, cachedBest, lookups, unknown>>
        /\ UNCHANGED connVars /\ UNCHANGED <<pendingBest, flushing, updates, store>>
    BY <1>1, <1>3 DEF Refresh, connVars, storeVars
  <2>2. StoreInv' /\ Grows
    BY <1>1, <2>1, StoreSame
  <2>3. SyncInv'
    <3>1. IsSaved(registered)' <=> IsSaved(registered)
      BY <1>1, <2>1 DEF IsSaved
    <3>2. registered \in Names \ toRefresh' => registered \in Names \ toRefresh
      BY <1>1, <1>3
    <3> QED
      BY <2>1, <3>1, <3>2 DEF SavedInv, SyncInv
  <2>4. SavedTypes'
    BY <1>1, <2>1, SavedFacts DEF SavedTypes, SavedTypeOK, SavedInv
  <2> QED
    BY <1>1, <2>1, <2>2, <2>3, <2>4, ConnKept, ScoreKept DEF SavedInv
<1> QED
  BY <1>2, <1>3

LEMMA RegisterStep ==
    ASSUME SavedInv, NEW w \in Names, Register(w) PROVE SavedInv'
<1>1. BeginSync(w) /\ registered' = w /\ UNCHANGED <<rows, storeVars, scored, earnedBest, removed>>
      /\ toRefresh' \subseteq Names
  BY SavedFacts DEF Register
<1> QED
  BY <1>1, SyncBegun

LEMMA UnregisterStep == ASSUME SavedInv, Unregister PROVE SavedInv'
<1>1. /\ registered' = Nobody /\ syncGeneration < MaxGeneration /\ syncGeneration' = syncGeneration + 1
      /\ syncing' = FALSE /\ tracked' = FALSE /\ cachedBest' = 0
      /\ UNCHANGED <<rows, pendingBest, flushing, updates, store, lookups, unknown, scored, toRefresh,
                     earnedBest, removed>>
  BY DEF Unregister, storeVars
<1>2. syncGeneration' \in 0..MaxGeneration /\ syncGeneration' > syncGeneration
  BY <1>1, SavedFacts, SavedConstants
<1>3. registered' \notin Names
  BY <1>1, SavedConstants
<1>4. StoreInv' /\ Grows
  BY <1>1, StoreSame
<1>5. ConnInv'
  <2>1. \A l \in lookups : l.name \in KeptNames => Holds(l.name, l.best)' /\ (l.found => IsSaved(l.name)')
    BY <1>1 DEF SavedInv, ConnInv, Holds, IsSaved
  <2>2. KeptNames' = KeptNames /\ KeptNames \subseteq Names
    BY <1>1 DEF KeptNames
  <2> QED
    BY <1>1, <1>3, <2>1, <2>2 DEF ConnInv
<1>6. SyncInv'
  <2>1. \A l \in lookups : l.gen \in Int /\ l.gen <= syncGeneration
    BY SavedFacts DEF SavedInv, SyncInv, Lookup
  <2>2. \A l \in lookups : l.gen <= syncGeneration'
    BY <1>2, <2>1, SavedFacts
  <2> QED
    BY <1>1, <1>3, <2>2 DEF SyncInv
<1>7. SavedTypes'
  <2>1. {syncing', tracked', unknown'} \subseteq BOOLEAN /\ syncing' \in BOOLEAN /\ tracked' \in BOOLEAN
    BY <1>1, SavedFacts
  <2>2. cachedBest' \in 0..MaxBest
    BY <1>1, SavedConstants
  <2> QED
    BY <1>1, <1>2, <2>1, <2>2, SavedFacts DEF SavedTypes, SavedTypeOK, SavedInv
<1> QED
  BY <1>1, <1>4, <1>5, <1>6, <1>7, ScoreKept DEF SavedInv

-----------------------------------------------------------------------------
\* What a lookup of the worker finds
LEMMA LookupMoved ==
    ASSUME SavedInv, NEW l \in lookups, NEW m \in Lookup, lookups' = (lookups \ {l}) \cup {m},
           m.name = l.name, m.gen = l.gen,
           m.name \in KeptNames => Holds(m.name, m.best) /\ (m.found => IsSaved(m.name)),
           m.step = "done" /\ m.ok => (m.found <=> IsSaved(m.name)),
           UNCHANGED <<rows, storeVars, registered, syncGeneration, syncing, tracked, cachedBest,
                       unknown, scored, toRefresh, earnedBest, removed>>
    PROVE  SavedInv'
<1>1. UNCHANGED <<pendingBest, flushing, updates, store>>
  BY DEF storeVars
<1>2. StoreInv' /\ Grows
  BY <1>1, StoreSame
<1>3. ConnInv'
  <2>1. \A k \in lookups \cup {m} :
            k.name \in KeptNames => Holds(k.name, k.best)' /\ (k.found => IsSaved(k.name)')
    BY <1>1 DEF SavedInv, ConnInv, Holds, IsSaved
  <2>2. registered \in KeptNames => Holds(registered, cachedBest)' /\ (tracked => IsSaved(registered)')
    BY <1>1 DEF SavedInv, ConnInv, Holds, IsSaved
  <2>3. KeptNames' = KeptNames
    BY DEF KeptNames
  <2> QED
    BY <2>1, <2>2, <2>3 DEF ConnInv
<1>4. SyncInv'
  <2>1. IsSaved(registered)' <=> IsSaved(registered)
    BY DEF IsSaved
  <2>2. \A k \in lookups' : k.gen <= syncGeneration
    BY DEF SavedInv, SyncInv
  <2> QED
    BY <2>1, <2>2 DEF SavedInv, SyncInv
<1>5. SavedTypes'
  BY <1>1, SavedFacts DEF SavedTypes, SavedTypeOK, SavedInv
<1> QED
  BY <1>2, <1>3, <1>4, <1>5, ScoreKept DEF SavedInv

LEMMA LookUpStep ==
    ASSUME SavedInv, NEW l \in lookups, NEW ok \in BOOLEAN, LookUpDifficulty(l, ok) PROVE SavedInv'
<1>1. UNCHANGED <<rows, storeVars, registered, syncGeneration, syncing, tracked, cachedBest,
                  unknown, scored, toRefresh, earnedBest, removed>>
  BY DEF LookUpDifficulty
<1>2. l \in Lookup /\ l.name \in Names /\ l.best \in 0..MaxBest
      /\ (l.name \in KeptNames => Holds(l.name, l.best))
  BY SavedFacts DEF Lookup, SavedInv, ConnInv
<1>3. CASE /\ l.step = "pending" /\ ok
           /\ lookups' = (lookups \ {l}) \cup
                           {[l EXCEPT !.step = "row", !.best = pendingBest[l.name]]}
  <2>1. PICK m : m = [l EXCEPT !.step = "row", !.best = pendingBest[l.name]]
    OBVIOUS
  <2>2. pendingBest[l.name] \in 0..MaxBest
    BY <1>2, SavedFacts
  <2>3. m \in Lookup /\ m.name = l.name /\ m.gen = l.gen /\ m.step = "row" /\ m.found = l.found
        /\ m.best = pendingBest[l.name]
    BY <1>2, <2>1, <2>2 DEF Lookup
  <2>4. m.name \in KeptNames => Holds(m.name, m.best) /\ (m.found => IsSaved(m.name))
    BY <2>2, <2>3 DEF Holds, SavedInv, ConnInv
  <2> QED
    BY <1>1, <1>3, <2>1, <2>3, <2>4, LookupMoved
<1>4. CASE /\ l.step = "row"
           /\ lookups' = (lookups \ {l}) \cup
                           {[l EXCEPT !.step = "done", !.ok = ok, !.found = IsSaved(l.name),
                                      !.best = Higher(@, RowBest(l.name))]}
  <2>1. PICK m : m = [l EXCEPT !.step = "done", !.ok = ok, !.found = IsSaved(l.name),
                               !.best = Higher(@, RowBest(l.name))]
    OBVIOUS
  <2>2. PICK b, f : b = Higher(l.best, RowBest(l.name)) /\ f = IsSaved(l.name)
    OBVIOUS
  <2>3. b \in 0..MaxBest /\ (l.name \in KeptNames => Holds(l.name, b))
    BY <1>2, <2>2, RowBestIs, HigherIs, RowHeld
  <2>4. f \in BOOLEAN
    BY <2>2 DEF IsSaved
  <2>5. m = [l EXCEPT !.step = "done", !.ok = ok, !.found = f, !.best = b]
    BY <1>2, <2>1, <2>2 DEF Lookup
  <2>6. m \in Lookup /\ m.name = l.name /\ m.gen = l.gen /\ m.step = "done" /\ m.found = f
        /\ m.best = b
    BY <1>2, <2>3, <2>4, <2>5 DEF Lookup
  <2>7. m.found <=> IsSaved(m.name)
    BY <2>2, <2>6
  <2>8. m.name \in KeptNames => Holds(m.name, m.best) /\ (m.found => IsSaved(m.name))
    BY <2>3, <2>6, <2>7
  <2> QED
    BY <1>1, <1>4, <2>1, <2>6, <2>7, <2>8, LookupMoved
<1> QED
  BY <1>3, <1>4 DEF LookUpDifficulty

LEMMA CompleteStep ==
    ASSUME SavedInv, NEW l \in lookups, CompleteSync(l) PROVE SavedInv'
<1>1. /\ l.step = "done" /\ lookups' = lookups \ {l}
      /\ UNCHANGED <<rows, pendingBest, flushing, updates, store, registered, syncGeneration, scored,
                     toRefresh, earnedBest, removed>>
  BY DEF CompleteSync, storeVars
<1>2. l \in Lookup /\ l.best \in 0..MaxBest /\ l.found \in BOOLEAN /\ l.ok \in BOOLEAN
  BY SavedFacts DEF Lookup
<1>3. StoreInv' /\ Grows
  BY <1>1, StoreSame
<1>4. /\ KeptNames' = KeptNames
      /\ \A w, d : (Holds(w, d)' <=> Holds(w, d)) /\ (IsSaved(w)' <=> IsSaved(w))
  BY <1>1 DEF KeptNames, Holds, IsSaved
<1>5. PICK r : r = registered
  OBVIOUS
<1>6. CASE /\ registered = l.name /\ syncGeneration = l.gen /\ syncing /\ l.ok
           /\ tracked' = l.found /\ syncing' = FALSE /\ unknown' = ~l.ok
           /\ cachedBest' = IF l.found THEN Higher(l.best, cachedBest) ELSE l.best
  <2>1. PICK c : c = cachedBest'
    OBVIOUS
  <2>2. c \in 0..MaxBest
    BY <1>2, <1>6, <2>1, SavedFacts, HigherIs
  <2>3. r \in KeptNames => Holds(r, c) /\ (l.found => IsSaved(r))
    BY <1>2, <1>5, <1>6, <2>1, SavedFacts, HigherIs DEF SavedInv, ConnInv
  <2>4. r \in Names \ toRefresh => (l.found <=> IsSaved(r))
    BY <1>1, <1>5, <1>6 DEF SavedInv, SyncInv
  <2>5. ConnInv'
    <3>1. \A k \in lookups : k.name \in KeptNames => Holds(k.name, k.best)' /\ (k.found => IsSaved(k.name)')
      BY <1>4 DEF SavedInv, ConnInv
    <3>2. r \in KeptNames => Holds(r, c)' /\ (l.found => IsSaved(r)')
      BY <1>4, <2>3
    <3>3. registered' \in KeptNames' => Holds(registered, cachedBest)' /\ (tracked' => IsSaved(registered)')
      BY <1>1, <1>4, <1>5, <1>6, <2>1, <3>2 DEF Holds, IsSaved
    <3> QED
      BY <1>1, <1>4, <3>1, <3>3 DEF ConnInv
  <2>6. SyncInv'
    <3>1. IsSaved(registered)' <=> IsSaved(r)
      BY <1>1, <1>5 DEF IsSaved
    <3> QED
      BY <1>1, <1>5, <1>6, <2>4, <3>1 DEF SavedInv, SyncInv
  <2>7. SavedTypes'
    <3>1. {syncing', tracked', unknown'} \subseteq BOOLEAN /\ syncing' \in BOOLEAN
          /\ tracked' \in BOOLEAN /\ unknown' \in BOOLEAN
      BY <1>2, <1>6
    <3> QED
      BY <1>1, <2>1, <2>2, <3>1, SavedFacts DEF SavedTypes, SavedTypeOK, SavedInv
  <2> QED
    BY <1>1, <1>3, <2>5, <2>6, <2>7, ScoreKept DEF SavedInv
<1>7. CASE /\ UNCHANGED <<tracked, cachedBest>>
           /\ (syncing' = FALSE /\ unknown' = TRUE) \/ UNCHANGED <<syncing, unknown>>
  <2>1. ConnInv'
    <3>1. \A k \in lookups : k.name \in KeptNames => Holds(k.name, k.best)' /\ (k.found => IsSaved(k.name)')
      BY <1>4 DEF SavedInv, ConnInv
    <3>2. registered \in KeptNames => Holds(registered, cachedBest)' /\ (tracked => IsSaved(registered)')
      BY <1>1, <1>7 DEF SavedInv, ConnInv, Holds, IsSaved
    <3> QED
      BY <1>1, <1>4, <1>7, <3>1, <3>2 DEF ConnInv
  <2>2. SyncInv'
    <3>1. IsSaved(registered)' <=> IsSaved(registered)
      BY <1>1 DEF IsSaved
    <3> QED
      BY <1>1, <1>7, <3>1 DEF SavedInv, SyncInv
  <2>3. SavedTypes'
    <3>1. {syncing', tracked', unknown'} \subseteq BOOLEAN /\ syncing' \in BOOLEAN
          /\ tracked' \in BOOLEAN /\ unknown' \in BOOLEAN
      BY <1>7, SavedFacts
    <3> QED
      BY <1>1, <1>7, <3>1, SavedFacts DEF SavedTypes, SavedTypeOK, SavedInv
  <2> QED
    BY <1>1, <1>3, <2>1, <2>2, <2>3, ScoreKept DEF SavedInv
<1> QED
  BY <1>2, <1>6, <1>7 DEF CompleteSync

-----------------------------------------------------------------------------
\* Shares

\* What a share step must know of the share it leaves behind, when it earns nothing
LEMMA ScoreMoved ==
    ASSUME SavedInv, scored' \in Scores, scored'.step # "idle" => scored'.name \in Names,
           UNCHANGED <<rows, storeVars, connVars, toRefresh, removed, earnedBest>>,
           scored'.name \in KeptNames =>
               /\ Holds(scored'.name, scored'.best)
               /\ scored'.step \in {"record", "cache"} => IsSaved(scored'.name)
               /\ scored'.step # "cache"
    PROVE  SavedInv'
<1>1. UNCHANGED <<pendingBest, flushing, updates, store>>
      /\ UNCHANGED <<registered, syncGeneration, syncing, tracked, cachedBest, lookups, unknown>>
  BY DEF storeVars, connVars
<1>2. StoreInv' /\ Grows
  BY <1>1, StoreSame
<1>3. SyncInv'
  BY SyncSame DEF IsSaved
<1>4. ScoreInv'
  BY <1>1 DEF ScoreInv, KeptNames, Holds, IsSaved
<1>5. SavedTypes'
  BY <1>1, SavedFacts DEF SavedTypes, SavedTypeOK, SavedInv, Scores
<1> QED
  BY <1>2, <1>3, <1>4, <1>5, ConnKept DEF SavedInv

\* A share that is no better than what is held for a saved worker
LEMMA EarnedHeld ==
    ASSUME SavedInv, NEW w \in Names, NEW d \in 0..MaxBest, Earn(w, d),
           w \in KeptNames => Holds(w, d) /\ IsSaved(w),
           scored' = NoScore,
           UNCHANGED <<rows, storeVars, connVars, toRefresh, removed>>
    PROVE  SavedInv'
<1>1. UNCHANGED <<pendingBest, flushing, updates, store>>
      /\ UNCHANGED <<registered, syncGeneration, syncing, tracked, cachedBest, lookups, unknown>>
  BY DEF storeVars, connVars
<1>2. Grows
  BY <1>1, RowsSame
<1>3. earnedBest' = [earnedBest EXCEPT ![w] = Higher(earnedBest[w], d)]
  BY SavedFacts DEF Earn
<1>4. Higher(earnedBest[w], d) \in 0..MaxBest
      /\ (Higher(earnedBest[w], d) = earnedBest[w] \/ Higher(earnedBest[w], d) = d)
  BY SavedFacts, HigherIs
<1>5. earnedBest' \in [Names -> 0..MaxBest]
  BY <1>3, <1>4, SavedFacts
<1>6. StoreInv'
  <2>1. ASSUME NEW n \in KeptNames
        PROVE  /\ pendingBest[n] > 0 \/ flushing[n] > 0 \/ earnedBest'[n] > 0 => IsSaved(n)
               /\ Holds(n, earnedBest'[n])
    <3>1. n \in Names /\ (earnedBest'[n] = earnedBest[n] \/ (n = w /\ earnedBest'[n] = d))
      BY <1>3, <1>4, SavedFacts DEF KeptNames
    <3> QED
      BY <2>1, <3>1 DEF SavedInv, StoreInv
  <2> QED
    BY <1>1, <2>1 DEF SavedInv, StoreInv, KeptNames, IsSaved, Holds
<1>7. SyncInv'
  BY SyncSame DEF IsSaved
<1>8. NoScore \in Scores /\ NoScore.step = "idle" /\ NoScore.name \notin Names
  <2>1. 0 \in 0..MaxBest
    BY SavedConstants
  <2> QED
    BY <2>1, SavedConstants DEF NoScore, Scores
<1>9. ScoreInv'
  BY <1>8 DEF ScoreInv, KeptNames
<1>10. SavedTypes'
  BY <1>1, <1>5, <1>8, SavedFacts DEF SavedTypes, SavedTypeOK, SavedInv, Scores
<1> QED
  BY <1>1, <1>2, <1>6, <1>7, <1>9, <1>10, ConnKept DEF SavedInv

LEMMA DecidedStep ==
    ASSUME SavedInv, NEW w \in Names, NEW d \in 0..MaxBest, NEW known \in BOOLEAN,
           NEW best \in 0..MaxBest, Decided(w, d, known, best),
           w \in KeptNames /\ known => Holds(w, best) /\ IsSaved(w),
           UNCHANGED <<rows, storeVars, connVars, toRefresh, removed>>
    PROVE  SavedInv'
<1>1. 0 \in 0..MaxBest
  BY SavedConstants
<1>2. CASE known /\ d > best
  <2>1. scored' = [step |-> "record", name |-> w, diff |-> d, best |-> 0] /\ earnedBest' = earnedBest
    BY <1>2 DEF Decided
  <2>2. scored' \in Scores /\ scored'.name = w /\ scored'.step = "record" /\ scored'.best = 0
    BY <1>1, <2>1 DEF Scores
  <2>3. \A n : Holds(n, 0)
    BY DEF Holds
  <2> QED
    BY <1>2, <2>1, <2>2, <2>3, ScoreMoved
<1>3. CASE known /\ ~(d > best)
  <2>1. scored' = NoScore /\ Earn(w, d)
    BY <1>3 DEF Decided
  <2>2. w \in KeptNames => Holds(w, d)
    <3>1. SUFFICES ASSUME w \in KeptNames PROVE Holds(w, d)
      OBVIOUS
    <3>2. pendingBest[w] \in Int /\ flushing[w] \in Int /\ \A u \in Savers : rows[<<u, w>>] \in Int
      BY SavedFacts, SavedConstants
    <3> QED
      BY <1>1, <1>3, <3>1, <3>2 DEF Holds
  <2> QED
    BY <1>1, <1>3, <2>1, <2>2, EarnedHeld
<1>4. CASE ~known
  <2>1. scored' = NoScore /\ earnedBest' = earnedBest
    BY <1>4 DEF Decided
  <2>2. NoScore \in Scores /\ NoScore.step = "idle" /\ NoScore.name \notin Names
    BY <1>1, SavedConstants DEF NoScore, Scores
  <2> QED
    BY <2>1, <2>2, ScoreMoved DEF KeptNames
<1> QED
  BY <1>2, <1>3, <1>4

LEMMA ShareStep ==
    ASSUME SavedInv, NEW w \in Names, NEW d \in 1..MaxBest, Share(w, d) PROVE SavedInv'
<1>1. UNCHANGED <<rows, storeVars, connVars, toRefresh, removed>>
  BY DEF Share
<1>0. d \in 0..MaxBest
  OBVIOUS
<1>2. CASE registered = w /\ ~syncing
  <2>1. Decided(w, d, tracked, cachedBest)
    BY <1>2 DEF Share
  <2>2. w \in KeptNames /\ tracked => Holds(w, cachedBest) /\ IsSaved(w)
    BY <1>2 DEF SavedInv, ConnInv
  <2> QED
    BY <1>0, <1>1, <2>1, <2>2, SavedFacts, DecidedStep
<1>3. CASE ~(registered = w /\ ~syncing)
  <2>1. scored' = [step |-> "pending", name |-> w, diff |-> d, best |-> 0] /\ earnedBest' = earnedBest
    BY <1>3 DEF Share
  <2>2. d \in 0..MaxBest /\ 0 \in 0..MaxBest
    BY SavedConstants
  <2>3. scored' \in Scores /\ scored'.name = w /\ scored'.step = "pending" /\ scored'.best = 0
    BY <2>1, <2>2 DEF Scores
  <2>4. \A n : Holds(n, 0)
    BY DEF Holds
  <2> QED
    BY <1>1, <2>1, <2>3, <2>4, ScoreMoved
<1> QED
  BY <1>2, <1>3

LEMMA NoScoreTyped == NoScore \in Scores /\ NoScore.step = "idle" /\ NoScore.name \notin Names
<1>1. 0 \in 0..MaxBest
  BY SavedConstants
<1> QED
  BY <1>1, SavedConstants DEF NoScore, Scores

LEMMA ScoreReadsStep ==
    ASSUME SavedInv, NEW ok \in BOOLEAN, ScoreReads(ok) PROVE SavedInv'
<1>1. UNCHANGED <<rows, storeVars, connVars, toRefresh, removed>>
  BY DEF ScoreReads
<1>2. PICK w, d, b : w = scored.name /\ d = scored.diff /\ b = scored.best
  OBVIOUS
<1>3. d \in 0..MaxBest /\ b \in 0..MaxBest /\ (scored.step # "idle" => w \in Names)
      /\ (w \in KeptNames => Holds(w, b))
  BY <1>2, SavedFacts DEF Scores, SavedInv, ScoreInv
<1>4. CASE /\ scored.step = "pending" /\ ok
           /\ scored' = [scored EXCEPT !.step = "row", !.best = pendingBest[scored.name]]
           /\ UNCHANGED earnedBest
  <2>1. w \in Names /\ pendingBest[w] \in 0..MaxBest
    BY <1>3, <1>4, SavedFacts
  <2>2. scored' \in Scores /\ scored'.name = w /\ scored'.step = "row" /\ scored'.best = pendingBest[w]
    BY <1>2, <1>4, <2>1, SavedFacts DEF Scores
  <2>3. Holds(w, pendingBest[w])
    BY <2>1 DEF Holds
  <2> QED
    BY <1>1, <1>4, <2>1, <2>2, <2>3, ScoreMoved
<1>5. CASE /\ scored.step = "row" /\ ok
           /\ Decided(scored.name, scored.diff, IsSaved(scored.name),
                      Higher(scored.best, RowBest(scored.name)))
  <2>1. w \in Names
    BY <1>3, <1>5
  <2>2. PICK known, best : known = IsSaved(w) /\ best = Higher(b, RowBest(w))
    OBVIOUS
  <2>3. known \in BOOLEAN
    BY <2>2 DEF IsSaved
  <2>4. best \in 0..MaxBest /\ (w \in KeptNames => Holds(w, best))
    BY <1>3, <2>1, <2>2, RowBestIs, HigherIs, RowHeld
  <2>5. Decided(w, d, known, best)
    BY <1>2, <1>5, <2>2
  <2> QED
    BY <1>1, <1>3, <2>1, <2>2, <2>3, <2>4, <2>5, DecidedStep
<1>6. CASE scored' = NoScore /\ UNCHANGED earnedBest
  BY <1>1, <1>6, NoScoreTyped, ScoreMoved DEF KeptNames
<1> QED
  BY <1>4, <1>5, <1>6 DEF ScoreReads

LEMMA RecordStep == ASSUME SavedInv, RecordBest PROVE SavedInv'
<1>1. PICK w, d : w = scored.name /\ d = scored.diff
  OBVIOUS
<1>2. /\ scored.step = "record" /\ scored' = [scored EXCEPT !.step = "cache"]
      /\ earnedBest' = [earnedBest EXCEPT ![w] = Higher(earnedBest[w], d)]
      /\ pendingBest' = [pendingBest EXCEPT ![w] = Higher(pendingBest[w], d)]
      /\ updates' = IF d > pendingBest[w] /\ updates = {} THEN {<<w, d>>} ELSE updates
      /\ UNCHANGED <<rows, flushing, store, connVars, toRefresh, removed>>
  BY <1>1, SavedFacts DEF RecordBest, Earn
<1>3. w \in Names /\ d \in 0..MaxBest /\ (w \in KeptNames => IsSaved(w))
  BY <1>1, <1>2, SavedFacts DEF Scores, SavedInv, ScoreInv
<1>4. /\ Higher(earnedBest[w], d) \in 0..MaxBest /\ Higher(pendingBest[w], d) \in 0..MaxBest
      /\ Higher(earnedBest[w], d) = earnedBest[w] \/ Higher(earnedBest[w], d) = d
      /\ Higher(pendingBest[w], d) >= pendingBest[w] /\ Higher(pendingBest[w], d) >= d
  BY <1>3, SavedFacts, HigherIs
<1>5. earnedBest' \in [Names -> 0..MaxBest] /\ pendingBest' \in [Names -> 0..MaxBest]
  BY <1>2, <1>4, SavedFacts
<1>6. updates' \subseteq Names \X (1..MaxBest)
  <2>1. CASE d > pendingBest[w] /\ updates = {}
    <3>1. pendingBest[w] \in 0..MaxBest
      BY <1>3, SavedFacts
    <3>2. d \in 1..MaxBest
      BY <1>3, <2>1, <3>1
    <3> QED
      BY <1>2, <1>3, <2>1, <3>2
  <2>2. CASE updates' = updates
    BY <2>2, SavedFacts
  <2> QED
    BY <1>2, <2>1, <2>2
<1>7. scored' \in Scores /\ scored'.name = w /\ scored'.diff = d /\ scored'.best = scored.best
      /\ scored'.step = "cache"
  BY <1>1, <1>2, SavedFacts DEF Scores
<1>8. ASSUME NEW n \in Names, NEW e \in 0..MaxBest, Holds(n, e) PROVE Holds(n, e)'
  <2>1. pendingBest'[n] >= pendingBest[n] /\ pendingBest'[n] \in Int /\ pendingBest[n] \in Int
    BY <1>2, <1>3, <1>4, <1>5, SavedFacts
  <2>2. e <= pendingBest[n] => e <= pendingBest'[n]
    BY <2>1
  <2> QED
    BY <1>2, <1>8, <2>2 DEF Holds
<1>9. \A n : IsSaved(n)' <=> IsSaved(n)
  BY <1>2 DEF IsSaved
<1>10. Grows /\ KeptNames' = KeptNames /\ KeptNames \subseteq Names
  BY <1>2, <1>8, <1>9 DEF Grows, KeptNames
<1>11. Holds(w, d)'
  <2>1. d <= pendingBest'[w]
    BY <1>2, <1>3, <1>4, SavedFacts
  <2> QED
    BY <2>1 DEF Holds
<1>12. StoreInv'
  <2>1. ASSUME NEW n \in KeptNames
        PROVE  pendingBest'[n] > 0 \/ flushing'[n] > 0 \/ earnedBest'[n] > 0 => IsSaved(n)
    <3>1. n = w \/ (pendingBest'[n] = pendingBest[n] /\ earnedBest'[n] = earnedBest[n])
      BY <1>2, <1>10, SavedFacts
    <3> QED
      BY <1>2, <1>3, <2>1, <3>1 DEF SavedInv, StoreInv
  <2>2. ASSUME NEW n \in KeptNames, NEW e, e = earnedBest'[n] PROVE Holds(n, e)'
    <3>1. CASE e = earnedBest[n]
      BY <1>8, <1>10, <2>2, <3>1, SavedFacts DEF SavedInv, StoreInv
    <3>2. CASE n = w /\ e = d
      BY <1>11, <3>2
    <3>3. e = earnedBest[n] \/ (n = w /\ e = d)
      BY <1>2, <1>4, <1>10, <2>2, SavedFacts
    <3> QED
      BY <3>1, <3>2, <3>3
  <2>3. \A n \in KeptNames : Holds(n, earnedBest[n])'
    BY <2>2 DEF Holds
  <2>4. \A x \in updates' : x[1] \in KeptNames => IsSaved(x[1])
    BY <1>2, <1>3 DEF SavedInv, StoreInv
  <2> QED
    BY <1>9, <1>10, <2>1, <2>3, <2>4 DEF StoreInv
<1>13. ScoreInv'
  <2>1. w \in KeptNames => Holds(w, scored.best)'
    <3>1. scored.best \in 0..MaxBest
      BY SavedFacts DEF Scores
    <3>2. w \in KeptNames => Holds(w, scored.best)
      BY <1>1 DEF SavedInv, ScoreInv
    <3>3. PICK b : b = scored.best
      OBVIOUS
    <3>4. w \in KeptNames => Holds(w, b)'
      BY <1>3, <1>8, <3>1, <3>2, <3>3
    <3> QED
      BY <1>7, <3>3, <3>4 DEF Holds
  <2>2. scored'.name \in KeptNames' => Holds(scored.name, scored.best)' /\ Holds(scored.name, scored.diff)'
    BY <1>7, <1>10, <1>11, <2>1 DEF Holds
  <2>3. scored'.name \in KeptNames' => IsSaved(scored.name)'
    BY <1>3, <1>7, <1>9, <1>10 DEF IsSaved
  <2> QED
    BY <2>2, <2>3 DEF ScoreInv
<1>14. SyncInv'
  BY <1>2, <1>9, SyncSame
<1>15. SavedTypes'
  BY <1>2, <1>3, <1>5, <1>6, <1>7, SavedFacts DEF SavedTypes, SavedTypeOK, SavedInv, connVars
<1> QED
  BY <1>2, <1>10, <1>12, <1>13, <1>14, <1>15, ConnKept DEF SavedInv

LEMMA CacheBestStep == ASSUME SavedInv, CacheBest PROVE SavedInv'
<1>1. PICK w, d : w = scored.name /\ d = scored.diff
  OBVIOUS
<1>2. /\ scored.step = "cache" /\ scored' = NoScore
      /\ cachedBest' = IF registered = w THEN Higher(cachedBest, d) ELSE cachedBest
      /\ UNCHANGED <<rows, pendingBest, flushing, updates, store, registered, syncGeneration, syncing,
                     tracked, lookups, unknown, toRefresh, earnedBest, removed>>
  BY <1>1 DEF CacheBest, storeVars
<1>3. d \in 0..MaxBest /\ (w \in KeptNames => Holds(w, d))
  BY <1>1, <1>2, SavedFacts DEF Scores, SavedInv, ScoreInv
<1>4. cachedBest' \in 0..MaxBest /\ (cachedBest' = cachedBest \/ (registered = w /\ cachedBest' = d))
  BY <1>2, <1>3, SavedFacts, HigherIs
<1>5. StoreInv' /\ Grows
  BY <1>2, StoreSame
<1>6. /\ KeptNames' = KeptNames
      /\ \A n, e : (Holds(n, e)' <=> Holds(n, e)) /\ (IsSaved(n)' <=> IsSaved(n))
  BY <1>2 DEF KeptNames, Holds, IsSaved
<1>7. ConnInv'
  <2>1. \A k \in lookups : k.name \in KeptNames => Holds(k.name, k.best)' /\ (k.found => IsSaved(k.name)')
    BY <1>6 DEF SavedInv, ConnInv
  <2>2. PICK r, c : r = registered /\ c = cachedBest'
    OBVIOUS
  <2>3. r \in KeptNames => Holds(r, c)' /\ (tracked => IsSaved(r)')
    BY <1>3, <1>4, <1>6, <2>2 DEF SavedInv, ConnInv
  <2>4. registered' \in KeptNames' => Holds(registered, cachedBest)' /\ (tracked' => IsSaved(registered)')
    BY <1>2, <1>6, <2>2, <2>3 DEF Holds, IsSaved
  <2> QED
    BY <1>2, <1>6, <2>1, <2>4 DEF ConnInv
<1>8. SyncInv'
  <2>1. IsSaved(registered)' <=> IsSaved(registered)
    BY <1>2 DEF IsSaved
  <2> QED
    BY <1>2, <2>1 DEF SavedInv, SyncInv
<1>9. ScoreInv'
  BY <1>2, NoScoreTyped DEF ScoreInv, KeptNames
<1>10. SavedTypes'
  BY <1>2, <1>4, NoScoreTyped, SavedFacts DEF SavedTypes, SavedTypeOK, SavedInv
<1> QED
  BY <1>5, <1>7, <1>8, <1>9, <1>10 DEF SavedInv

-----------------------------------------------------------------------------
\* The store's worker
LEMMA StoreMoved ==
    ASSUME SavedInv, Grows, UNCHANGED <<connVars, toRefresh, removed, scored, earnedBest>>,
           rows' \in [Savers \X Names -> {NotSaved} \cup 0..MaxBest],
           pendingBest' \in [Names -> 0..MaxBest], flushing' \in [Names -> 0..MaxBest],
           updates' \subseteq updates, store' \in {"up", "closing"},
           \A w \in Names : IsSaved(w)' <=> IsSaved(w),
           \A w \in KeptNames : pendingBest'[w] > 0 \/ flushing'[w] > 0 => IsSaved(w)
    PROVE  SavedInv'
<1>1. KeptNames' = KeptNames /\ KeptNames = Names \ removed'
  BY DEF KeptNames
<1>2. StoreInv'
  <2>1. ASSUME NEW n \in KeptNames, NEW e, e = earnedBest[n] PROVE Holds(n, e)'
    BY <1>1, <2>1, SavedFacts DEF Grows, SavedInv, StoreInv
  <2>2. \A n \in KeptNames : Holds(n, earnedBest[n])'
    BY <2>1 DEF Holds
  <2>3. \A n \in KeptNames : pendingBest'[n] > 0 \/ flushing'[n] > 0 \/ earnedBest'[n] > 0 => IsSaved(n)'
    BY <1>1 DEF SavedInv, StoreInv
  <2>4. \A x \in updates' : x[1] \in KeptNames => IsSaved(x[1])'
    BY <1>1 DEF SavedInv, StoreInv
  <2> QED
    BY <1>1, <2>2, <2>3, <2>4 DEF StoreInv
<1>3. SyncInv'
  BY SyncSame
<1>4. SavedTypes'
  BY SavedFacts DEF SavedTypes, SavedTypeOK, SavedInv, connVars
<1> QED
  BY <1>2, <1>3, <1>4, ConnKept, ScoreKept DEF SavedInv

LEMMA NoBestTyped == NoBest \in [Names -> 0..MaxBest] /\ \A w \in Names : NoBest[w] = 0
BY SavedConstants DEF NoBest

LEMMA DrainStep == ASSUME SavedInv, DrainUpdate PROVE SavedInv'
<1>1. PICK x \in updates : /\ updates' = updates \ {x}
                           /\ pendingBest' = [pendingBest EXCEPT ![x[1]] = Higher(@, x[2])]
  BY DEF DrainUpdate
<1>2. UNCHANGED <<rows, flushing, store, connVars, scored, toRefresh, earnedBest, removed>>
  BY DEF DrainUpdate
<1>3. PICK w, d : w = x[1] /\ d = x[2]
  OBVIOUS
<1>4. w \in Names /\ d \in 0..MaxBest /\ (w \in KeptNames => IsSaved(w))
  BY <1>3, SavedFacts DEF SavedInv, StoreInv
<1>5. pendingBest' = [pendingBest EXCEPT ![w] = Higher(pendingBest[w], d)]
  BY <1>1, <1>3, <1>4, SavedFacts
<1>6. Higher(pendingBest[w], d) \in 0..MaxBest /\ Higher(pendingBest[w], d) >= pendingBest[w]
  BY <1>4, SavedFacts, HigherIs
<1>7. pendingBest' \in [Names -> 0..MaxBest] /\ \A n \in Names : pendingBest'[n] >= pendingBest[n]
  <2>1. pendingBest \in [Names -> 0..MaxBest] /\ w \in Names
    BY <1>4, SavedFacts
  <2>2. pendingBest' \in [Names -> 0..MaxBest]
    BY <1>5, <1>6, <2>1
  <2>3. ASSUME NEW n \in Names PROVE pendingBest'[n] >= pendingBest[n]
    <3>1. pendingBest'[n] = IF n = w THEN Higher(pendingBest[w], d) ELSE pendingBest[n]
      BY <1>5, <2>1
    <3>2. pendingBest[n] \in 0..MaxBest
      BY <2>1
    <3> QED
      BY <1>6, <3>1, <3>2
  <2> QED
    BY <2>2, <2>3
<1>8. ASSUME NEW n \in Names, NEW e \in 0..MaxBest, Holds(n, e) PROVE Holds(n, e)'
  <2>1. e <= pendingBest[n] => e <= pendingBest'[n]
    BY <1>7, SavedFacts
  <2> QED
    BY <1>2, <1>8, <2>1 DEF Holds
<1>9. \A n : IsSaved(n)' <=> IsSaved(n)
  BY <1>2 DEF IsSaved
<1>10. Grows
  BY <1>2, <1>8, <1>9 DEF Grows
<1>11. \A n \in KeptNames : pendingBest'[n] > 0 \/ flushing'[n] > 0 => IsSaved(n)
  <2>1. ASSUME NEW n \in KeptNames, pendingBest'[n] > 0 \/ flushing'[n] > 0 PROVE IsSaved(n)
    <3>1. n \in Names
      BY DEF KeptNames
    <3>2. CASE n = w
      BY <1>4, <3>2
    <3>3. CASE n # w
      <4>1. pendingBest'[n] = pendingBest[n] /\ flushing'[n] = flushing[n]
        BY <1>2, <1>5, <3>1, <3>3, SavedFacts
      <4> QED
        BY <2>1, <4>1 DEF SavedInv, StoreInv
    <3> QED
      BY <3>2, <3>3
  <2> QED
    BY <2>1
<1> QED
  BY <1>1, <1>2, <1>7, <1>9, <1>10, <1>11, SavedFacts, StoreMoved

LEMMA BeginFlushStep == ASSUME SavedInv, BeginFlush PROVE SavedInv'
<1>1. /\ flushing = NoBest /\ flushing' = pendingBest /\ pendingBest' = NoBest
      /\ UNCHANGED <<rows, updates, store, connVars, scored, toRefresh, earnedBest, removed>>
  BY DEF BeginFlush
<1>2. ASSUME NEW n \in Names, NEW e \in 0..MaxBest, Holds(n, e) PROVE Holds(n, e)'
  BY <1>1, <1>2, NoBestTyped DEF Holds
<1>3. \A n : IsSaved(n)' <=> IsSaved(n)
  BY <1>1 DEF IsSaved
<1>4. Grows
  BY <1>1, <1>2, <1>3 DEF Grows
<1>5. \A n \in KeptNames : pendingBest'[n] > 0 \/ flushing'[n] > 0 => IsSaved(n)
  BY <1>1, NoBestTyped DEF SavedInv, StoreInv, KeptNames
<1> QED
  BY <1>1, <1>3, <1>4, <1>5, NoBestTyped, SavedFacts, StoreMoved

LEMMA EndFlushStep ==
    ASSUME SavedInv, NEW ok \in BOOLEAN, EndFlush(ok) PROVE SavedInv'
<1>1. /\ flushing' = NoBest
      /\ UNCHANGED <<updates, store, connVars, scored, toRefresh, earnedBest, removed>>
  BY DEF EndFlush
<1>2. CASE ~ok
  <2>1. rows' = rows /\ pendingBest' = [w \in Names |-> Higher(pendingBest[w], flushing[w])]
    BY <1>2 DEF EndFlush
  <2>2. \A n \in Names : /\ pendingBest'[n] \in 0..MaxBest
                         /\ pendingBest'[n] >= pendingBest[n] /\ pendingBest'[n] >= flushing[n]
                         /\ pendingBest'[n] = pendingBest[n] \/ pendingBest'[n] = flushing[n]
    BY <2>1, SavedFacts, HigherIs
  <2>3. pendingBest' \in [Names -> 0..MaxBest]
    BY <2>1, <2>2
  <2>4. ASSUME NEW n \in Names, NEW e \in 0..MaxBest, Holds(n, e) PROVE Holds(n, e)'
    <3>1. e <= pendingBest[n] \/ e <= flushing[n] => e <= pendingBest'[n]
      BY <2>2, <2>3, SavedFacts
    <3> QED
      BY <2>1, <2>4, <3>1 DEF Holds
  <2>5. \A n : IsSaved(n)' <=> IsSaved(n)
    BY <2>1 DEF IsSaved
  <2>6. Grows
    BY <1>1, <2>4, <2>5 DEF Grows
  <2>7. \A n \in KeptNames : pendingBest'[n] > 0 \/ flushing'[n] > 0 => IsSaved(n)
    <3>1. \A n \in Names : flushing'[n] = 0
      BY <1>1, NoBestTyped
    <3> QED
      BY <2>2, <3>1 DEF SavedInv, StoreInv, KeptNames
  <2> QED
    BY <1>1, <2>1, <2>3, <2>5, <2>6, <2>7, NoBestTyped, SavedFacts, StoreMoved
<1>3. CASE ok
  <2>1. /\ pendingBest' = pendingBest
        /\ rows' = [x \in Savers \X Names |->
                       IF rows[x] # NotSaved THEN Higher(rows[x], flushing[x[2]]) ELSE NotSaved]
    BY <1>3 DEF EndFlush
  <2>2. ASSUME NEW u \in Savers, NEW n \in Names
        PROVE  /\ rows[<<u, n>>] = NotSaved => rows'[<<u, n>>] = NotSaved
               /\ rows[<<u, n>>] # NotSaved =>
                    /\ rows'[<<u, n>>] \in 0..MaxBest /\ rows[<<u, n>>] \in 0..MaxBest
                    /\ rows'[<<u, n>>] >= rows[<<u, n>>] /\ rows'[<<u, n>>] >= flushing[n]
    <3>1. <<u, n>> \in Savers \X Names /\ rows[<<u, n>>] \in {NotSaved} \cup 0..MaxBest
          /\ flushing[n] \in 0..MaxBest
      BY SavedFacts
    <3>2. rows'[<<u, n>>] = IF rows[<<u, n>>] # NotSaved THEN Higher(rows[<<u, n>>], flushing[n])
                            ELSE NotSaved
      BY <2>1, <3>1
    <3> QED
      BY <3>1, <3>2, HigherIs
  <2>3. rows' \in [Savers \X Names -> {NotSaved} \cup 0..MaxBest]
    <3>1. \A x \in Savers \X Names : rows'[x] \in {NotSaved} \cup 0..MaxBest
      <4> SUFFICES ASSUME NEW x \in Savers \X Names PROVE rows'[x] \in {NotSaved} \cup 0..MaxBest
        OBVIOUS
      <4>1. PICK u \in Savers, n \in Names : x = <<u, n>>
        OBVIOUS
      <4> QED
        BY <2>2, <4>1
    <3> QED
      BY <2>1, <3>1
  <2>4. \A n \in Names : IsSaved(n)' <=> IsSaved(n)
    <3>1. ASSUME NEW u \in Savers, NEW n \in Names
          PROVE  rows'[<<u, n>>] = NotSaved <=> rows[<<u, n>>] = NotSaved
      BY <2>2, SavedConstants
    <3> QED
      BY <3>1 DEF IsSaved
  <2>5. ASSUME NEW n \in KeptNames, NEW e \in 0..MaxBest, Holds(n, e) PROVE Holds(n, e)'
    <3>0. n \in Names
      BY DEF KeptNames
    <3>1. CASE e <= 0 \/ e <= pendingBest[n]
      BY <2>1, <3>1 DEF Holds
    <3>2. CASE e > 0 /\ e <= flushing[n]
      <4>1. IsSaved(n)
        BY <2>5, <3>2, HeldIsSaved
      <4>2. PICK u \in Savers : rows[<<u, n>>] # NotSaved
        BY <4>1 DEF IsSaved
      <4>3. e <= rows'[<<u, n>>]
        BY <2>2, <3>0, <3>2, <4>2, SavedFacts
      <4> QED
        BY <4>3, Zenon DEF Holds
    <3>3. CASE e > 0 /\ \E u \in Savers : e <= rows[<<u, n>>]
      <4>1. PICK u \in Savers : e <= rows[<<u, n>>]
        BY <3>3
      <4>2. rows[<<u, n>>] # NotSaved
        BY <3>3, <4>1, SavedConstants
      <4>3. e <= rows'[<<u, n>>]
        BY <2>2, <3>0, <4>1, <4>2
      <4> QED
        BY <4>3, Zenon DEF Holds
    <3>4. e <= 0 \/ e > 0
      OBVIOUS
    <3>5. \/ e <= 0 \/ e <= pendingBest[n] \/ e <= flushing[n]
          \/ \E u \in Savers : e <= rows[<<u, n>>]
      BY <2>5 DEF Holds
    <3> QED
      BY <3>1, <3>2, <3>3, <3>4, <3>5
  <2>6. Grows
    BY <1>1, <2>4, <2>5 DEF Grows, KeptNames
  <2>7. \A n \in KeptNames : pendingBest'[n] > 0 \/ flushing'[n] > 0 => IsSaved(n)
    BY <1>1, <2>1, NoBestTyped DEF SavedInv, StoreInv, KeptNames
  <2> QED
    BY <1>1, <2>1, <2>3, <2>4, <2>6, <2>7, NoBestTyped, SavedFacts, StoreMoved
<1> QED
  BY <1>2, <1>3

LEMMA CloseStep == ASSUME SavedInv, Close PROVE SavedInv'
<1>1. /\ store' = "closing"
      /\ UNCHANGED <<rows, pendingBest, flushing, updates, connVars, scored, toRefresh, earnedBest, removed>>
  BY DEF Close
<1>2. StoreInv' /\ Grows
  BY <1>1, StoreSame
<1>3. \A n : IsSaved(n)' <=> IsSaved(n)
  BY <1>1 DEF IsSaved
<1> QED
  BY <1>1, <1>2, <1>3, SavedFacts, StoreMoved DEF SavedInv, StoreInv

\* A new process: what was earned is what the rows say.
LEMMA StoreReopened ==
    ASSUME SavedInv, ReopenStore, earnedBest' \in [Names -> 0..MaxBest],
           \A w \in KeptNames : earnedBest'[w] > 0 => \E u \in Savers : earnedBest'[w] <= rows[<<u, w>>]
    PROVE  SavedInv'
<1>1. /\ pendingBest' = NoBest /\ flushing' = NoBest /\ updates' = {} /\ store' = "up"
      /\ registered' = Nobody /\ syncGeneration' = 0 /\ syncing' = FALSE /\ tracked' = FALSE
      /\ cachedBest' = 0 /\ lookups' = {} /\ scored' = NoScore /\ toRefresh' = {} /\ unknown' = FALSE
      /\ UNCHANGED <<rows, removed>>
  BY DEF ReopenStore
<1>2. SavedTypes'
  <2>1. {syncing', tracked', unknown'} \subseteq BOOLEAN /\ syncing' \in BOOLEAN /\ tracked' \in BOOLEAN
        /\ unknown' \in BOOLEAN
    BY <1>1
  <2>2. syncGeneration' \in 0..MaxGeneration /\ cachedBest' \in 0..MaxBest
    BY <1>1, SavedConstants
  <2> QED
    BY <1>1, <2>1, <2>2, NoBestTyped, NoScoreTyped, SavedFacts DEF SavedTypes, SavedTypeOK
<1>3. KeptNames' = KeptNames /\ KeptNames \subseteq Names /\ \A n : IsSaved(n)' <=> IsSaved(n)
  BY <1>1 DEF KeptNames, IsSaved
<1>4. StoreInv'
  <2>1. ASSUME NEW w \in KeptNames, earnedBest'[w] > 0 PROVE IsSaved(w)
    <3>1. PICK u \in Savers : earnedBest'[w] <= rows[<<u, w>>]
      BY <2>1
    <3>2. rows[<<u, w>>] # NotSaved
      BY <1>3, <2>1, <3>1, SavedConstants
    <3> QED
      BY <3>2 DEF IsSaved
  <2>2. \A w \in KeptNames : Holds(w, earnedBest[w])'
    <3> SUFFICES ASSUME NEW w \in KeptNames PROVE Holds(w, earnedBest[w])'
      OBVIOUS
    <3>1. earnedBest'[w] \in 0..MaxBest
      BY <1>3
    <3>2. earnedBest'[w] <= 0 \/ \E u \in Savers : earnedBest'[w] <= rows'[<<u, w>>]
      BY <1>1, <3>1
    <3> QED
      BY <3>2 DEF Holds
  <2>3. \A w \in KeptNames : ~(pendingBest'[w] > 0) /\ ~(flushing'[w] > 0)
    BY <1>1, <1>3, NoBestTyped
  <2> QED
    BY <1>1, <1>3, <2>1, <2>2, <2>3 DEF StoreInv
<1>5. registered' \notin Names
  BY <1>1, SavedConstants
<1>6. ConnInv' /\ SyncInv'
  BY <1>1, <1>3, <1>5 DEF ConnInv, SyncInv
<1>7. ScoreInv'
  BY <1>1, NoScoreTyped DEF ScoreInv, KeptNames
<1> QED
  BY <1>2, <1>4, <1>6, <1>7 DEF SavedInv

LEMMA ReopenStep == ASSUME SavedInv, Reopen PROVE SavedInv'
<1>1. ReopenStore /\ earnedBest' = earnedBest /\ pendingBest = NoBest /\ flushing = NoBest
  BY DEF Reopen
<1>2. ASSUME NEW w \in KeptNames, earnedBest'[w] > 0
      PROVE  \E u \in Savers : earnedBest'[w] <= rows[<<u, w>>]
  <2>1. Holds(w, earnedBest[w]) /\ w \in Names /\ earnedBest[w] \in 0..MaxBest
    BY SavedFacts DEF SavedInv, StoreInv, KeptNames
  <2> QED
    BY <1>1, <1>2, <2>1, NoBestTyped DEF Holds
<1> QED
  BY <1>1, <1>2, SavedFacts, StoreReopened

LEMMA LostStep == ASSUME SavedInv, Lost PROVE SavedInv'
<1>1. ReopenStore /\ earnedBest' = [w \in Names |-> RowBest(w)]
  BY DEF Lost
<1>2. ASSUME NEW w \in Names
      PROVE  /\ earnedBest'[w] \in 0..MaxBest
             /\ earnedBest'[w] > 0 => \E u \in Savers : earnedBest'[w] <= rows[<<u, w>>]
  <2>1. earnedBest'[w] = RowBest(w)
    BY <1>1
  <2>2. RowBest(w) \in 0..MaxBest /\ (RowBest(w) = 0 \/ \E u \in Savers : rows[<<u, w>>] = RowBest(w))
    BY RowBestIs
  <2>3. PICK b : b = RowBest(w) /\ b \in 0..MaxBest
    BY <2>2
  <2>4. b <= b /\ (b = 0 => ~(b > 0))
    BY <2>3
  <2>5. earnedBest'[w] \in 0..MaxBest
    BY <2>1, <2>3
  <2>6. ASSUME earnedBest'[w] > 0 PROVE \E u \in Savers : earnedBest'[w] <= rows[<<u, w>>]
    <3>1. PICK u \in Savers : rows[<<u, w>>] = b
      BY <2>1, <2>2, <2>3, <2>4, <2>6
    <3>2. earnedBest'[w] <= rows[<<u, w>>]
      BY <2>1, <2>3, <2>4, <3>1
    <3> QED
      BY <3>2
  <2> QED
    BY <2>5, <2>6
<1>3. earnedBest' \in [Names -> 0..MaxBest]
  BY <1>1, <1>2
<1> QED
  BY <1>1, <1>2, <1>3, StoreReopened DEF KeptNames

-----------------------------------------------------------------------------
LEMMA SavedStarts == SavedInit => SavedInv
<1> SUFFICES ASSUME SavedInit PROVE SavedInv
  OBVIOUS
<1>1. /\ rows = [x \in Savers \X Names |-> NotSaved]
      /\ pendingBest = NoBest /\ flushing = NoBest /\ updates = {} /\ store = "up"
      /\ registered = Nobody /\ syncGeneration = 0 /\ syncing = FALSE /\ tracked = FALSE
      /\ cachedBest = 0 /\ lookups = {} /\ scored = NoScore /\ toRefresh = {} /\ unknown = FALSE
      /\ earnedBest = NoBest /\ removed = {}
  BY DEF SavedInit
<1>2. SavedTypes
  <2>1. {syncing, tracked, unknown} \subseteq BOOLEAN /\ syncing \in BOOLEAN /\ tracked \in BOOLEAN
        /\ unknown \in BOOLEAN
    BY <1>1
  <2>2. syncGeneration \in 0..MaxGeneration /\ cachedBest \in 0..MaxBest
    BY <1>1, SavedConstants
  <2>3. rows \in [Savers \X Names -> {NotSaved} \cup 0..MaxBest]
    BY <1>1
  <2> QED
    BY <1>1, <2>1, <2>2, <2>3, NoBestTyped, NoScoreTyped DEF SavedTypes, SavedTypeOK
<1>3. StoreInv
  BY <1>1, NoBestTyped DEF StoreInv, KeptNames, Holds
<1>4. registered \notin Names
  BY <1>1, SavedConstants
<1>5. ConnInv /\ SyncInv /\ ScoreInv
  BY <1>1, <1>4, NoScoreTyped DEF ConnInv, SyncInv, ScoreInv, KeptNames
<1> QED
  BY <1>2, <1>3, <1>5 DEF SavedInv

LEMMA SavedKept == SavedInv /\ [SavedNext]_savedVars => SavedInv'
<1> SUFFICES ASSUME SavedInv, [SavedNext]_savedVars PROVE SavedInv'
  OBVIOUS
<1>1. CASE \E u \in Savers : RemoveUser(u) \/ \E w \in Names : Add(u, w) \/ Unsave(u, w)
  <2>1. PICK u \in Savers : RemoveUser(u) \/ \E w \in Names : Add(u, w) \/ Unsave(u, w)
    BY <1>1
  <2>2. CASE RemoveUser(u)
    <3>1. PICK names : names = {w \in Names : rows[<<u, w>>] # NotSaved}
      OBVIOUS
    <3>2. names \in SUBSET Names /\ Delete(u, names)
      BY <2>2, <3>1 DEF RemoveUser
    <3> QED
      BY <3>2, DeleteStep
  <2>3. ASSUME NEW w \in Names, Unsave(u, w) PROVE SavedInv'
    <3>1. {w} \in SUBSET Names /\ Delete(u, {w})
      BY <2>3 DEF Unsave
    <3> QED
      BY <3>1, DeleteStep
  <2> QED
    BY <2>1, <2>2, <2>3, AddStep
<1>2. CASE \E w \in Names : \/ Refresh(w) \/ Register(w)
                            \/ \E d \in 1..MaxBest : Share(w, d)
  BY <1>2, RefreshStep, RegisterStep, ShareStep
<1>3. CASE Unregister \/ RecordBest \/ CacheBest \/ DrainUpdate \/ BeginFlush \/ Close \/ Reopen \/ Lost
  BY <1>3, UnregisterStep, RecordStep, CacheBestStep, DrainStep, BeginFlushStep, CloseStep, ReopenStep,
     LostStep
<1>4. CASE \E l \in lookups : CompleteSync(l) \/ \E ok \in BOOLEAN : LookUpDifficulty(l, ok)
  BY <1>4, CompleteStep, LookUpStep
<1>5. CASE \E ok \in BOOLEAN : ScoreReads(ok) \/ EndFlush(ok)
  BY <1>5, ScoreReadsStep, EndFlushStep
<1>6. CASE UNCHANGED savedVars
  <2>1. UNCHANGED <<rows, pendingBest, flushing, updates, store, registered, syncGeneration, syncing,
                    tracked, cachedBest, lookups, unknown, scored, toRefresh, earnedBest, removed>>
    BY <1>6 DEF savedVars
  <2>2. UNCHANGED <<connVars, storeVars>>
    BY <2>1 DEF connVars, storeVars
  <2>3. StoreInv' /\ Grows
    BY <2>1, StoreSame
  <2>4. SyncInv'
    BY <2>1, <2>2, SyncSame DEF IsSaved
  <2>5. SavedTypes'
    BY <2>1 DEF SavedTypes, SavedTypeOK, SavedInv
  <2> QED
    BY <2>1, <2>2, <2>3, <2>4, <2>5, ConnKept, ScoreKept DEF SavedInv
<1> QED
  BY <1>1, <1>2, <1>3, <1>4, <1>5, <1>6 DEF SavedNext

LEMMA SavedInvariant == SavedSpec => []SavedInv
BY SavedStarts, SavedKept, PTL DEF SavedSpec

\* No difficulty a tracked worker earned is lost while it stays saved, and a connection
\* whose lookup is done tracks exactly the saved workers (flushBestDiffPending,
\* completeSavedWorkerSync).
THEOREM SavedWorkersHold == SavedSpec => []SavedWorkersAgree
<1>1. SavedInv => SavedWorkersAgree
  <2> SUFFICES ASSUME SavedInv PROVE SavedWorkersAgree
    OBVIOUS
  <2>1. ASSUME NEW w \in Names \ removed
        PROVE  Max({RowBest(w), pendingBest[w], flushing[w]}) >= earnedBest[w]
    <3> DEFINE T == {RowBest(w), pendingBest[w], flushing[w]}
    <3>1. RowBest(w) \in 0..MaxBest /\ pendingBest[w] \in 0..MaxBest /\ flushing[w] \in 0..MaxBest
          /\ earnedBest[w] \in 0..MaxBest
      BY RowBestIs, SavedFacts
    <3>2. T \in SUBSET Int /\ T # {} /\ MaxBest \in Int /\ \A x \in T : x <= MaxBest
      BY <3>1, SavedConstants
    <3>3. RowBest(w) \in T /\ pendingBest[w] \in T /\ flushing[w] \in T
      OBVIOUS
    <3>4. Holds(w, earnedBest[w])
      BY DEF SavedInv, StoreInv, KeptNames
    <3>5. \E y \in T : y >= earnedBest[w]
      <4>1. CASE earnedBest[w] <= 0 \/ earnedBest[w] <= pendingBest[w] \/ earnedBest[w] <= flushing[w]
        BY <3>1, <3>3, <4>1
      <4>2. CASE \E u \in Savers : earnedBest[w] <= rows[<<u, w>>]
        <5>1. PICK u \in Savers : earnedBest[w] <= rows[<<u, w>>]
          BY <4>2
        <5>2. rows[<<u, w>>] <= RowBest(w) /\ rows[<<u, w>>] \in Int
          BY RowBestIs, SavedFacts, SavedConstants
        <5> QED
          BY <3>1, <3>3, <5>1, <5>2
      <4> QED
        BY <3>4, <4>1, <4>2 DEF Holds
    <3> HIDE DEF T
    <3>6. Max(T) \in T /\ \A y \in T : Max(T) >= y
      BY <3>2, GreatestOf
    <3>7. PICK y \in T : y >= earnedBest[w]
      BY <3>5
    <3>8. PICK m, e : m = Max(T) /\ e = earnedBest[w]
      OBVIOUS
    <3>9. m \in Int /\ y \in Int /\ e \in Int /\ m >= y /\ y >= e
      <4>1. e \in Int
        BY <3>1, <3>8
      <4>2. m \in T /\ m >= y
        BY <3>6, <3>8
      <4>3. m \in Int /\ y \in Int
        BY <3>2, <4>2
      <4> QED
        BY <3>7, <3>8, <4>1, <4>2, <4>3
    <3>10. m >= e
      BY <3>9
    <3> QED
      BY <3>8, <3>10 DEF T
  <2>2. registered \in Names \ toRefresh /\ ~syncing /\ ~unknown => (tracked <=> IsSaved(registered))
    BY DEF SavedInv, SyncInv
  <2> QED
    BY <2>1, <2>2 DEF SavedWorkersAgree
<1> QED
  BY <1>1, SavedInvariant, PTL

\* The store's and the connection's variables keep their types (worker_list_store_saved.go).
THEOREM SavedTypesCorrect == SavedSpec => []SavedTypeOK
<1>1. SavedInv => SavedTypeOK
  BY DEF SavedInv, SavedTypes
<1> QED
  BY <1>1, SavedInvariant, PTL

HIDE SavedWorkersAssumption

-----------------------------------------------------------------------------
(* LiveConfig *)

USE LiveConfigAssumption

WriterStates == [at : {"idle", "install", "publish", "stat", "drop", "aside", "place", "overlays",
                       "merge", "tell"},
                 cfg : Configs]

LiveTypes ==
    /\ LiveConfigTypeOK /\ writer \in [Writers -> WriterStates]
    /\ poolUp \in BOOLEAN /\ savesCrossed \in BOOLEAN /\ reloaded \in BOOLEAN
    /\ configSteps \in [edits : 0..MaxEdits, reloads : Nat, faults : Nat, stops : Nat]

\* A process that is down has no writer under way.
DownAtRest == ~poolUp => \A w \in Writers : writer[w].at = "idle"

\* One writer at a time rewrites config.toml: it removes the .bak while the file is there.
RewritesAlone ==
    ~savesCrossed =>
        /\ configFile # Missing \/ configBak # Missing
        /\ \A v, w \in Rewriting : v = w
        /\ \A w \in Writers : writer[w].at \in {"drop", "aside"} => configFile # Missing

\* An admin's copy has the settings the form does not change as they are published.
CopiesCurrent ==
    poolUp /\ ~savesCrossed =>
        /\ live = intended
        /\ \A a \in Admins : writer[a].at \in {"install", "publish"} /\ a \notin overtaken =>
              writer[a].cfg.payout = live.payout

Publishing == {a \in Admins : writer[a].at = "publish"}

\* What was installed last is what is published next, if the job manager is to follow it.
PolicyFollows ==
    poolUp /\ ~savesCrossed =>
        /\ ~reloaded /\ Publishing = {} => jobPolicy = live
        /\ \A a \in Admins : Publishing = {a} /\ a \notin overtaken => jobPolicy = writer[a].cfg

ConfigInv == LiveTypes /\ DownAtRest /\ RewritesAlone /\ CopiesCurrent /\ PolicyFollows

LEMMA ConfigConstants ==
    /\ "signal" \notin Admins /\ Missing = -1
    /\ MaxRequests \in Nat /\ MaxEdits \in Nat /\ MaxReloads \in Nat /\ MaxConfigFaults \in Nat
    /\ MaxConfigStops \in Nat
BY DEF Missing

LEMMA RestingTyped == Resting \in WriterStates /\ Resting.at = "idle"
<1>1. 0 \in 0..MaxEdits /\ 0 \in 0..MaxRequests
  BY ConfigConstants
<1> QED
  BY <1>1 DEF Resting, WriterStates, Configs

LEMMA ConfigStarts == LiveConfigInit => ConfigInv
<1> SUFFICES ASSUME LiveConfigInit PROVE ConfigInv
  OBVIOUS
<1>1. /\ configFile = 0 /\ configBak = Missing /\ tuningFile = 0 /\ requests = 0
      /\ live = [payout |-> 0, tuning |-> 0] /\ jobPolicy = live /\ intended = live
      /\ signedIn = {} /\ overtaken = {} /\ writer = [w \in Writers |-> Resting]
      /\ configSteps = [edits |-> 0, reloads |-> 0, faults |-> 0, stops |-> 0]
  BY DEF LiveConfigInit
<1>2. poolUp \in BOOLEAN /\ savesCrossed \in BOOLEAN /\ reloaded \in BOOLEAN
  BY DEF LiveConfigInit
<1>3. live \in Configs /\ 0 # Missing
  BY <1>1, ConfigConstants DEF Configs
<1>4. writer \in [Writers -> WriterStates] /\ \A w \in Writers : writer[w].at = "idle"
  BY <1>1, RestingTyped
<1>5. configSteps \in [edits : 0..MaxEdits, reloads : Nat, faults : Nat, stops : Nat]
  BY <1>1, ConfigConstants
<1>6. LiveTypes
  <2>1. \A w \in Writers : writer[w].cfg \in Configs /\ writer[w].at \in
         {"idle", "install", "publish", "stat", "drop", "aside", "place", "overlays", "merge", "tell"}
    BY <1>4 DEF WriterStates
  <2>2. {poolUp, savesCrossed, reloaded} \subseteq BOOLEAN
    BY <1>2
  <2> QED
    BY <2>1, <2>2, <1>1, <1>2, <1>3, <1>4, <1>5, ConfigConstants DEF LiveTypes, LiveConfigTypeOK
<1>7. DownAtRest /\ RewritesAlone /\ CopiesCurrent /\ PolicyFollows
  BY <1>1, <1>3, <1>4 DEF DownAtRest, RewritesAlone, Rewriting, CopiesCurrent, PolicyFollows, Publishing,
     Writers
<1> QED
  BY <1>6, <1>7 DEF ConfigInv

\* A step of one writer that publishes nothing
LEMMA WriterKept ==
    ASSUME ConfigInv, NEW w \in Writers, NEW r \in WriterStates, poolUp, poolUp',
           writer' = [writer EXCEPT ![w] = r], UNCHANGED <<live, intended, reloaded>>,
           savesCrossed' \in BOOLEAN, savesCrossed => savesCrossed',
           configFile' \in 0..MaxEdits \cup {Missing}, configBak' \in 0..MaxEdits \cup {Missing},
           tuningFile' \in 0..MaxRequests, requests' \in 0..MaxRequests, signedIn' \subseteq Admins,
           configSteps' \in [edits : 0..MaxEdits, reloads : Nat, faults : Nat, stops : Nat],
           overtaken' = overtaken \/ overtaken' = overtaken \ {w},
           r.at \in {"install", "publish"} /\ w \notin overtaken' => r.cfg.payout = live.payout,
           ~savesCrossed' =>
              /\ configFile' # Missing \/ configBak' # Missing
              /\ r.at \in {"drop", "aside"} => configFile' # Missing
              /\ r.at \in {"stat", "drop", "aside", "place"} => Rewriting \subseteq {w}
              /\ configFile' # configFile => Rewriting = {w},
           \/ jobPolicy' = jobPolicy /\ r.at # "publish" /\ writer[w].at # "publish"
           \/ jobPolicy' = r.cfg /\ r.at = "publish" /\ w \in Admins /\ overtaken' = overtaken
    PROVE  ConfigInv'
<1>0. LiveTypes /\ DownAtRest /\ RewritesAlone /\ CopiesCurrent /\ PolicyFollows
  BY DEF ConfigInv
<1>1. /\ writer' \in [Writers -> WriterStates] /\ writer'[w] = r
      /\ \A v \in Writers \ {w} : writer'[v] = writer[v]
  BY <1>0 DEF LiveTypes
<1>2. LiveTypes'
  <2>1. \A v \in Writers : writer'[v].cfg \in Configs /\ writer'[v].at \in
         {"idle", "install", "publish", "stat", "drop", "aside", "place", "overlays", "merge", "tell"}
    BY <1>1 DEF WriterStates
  <2>2. {poolUp', savesCrossed', reloaded'} \subseteq BOOLEAN /\ poolUp' \in BOOLEAN
        /\ reloaded' \in BOOLEAN
    BY <1>0 DEF LiveTypes
  <2>3. jobPolicy' \in Configs /\ live' \in Configs /\ intended' \in Configs
        /\ overtaken' \subseteq Writers
    BY <1>0 DEF LiveTypes, LiveConfigTypeOK, WriterStates
  <2> QED
    BY <2>1, <2>2, <2>3, <1>1 DEF LiveTypes, LiveConfigTypeOK
<1>3. DownAtRest'
  BY DEF DownAtRest
<1>4. RewritesAlone'
  <2>1. CASE savesCrossed'
    BY <2>1 DEF RewritesAlone
  <2>2. CASE ~savesCrossed'
    <3>1. Rewriting' \subseteq Rewriting \cup {w}
      BY <1>1 DEF Rewriting
    <3>2. w \in Rewriting' => Rewriting \subseteq {w}
      BY <2>2, <1>1 DEF Rewriting
    <3>3. \A v \in Writers \ {w} : writer[v].at \in {"drop", "aside"} => v \in Rewriting
      BY DEF Rewriting
    <3>4. \A u, v \in Rewriting' : u = v
      BY <1>0, <2>2, <3>1, <3>2 DEF RewritesAlone
    <3>5. \A v \in Writers : writer'[v].at \in {"drop", "aside"} => configFile' # Missing
      BY <1>0, <1>1, <2>2, <3>3 DEF RewritesAlone
    <3> QED
      BY <2>2, <3>4, <3>5 DEF RewritesAlone
  <2> QED
    BY <2>1, <2>2
<1>5. CopiesCurrent'
  <2>1. \A a \in Admins : a \in Writers /\ (a # w => writer'[a] = writer[a])
    BY <1>1 DEF Writers
  <2> QED
    BY <1>0, <1>1, <2>1 DEF CopiesCurrent
<1>6. PolicyFollows'
  <2>1. \A a \in Admins : a \in Writers /\ (a # w => writer'[a] = writer[a])
    BY <1>1 DEF Writers
  <2>2. CASE jobPolicy' = jobPolicy /\ r.at # "publish" /\ writer[w].at # "publish"
    <3>1. Publishing' = Publishing /\ w \notin Publishing
      BY <1>1, <2>1, <2>2 DEF Publishing
    <3>2. \A a \in Publishing : writer'[a] = writer[a]
      BY <2>1, <3>1 DEF Publishing
    <3> QED
      BY <1>0, <2>2, <3>1, <3>2 DEF PolicyFollows
  <2>3. CASE jobPolicy' = r.cfg /\ r.at = "publish" /\ w \in Admins /\ overtaken' = overtaken
    <3>1. w \in Publishing'
      BY <1>1, <2>3 DEF Publishing
    <3> QED
      BY <1>1, <2>3, <3>1 DEF PolicyFollows
  <2> QED
    BY <2>2, <2>3
<1> QED
  BY <1>2, <1>3, <1>4, <1>5, <1>6 DEF ConfigInv

LEMMA ConfigFacts ==
    ASSUME ConfigInv
    PROVE  /\ configFile \in 0..MaxEdits \cup {Missing} /\ configBak \in 0..MaxEdits \cup {Missing}
           /\ tuningFile \in 0..MaxRequests /\ requests \in 0..MaxRequests /\ signedIn \subseteq Admins
           /\ configSteps \in [edits : 0..MaxEdits, reloads : Nat, faults : Nat, stops : Nat]
           /\ savesCrossed \in BOOLEAN /\ reloaded \in BOOLEAN /\ poolUp \in BOOLEAN
           /\ live \in Configs /\ intended \in Configs /\ jobPolicy \in Configs
           /\ overtaken \subseteq Writers
           /\ writer \in [Writers -> WriterStates]
           /\ ~savesCrossed => configFile # Missing \/ configBak # Missing
BY DEF ConfigInv, LiveTypes, LiveConfigTypeOK, RewritesAlone

LEMMA StepsCounted ==
    ASSUME ConfigInv, NEW step \in {"reloads", "faults", "stops"}, CountStep(step)
    PROVE  configSteps' \in [edits : 0..MaxEdits, reloads : Nat, faults : Nat, stops : Nat]
BY ConfigFacts DEF CountStep

LEMMA BeginApplyStep == ASSUME ConfigInv, NEW a \in Admins, BeginApply(a) PROVE ConfigInv'
<1> DEFINE next == FormApplied(live, requests + 1)
           r == [at |-> "install", cfg |-> next]
<1>1. /\ poolUp /\ poolUp' = poolUp /\ writer[a].at = "idle" /\ requests < MaxRequests
      /\ requests' = requests + 1 /\ SensitiveKept(live, next)
      /\ writer' = [writer EXCEPT ![a] = r] /\ overtaken' = overtaken \ {a}
      /\ UNCHANGED <<configFile, configBak, tuningFile, live, jobPolicy, reloaded, intended, signedIn,
                     savesCrossed, configSteps>>
  BY DEF BeginApply, Reads, fileVars, policyVars
<1>2. a \in Writers /\ requests' \in 0..MaxRequests
  BY <1>1, ConfigFacts, ConfigConstants DEF Writers
<1>3. r \in WriterStates /\ r.at = "install" /\ r.cfg.payout = live.payout
  <2>1. next \in Configs /\ next.payout = live.payout
    BY <1>1, <1>2, ConfigFacts DEF FormApplied, Configs
  <2> HIDE DEF next
  <2> QED
    BY <2>1 DEF WriterStates
<1> HIDE DEF r
<1> QED
  BY <1>1, <1>2, <1>3, ConfigFacts, WriterKept

LEMMA BeginSaveStep == ASSUME ConfigInv, NEW a \in Admins, BeginSave(a) PROVE ConfigInv'
<1> DEFINE r == [at |-> "stat", cfg |-> live]
<1>1. /\ poolUp /\ poolUp' = poolUp /\ writer[a].at = "idle" /\ requests < MaxRequests
      /\ requests' = requests + 1 /\ writer' = [writer EXCEPT ![a] = r] /\ overtaken' = overtaken \ {a}
      /\ savesCrossed' = (savesCrossed \/ Rewriting # {})
      /\ UNCHANGED <<configFile, configBak, tuningFile, live, jobPolicy, reloaded, intended, signedIn,
                     configSteps>>
  BY DEF BeginSave, Reads, fileVars, policyVars
<1>2. a \in Writers /\ requests' \in 0..MaxRequests
  BY <1>1, ConfigFacts, ConfigConstants DEF Writers
<1>3. r \in WriterStates /\ r.at = "stat"
  BY ConfigFacts DEF WriterStates
<1>4. savesCrossed' \in BOOLEAN /\ (savesCrossed => savesCrossed')
      /\ (~savesCrossed' => Rewriting \subseteq {a} /\ ~savesCrossed)
  BY <1>1
<1> HIDE DEF r
<1> QED
  BY <1>1, <1>2, <1>3, <1>4, ConfigFacts, WriterKept

LEMMA ConfigInstallStep == ASSUME ConfigInv, NEW a \in Admins, Install(a) PROVE ConfigInv'
<1> DEFINE r == [writer[a] EXCEPT !.at = "publish"]
<1>1. a \in Writers /\ writer[a] \in WriterStates
  BY ConfigFacts DEF Writers
<1>2. /\ poolUp /\ poolUp' = poolUp /\ writer[a].at = "install" /\ jobPolicy' = writer[a].cfg
      /\ writer' = [writer EXCEPT ![a] = r]
      /\ UNCHANGED <<configFile, configBak, tuningFile, live, reloaded, intended, signedIn, overtaken,
                     savesCrossed, requests, configSteps>>
  BY DEF Install, Goes, fileVars
<1>3. r \in WriterStates /\ r.at = "publish" /\ r.cfg = writer[a].cfg
  BY <1>1 DEF WriterStates
<1>4. ASSUME ~savesCrossed, a \notin overtaken PROVE writer[a].cfg.payout = live.payout
  BY <1>2, <1>4 DEF ConfigInv, CopiesCurrent
<1> HIDE DEF r
<1>5. CASE savesCrossed
  <2>1. ConfigInv => LiveTypes /\ DownAtRest
    BY DEF ConfigInv
  <2>2. /\ writer' \in [Writers -> WriterStates]
        /\ \A v \in Writers : writer'[v].cfg \in Configs /\ writer'[v].at \in
             {"idle", "install", "publish", "stat", "drop", "aside", "place", "overlays", "merge", "tell"}
    BY <1>1, <1>2, <1>3, ConfigFacts DEF WriterStates
  <2>3. jobPolicy' \in Configs
    BY <1>1, <1>2 DEF WriterStates
  <2>4. LiveTypes'
    BY <2>1, <2>2, <2>3, <1>2 DEF LiveTypes, LiveConfigTypeOK
  <2> QED
    BY <2>1, <2>4, <1>2, <1>5 DEF ConfigInv, DownAtRest, RewritesAlone, CopiesCurrent, PolicyFollows
<1> QED
  BY <1>1, <1>2, <1>3, <1>4, <1>5, ConfigFacts, WriterKept

\* While no two writers have crossed, the one at the file is alone there.
LEMMA AloneAtFile ==
    ASSUME ConfigInv, ~savesCrossed, NEW w \in Rewriting
    PROVE  Rewriting = {w} /\ (writer[w].at \in {"drop", "aside"} => configFile # Missing)
BY DEF ConfigInv, RewritesAlone, Rewriting

LEMMA SaveConfigStep == ASSUME ConfigInv, NEW a \in Admins, SaveConfig(a) PROVE ConfigInv'
<1>1. /\ poolUp /\ poolUp' = poolUp
      /\ UNCHANGED <<live, jobPolicy, reloaded, intended, signedIn, savesCrossed, requests, configSteps>>
  BY DEF SaveConfig, policyVars
<1>2. a \in Writers /\ writer[a] \in WriterStates
  BY ConfigFacts DEF Writers
<1>3. ASSUME NEW at \in {"drop", "aside", "place", "overlays"}
      PROVE  /\ [writer[a] EXCEPT !.at = at] \in WriterStates
             /\ [writer[a] EXCEPT !.at = at].at = at
             /\ [writer[a] EXCEPT !.at = at].cfg = writer[a].cfg
  BY <1>2 DEF WriterStates
<1>4. ASSUME writer[a].at \in {"stat", "drop", "aside", "place"}, ~savesCrossed
      PROVE  Rewriting = {a} /\ (writer[a].at \in {"drop", "aside"} => configFile # Missing)
  <2>1. a \in Rewriting
    BY <1>2, <1>4 DEF Rewriting
  <2> QED
    BY <1>4, <2>1, AloneAtFile
<1>5. CASE /\ writer[a].at = "stat" /\ UNCHANGED <<fileVars, overtaken>>
           /\ Goes(a, IF configFile = Missing THEN "place" ELSE "drop")
  <2> DEFINE at == IF configFile = Missing THEN "place" ELSE "drop"
             r == [writer[a] EXCEPT !.at = at]
  <2>1. at \in {"drop", "place"} /\ (at = "drop" => configFile # Missing)
    OBVIOUS
  <2>2. writer' = [writer EXCEPT ![a] = r]
        /\ UNCHANGED <<configFile, configBak, tuningFile, overtaken>>
    BY <1>5 DEF Goes, fileVars
  <2> HIDE DEF at
  <2>3. r \in WriterStates /\ r.at = at
    BY <2>1, <1>3
  <2> HIDE DEF r
  <2> QED
    BY <1>1, <1>2, <1>4, <1>5, <2>1, <2>2, <2>3, ConfigFacts, WriterKept
<1>6. CASE /\ writer[a].at = "drop" /\ configBak' = Missing /\ Goes(a, "aside")
           /\ UNCHANGED <<configFile, tuningFile, overtaken>>
  <2> DEFINE r == [writer[a] EXCEPT !.at = "aside"]
  <2>1. writer' = [writer EXCEPT ![a] = r]
    BY <1>6 DEF Goes
  <2>2. r \in WriterStates /\ r.at = "aside"
    BY <1>3
  <2> HIDE DEF r
  <2> QED
    BY <1>1, <1>2, <1>4, <1>6, <2>1, <2>2, ConfigFacts, WriterKept
<1>7. CASE /\ writer[a].at = "aside" /\ configFile # Missing
           /\ configBak' = configFile /\ configFile' = Missing /\ Goes(a, "place")
           /\ UNCHANGED <<tuningFile, overtaken>>
  <2> DEFINE r == [writer[a] EXCEPT !.at = "place"]
  <2>1. writer' = [writer EXCEPT ![a] = r]
    BY <1>7 DEF Goes
  <2>2. r \in WriterStates /\ r.at = "place"
    BY <1>3
  <2> HIDE DEF r
  <2> QED
    BY <1>1, <1>2, <1>4, <1>7, <2>1, <2>2, ConfigFacts, WriterKept
<1>8. CASE /\ writer[a].at = "aside" /\ configFile = Missing /\ Ends(a) /\ UNCHANGED fileVars
  <2>1. writer' = [writer EXCEPT ![a] = Resting] /\ overtaken' = overtaken \ {a}
        /\ UNCHANGED <<configFile, configBak, tuningFile>>
    BY <1>8 DEF Ends, fileVars
  <2> QED
    BY <1>1, <1>2, <1>8, <2>1, RestingTyped, ConfigFacts, WriterKept
<1>9. CASE /\ writer[a].at = "place" /\ configFile' = writer[a].cfg.payout /\ Goes(a, "overlays")
           /\ UNCHANGED <<configBak, tuningFile, overtaken>>
  <2> DEFINE r == [writer[a] EXCEPT !.at = "overlays"]
  <2>1. writer' = [writer EXCEPT ![a] = r]
    BY <1>9 DEF Goes
  <2>2. r \in WriterStates /\ r.at = "overlays"
    BY <1>3
  <2>3. configFile' \in 0..MaxEdits
    BY <1>2, <1>9 DEF WriterStates, Configs
  <2>4. configFile' # Missing /\ configFile' \in 0..MaxEdits \cup {Missing}
    BY <2>3, ConfigConstants
  <2> HIDE DEF r
  <2> QED
    BY <1>1, <1>2, <1>4, <1>9, <2>1, <2>2, <2>4, ConfigFacts, WriterKept
<1> QED
  BY <1>5, <1>6, <1>7, <1>8, <1>9 DEF SaveConfig

LEMMA SaveEndsStep ==
    ASSUME ConfigInv, NEW a \in Admins, SaveOverlays(a) \/ SaveFails(a)
    PROVE  ConfigInv'
<1>1. a \in Writers /\ writer[a] \in WriterStates
  BY ConfigFacts DEF Writers
<1>2. /\ poolUp /\ poolUp' = poolUp
      /\ UNCHANGED <<configFile, configBak, live, jobPolicy, reloaded, intended, signedIn, savesCrossed,
                     requests>>
      /\ writer' = [writer EXCEPT ![a] = Resting] /\ overtaken' = overtaken \ {a}
      /\ writer[a].at # "publish"
  BY DEF SaveOverlays, SaveFails, Ends, fileVars, policyVars
<1>3. tuningFile' \in 0..MaxRequests
  <2>1. CASE SaveOverlays(a)
    <3>1. tuningFile' = writer[a].cfg.tuning
      BY <2>1 DEF SaveOverlays
    <3> QED
      BY <3>1, <1>1 DEF WriterStates, Configs
  <2>2. CASE SaveFails(a)
    BY <2>2, ConfigFacts DEF SaveFails, fileVars
  <2> QED
    BY <2>1, <2>2
<1>4. configSteps' \in [edits : 0..MaxEdits, reloads : Nat, faults : Nat, stops : Nat]
  <2>1. CASE SaveOverlays(a)
    BY <2>1, ConfigFacts DEF SaveOverlays
  <2>2. CASE SaveFails(a)
    BY <2>2, StepsCounted DEF SaveFails, FaultStep
  <2> QED
    BY <2>1, <2>2
<1> QED
  BY <1>1, <1>2, <1>3, <1>4, RestingTyped, ConfigFacts, WriterKept

LEMMA ReadConfigStep ==
    ASSUME ConfigInv, poolUp, poolUp' = poolUp, writer["signal"].at = "idle",
           CountStep("reloads"), configFile # Missing,
           Reads("signal", "merge", [payout |-> configFile, tuning |-> 0]),
           UNCHANGED <<fileVars, policyVars, signedIn, savesCrossed, requests>>
    PROVE  ConfigInv'
<1> DEFINE r == [at |-> "merge", cfg |-> [payout |-> configFile, tuning |-> 0]]
<1>1. "signal" \in Writers
  BY DEF Writers
<1>2. writer' = [writer EXCEPT !["signal"] = r] /\ overtaken' = overtaken \ {"signal"}
  BY DEF Reads
<1>3. UNCHANGED <<configFile, configBak, tuningFile, live, jobPolicy, reloaded, intended>>
  BY DEF fileVars, policyVars
<1>4. r \in WriterStates /\ r.at = "merge"
  <2>1. configFile \in 0..MaxEdits /\ 0 \in 0..MaxRequests
    BY ConfigFacts, ConfigConstants
  <2> QED
    BY <2>1 DEF WriterStates, Configs
<1>5. configSteps' \in [edits : 0..MaxEdits, reloads : Nat, faults : Nat, stops : Nat]
  BY StepsCounted
<1> HIDE DEF r
<1> QED
  BY <1>1, <1>2, <1>3, <1>4, <1>5, ConfigFacts, WriterKept

LEMMA ReadOverlaysStep == ASSUME ConfigInv, ReadOverlays PROVE ConfigInv'
<1> DEFINE r == [at |-> "tell", cfg |-> [writer["signal"].cfg EXCEPT !.tuning = tuningFile]]
<1>1. "signal" \in Writers
  BY DEF Writers
<1>2. writer["signal"] \in WriterStates /\ tuningFile \in 0..MaxRequests
  BY <1>1, ConfigFacts
<1>3. /\ poolUp /\ poolUp' = poolUp /\ writer["signal"].at = "merge"
      /\ writer' = [writer EXCEPT !["signal"] = r]
      /\ UNCHANGED <<configFile, configBak, tuningFile, live, jobPolicy, reloaded, intended, signedIn,
                     overtaken, savesCrossed, requests, configSteps>>
  BY <1>1, ConfigFacts DEF ReadOverlays, fileVars, policyVars
<1>4. r \in WriterStates /\ r.at = "tell"
  BY <1>2 DEF WriterStates, Configs
<1> HIDE DEF r
<1> QED
  BY <1>1, <1>3, <1>4, ConfigFacts, WriterKept

LEMMA TellFailsStep ==
    ASSUME ConfigInv, poolUp, poolUp' = poolUp, writer["signal"].at = "tell", Ends("signal"),
           UNCHANGED <<live, savesCrossed, reloaded, intended, fileVars, jobPolicy, signedIn, requests,
                       configSteps>>
    PROVE  ConfigInv'
<1>1. "signal" \in Writers
  BY DEF Writers
<1>2. writer' = [writer EXCEPT !["signal"] = Resting] /\ overtaken' = overtaken \ {"signal"}
      /\ UNCHANGED <<configFile, configBak, tuningFile>>
  BY DEF Ends, fileVars
<1> QED
  BY <1>1, <1>2, RestingTyped, ConfigFacts, WriterKept

\* UpdateConfig: the copies of everyone else are older than what is published.
LEMMA PublishKept ==
    ASSUME ConfigInv, NEW w \in Writers, poolUp, poolUp', Publishes(w),
           writer[w].at \in {"publish", "tell"},
           reloaded' \in BOOLEAN, intended' \in Configs,
           UNCHANGED <<configFile, configBak, tuningFile, jobPolicy, signedIn, requests, configSteps>>,
           ~savesCrossed' => intended' = writer[w].cfg,
           reloaded' \/ (w \in Admins /\ writer[w].at = "publish")
    PROVE  ConfigInv'
<1>0. LiveTypes /\ DownAtRest /\ RewritesAlone /\ CopiesCurrent /\ PolicyFollows
  BY DEF ConfigInv
<1>1. /\ live' = writer[w].cfg /\ savesCrossed' = (savesCrossed \/ w \in overtaken)
      /\ writer' = [writer EXCEPT ![w] = Resting]
      /\ overtaken' = {v \in Writers \ {w} : writer[v].at \in {"install", "publish", "merge", "tell"}}
  BY DEF Publishes
<1>2. /\ writer' \in [Writers -> WriterStates] /\ writer'[w] = Resting
      /\ \A v \in Writers \ {w} : writer'[v] = writer[v]
  BY <1>1, ConfigFacts, RestingTyped
<1>3. LiveTypes'
  <2>1. \A v \in Writers : writer'[v].cfg \in Configs /\ writer'[v].at \in
         {"idle", "install", "publish", "stat", "drop", "aside", "place", "overlays", "merge", "tell"}
    BY <1>2 DEF WriterStates
  <2>2. {poolUp', savesCrossed', reloaded'} \subseteq BOOLEAN /\ poolUp' \in BOOLEAN
        /\ savesCrossed' \in BOOLEAN
    BY <1>1
  <2>3. jobPolicy' \in Configs /\ live' \in Configs /\ overtaken' \subseteq Writers
    BY <1>1, ConfigFacts DEF WriterStates
  <2> QED
    BY <2>1, <2>2, <2>3, <1>2, ConfigFacts DEF LiveTypes, LiveConfigTypeOK
<1>4. DownAtRest'
  BY DEF DownAtRest
<1>5. RewritesAlone'
  <2>1. \A v \in Rewriting' : v \in Rewriting
    BY <1>2, RestingTyped DEF Rewriting
  <2>2. \A v \in Writers : writer'[v].at \in {"drop", "aside"} => writer[v].at \in {"drop", "aside"}
    BY <1>2, RestingTyped
  <2> QED
    BY <1>0, <1>1, <2>1, <2>2 DEF RewritesAlone
<1>6. ASSUME NEW a \in Admins, writer'[a].at \in {"install", "publish"}
      PROVE  a \in overtaken'
  <2>1. a \in Writers /\ a # w
    BY <1>2, <1>6, RestingTyped DEF Writers
  <2> QED
    BY <1>1, <1>2, <1>6, <2>1
<1>7. CopiesCurrent'
  BY <1>1, <1>6 DEF CopiesCurrent
<1>8. PolicyFollows'
  <2>1. \A a \in Admins : Publishing' = {a} => a \in overtaken'
    BY <1>6 DEF Publishing
  <2>2. ASSUME ~reloaded', Publishing' = {}, ~savesCrossed'
        PROVE  jobPolicy' = live'
    <3>1. w \in Admins /\ w \in Publishing /\ ~savesCrossed /\ w \notin overtaken
      BY <1>1, <2>2 DEF Publishing
    <3>2. \A a \in Publishing : a = w
      BY <1>2, <2>2 DEF Publishing, Writers
    <3>3. Publishing = {w}
      BY <3>1, <3>2
    <3> QED
      BY <1>0, <1>1, <3>1, <3>3 DEF PolicyFollows
  <2> QED
    BY <2>1, <2>2 DEF PolicyFollows
<1> QED
  BY <1>3, <1>4, <1>5, <1>7, <1>8 DEF ConfigInv

LEMMA PublishPolicyStep == ASSUME ConfigInv, NEW a \in Admins, PublishPolicy(a) PROVE ConfigInv'
<1>1. /\ poolUp /\ poolUp' = poolUp /\ writer[a].at = "publish" /\ Publishes(a)
      /\ reloaded' = FALSE /\ intended' = [intended EXCEPT !.tuning = writer[a].cfg.tuning]
      /\ UNCHANGED <<configFile, configBak, tuningFile, jobPolicy, signedIn, requests, configSteps>>
  BY DEF PublishPolicy, fileVars
<1>2. a \in Writers /\ writer[a] \in WriterStates
  BY ConfigFacts DEF Writers
<1>3. intended' \in Configs
  BY <1>1, <1>2, ConfigFacts DEF Configs, WriterStates
<1>4. ASSUME ~savesCrossed' PROVE intended' = writer[a].cfg
  <2>1. ~savesCrossed /\ a \notin overtaken
    BY <1>1, <1>4 DEF Publishes
  <2>2. live = intended /\ writer[a].cfg.payout = live.payout
    BY <1>1, <2>1 DEF ConfigInv, CopiesCurrent
  <2> QED
    BY <1>1, <1>2, <2>2, ConfigFacts DEF Configs, WriterStates
<1>5. reloaded' \in BOOLEAN
  BY <1>1
<1> QED
  BY <1>1, <1>2, <1>3, <1>4, <1>5, PublishKept

LEMMA TellStatusStep == ASSUME ConfigInv, TellStatus PROVE ConfigInv'
<1>1. /\ poolUp /\ poolUp' = poolUp /\ writer["signal"].at = "tell"
      /\ UNCHANGED <<fileVars, jobPolicy, signedIn, requests, configSteps>>
  BY DEF TellStatus
<1>2. CASE Publishes("signal") /\ reloaded' = TRUE /\ intended' = writer["signal"].cfg
  <2>1. "signal" \in Writers /\ writer["signal"] \in WriterStates
    BY ConfigFacts DEF Writers
  <2>2. intended' \in Configs /\ reloaded' /\ reloaded' \in BOOLEAN
    BY <1>2, <2>1 DEF WriterStates
  <2>3. UNCHANGED <<configFile, configBak, tuningFile>>
    BY <1>1 DEF fileVars
  <2> QED
    BY <1>1, <1>2, <2>1, <2>2, <2>3, PublishKept
<1>3. CASE Ends("signal") /\ UNCHANGED <<live, savesCrossed, reloaded, intended>>
  BY <1>1, <1>3, TellFailsStep
<1> QED
  BY <1>2, <1>3 DEF TellStatus

LEMMA ConfigExitsStep ==
    ASSUME ConfigInv, Exits, UNCHANGED <<fileVars, policyVars, savesCrossed, requests>>,
           configSteps' \in [edits : 0..MaxEdits, reloads : Nat, faults : Nat, stops : Nat]
    PROVE  ConfigInv'
<1>1. /\ poolUp' = FALSE /\ signedIn' = {} /\ overtaken' = {}
      /\ writer' = [w \in Writers |-> Resting]
      /\ UNCHANGED <<configFile, configBak, tuningFile, live, jobPolicy, reloaded, intended>>
  BY DEF Exits, fileVars, policyVars
<1>2. writer' \in [Writers -> WriterStates] /\ \A w \in Writers : writer'[w].at = "idle"
  BY <1>1, RestingTyped
<1>3. LiveTypes'
  <2>1. \A v \in Writers : writer'[v].cfg \in Configs /\ writer'[v].at \in
         {"idle", "install", "publish", "stat", "drop", "aside", "place", "overlays", "merge", "tell"}
    BY <1>2 DEF WriterStates
  <2>2. {poolUp', savesCrossed', reloaded'} \subseteq BOOLEAN /\ poolUp' \in BOOLEAN
    BY <1>1, ConfigFacts
  <2> QED
    BY <2>1, <2>2, <1>1, <1>2, ConfigFacts DEF LiveTypes, LiveConfigTypeOK
<1> QED
  BY <1>1, <1>2, <1>3, ConfigFacts
  DEF ConfigInv, DownAtRest, RewritesAlone, Rewriting, CopiesCurrent, PolicyFollows

LEMMA ReloadStep == ASSUME ConfigInv, Reload PROVE ConfigInv'
<1>1. /\ poolUp /\ writer["signal"].at = "idle" /\ CountStep("reloads")
      /\ UNCHANGED <<fileVars, policyVars, savesCrossed, requests>>
  BY DEF Reload
<1>2. CASE /\ configFile # Missing /\ Reads("signal", "merge", [payout |-> configFile, tuning |-> 0])
           /\ UNCHANGED <<poolUp, signedIn>>
  BY <1>1, <1>2, ReadConfigStep
<1>3. CASE configFile = Missing /\ Exits
  BY <1>1, <1>3, StepsCounted, ConfigExitsStep
<1> QED
  BY <1>2, <1>3 DEF Reload

\* Sign-ins, and the operator at the files
LEMMA OperatorStep ==
    ASSUME ConfigInv, (\E a \in Admins : SignIn(a) \/ SignOut(a)) \/ EditConfig \/ RestoreBackup
    PROVE  ConfigInv'
<1>1. /\ UNCHANGED <<poolUp, configBak, tuningFile, live, jobPolicy, reloaded, intended, writer,
                     overtaken, savesCrossed, requests>>
      /\ Rewriting' = Rewriting /\ Publishing' = Publishing
  BY DEF SignIn, SignOut, EditConfig, RestoreBackup, fileVars, policyVars, Rewriting, Publishing
<1>2. signedIn' \subseteq Admins
  BY ConfigFacts DEF SignIn, SignOut, EditConfig, RestoreBackup
<1>3. /\ configSteps' \in [edits : 0..MaxEdits, reloads : Nat, faults : Nat, stops : Nat]
      /\ configFile' \in 0..MaxEdits \cup {Missing}
  <2>1. CASE EditConfig
    <3>1. configSteps.edits < MaxEdits /\ configFile' = configSteps.edits + 1
          /\ configSteps' = [configSteps EXCEPT !.edits = @ + 1]
      BY <2>1 DEF EditConfig, CountStep
    <3>2. configSteps.edits + 1 \in 0..MaxEdits
      BY <3>1, ConfigFacts, ConfigConstants
    <3> QED
      BY <3>1, <3>2, ConfigFacts
  <2>2. CASE RestoreBackup
    BY <2>2, ConfigFacts DEF RestoreBackup
  <2>3. CASE \E a \in Admins : SignIn(a) \/ SignOut(a)
    BY <2>3, ConfigFacts DEF SignIn, SignOut, fileVars
  <2> QED
    BY <2>1, <2>2, <2>3
<1>4. configFile' = configFile \/ (configFile' # Missing /\ Rewriting = {})
  <2>1. CASE EditConfig
    <3>1. configFile' = configSteps.edits + 1 /\ Rewriting = {}
      BY <2>1 DEF EditConfig
    <3> QED
      BY <3>1, ConfigFacts, ConfigConstants
  <2>2. CASE RestoreBackup
    <3>1. ~poolUp /\ configFile' # Missing
      BY <2>2 DEF RestoreBackup
    <3> QED
      BY <3>1 DEF ConfigInv, DownAtRest, Rewriting
  <2>3. CASE \E a \in Admins : SignIn(a) \/ SignOut(a)
    BY <2>3 DEF SignIn, SignOut, fileVars
  <2> QED
    BY <2>1, <2>2, <2>3
<1>5. LiveTypes'
  BY <1>1, <1>2, <1>3 DEF ConfigInv, LiveTypes, LiveConfigTypeOK
<1>6. RewritesAlone'
  BY <1>1, <1>4 DEF ConfigInv, RewritesAlone, Rewriting
<1> QED
  BY <1>1, <1>5, <1>6 DEF ConfigInv, DownAtRest, CopiesCurrent, PolicyFollows

LEMMA StartPoolStep == ASSUME ConfigInv, StartPool PROVE ConfigInv'
<1>1. /\ ~poolUp /\ configFile # Missing /\ poolUp' = TRUE
      /\ live' = [payout |-> configFile, tuning |-> tuningFile]
      /\ jobPolicy' = live' /\ intended' = live' /\ reloaded' = FALSE /\ savesCrossed' = FALSE
      /\ UNCHANGED <<configFile, configBak, tuningFile, signedIn, writer, overtaken, requests, configSteps>>
  BY DEF StartPool, fileVars
<1>2. \A w \in Writers : writer[w].at = "idle"
  BY <1>1 DEF ConfigInv, DownAtRest
<1>3. live' \in Configs
  <2>1. configFile \in 0..MaxEdits /\ tuningFile \in 0..MaxRequests
    BY <1>1, ConfigFacts
  <2> QED
    BY <1>1, <2>1 DEF Configs
<1>4. LiveTypes'
  <2>1. {poolUp', savesCrossed', reloaded'} \subseteq BOOLEAN /\ poolUp' \in BOOLEAN
        /\ savesCrossed' \in BOOLEAN /\ reloaded' \in BOOLEAN
    BY <1>1
  <2>2. jobPolicy' \in Configs /\ intended' \in Configs
    BY <1>1, <1>3
  <2> QED
    BY <1>1, <1>3, <2>1, <2>2 DEF ConfigInv, LiveTypes, LiveConfigTypeOK
<1>5. RewritesAlone'
  BY <1>1, <1>2 DEF RewritesAlone, Rewriting
<1>6. CopiesCurrent' /\ DownAtRest'
  BY <1>1, <1>2 DEF CopiesCurrent, DownAtRest, Writers
<1>7. PolicyFollows'
  <2>1. Publishing' = {}
    BY <1>1, <1>2 DEF Publishing, Writers
  <2> QED
    BY <1>1, <2>1 DEF PolicyFollows
<1> QED
  BY <1>4, <1>5, <1>6, <1>7 DEF ConfigInv

LEMMA ConfigKept == ConfigInv /\ [LiveConfigNext]_liveConfigVars => ConfigInv'
<1> SUFFICES ASSUME ConfigInv, [LiveConfigNext]_liveConfigVars PROVE ConfigInv'
  OBVIOUS
<1>1. CASE \E a \in Admins : BeginApply(a) \/ BeginSave(a) \/ Install(a) \/ PublishPolicy(a)
  BY <1>1, BeginApplyStep, BeginSaveStep, ConfigInstallStep, PublishPolicyStep
<1>2. CASE \E a \in Admins : SaveConfig(a) \/ SaveOverlays(a) \/ SaveFails(a)
  BY <1>2, SaveConfigStep, SaveEndsStep
<1>3. CASE (\E a \in Admins : SignIn(a) \/ SignOut(a)) \/ EditConfig \/ RestoreBackup
  BY <1>3, OperatorStep
<1>4. CASE Reload \/ ReadOverlays \/ TellStatus
  BY <1>4, ReloadStep, ReadOverlaysStep, TellStatusStep
<1>5. CASE StopPool
  <2>1. Exits /\ CountStep("stops") /\ UNCHANGED <<fileVars, policyVars, savesCrossed, requests>>
    BY <1>5 DEF StopPool
  <2> QED
    BY <2>1, StepsCounted, ConfigExitsStep
<1>6. CASE StartPool
  BY <1>6, StartPoolStep
<1>7. CASE UNCHANGED liveConfigVars
  BY <1>7 DEF liveConfigVars, fileVars, policyVars, ConfigInv, LiveTypes, LiveConfigTypeOK, DownAtRest,
     RewritesAlone, Rewriting, CopiesCurrent, PolicyFollows, Publishing
<1> QED
  BY <1>1, <1>2, <1>3, <1>4, <1>5, <1>6, <1>7 DEF LiveConfigNext

LEMMA ConfigInvariant == LiveConfigSpec => []ConfigInv
BY ConfigStarts, ConfigKept, PTL DEF LiveConfigSpec

\* While no two writers have crossed, the pool works by the configuration it shows, every
\* setting has the value last given to it, and config.toml or its .bak has one to start from
\* (publishRuntimeConfig, reloadStatusConfig, rewriteConfigFile).
THEOREM ConfigurationHolds == LiveConfigSpec => []ConfigHolds
<1>1. ConfigInv => ConfigHolds
  <2> SUFFICES ASSUME ConfigInv, ~savesCrossed
               PROVE  /\ configFile # Missing \/ configBak # Missing
                      /\ poolUp => live = intended
                      /\ poolUp /\ ~reloaded /\ (\A a \in Admins : writer[a].at # "publish")
                            => jobPolicy = live
    BY DEF ConfigHolds
  <2>1. configFile # Missing \/ configBak # Missing
    BY ConfigFacts
  <2>2. poolUp => live = intended
    BY DEF ConfigInv, CopiesCurrent
  <2>3. (\A a \in Admins : writer[a].at # "publish") => Publishing = {}
    BY DEF Publishing
  <2>4. poolUp /\ ~reloaded /\ Publishing = {} => jobPolicy = live
    BY DEF ConfigInv, PolicyFollows
  <2> QED
    BY <2>1, <2>2, <2>3, <2>4
<1> QED
  BY <1>1, ConfigInvariant, PTL

\* The configuration's variables keep their types (status_server_admin_*.go, config_load.go).
THEOREM ConfigTypesCorrect == LiveConfigSpec => []LiveConfigTypeOK
<1>1. ConfigInv => LiveConfigTypeOK
  BY DEF ConfigInv, LiveTypes
<1> QED
  BY <1>1, ConfigInvariant, PTL

HIDE LiveConfigAssumption

-----------------------------------------------------------------------------
(* WorkerHistory *)

USE WorkerHistoryAssumption

Ring == [minutes : [0..Slots-1 -> 0..MaxMinute], best : [0..Slots-1 -> Nat], last : -1..MaxMinute]
Noted == [Rigs -> [1..MaxMinute -> Nat]]

\* Every minute stands in its slot, with no more than a worker of S earned in it.
TrueRing(ring, S, earned) ==
    \A i \in 0..Slots-1 : LET m == ring.minutes[i] IN
        m # 0 => /\ Index(m) = i
                 /\ ring.best[i] # 0 => \E w \in S : ring.best[i] <= earned[w][m]

\* No minute of the ring is later than its last, and that not later than b.
RingUntil(ring, b) ==
    ring.last <= b /\ \A i \in 0..Slots-1 : ring.minutes[i] = 0 \/ ring.minutes[i] <= ring.last

PeriodRings(rings, place, earned) ==
    /\ rings \in [Keys -> Ring]
    /\ \A k \in Keys : TrueRing(rings[k], Sources(k), earned) /\ RingUntil(rings[k], place - 1)

PeriodTypes ==
    /\ minute \in 1..MaxMinute /\ noted \in 0..MaxNoted /\ restarts \in 0..MaxRestarts
    /\ lastBucket \in 0..MaxMinute /\ snapshot.bucket \in 0..MaxMinute
    /\ earnedSlots \in Noted /\ minuteBest \in [Rigs -> Ring]

PeriodsInv ==
    /\ PeriodTypes
    /\ \A w \in Rigs : TrueRing(minuteBest[w], {w}, earnedSlots)
    /\ PeriodRings(periods, lastBucket, earnedSlots)
    /\ PeriodRings(snapshot.rings, snapshot.bucket, earnedSlots)
    /\ Cardinality(Kept(periods)) <= MaxRings

LEMMA PeriodConstants ==
    /\ Slots \in Nat /\ Slots >= 1 /\ MaxRings \in Nat /\ MaxRings >= 1 /\ MaxMinute \in Nat
    /\ MaxMinute >= 1 /\ MaxNoted \in Nat /\ MaxRestarts \in Nat
    /\ \A q \in BestValues : q \in Nat /\ q # 0
    /\ PoolKey \notin Rigs /\ IsFiniteSet(Rigs) /\ \A w \in Rigs : Sources(w) = {w}
BY DEF Sources

LEMMA IndexInRange == ASSUME NEW m \in Nat PROVE Index(m) \in 0..Slots-1
BY PeriodConstants DEF Index

LEMMA RingFields ==
    ASSUME NEW ring \in Ring
    PROVE  /\ ring.minutes \in [0..Slots-1 -> 0..MaxMinute] /\ ring.best \in [0..Slots-1 -> Nat]
           /\ ring.last \in -1..MaxMinute /\ ring.last \in Int
           /\ \A i \in 0..Slots-1 : ring.minutes[i] \in Nat /\ ring.best[i] \in Nat
BY PeriodConstants DEF Ring

LEMMA EmptyRings ==
    /\ EmptyRing \in Ring /\ NoRing \in Ring /\ EmptyRing.last = 0 /\ NoRing.last = -1
    /\ \A i \in 0..Slots-1 : EmptyRing.minutes[i] = 0 /\ NoRing.minutes[i] = 0
    /\ \A S, earned : TrueRing(EmptyRing, S, earned) /\ TrueRing(NoRing, S, earned)
<1>1. 0 \in 0..MaxMinute /\ 0 \in -1..MaxMinute /\ -1 \in -1..MaxMinute
  BY PeriodConstants
<1>2. EmptyRing = [minutes |-> [i \in 0..Slots-1 |-> 0], best |-> [i \in 0..Slots-1 |-> 0], last |-> 0]
      /\ NoRing = [minutes |-> [i \in 0..Slots-1 |-> 0], best |-> [i \in 0..Slots-1 |-> 0], last |-> -1]
  <2>1. PICK f : f = [i \in 0..Slots-1 |-> 0]
    OBVIOUS
  <2>2. EmptyRing = [minutes |-> f, best |-> f, last |-> 0]
    BY <2>1 DEF EmptyRing
  <2>3. [EmptyRing EXCEPT !.last = -1] = [minutes |-> f, best |-> f, last |-> -1]
    BY <2>2
  <2> QED
    BY <2>1, <2>2, <2>3 DEF NoRing
<1>3. EmptyRing \in Ring /\ NoRing \in Ring
  <2>1. PICK f : f = [i \in 0..Slots-1 |-> 0]
    OBVIOUS
  <2>2. f \in [0..Slots-1 -> 0..MaxMinute]
    BY <1>1, <2>1
  <2>3. f \in [0..Slots-1 -> Nat]
    BY <2>1
  <2> QED
    BY <1>1, <1>2, <2>1, <2>2, <2>3 DEF Ring
<1>4. EmptyRing.last = 0 /\ NoRing.last = -1
      /\ \A i \in 0..Slots-1 : EmptyRing.minutes[i] = 0 /\ NoRing.minutes[i] = 0
  BY <1>2
<1> QED
  BY <1>3, <1>4 DEF TrueRing

\* What was earned only grows, and a true ring stays true.
LEMMA EarnedMore ==
    ASSUME NEW ring \in Ring, NEW S \in SUBSET Rigs, NEW before \in Noted, NEW after \in Noted,
           \A w \in Rigs : \A m \in 1..MaxMinute : before[w][m] <= after[w][m],
           TrueRing(ring, S, before)
    PROVE  TrueRing(ring, S, after)
<1> SUFFICES ASSUME NEW i \in 0..Slots-1, ring.minutes[i] # 0
             PROVE  /\ Index(ring.minutes[i]) = i
                    /\ ring.best[i] # 0 => \E w \in S : ring.best[i] <= after[w][ring.minutes[i]]
  BY DEF TrueRing
<1>1. PICK m, b : m = ring.minutes[i] /\ b = ring.best[i]
  OBVIOUS
<1>2. m \in 1..MaxMinute /\ b \in Nat
  BY <1>1, PeriodConstants, RingFields
<1>3. Index(m) = i /\ (b # 0 => \E w \in S : b <= before[w][m])
  BY <1>1 DEF TrueRing
<1>4. ASSUME b # 0 PROVE \E w \in S : b <= after[w][m]
  <2>1. PICK w \in S : b <= before[w][m]
    BY <1>3, <1>4
  <2>2. before[w][m] \in Nat /\ after[w][m] \in Nat /\ before[w][m] <= after[w][m]
    BY <1>2 DEF Noted
  <2> QED
    BY <1>2, <2>1, <2>2
<1> QED
  BY <1>1, <1>3, <1>4

\* A share is noted in a ring: the slot of its minute holds what a worker of S earned in it.
LEMMA NoteKept ==
    ASSUME NEW ring \in Ring, NEW S, NEW earned, TrueRing(ring, S, earned),
           NEW m \in 1..MaxMinute, NEW q \in Nat, q # 0 => \E w \in S : q <= earned[w][m]
    PROVE  /\ Note(ring, m, q) \in Ring /\ Note(ring, m, q).last = m
           /\ TrueRing(Note(ring, m, q), S, earned)
           /\ (\A i \in 0..Slots-1 : ring.minutes[i] <= m) => RingUntil(Note(ring, m, q), m)
<1>1. PICK j, old : j = Index(m) /\ old = IF ring.minutes[j] = m THEN ring.best[j] ELSE 0
  OBVIOUS
<1>2. m \in Nat /\ m # 0 /\ m \in 0..MaxMinute /\ m \in -1..MaxMinute
  BY PeriodConstants
<1>3. j \in 0..Slots-1 /\ old \in Nat /\ Larger(old, q) \in Nat /\ (Larger(old, q) = old \/ Larger(old, q) = q)
  BY <1>1, <1>2, IndexInRange, RingFields DEF Larger
<1>4. PICK N : N = Note(ring, m, q)
  OBVIOUS
<1>5. /\ N = [minutes |-> [ring.minutes EXCEPT ![j] = m],
              best |-> [ring.best EXCEPT ![j] = Larger(old, q)], last |-> m]
  BY <1>1, <1>4 DEF Note
<1>6. N \in Ring /\ N.last = m /\ N.minutes = [ring.minutes EXCEPT ![j] = m]
      /\ N.best = [ring.best EXCEPT ![j] = Larger(old, q)]
  BY <1>2, <1>3, <1>5, RingFields DEF Ring
<1>7. /\ N.minutes[j] = m /\ N.best[j] = Larger(old, q)
      /\ \A i \in (0..Slots-1) \ {j} : N.minutes[i] = ring.minutes[i] /\ N.best[i] = ring.best[i]
  BY <1>3, <1>6, RingFields
<1>8. Larger(old, q) # 0 => \E w \in S : Larger(old, q) <= earned[w][m]
  <2>1. old # 0 => \E w \in S : old <= earned[w][m]
    BY <1>1, <1>2, <1>3 DEF TrueRing
  <2> QED
    BY <1>3, <2>1
<1>9. TrueRing(N, S, earned)
  <2> SUFFICES ASSUME NEW i \in 0..Slots-1, N.minutes[i] # 0
               PROVE  /\ Index(N.minutes[i]) = i
                      /\ N.best[i] # 0 => \E w \in S : N.best[i] <= earned[w][N.minutes[i]]
    BY DEF TrueRing
  <2>1. CASE i = j
    BY <1>1, <1>7, <1>8, <2>1
  <2>2. CASE i # j
    BY <1>7, <2>2 DEF TrueRing
  <2> QED
    BY <2>1, <2>2
<1>10. (\A i \in 0..Slots-1 : ring.minutes[i] <= m) => RingUntil(N, m)
  BY <1>2, <1>6, <1>7 DEF RingUntil
<1> QED
  BY <1>4, <1>6, <1>9, <1>10

\* The gap before minute m is filled with minutes in which nothing was earned.
LEMMA BackfillKept ==
    ASSUME NEW ring \in Ring, NEW S, NEW earned, TrueRing(ring, S, earned),
           NEW m \in 1..MaxMinute, \A i \in 0..Slots-1 : ring.minutes[i] <= m
    PROVE  /\ Backfill(ring, m) \in Ring /\ TrueRing(Backfill(ring, m), S, earned)
           /\ \A i \in 0..Slots-1 : Backfill(ring, m).minutes[i] <= m
<1> DEFINE gap(i) == {n \in ring.last+1..m-1 : ring.last > 0 /\ n > m - Slots /\ Index(n) = i
                                               /\ ring.minutes[i] # n}
<1>1. PICK B : B = Backfill(ring, m)
  OBVIOUS
<1>2. B = [ring EXCEPT !.minutes = [i \in 0..Slots-1 |-> IF gap(i) = {} THEN @[i] ELSE Max(gap(i))],
                       !.best = [i \in 0..Slots-1 |-> IF gap(i) = {} THEN @[i] ELSE 0]]
  BY <1>1 DEF Backfill
<1>3. ASSUME NEW i \in 0..Slots-1, gap(i) # {}
      PROVE  Max(gap(i)) \in 1..m /\ Index(Max(gap(i))) = i
  <2>1. ring.last \in Int /\ m \in Int /\ \A n \in gap(i) : n \in Int /\ n <= m /\ n >= 1 /\ Index(n) = i
    BY RingFields, PeriodConstants
  <2>2. Max(gap(i)) \in gap(i)
    <3>1. gap(i) \in SUBSET Int /\ \A n \in gap(i) : n <= m
      BY <2>1
    <3> HIDE DEF gap
    <3> QED
      BY <1>3, <2>1, <3>1, GreatestOf
  <2> QED
    BY <2>1, <2>2
<1> HIDE DEF gap
<1>4. /\ B.minutes = [i \in 0..Slots-1 |-> IF gap(i) = {} THEN ring.minutes[i] ELSE Max(gap(i))]
      /\ B.best = [i \in 0..Slots-1 |-> IF gap(i) = {} THEN ring.best[i] ELSE 0]
      /\ B.last = ring.last /\ B = [minutes |-> B.minutes, best |-> B.best, last |-> B.last]
  BY <1>2 DEF Ring
<1>5. \A i \in 0..Slots-1 : \/ B.minutes[i] = ring.minutes[i] /\ B.best[i] = ring.best[i]
                            \/ B.minutes[i] \in 1..m /\ Index(B.minutes[i]) = i /\ B.best[i] = 0
  BY <1>3, <1>4
<1>6. B.minutes \in [0..Slots-1 -> 0..MaxMinute] /\ B.best \in [0..Slots-1 -> Nat]
  <2>1. ASSUME NEW i \in 0..Slots-1 PROVE B.minutes[i] \in 0..MaxMinute /\ B.best[i] \in Nat
    <3>1. ring.minutes[i] \in 0..MaxMinute /\ ring.best[i] \in Nat
      BY RingFields
    <3>2. \A n \in 1..m : n \in 0..MaxMinute
      BY PeriodConstants
    <3> QED
      BY <1>5, <3>1, <3>2
  <2> QED
    BY <1>4, <2>1
<1>7. B \in Ring
  BY <1>4, <1>6, RingFields DEF Ring
<1>8. \A i \in 0..Slots-1 : B.minutes[i] <= m
  BY <1>5, PeriodConstants
<1>9. TrueRing(B, S, earned)
  <2> SUFFICES ASSUME NEW i \in 0..Slots-1, B.minutes[i] # 0
               PROVE  /\ Index(B.minutes[i]) = i
                      /\ B.best[i] # 0 => \E w \in S : B.best[i] <= earned[w][B.minutes[i]]
    BY DEF TrueRing
  <2> QED
    BY <1>5 DEF TrueRing
<1> QED
  BY <1>1, <1>7, <1>8, <1>9

\* Pruning drops rings and leaves no more than MaxRings.
LEMMA PrunedKeeps ==
    ASSUME NEW rings \in [Keys -> Ring], NEW m, NEW P \in PrunedPeriods(rings, m)
    PROVE  /\ P \in [Keys -> Ring] /\ \A k \in Keys : P[k] = rings[k] \/ P[k] = NoRing
           /\ Cardinality(Kept(P)) <= MaxRings
<1> DEFINE young == {k \in Kept(rings) : rings[k].last # 0 /\ Age(m, rings[k]) < Slots}
<1>1. PICK S \in SUBSET young : Cardinality(S) = Min({MaxRings, Cardinality(young)})
                                /\ P = [k \in Keys |-> IF k \in S THEN rings[k] ELSE NoRing]
  BY DEF PrunedPeriods
<1>2. young \subseteq Keys /\ S \subseteq Keys
  BY <1>1 DEF Kept
<1>3. P \in [Keys -> Ring] /\ \A k \in Keys : P[k] = rings[k] \/ P[k] = NoRing
  BY <1>1, EmptyRings
<1>4. Kept(P) \subseteq S
  BY <1>1 DEF Kept
<1> HIDE DEF young
<1>5. IsFiniteSet(Keys)
  BY PeriodConstants, FS_AddElement, FS_Singleton, FS_Union DEF Keys
<1>6. IsFiniteSet(S) /\ IsFiniteSet(young)
  BY <1>2, <1>5, FS_Subset
<1>7. Cardinality(S) \in Nat /\ Cardinality(young) \in Nat /\ Cardinality(Kept(P)) <= Cardinality(S)
      /\ Cardinality(Kept(P)) \in Nat
  BY <1>4, <1>6, FS_Subset, FS_CardinalityType
<1>8. Cardinality(S) <= MaxRings
  <2>1. PICK c : c = Cardinality(young)
    OBVIOUS
  <2>2. c \in Nat
    BY <1>7, <2>1
  <2>3. \E x \in {MaxRings, c} : \A y \in {MaxRings, c} : x <= y
    BY <2>2, PeriodConstants
  <2>4. Min({MaxRings, c}) <= MaxRings
    BY <2>3 DEF Min
  <2> QED
    BY <1>1, <2>1, <2>4
<1> QED
  BY <1>3, <1>7, <1>8, PeriodConstants

LEMMA PrunedKept ==
    ASSUME NEW rings, NEW place \in 0..MaxMinute, NEW earned, PeriodRings(rings, place, earned), NEW m,
           NEW P \in PrunedPeriods(rings, m)
    PROVE  PeriodRings(P, place, earned) /\ Cardinality(Kept(P)) <= MaxRings
<1>1. /\ P \in [Keys -> Ring] /\ \A k \in Keys : P[k] = rings[k] \/ P[k] = NoRing
      /\ Cardinality(Kept(P)) <= MaxRings
  BY PrunedKeeps DEF PeriodRings
<1>2. RingUntil(NoRing, place - 1)
  <2>1. -1 <= place - 1
    OBVIOUS
  <2> QED
    BY <2>1, EmptyRings DEF RingUntil
<1> QED
  BY <1>1, <1>2, EmptyRings DEF PeriodRings

LEMMA PeriodFacts ==
    ASSUME PeriodsInv
    PROVE  /\ PeriodTypes /\ minuteBest \in [Rigs -> Ring] /\ earnedSlots \in Noted
           /\ \A w \in Rigs : minuteBest[w] \in Ring /\ TrueRing(minuteBest[w], {w}, earnedSlots)
           /\ PeriodRings(periods, lastBucket, earnedSlots)
           /\ PeriodRings(snapshot.rings, snapshot.bucket, earnedSlots)
           /\ Cardinality(Kept(periods)) <= MaxRings
           /\ minute \in Nat /\ minute >= 1 /\ minute <= MaxMinute
           /\ lastBucket \in 0..MaxMinute /\ snapshot.bucket \in 0..MaxMinute
BY PeriodConstants DEF PeriodsInv, PeriodTypes

LEMMA PrunedBestKept ==
    ASSUME NEW rings \in [Rigs -> Ring], NEW earned, NEW m,
           \A w \in Rigs : TrueRing(rings[w], {w}, earned)
    PROVE  /\ PrunedBest(rings, m) \in [Rigs -> Ring]
           /\ \A w \in Rigs : TrueRing(PrunedBest(rings, m)[w], {w}, earned)
<1>1. \A w \in Rigs : PrunedBest(rings, m)[w] = rings[w] \/ PrunedBest(rings, m)[w] = NoRing
  BY DEF PrunedBest
<1>2. PrunedBest(rings, m) \in [Rigs -> Ring]
  BY EmptyRings DEF PrunedBest
<1> QED
  BY <1>1, <1>2, EmptyRings

LEMMA NoteShareStep ==
    ASSUME PeriodsInv, NEW w \in Rigs, NEW q \in BestValues, NEW m \in {minute, minute - 1} \ {0},
           NoteShare(w, q, m)
    PROVE  PeriodsInv'
<1>1. PICK ring : ring = Existing(minuteBest[w])
  OBVIOUS
<1>2. PICK rings : rings = [minuteBest EXCEPT ![w] = Note(ring, m, q)]
  OBVIOUS
<1>3. PICK after : after = [earnedSlots EXCEPT ![w][m] = Larger(@, q)]
  OBVIOUS
<1>4. /\ noted < MaxNoted /\ noted' = noted + 1 /\ minuteBest' = PrunedBest(rings, m)
      /\ earnedSlots' = after /\ UNCHANGED <<minute, periods, lastBucket, snapshot, restarts>>
  BY <1>1, <1>2, <1>3 DEF NoteShare
<1>5. m \in 1..MaxMinute /\ q \in Nat /\ q # 0 /\ noted + 1 \in 0..MaxNoted
  BY <1>4, PeriodFacts, PeriodConstants DEF PeriodTypes
<1>6. /\ after \in Noted /\ q <= after[w][m]
      /\ \A v \in Rigs : \A n \in 1..MaxMinute : earnedSlots[v][n] <= after[v][n]
  <2>1. earnedSlots \in Noted /\ earnedSlots[w] \in [1..MaxMinute -> Nat] /\ earnedSlots[w][m] \in Nat
    BY <1>5, PeriodFacts DEF Noted
  <2>2. PICK x : x = earnedSlots[w][m]
    OBVIOUS
  <2>3. x \in Nat /\ Larger(x, q) \in Nat /\ Larger(x, q) >= x /\ Larger(x, q) >= q
    BY <1>5, <2>1, <2>2 DEF Larger
  <2>4. after = [earnedSlots EXCEPT ![w] = [earnedSlots[w] EXCEPT ![m] = Larger(x, q)]]
    BY <1>3, <2>2
  <2>5. [earnedSlots[w] EXCEPT ![m] = Larger(x, q)] \in [1..MaxMinute -> Nat]
    BY <2>1, <2>3
  <2>6. after \in Noted
    BY <2>1, <2>4, <2>5 DEF Noted
  <2>7. after[w] = [earnedSlots[w] EXCEPT ![m] = Larger(x, q)] /\ after[w][m] = Larger(x, q)
    BY <1>5, <2>1, <2>4 DEF Noted
  <2>8. \A v \in Rigs : \A n \in 1..MaxMinute : v # w \/ n # m => after[v][n] = earnedSlots[v][n]
    BY <2>1, <2>4 DEF Noted
  <2>9. \A v \in Rigs : \A n \in 1..MaxMinute : earnedSlots[v][n] \in Nat
    BY <2>1 DEF Noted
  <2>10. ASSUME NEW v \in Rigs, NEW n \in 1..MaxMinute PROVE earnedSlots[v][n] <= after[v][n]
    <3>1. CASE v = w /\ n = m
      BY <2>2, <2>3, <2>7, <3>1
    <3>2. CASE v # w \/ n # m
      BY <2>8, <2>9, <3>2
    <3> QED
      BY <3>1, <3>2
  <2> QED
    BY <1>5, <2>3, <2>6, <2>7, <2>10
<1>7. \A v \in Rigs : minuteBest[v] \in Ring /\ TrueRing(minuteBest[v], {v}, after)
  BY <1>6, PeriodFacts, EarnedMore
<1>8. ring \in Ring /\ TrueRing(ring, {w}, after)
  BY <1>1, <1>7, EmptyRings DEF Existing
<1>9. Note(ring, m, q) \in Ring /\ TrueRing(Note(ring, m, q), {w}, after)
  BY <1>5, <1>6, <1>8, NoteKept
<1>10. rings \in [Rigs -> Ring] /\ \A v \in Rigs : TrueRing(rings[v], {v}, after)
  BY <1>2, <1>7, <1>9, PeriodFacts
<1>11. minuteBest' \in [Rigs -> Ring] /\ \A v \in Rigs : TrueRing(minuteBest'[v], {v}, after)
  BY <1>4, <1>10, PrunedBestKept
<1>12. ASSUME NEW p, NEW b, PeriodRings(p, b, earnedSlots) PROVE PeriodRings(p, b, after)
  <2>1. \A k \in Keys : Sources(k) \in SUBSET Rigs
    BY DEF Keys, Sources
  <2>2. p \in [Keys -> Ring] /\ \A k \in Keys : p[k] \in Ring /\ TrueRing(p[k], Sources(k), earnedSlots)
                                               /\ RingUntil(p[k], b - 1)
    BY <1>12 DEF PeriodRings
  <2>3. earnedSlots \in Noted
    BY PeriodFacts
  <2>4. \A k \in Keys : TrueRing(p[k], Sources(k), after)
    BY <1>6, <2>1, <2>2, <2>3, EarnedMore
  <2> QED
    BY <2>2, <2>4 DEF PeriodRings
<1>13. PeriodRings(periods, lastBucket, after) /\ PeriodRings(snapshot.rings, snapshot.bucket, after)
  BY <1>12, PeriodFacts
<1>14. PeriodTypes'
  BY <1>4, <1>5, <1>6, <1>11, PeriodFacts DEF PeriodTypes
<1> QED
  BY <1>4, <1>11, <1>13, <1>14, PeriodFacts DEF PeriodsInv

\* A ring that is sampled for minute m, later than all it holds
LEMMA SampledKept ==
    ASSUME NEW ring \in Ring, NEW S, NEW earned, TrueRing(ring, S, earned),
           NEW m \in 1..MaxMinute, NEW b \in Int, RingUntil(ring, b), b < m,
           NEW q \in Nat, q # 0 => \E w \in S : q <= earned[w][m]
    PROVE  LET sampled == Note(Backfill(Existing(ring), m), m, q)
           IN  sampled \in Ring /\ TrueRing(sampled, S, earned) /\ RingUntil(sampled, m)
<1>1. PICK start : start = Existing(ring)
  OBVIOUS
<1>2. start \in Ring /\ TrueRing(start, S, earned)
  BY <1>1, EmptyRings DEF Existing
<1>3. \A i \in 0..Slots-1 : ring.minutes[i] <= m
  <2> SUFFICES ASSUME NEW i \in 0..Slots-1 PROVE ring.minutes[i] <= m
    OBVIOUS
  <2>1. ring.minutes[i] \in Nat /\ ring.last \in Int /\ m \in Nat
    BY RingFields, PeriodConstants
  <2>2. (ring.minutes[i] = 0 \/ ring.minutes[i] <= ring.last) /\ ring.last <= b
    BY DEF RingUntil
  <2> QED
    BY <2>1, <2>2
<1>4. \A i \in 0..Slots-1 : start.minutes[i] <= m
  BY <1>1, <1>3, EmptyRings DEF Existing
<1>5. PICK filled : filled = Backfill(start, m)
  OBVIOUS
<1>6. filled \in Ring /\ TrueRing(filled, S, earned) /\ \A i \in 0..Slots-1 : filled.minutes[i] <= m
  BY <1>2, <1>4, <1>5, BackfillKept
<1>7. Note(filled, m, q) \in Ring /\ TrueRing(Note(filled, m, q), S, earned)
      /\ RingUntil(Note(filled, m, q), m)
  BY <1>6, NoteKept
<1> QED
  BY <1>1, <1>5, <1>7

\* What the rings hold of a minute was earned in it.
LEMMA InMinuteEarned ==
    ASSUME NEW rings \in [Rigs -> Ring], NEW earned, \A w \in Rigs : TrueRing(rings[w], {w}, earned),
           NEW w \in Rigs, NEW m \in 1..MaxMinute
    PROVE  InMinute(rings, w, m) \in Nat /\ (InMinute(rings, w, m) # 0 => InMinute(rings, w, m) <= earned[w][m])
<1>1. m \in Nat /\ m # 0 /\ Index(m) \in 0..Slots-1
  BY PeriodConstants, IndexInRange
<1>2. rings[w] \in Ring /\ TrueRing(rings[w], {w}, earned) /\ rings[w].best[Index(m)] \in Nat
  BY <1>1, RingFields
<1>3. CASE rings[w] # NoRing /\ rings[w].minutes[Index(m)] = m
  BY <1>1, <1>2, <1>3 DEF InMinute, TrueRing
<1>4. CASE ~(rings[w] # NoRing /\ rings[w].minutes[Index(m)] = m)
  BY <1>4 DEF InMinute
<1> QED
  BY <1>3, <1>4

LEMMA SampleStep ==
    ASSUME PeriodsInv, NEW now \in {minute, minute - 1}, NEW online \in SUBSET Rigs,
           NEW saved \in SUBSET online, Sample(now, online, saved)
    PROVE  PeriodsInv'
<1>1. PICK m, rings : m = now - 1 /\ rings = PrunedBest(minuteBest, minute)
  OBVIOUS
<1> DEFINE best(k) == IF k = PoolKey THEN Max({InMinute(rings, w, m) : w \in online} \cup {0})
                      ELSE InMinute(rings, k, m)
           sampled(k) == Note(Backfill(Existing(periods[k]), m), m, best(k))
           sample == [k \in Keys |-> IF k \in saved \cup {PoolKey} THEN sampled(k) ELSE periods[k]]
<1>2. /\ now > 1 /\ now > lastBucket /\ lastBucket' = now
      /\ minuteBest' = IF online = {} THEN minuteBest ELSE Consumed(rings, online, m)
      /\ periods' \in PrunedPeriods(sample, now)
      /\ UNCHANGED <<minute, snapshot, noted, restarts, earnedSlots>>
  BY <1>1 DEF Sample
<1>3. m \in 1..MaxMinute /\ now \in 0..MaxMinute /\ m = now - 1 /\ lastBucket - 1 < m
      /\ lastBucket - 1 \in Int /\ lastBucket - 1 <= m
  BY <1>1, <1>2, PeriodFacts, PeriodConstants
<1>4. rings \in [Rigs -> Ring] /\ \A w \in Rigs : TrueRing(rings[w], {w}, earnedSlots)
  BY <1>1, PeriodFacts, PrunedBestKept
<1>5. ASSUME NEW k \in Keys
      PROVE  best(k) \in Nat /\ (best(k) # 0 => \E w \in Sources(k) : best(k) <= earnedSlots[w][m])
  <2>1. CASE k # PoolKey
    <3>1. k \in Rigs /\ k \in Sources(k) /\ best(k) = InMinute(rings, k, m)
      BY <2>1 DEF Keys, Sources
    <3> QED
      BY <1>3, <1>4, <3>1, InMinuteEarned
  <2>2. CASE k = PoolKey
    <3> DEFINE T == {InMinute(rings, w, m) : w \in online}
    <3>1. \A x \in T : x \in Nat /\ (x # 0 => \E w \in Rigs : x <= earnedSlots[w][m])
      <4> SUFFICES ASSUME NEW w \in online
                   PROVE  /\ InMinute(rings, w, m) \in Nat
                          /\ InMinute(rings, w, m) # 0 =>
                                \E v \in Rigs : InMinute(rings, w, m) <= earnedSlots[v][m]
        OBVIOUS
      <4>1. w \in Rigs
        OBVIOUS
      <4> QED
        BY <1>3, <1>4, <4>1, InMinuteEarned
    <3>2. IsFiniteSet(online)
      BY PeriodConstants, FS_Subset
    <3>3. IsFiniteSet(T)
      <4> DEFINE f == [w \in online |-> InMinute(rings, w, m)]
      <4>1. f \in Surjection(online, T)
        BY DEF Surjection
      <4> HIDE DEF T, f
      <4> QED
        BY <3>2, <4>1, FS_Surjection
    <3> HIDE DEF T
    <3>4. IsFiniteSet(T \cup {0}) /\ T \cup {0} # {} /\ T \cup {0} \in SUBSET Int
      BY <3>1, <3>3, FS_AddElement, FS_Singleton, FS_Union
    <3>5. Max(T \cup {0}) \in T \cup {0}
      BY <3>4, GreatestOfFinite
    <3>6. best(k) = Max(T \cup {0}) /\ Sources(k) = Rigs
      BY <2>2 DEF T, Sources
    <3>7. PICK b : b = best(k)
      OBVIOUS
    <3>8. b \in T \cup {0}
      BY <3>5, <3>6, <3>7
    <3>9. b \in Nat /\ (b # 0 => \E w \in Rigs : b <= earnedSlots[w][m])
      BY <3>1, <3>8
    <3> HIDE DEF best
    <3> QED
      BY <3>6, <3>7, <3>9
  <2> QED
    BY <2>1, <2>2
<1> HIDE DEF best
<1>6. ASSUME NEW k \in Keys
      PROVE  /\ periods[k] \in Ring /\ TrueRing(periods[k], Sources(k), earnedSlots) /\ RingUntil(periods[k], m)
             /\ sampled(k) \in Ring /\ TrueRing(sampled(k), Sources(k), earnedSlots) /\ RingUntil(sampled(k), m)
  <2>1. periods[k] \in Ring /\ TrueRing(periods[k], Sources(k), earnedSlots)
        /\ RingUntil(periods[k], lastBucket - 1)
    BY PeriodFacts DEF PeriodRings
  <2>2. RingUntil(periods[k], m)
    BY <1>3, <2>1, RingFields DEF RingUntil
  <2>3. sampled(k) \in Ring /\ TrueRing(sampled(k), Sources(k), earnedSlots) /\ RingUntil(sampled(k), m)
    BY <1>3, <1>5, <2>1, SampledKept
  <2> QED
    BY <2>1, <2>2, <2>3
<1> HIDE DEF sampled
<1>7. PeriodRings(sample, now, earnedSlots)
  BY <1>3, <1>6 DEF PeriodRings
<1> HIDE DEF sample
<1>8. PeriodRings(periods', now, earnedSlots) /\ Cardinality(Kept(periods')) <= MaxRings
  BY <1>2, <1>3, <1>7, PrunedKept
<1>9. minuteBest' \in [Rigs -> Ring] /\ \A w \in Rigs : TrueRing(minuteBest'[w], {w}, earnedSlots)
  <2>1. CASE online = {}
    BY <1>2, <2>1, PeriodFacts
  <2>2. CASE online # {}
    <3>1. minuteBest' = Consumed(rings, online, m)
      BY <1>2, <2>2
    <3>2. ASSUME NEW w \in Rigs
          PROVE  minuteBest'[w] \in Ring /\ TrueRing(minuteBest'[w], {w}, earnedSlots)
      <4>1. rings[w] \in Ring /\ TrueRing(rings[w], {w}, earnedSlots)
        BY <1>4
      <4>2. CASE minuteBest'[w] = rings[w]
        BY <4>1, <4>2
      <4>3. CASE minuteBest'[w] = [rings[w] EXCEPT !.best[Index(m)] = 0]
        <5>1. PICK r, R : r = rings[w] /\ R = [r EXCEPT !.best[Index(m)] = 0]
          OBVIOUS
        <5>2. R = [r EXCEPT !.best = [r.best EXCEPT ![Index(m)] = 0]]
          BY <5>1
        <5>3. [r.best EXCEPT ![Index(m)] = 0] \in [0..Slots-1 -> Nat]
          BY <4>1, <5>1, RingFields
        <5>4. R \in Ring /\ R.minutes = r.minutes /\ R.best = [r.best EXCEPT ![Index(m)] = 0]
          BY <4>1, <5>1, <5>2, <5>3 DEF Ring
        <5>5. \A i \in 0..Slots-1 : R.best[i] = r.best[i] \/ R.best[i] = 0
          BY <4>1, <5>1, <5>4, RingFields
        <5>6. TrueRing(R, {w}, earnedSlots)
          BY <4>1, <5>1, <5>4, <5>5 DEF TrueRing
        <5> QED
          BY <4>3, <5>1, <5>4, <5>6
      <4> QED
        BY <3>1, <4>2, <4>3 DEF Consumed
    <3>3. minuteBest' \in [Rigs -> Ring]
      BY <3>1, <3>2 DEF Consumed
    <3> QED
      BY <3>2, <3>3
  <2> QED
    BY <2>1, <2>2
<1>10. PeriodTypes'
  BY <1>2, <1>3, <1>9, PeriodFacts DEF PeriodTypes
<1> QED
  BY <1>2, <1>8, <1>9, <1>10, PeriodFacts DEF PeriodsInv

LEMMA PersistStep == ASSUME PeriodsInv, ReadHistory \/ Persist PROVE PeriodsInv'
<1>1. /\ periods' \in PrunedPeriods(periods, minute)
      /\ \/ snapshot' = snapshot
         \/ snapshot' = [rings |-> periods', bucket |-> lastBucket]
      /\ UNCHANGED <<minute, minuteBest, lastBucket, noted, restarts, earnedSlots>>
  BY DEF ReadHistory, Persist
<1>2. PeriodRings(periods', lastBucket, earnedSlots) /\ Cardinality(Kept(periods')) <= MaxRings
  BY <1>1, PeriodFacts, PrunedKept
<1>3. PeriodRings(snapshot'.rings, snapshot'.bucket, earnedSlots) /\ snapshot'.bucket \in 0..MaxMinute
  BY <1>1, <1>2, PeriodFacts
<1>4. PeriodTypes'
  BY <1>1, <1>3, PeriodFacts DEF PeriodTypes
<1> QED
  BY <1>1, <1>2, <1>3, <1>4, PeriodFacts DEF PeriodsInv

LEMMA NoPeriods ==
    ASSUME NEW earned PROVE PeriodRings([k \in Keys |-> NoRing], 0, earned)
                            /\ Cardinality(Kept([k \in Keys |-> NoRing])) <= MaxRings
<1>1. RingUntil(NoRing, 0 - 1)
  <2>1. -1 <= 0 - 1
    OBVIOUS
  <2> QED
    BY <2>1, EmptyRings DEF RingUntil
<1>2. Kept([k \in Keys |-> NoRing]) = {}
  BY DEF Kept
<1>3. Cardinality({}) = 0 /\ 0 <= MaxRings
  BY FS_EmptySet, PeriodConstants
<1> QED
  BY <1>1, <1>2, <1>3, EmptyRings DEF PeriodRings

LEMMA RestartHistoryStep ==
    ASSUME PeriodsInv, NEW loads \in BOOLEAN, RestartHistory(loads) PROVE PeriodsInv'
<1>1. /\ restarts < MaxRestarts /\ restarts' = restarts + 1 /\ minuteBest' = [w \in Rigs |-> NoRing]
      /\ UNCHANGED <<minute, snapshot, noted, earnedSlots>>
      /\ \/ periods' \in PrunedPeriods(snapshot.rings, minute) /\ lastBucket' = snapshot.bucket
         \/ periods' = [k \in Keys |-> NoRing] /\ lastBucket' = 0
  BY DEF RestartHistory
<1>2. PeriodRings(periods', lastBucket', earnedSlots) /\ Cardinality(Kept(periods')) <= MaxRings
      /\ lastBucket' \in 0..MaxMinute
  <2>1. CASE periods' \in PrunedPeriods(snapshot.rings, minute) /\ lastBucket' = snapshot.bucket
    BY <2>1, PeriodFacts, PrunedKept
  <2>2. CASE periods' = [k \in Keys |-> NoRing] /\ lastBucket' = 0
    BY <2>2, NoPeriods, PeriodConstants
  <2> QED
    BY <1>1, <2>1, <2>2
<1>3. minuteBest' \in [Rigs -> Ring] /\ \A w \in Rigs : TrueRing(minuteBest'[w], {w}, earnedSlots)
  BY <1>1, EmptyRings
<1>4. restarts' \in 0..MaxRestarts
  BY <1>1, PeriodFacts, PeriodConstants DEF PeriodTypes
<1>5. PeriodTypes'
  BY <1>1, <1>2, <1>3, <1>4, PeriodFacts DEF PeriodTypes
<1> QED
  BY <1>1, <1>2, <1>3, <1>5, PeriodFacts DEF PeriodsInv

LEMMA MinuteTickStep == ASSUME PeriodsInv, MinuteTick PROVE PeriodsInv'
<1>1. minute' \in 1..MaxMinute
      /\ UNCHANGED <<minuteBest, periods, lastBucket, snapshot, noted, restarts, earnedSlots>>
  BY PeriodFacts, PeriodConstants DEF MinuteTick
<1>2. PeriodTypes'
  BY <1>1, PeriodFacts DEF PeriodTypes
<1> QED
  BY <1>1, <1>2, PeriodFacts DEF PeriodsInv

LEMMA PeriodsStart == PeriodsInit => PeriodsInv
<1> SUFFICES ASSUME PeriodsInit PROVE PeriodsInv
  OBVIOUS
<1>1. /\ minute = 1 /\ minuteBest = [w \in Rigs |-> NoRing] /\ periods = [k \in Keys |-> NoRing]
      /\ lastBucket = 0 /\ snapshot.rings = [k \in Keys |-> NoRing] /\ snapshot.bucket = 0
      /\ noted = 0 /\ restarts = 0 /\ earnedSlots = [w \in Rigs |-> [m \in 1..MaxMinute |-> 0]]
  BY DEF PeriodsInit
<1>2. earnedSlots \in Noted
  BY <1>1 DEF Noted
<1>3. PeriodTypes
  BY <1>1, <1>2, EmptyRings, PeriodConstants DEF PeriodTypes
<1>4. PeriodRings(periods, lastBucket, earnedSlots) /\ Cardinality(Kept(periods)) <= MaxRings
      /\ PeriodRings(snapshot.rings, snapshot.bucket, earnedSlots)
  BY <1>1, NoPeriods
<1> QED
  BY <1>1, <1>3, <1>4, EmptyRings DEF PeriodsInv

LEMMA PeriodsKept == PeriodsInv /\ [PeriodsNext]_periodsVars => PeriodsInv'
<1> SUFFICES ASSUME PeriodsInv, [PeriodsNext]_periodsVars PROVE PeriodsInv'
  OBVIOUS
<1>1. CASE MinuteTick \/ ReadHistory \/ Persist
  BY <1>1, MinuteTickStep, PersistStep
<1>2. CASE \E w \in Rigs, q \in BestValues, m \in {minute, minute - 1} \ {0} : NoteShare(w, q, m)
  BY <1>2, NoteShareStep
<1>3. CASE \E now \in {minute, minute - 1}, online \in SUBSET Rigs :
              \E saved \in SUBSET online : Sample(now, online, saved)
  BY <1>3, SampleStep
<1>4. CASE \E loads \in BOOLEAN : RestartHistory(loads)
  BY <1>4, RestartHistoryStep
<1>5. CASE UNCHANGED periodsVars
  BY <1>5 DEF periodsVars, PeriodsInv, PeriodTypes
<1> QED
  BY <1>1, <1>2, <1>3, <1>4, <1>5 DEF PeriodsNext

LEMMA PeriodsInvariant == PeriodsSpec => []PeriodsInv
BY PeriodsStart, PeriodsKept, PTL DEF PeriodsSpec

(* For any workers, ring and clock, the history shows of a minute no more   *)
(* than was earned in it, in the slot of that minute, across samples,       *)
(* prunings and restarts.                                                   *)
THEOREM HistoryTruthful == PeriodsSpec => []HistoryIsTrue
<1>1. PeriodsInv => HistoryIsTrue
  <2> SUFFICES ASSUME PeriodsInv, NEW k \in Kept(periods), NEW i \in 0..Slots-1, periods[k].minutes[i] # 0
               PROVE  /\ Index(periods[k].minutes[i]) = i /\ periods[k].minutes[i] <= periods[k].last
                      /\ periods[k].best[i] # 0 =>
                            \E w \in Sources(k) : periods[k].best[i] <= earnedSlots[w][periods[k].minutes[i]]
    BY DEF HistoryIsTrue
  <2>1. k \in Keys
    BY DEF Kept
  <2>2. TrueRing(periods[k], Sources(k), earnedSlots) /\ RingUntil(periods[k], lastBucket - 1)
    BY <2>1, PeriodFacts DEF PeriodRings
  <2> QED
    BY <2>2 DEF TrueRing, RingUntil
<1> QED
  BY <1>1, PeriodsInvariant, PTL

\* The rings of the worker history keep their types (status_saved_worker_periods.go).
THEOREM PeriodTypesCorrect == PeriodsSpec => []PeriodsTypeOK
<1>1. PeriodsInv => PeriodsTypeOK
  <2> SUFFICES ASSUME PeriodsInv PROVE PeriodsTypeOK
    OBVIOUS
  <2>1. \A w \in Rigs : minuteBest[w].last \in -1..MaxMinute
    BY PeriodFacts, RingFields
  <2>2. \A k \in Keys : periods[k].last \in -1..MaxMinute
    BY PeriodFacts, RingFields DEF PeriodRings
  <2> QED
    BY <2>1, <2>2, PeriodFacts DEF PeriodsTypeOK, PeriodTypes, Kept
<1> QED
  BY <1>1, PeriodsInvariant, PTL

HIDE WorkerHistoryAssumption

-----------------------------------------------------------------------------
(* ConnStats *)

USE ConnStatsAssumption

StatTypes == StatsTypeOK /\ statsQueue \in [StatConns -> Seq(Judged)]

Reached(c) == {s \in Judged : s[1] = c /\ statStep[s] \in {"pool", "done"}}
Done == {s \in Judged : statStep[s] = "done"}

\* A share that reached its connection is counted or queued; one that is done, by the pool.
CountsFollow ==
    /\ \A c \in StatConns : IsFiniteSet(Reached(c))
                            /\ accepted[c] + Len(statsQueue[c]) = Cardinality(Reached(c))
    /\ IsFiniteSet(Done) /\ poolAccepted = Cardinality(Done)

\* Nothing is left of a closed connection but shares that went past its queue.
ClosedDrained ==
    /\ \A c \in StatConns : closingStats[c] = "closed" => statsQueue[c] = <<>>
    /\ \A s \in Judged : statStep[s] = "direct" => s[1] \in bypassed
    /\ \A c \in hashing \ bypassed : closingStats[c] # "closed"

StatsInv == StatTypes /\ CountsFollow /\ ClosedDrained

LEMMA StatsConstants == StatsRoom \in Nat /\ StatsRoom > 0 /\ \A s \in Judged : s[1] \in StatConns
OBVIOUS

LEMMA StatsFacts ==
    ASSUME StatsInv
    PROVE  /\ statStep \in [Judged -> {"new", "direct", "pool", "done", "dropped"}]
           /\ statsQueue \in [StatConns -> Seq(Judged)]
           /\ \A c \in StatConns : Len(statsQueue[c]) <= StatsRoom
           /\ closingStats \in [StatConns -> {"open", "draining", "closed"}]
           /\ accepted \in [StatConns -> Nat] /\ poolAccepted \in Nat
           /\ hashing \subseteq StatConns /\ bypassed \subseteq StatConns
BY DEF StatsInv, StatTypes, StatsTypeOK

\* The steps of one share, and whether they bring it to its connection or to the end
LEMMA StepMoves ==
    ASSUME StatsInv, NEW s \in Judged, NEW step \in {"direct", "pool", "done", "dropped"},
           StatStep(s, step)
    PROVE  /\ statStep' \in [Judged -> {"new", "direct", "pool", "done", "dropped"}]
           /\ statStep'[s] = step /\ \A t \in Judged \ {s} : statStep'[t] = statStep[t]
           /\ \A c \in StatConns \ {s[1]} : Reached(c)' = Reached(c)
           /\ (step \in {"pool", "done"} <=> statStep[s] \in {"pool", "done"})
                 => Reached(s[1])' = Reached(s[1])
           /\ step = "pool" /\ statStep[s] \in {"new", "direct"}
                 => Reached(s[1])' = Reached(s[1]) \cup {s} /\ s \notin Reached(s[1])
           /\ step # "done" /\ statStep[s] # "done" => Done' = Done
           /\ step = "done" /\ statStep[s] # "done" => Done' = Done \cup {s} /\ s \notin Done
<1>1. /\ statStep' \in [Judged -> {"new", "direct", "pool", "done", "dropped"}]
      /\ statStep'[s] = step /\ \A t \in Judged \ {s} : statStep'[t] = statStep[t]
  BY StatsFacts DEF StatStep
<1>2. ASSUME NEW c PROVE Reached(c)' = {t \in Judged : t[1] = c /\ statStep'[t] \in {"pool", "done"}}
  BY DEF Reached
<1>3. ASSUME NEW c \in StatConns \ {s[1]} PROVE Reached(c)' = Reached(c)
  BY <1>1, <1>2 DEF Reached
<1>4. PICK c0 : c0 = s[1]
  OBVIOUS
<1>5. (step \in {"pool", "done"} <=> statStep[s] \in {"pool", "done"}) => Reached(c0)' = Reached(c0)
  BY <1>1, <1>2 DEF Reached
<1>6. step = "pool" /\ statStep[s] \in {"new", "direct"}
        => Reached(c0)' = Reached(c0) \cup {s} /\ s \notin Reached(c0)
  BY <1>1, <1>2, <1>4 DEF Reached
<1>7. /\ step # "done" /\ statStep[s] # "done" => Done' = Done
      /\ step = "done" /\ statStep[s] # "done" => Done' = Done \cup {s} /\ s \notin Done
  BY <1>1 DEF Done
<1>8. Reached(s[1])' = Reached(c0)'
  BY <1>4 DEF Reached
<1> QED
  BY <1>1, <1>3, <1>4, <1>5, <1>6, <1>7, <1>8

LEMMA QueueStatsStep == ASSUME StatsInv, NEW s \in Judged, QueueStats(s) PROVE StatsInv'
<1>1. PICK c : c = s[1]
  OBVIOUS
<1>2. c \in StatConns /\ statStep[s] = "new"
      /\ UNCHANGED <<closingStats, accepted, poolAccepted, hashing>>
  BY <1>1, StatsConstants DEF QueueStats
<1>3. CASE closingStats[c] # "open" /\ StatStep(s, "dropped") /\ UNCHANGED <<statsQueue, bypassed>>
  <2>1. /\ statStep' \in [Judged -> {"new", "direct", "pool", "done", "dropped"}]
        /\ statStep'[s] = "dropped" /\ \A t \in Judged \ {s} : statStep'[t] = statStep[t]
        /\ \A d \in StatConns : Reached(d)' = Reached(d)
        /\ Done' = Done
    BY <1>1, <1>2, <1>3, StepMoves
  <2>2. CountsFollow'
    BY <1>2, <1>3, <2>1 DEF StatsInv, CountsFollow
  <2>3. StatTypes'
    BY <1>2, <1>3, <2>1, StatsFacts DEF StatTypes, StatsTypeOK
  <2>4. ClosedDrained'
    BY <1>2, <1>3, <2>1 DEF StatsInv, ClosedDrained
  <2> QED
    BY <2>2, <2>3, <2>4 DEF StatsInv
<1>4. CASE /\ closingStats[c] = "open" /\ Len(statsQueue[c]) < StatsRoom
           /\ StatStep(s, "pool") /\ statsQueue' = [statsQueue EXCEPT ![c] = Append(@, s)]
           /\ UNCHANGED bypassed
  <2>1. /\ statStep' \in [Judged -> {"new", "direct", "pool", "done", "dropped"}]
        /\ statStep'[s] = "pool" /\ \A t \in Judged \ {s} : statStep'[t] = statStep[t]
        /\ \A d \in StatConns \ {c} : Reached(d)' = Reached(d)
        /\ Done' = Done
    BY <1>1, <1>2, <1>4, StepMoves
  <2>2. Reached(c)' = Reached(c) \cup {s} /\ s \notin Reached(c)
    <3>1. Reached(s[1])' = Reached(s[1]) \cup {s} /\ s \notin Reached(s[1])
      BY <1>2, <1>4, StepMoves
    <3> QED
      BY <1>1, <3>1 DEF Reached
  <2>3. PICK q : q = statsQueue[c]
    OBVIOUS
  <2>4. q \in Seq(Judged) /\ Append(q, s) \in Seq(Judged) /\ Len(Append(q, s)) = Len(q) + 1
        /\ Len(q) \in Nat
    BY <1>2, <2>3, StatsFacts, AppendProperties
  <2>5. statsQueue' \in [StatConns -> Seq(Judged)] /\ statsQueue'[c] = Append(q, s)
        /\ \A d \in StatConns \ {c} : statsQueue'[d] = statsQueue[d]
    BY <1>2, <1>4, <2>3, <2>4, StatsFacts
  <2>6. CountsFollow'
    <3>1. ASSUME NEW d \in StatConns
          PROVE  IsFiniteSet(Reached(d)') /\ accepted'[d] + Len(statsQueue'[d]) = Cardinality(Reached(d)')
      <4>1. IsFiniteSet(Reached(d)) /\ accepted[d] + Len(statsQueue[d]) = Cardinality(Reached(d))
            /\ accepted[d] \in Nat
        BY StatsFacts DEF StatsInv, CountsFollow
      <4>2. CASE d = c
        <5>1. IsFiniteSet(Reached(c) \cup {s})
              /\ Cardinality(Reached(c) \cup {s}) = Cardinality(Reached(c)) + 1
          BY <2>2, <4>1, <4>2, FS_AddElement
        <5>2. PICK a, n : a = accepted[c] /\ n = Len(q)
          OBVIOUS
        <5>3. a \in Nat /\ n \in Nat
          BY <2>4, <4>1, <4>2, <5>2
        <5>6. a + (n + 1) = (a + n) + 1
          BY <5>3
        <5>4. Reached(d)' = Reached(c)'
          BY <4>2 DEF Reached
        <5> QED
          BY <1>2, <2>2, <2>3, <2>4, <2>5, <4>1, <4>2, <5>1, <5>2, <5>3, <5>4, <5>6
      <4>3. CASE d # c
        BY <1>2, <2>1, <2>5, <4>1, <4>3
      <4> QED
        BY <4>2, <4>3
    <3> QED
      BY <1>2, <2>1, <3>1 DEF StatsInv, CountsFollow
  <2>7. StatTypes'
    <3>1. \A d \in StatConns : Len(statsQueue'[d]) <= StatsRoom
      <4>1. Len(statsQueue'[c]) <= StatsRoom
        BY <1>4, <2>3, <2>4, <2>5, StatsConstants
      <4> QED
        BY <2>5, <4>1, StatsFacts
    <3> QED
      BY <1>2, <1>4, <2>1, <2>5, <3>1, StatsFacts DEF StatTypes, StatsTypeOK
  <2>8. ClosedDrained'
    BY <1>2, <1>4, <2>1, <2>5 DEF StatsInv, ClosedDrained
  <2> QED
    BY <2>6, <2>7, <2>8 DEF StatsInv
<1>5. CASE /\ closingStats[c] = "open" /\ Len(statsQueue[c]) = StatsRoom
           /\ StatStep(s, "direct") /\ bypassed' = bypassed \cup {c} /\ UNCHANGED statsQueue
  <2>1. /\ statStep' \in [Judged -> {"new", "direct", "pool", "done", "dropped"}]
        /\ statStep'[s] = "direct" /\ \A t \in Judged \ {s} : statStep'[t] = statStep[t]
        /\ \A d \in StatConns : Reached(d)' = Reached(d)
        /\ Done' = Done
    BY <1>1, <1>2, <1>5, StepMoves
  <2>2. CountsFollow'
    BY <1>2, <1>5, <2>1 DEF StatsInv, CountsFollow
  <2>3. StatTypes'
    BY <1>2, <1>5, <2>1, StatsFacts DEF StatTypes, StatsTypeOK
  <2>4. ClosedDrained'
    BY <1>1, <1>2, <1>5, <2>1 DEF StatsInv, ClosedDrained
  <2> QED
    BY <2>2, <2>3, <2>4 DEF StatsInv
<1> QED
  BY <1>1, <1>3, <1>4, <1>5 DEF QueueStats

\* What a connection counts
LEMMA CreditIs ==
    ASSUME StatsInv, NEW c \in StatConns, NEW moves \in BOOLEAN, Credit(c, moves)
    PROVE  /\ accepted' \in [StatConns -> Nat] /\ accepted'[c] = accepted[c] + 1
           /\ \A d \in StatConns \ {c} : accepted'[d] = accepted[d]
           /\ hashing' \subseteq hashing \cup {c}
<1>1. accepted' = [accepted EXCEPT ![c] = accepted[c] + 1] /\ accepted[c] + 1 \in Nat
  BY StatsFacts DEF Credit
<1>2. hashing' \subseteq hashing \cup {c}
  BY DEF Credit
<1> QED
  BY <1>1, <1>2, StatsFacts

LEMMA DrainStatsStep ==
    ASSUME StatsInv, NEW c \in StatConns, NEW moves \in BOOLEAN, DrainStats(c, moves) PROVE StatsInv'
<1>1. /\ statsQueue[c] # <<>> /\ statsQueue' = [statsQueue EXCEPT ![c] = Tail(@)]
      /\ Credit(c, moves) /\ UNCHANGED <<statStep, closingStats, poolAccepted, bypassed>>
  BY DEF DrainStats
<1>2. PICK q : q = statsQueue[c]
  OBVIOUS
<1>3. q \in Seq(Judged) /\ q # <<>> /\ Tail(q) \in Seq(Judged) /\ Len(Tail(q)) = Len(q) - 1
      /\ Len(q) \in Nat
  <2>1. q \in Seq(Judged) /\ q # <<>>
    BY <1>1, <1>2, StatsFacts
  <2> QED
    BY <2>1, HeadTailProperties
<1>4. statsQueue' \in [StatConns -> Seq(Judged)] /\ statsQueue'[c] = Tail(q)
      /\ \A d \in StatConns \ {c} : statsQueue'[d] = statsQueue[d]
  BY <1>1, <1>2, <1>3, StatsFacts
<1>5. /\ accepted' \in [StatConns -> Nat] /\ accepted'[c] = accepted[c] + 1
      /\ \A d \in StatConns \ {c} : accepted'[d] = accepted[d]
      /\ hashing' \subseteq hashing \cup {c}
  BY <1>1, CreditIs
<1>6. \A d : Reached(d)' = Reached(d)
  BY <1>1 DEF Reached
<1>7. Done' = Done
  BY <1>1 DEF Done
<1>8. CountsFollow'
  <2>1. ASSUME NEW d \in StatConns
        PROVE  IsFiniteSet(Reached(d)) /\ accepted'[d] + Len(statsQueue'[d]) = Cardinality(Reached(d))
    <3>1. IsFiniteSet(Reached(d)) /\ accepted[d] + Len(statsQueue[d]) = Cardinality(Reached(d))
      BY DEF StatsInv, CountsFollow
    <3>2. CASE d = c
      <4>1. PICK a, n : a = accepted[c] /\ n = Len(q)
        OBVIOUS
      <4>2. a \in Nat /\ n \in Nat /\ (a + 1) + (n - 1) = a + n
        BY <1>3, <4>1, StatsFacts
      <4> QED
        BY <1>2, <1>3, <1>4, <1>5, <3>1, <3>2, <4>1, <4>2
    <3>3. CASE d # c
      BY <1>4, <1>5, <3>1, <3>3
    <3> QED
      BY <3>2, <3>3
  <2> QED
    BY <1>1, <1>6, <1>7, <2>1 DEF StatsInv, CountsFollow
<1>9. StatTypes'
  <2>1. \A d \in StatConns : Len(statsQueue'[d]) <= StatsRoom
    <3>1. Len(Tail(q)) <= StatsRoom
      BY <1>2, <1>3, StatsFacts, StatsConstants
    <3> QED
      BY <1>4, <3>1, StatsFacts
  <2> QED
    BY <1>1, <1>4, <1>5, <2>1, StatsFacts DEF StatTypes, StatsTypeOK
<1>10. ClosedDrained'
  <2>1. closingStats[c] # "closed"
    BY <1>1 DEF StatsInv, ClosedDrained
  <2> QED
    BY <1>1, <1>4, <1>5, <2>1 DEF StatsInv, ClosedDrained
<1> QED
  BY <1>8, <1>9, <1>10 DEF StatsInv

LEMMA DirectStatsStep ==
    ASSUME StatsInv, NEW s \in Judged, NEW moves \in BOOLEAN, DirectStats(s, moves) PROVE StatsInv'
<1>1. PICK c : c = s[1]
  OBVIOUS
<1>2. /\ c \in StatConns /\ statStep[s] = "direct" /\ StatStep(s, "pool") /\ Credit(c, moves)
      /\ UNCHANGED <<statsQueue, closingStats, poolAccepted, bypassed>>
  BY <1>1, StatsConstants DEF DirectStats
<1>3. /\ statStep' \in [Judged -> {"new", "direct", "pool", "done", "dropped"}]
      /\ statStep'[s] = "pool" /\ \A t \in Judged \ {s} : statStep'[t] = statStep[t]
      /\ \A d \in StatConns \ {c} : Reached(d)' = Reached(d)
      /\ Done' = Done
  BY <1>1, <1>2, StepMoves
<1>4. Reached(c)' = Reached(c) \cup {s} /\ s \notin Reached(c)
  <2>1. Reached(s[1])' = Reached(s[1]) \cup {s} /\ s \notin Reached(s[1])
    BY <1>2, StepMoves
  <2> QED
    BY <1>1, <2>1 DEF Reached
<1>5. /\ accepted' \in [StatConns -> Nat] /\ accepted'[c] = accepted[c] + 1
      /\ \A d \in StatConns \ {c} : accepted'[d] = accepted[d]
      /\ hashing' \subseteq hashing \cup {c}
  BY <1>2, CreditIs
<1>6. CountsFollow'
  <2>1. ASSUME NEW d \in StatConns
        PROVE  IsFiniteSet(Reached(d)') /\ accepted'[d] + Len(statsQueue'[d]) = Cardinality(Reached(d)')
    <3>1. IsFiniteSet(Reached(d)) /\ accepted[d] + Len(statsQueue[d]) = Cardinality(Reached(d))
          /\ accepted[d] \in Nat /\ statsQueue[d] \in Seq(Judged)
      BY StatsFacts DEF StatsInv, CountsFollow
    <3>2. CASE d = c
      <4>1. IsFiniteSet(Reached(c) \cup {s})
            /\ Cardinality(Reached(c) \cup {s}) = Cardinality(Reached(c)) + 1
        BY <1>4, <3>1, <3>2, FS_AddElement
      <4>2. PICK a, n : a = accepted[c] /\ n = Len(statsQueue[c])
        OBVIOUS
      <4>3. a \in Nat /\ n \in Nat /\ (a + 1) + n = (a + n) + 1
        BY <3>1, <3>2, <4>2
      <4>4. Reached(d)' = Reached(c)'
        BY <3>2 DEF Reached
      <4> QED
        BY <1>2, <1>4, <1>5, <3>1, <3>2, <4>1, <4>2, <4>3, <4>4
    <3>3. CASE d # c
      BY <1>2, <1>3, <1>5, <3>1, <3>3
    <3> QED
      BY <3>2, <3>3
  <2> QED
    BY <1>2, <1>3, <2>1 DEF StatsInv, CountsFollow
<1>7. StatTypes'
  BY <1>2, <1>3, <1>5, StatsFacts DEF StatTypes, StatsTypeOK
<1>8. ClosedDrained'
  <2>1. c \in bypassed
    BY <1>1, <1>2 DEF StatsInv, ClosedDrained
  <2> QED
    BY <1>2, <1>3, <1>5, <2>1 DEF StatsInv, ClosedDrained
<1> QED
  BY <1>6, <1>7, <1>8 DEF StatsInv

LEMMA PoolStatsStep == ASSUME StatsInv, NEW s \in Judged, PoolStats(s) PROVE StatsInv'
<1>1. /\ statStep[s] = "pool" /\ StatStep(s, "done") /\ poolAccepted' = poolAccepted + 1
      /\ UNCHANGED <<statsQueue, closingStats, accepted, hashing, bypassed>>
  BY DEF PoolStats
<1>2. /\ statStep' \in [Judged -> {"new", "direct", "pool", "done", "dropped"}]
      /\ statStep'[s] = "done" /\ \A t \in Judged \ {s} : statStep'[t] = statStep[t]
      /\ \A d \in StatConns \ {s[1]} : Reached(d)' = Reached(d)
      /\ Reached(s[1])' = Reached(s[1])
      /\ Done' = Done \cup {s} /\ s \notin Done
  BY <1>1, StepMoves
<1>3. \A d \in StatConns : Reached(d)' = Reached(d)
  <2> SUFFICES ASSUME NEW d \in StatConns, d = s[1] PROVE Reached(d)' = Reached(d)
    BY <1>2
  <2> QED
    BY <1>2 DEF Reached
<1>4. poolAccepted' \in Nat /\ IsFiniteSet(Done') /\ poolAccepted' = Cardinality(Done')
  <2>1. IsFiniteSet(Done) /\ poolAccepted = Cardinality(Done) /\ poolAccepted \in Nat
    BY StatsFacts DEF StatsInv, CountsFollow
  <2> QED
    BY <1>1, <1>2, <2>1, FS_AddElement
<1>5. CountsFollow'
  BY <1>1, <1>3, <1>4 DEF StatsInv, CountsFollow
<1>6. StatTypes'
  BY <1>1, <1>2, <1>4, StatsFacts DEF StatTypes, StatsTypeOK
<1>7. ClosedDrained'
  BY <1>1, <1>2 DEF StatsInv, ClosedDrained
<1> QED
  BY <1>5, <1>6, <1>7 DEF StatsInv

LEMMA CloseStatsStep ==
    ASSUME StatsInv, NEW c \in StatConns, CloseStats(c) \/ LeavePool(c) PROVE StatsInv'
<1>1. UNCHANGED <<statStep, statsQueue, accepted, poolAccepted, bypassed>>
  BY DEF CloseStats, LeavePool
<1>2. PICK e \in {"draining", "closed"} :
        /\ closingStats' = [closingStats EXCEPT ![c] = e]
        /\ e = "draining" => hashing' = hashing
        /\ e = "closed" => statsQueue[c] = <<>> /\ hashing' = hashing \ {c}
  BY DEF CloseStats, LeavePool
<1>3. closingStats' \in [StatConns -> {"open", "draining", "closed"}] /\ closingStats'[c] = e
      /\ \A d \in StatConns \ {c} : closingStats'[d] = closingStats[d]
  BY <1>2, StatsFacts
<1>4. CountsFollow'
  BY <1>1 DEF StatsInv, CountsFollow, Reached, Done
<1>5. StatTypes'
  BY <1>1, <1>2, <1>3, StatsFacts DEF StatTypes, StatsTypeOK
<1>6. ClosedDrained'
  BY <1>1, <1>2, <1>3, StatsFacts DEF StatsInv, ClosedDrained
<1> QED
  BY <1>4, <1>5, <1>6 DEF StatsInv

LEMMA StatsStarts == StatsInit => StatsInv
<1> SUFFICES ASSUME StatsInit PROVE StatsInv
  OBVIOUS
<1>1. /\ statStep = [s \in Judged |-> "new"] /\ statsQueue = [c \in StatConns |-> <<>>]
      /\ closingStats = [c \in StatConns |-> "open"] /\ accepted = [c \in StatConns |-> 0]
      /\ poolAccepted = 0 /\ hashing = {} /\ bypassed = {}
  BY DEF StatsInit
<1>2. StatTypes
  <2>1. \A c \in StatConns : statsQueue[c] = <<>> /\ Len(statsQueue[c]) = 0
    BY <1>1
  <2> QED
    BY <1>1, <2>1, StatsConstants DEF StatTypes, StatsTypeOK
<1>3. (\A c : Reached(c) = {}) /\ Done = {}
  BY <1>1 DEF Reached, Done
<1>4. CountsFollow
  <2>1. \A c \in StatConns : accepted[c] = 0 /\ statsQueue[c] = <<>>
    BY <1>1
  <2>2. IsFiniteSet({}) /\ Cardinality({}) = 0
    BY FS_EmptySet
  <2>3. \A c \in StatConns : accepted[c] + Len(statsQueue[c]) = 0
    BY <2>1
  <2>4. \A c : IsFiniteSet(Reached(c)) /\ Cardinality(Reached(c)) = 0
    BY <1>3, <2>2
  <2>5. IsFiniteSet(Done) /\ Cardinality(Done) = 0
    BY <1>3, <2>2
  <2> QED
    BY <1>1, <2>3, <2>4, <2>5 DEF CountsFollow
<1>5. ClosedDrained
  BY <1>1 DEF ClosedDrained
<1> QED
  BY <1>2, <1>4, <1>5 DEF StatsInv

LEMMA StatsKept == StatsInv /\ [StatsNext]_statVars => StatsInv'
<1> SUFFICES ASSUME StatsInv, [StatsNext]_statVars PROVE StatsInv'
  OBVIOUS
<1>1. CASE \E s \in Judged : \/ QueueStats(s) \/ PoolStats(s)
                             \/ \E moves \in BOOLEAN : DirectStats(s, moves)
  BY <1>1, QueueStatsStep, PoolStatsStep, DirectStatsStep
<1>2. CASE \E c \in StatConns : \/ CloseStats(c) \/ LeavePool(c)
                                \/ \E moves \in BOOLEAN : DrainStats(c, moves)
  BY <1>2, CloseStatsStep, DrainStatsStep
<1>3. CASE UNCHANGED statVars
  BY <1>3 DEF statVars, StatsInv, StatTypes, StatsTypeOK, CountsFollow, Reached, Done, ClosedDrained
<1> QED
  BY <1>1, <1>2, <1>3 DEF StatsNext

LEMMA StatsInvariant == StatsSpec => []StatsInv
BY StatsStarts, StatsKept, PTL DEF StatsSpec

\* Every share that was taken is counted once, by its connection and by the pool, and a
\* closed connection leaves the pool's hashrate (recordShare, cleanupResources).
THEOREM CountsHold == StatsSpec => []CountsAgree
<1>1. StatsInv => CountsAgree
  <2> SUFFICES ASSUME StatsInv PROVE CountsAgree
    OBVIOUS
  <2>1. ASSUME \A s \in Judged : statStep[s] \notin {"direct", "pool"}
        PROVE  /\ poolAccepted = Cardinality(Taken)
               /\ \A c \in StatConns : statsQueue[c] = <<>> =>
                     accepted[c] = Cardinality({s \in Taken : s[1] = c})
    <3>1. Taken = Done /\ \A c : {s \in Taken : s[1] = c} = Reached(c)
      BY <2>1, StatsFacts DEF Taken, Done, Reached
    <3>2. ASSUME NEW c \in StatConns, statsQueue[c] = <<>> PROVE accepted[c] = Cardinality(Reached(c))
      <4>1. Len(statsQueue[c]) = 0 /\ accepted[c] \in Nat
        BY <3>2, StatsFacts
      <4> QED
        BY <4>1 DEF StatsInv, CountsFollow
    <3> QED
      BY <3>1, <3>2 DEF StatsInv, CountsFollow
  <2> QED
    BY <2>1 DEF CountsAgree, StatsInv, ClosedDrained
<1> QED
  BY <1>1, StatsInvariant, PTL

\* The statistics keep their types (miner_stats.go, metrics.go).
THEOREM StatsTypesCorrect == StatsSpec => []StatsTypeOK
<1>1. StatsInv => StatsTypeOK
  BY DEF StatsInv, StatTypes
<1> QED
  BY <1>1, StatsInvariant, PTL

HIDE ConnStatsAssumption

-----------------------------------------------------------------------------
(* BestShares *)

USE BestSharesAssumption

\* Best first, each share once, no more than there is room for
IsRanking(l) ==
    /\ l \in Seq(Ranks) /\ Len(l) <= BestLimit
    /\ \A i, j \in 1..Len(l) : i < j => l[i] > l[j]

BestTypes ==
    /\ ranking \in [Ranks -> {"new", "fits", "spawned", "done"}]
    /\ bestQueue \in Seq(Ranks) /\ Len(bestQueue) <= BestRoom /\ writersCrossed \in BOOLEAN
    /\ listed \subseteq Ranks /\ tableFaults \in 0..MaxTableFaults /\ retries \in 0..tableFaults
    /\ processStops \in 0..MaxProcessStops
    /\ writers \subseteq [by : {"worker", "spawned", "retry"}, list : Seq(Ranks)]

\* The list, the table and every copy on its way there are rankings.
AllRanked == IsRanking(bestShares) /\ IsRanking(bestTable) /\ \A w \in writers : IsRanking(w.list)

BestOfListed ==
    /\ ToSet(bestShares) \subseteq listed
    /\ \A d \in listed \ ToSet(bestShares) :
          Len(bestShares) = BestLimit /\ \A e \in ToSet(bestShares) : e > d

\* A share that is not through is nowhere yet; one in the queue, not in the list.
NotListedYet ==
    /\ \A d \in Ranks : ranking[d] # "done" =>
          /\ d \notin listed /\ d \notin ToSet(bestQueue) /\ d \notin ToSet(bestTable)
          /\ \A w \in writers : d \notin ToSet(w.list)
    /\ \A i, j \in 1..Len(bestQueue) : i # j => bestQueue[i] # bestQueue[j]
    /\ \A i \in 1..Len(bestQueue) : bestQueue[i] \notin listed

\* Until two writers cross there is one at most, and it carries the list.
OneWriter ==
    ~writersCrossed =>
        /\ \A w, v \in writers : w = v
        /\ \A w \in writers : w.list = bestShares
        /\ writers = {} /\ retries = 0 => bestTable = bestShares

BestInv == BestTypes /\ AllRanked /\ BestOfListed /\ NotListedYet /\ OneWriter

LEMMA BestConstants ==
    /\ \A d \in Ranks : d \in Nat /\ d > 0
    /\ BestLimit \in Nat /\ BestLimit >= 1 /\ BestRoom \in Nat /\ BestRoom >= 1
    /\ MaxTableFaults \in Nat /\ MaxProcessStops \in Nat
OBVIOUS

LEMMA InToSet ==
    ASSUME NEW l \in Seq(Ranks)
    PROVE  /\ \A e : e \in ToSet(l) <=> \E i \in 1..Len(l) : l[i] = e
           /\ \A i \in 1..Len(l) : l[i] \in Ranks /\ l[i] \in Nat
           /\ Len(l) \in Nat /\ DOMAIN l = 1..Len(l)
<1>1. Len(l) \in Nat /\ DOMAIN l = 1..Len(l) /\ l \in [1..Len(l) -> Ranks]
  BY LenProperties
<1> QED
  BY <1>1, BestConstants DEF ToSet

\* The place of every entry after recordBestShare: the better ones keep theirs, d comes
\* behind them, and the others move down by one.
LEMMA RankedPlaces ==
    ASSUME IsRanking(bestShares), NEW d \in Ranks, d \notin ToSet(bestShares),
           NEW n, n = Len(bestShares), NEW m, m = IF n < BestLimit THEN n + 1 ELSE BestLimit
    PROVE  /\ n \in Nat /\ n <= BestLimit /\ m \in Nat /\ m <= BestLimit /\ m >= 1 /\ m >= n /\ m <= n + 1
           /\ Ranked(d) \in Seq(Ranks) /\ Len(Ranked(d)) = m
           /\ \A i \in 1..n : bestShares[i] \in Ranks /\ bestShares[i] # d
           /\ \A i \in 1..m : \/ i <= n /\ bestShares[i] > d /\ Ranked(d)[i] = bestShares[i]
                              \/ /\ i > n \/ bestShares[i] < d
                                 /\ i = 1 \/ bestShares[i - 1] > d
                                 /\ Ranked(d)[i] = d
                              \/ /\ i > n \/ bestShares[i] < d
                                 /\ i > 1 /\ i - 1 <= n /\ bestShares[i - 1] < d
                                 /\ Ranked(d)[i] = bestShares[i - 1]
<1>1. bestShares \in Seq(Ranks) /\ Len(bestShares) <= BestLimit
  BY DEF IsRanking
<1>2. n \in Nat /\ n <= BestLimit /\ DOMAIN bestShares = 1..n
      /\ \A i \in 1..n : bestShares[i] \in Ranks /\ bestShares[i] \in Nat /\ bestShares[i] # d
  BY <1>1, InToSet
<1>3. m \in Nat /\ m <= BestLimit /\ m >= 1 /\ m >= n /\ m <= n + 1
  BY <1>2, BestConstants
<1>4. Ranked(d) = [i \in 1..m |-> IF Better(i, d) THEN bestShares[i]
                                  ELSE IF i = 1 \/ Better(i - 1, d) THEN d
                                  ELSE bestShares[i - 1]]
  BY <1>2 DEF Ranked
<1>5. \A i \in 0..m : Better(i, d) <=> i >= 1 /\ i <= n /\ bestShares[i] > d
  BY <1>2, <1>3 DEF Better
<1>6. \A i \in 1..m : \/ i <= n /\ bestShares[i] > d /\ Ranked(d)[i] = bestShares[i]
                      \/ /\ i > n \/ bestShares[i] < d
                         /\ i = 1 \/ bestShares[i - 1] > d
                         /\ Ranked(d)[i] = d
                      \/ /\ i > n \/ bestShares[i] < d
                         /\ i > 1 /\ i - 1 <= n /\ bestShares[i - 1] < d
                         /\ Ranked(d)[i] = bestShares[i - 1]
  <2> SUFFICES ASSUME NEW i \in 1..m
               PROVE  \/ i <= n /\ bestShares[i] > d /\ Ranked(d)[i] = bestShares[i]
                      \/ /\ i > n \/ bestShares[i] < d
                         /\ i = 1 \/ bestShares[i - 1] > d
                         /\ Ranked(d)[i] = d
                      \/ /\ i > n \/ bestShares[i] < d
                         /\ i > 1 /\ i - 1 <= n /\ bestShares[i - 1] < d
                         /\ Ranked(d)[i] = bestShares[i - 1]
    OBVIOUS
  <2>1. i \in Nat /\ i >= 1 /\ i <= m /\ i - 1 \in 0..m /\ i \in 0..m /\ d \in Nat
    BY <1>3, BestConstants
  <2>2. i <= n => bestShares[i] \in Nat /\ bestShares[i] # d
    BY <1>2, <2>1
  <2>3. i > 1 => i - 1 <= n /\ bestShares[i - 1] \in Nat /\ bestShares[i - 1] # d
    BY <1>2, <1>3, <2>1
  <2>4. CASE Better(i, d)
    BY <1>4, <1>5, <2>1, <2>4
  <2>5. CASE ~Better(i, d) /\ (i = 1 \/ Better(i - 1, d))
    BY <1>4, <1>5, <2>1, <2>2, <2>5
  <2>6. CASE ~Better(i, d) /\ ~(i = 1 \/ Better(i - 1, d))
    BY <1>4, <1>5, <2>1, <2>2, <2>3, <2>6
  <2> QED
    BY <2>4, <2>5, <2>6
<1>7. Ranked(d) \in [1..m -> Ranks]
  <2>1. \A i \in 1..m : Ranked(d)[i] \in Ranks
    <3> SUFFICES ASSUME NEW i \in 1..m PROVE Ranked(d)[i] \in Ranks
      OBVIOUS
    <3>1. i > 1 /\ i - 1 <= n => bestShares[i - 1] \in Ranks
      BY <1>2, <1>3
    <3>2. i <= n => bestShares[i] \in Ranks
      BY <1>2, <1>3
    <3> QED
      BY <1>6, <3>1, <3>2
  <2> QED
    BY <1>4, <2>1
<1>8. Ranked(d) \in Seq(Ranks) /\ Len(Ranked(d)) = m
  BY <1>3, <1>7
<1> QED
  BY <1>2, <1>3, <1>6, <1>8

\* What recordBestShare makes of a ranking is one of the best of its entries and d.
LEMMA RankedIsBest ==
    ASSUME IsRanking(bestShares), NEW d \in Ranks, d \notin ToSet(bestShares), ~Outranked(d)
    PROVE  /\ IsRanking(Ranked(d)) /\ d \in ToSet(Ranked(d))
           /\ ToSet(Ranked(d)) \subseteq ToSet(bestShares) \cup {d}
           /\ Len(bestShares) = BestLimit => Len(Ranked(d)) = BestLimit
           /\ \A e \in ToSet(bestShares) \ ToSet(Ranked(d)) :
                 Len(Ranked(d)) = BestLimit /\ \A f \in ToSet(Ranked(d)) : f > e
<1>1. PICK n, m, R : n = Len(bestShares) /\ m = (IF n < BestLimit THEN n + 1 ELSE BestLimit)
                     /\ R = Ranked(d)
  OBVIOUS
<1> DEFINE l == bestShares
<1>2. /\ n \in Nat /\ n <= BestLimit /\ m \in Nat /\ m <= BestLimit /\ m >= 1 /\ m >= n /\ m <= n + 1
      /\ R \in Seq(Ranks) /\ Len(R) = m
  BY <1>1, RankedPlaces
<1>3. \A i \in 1..n : l[i] \in Nat /\ l[i] # d
  BY <1>1, RankedPlaces, BestConstants
<1>4. \A i \in 1..m : \/ i <= n /\ l[i] > d /\ R[i] = l[i]
                      \/ /\ i > n \/ l[i] < d
                         /\ i = 1 \/ l[i - 1] > d
                         /\ R[i] = d
                      \/ /\ i > n \/ l[i] < d
                         /\ i > 1 /\ i - 1 <= n /\ l[i - 1] < d
                         /\ R[i] = l[i - 1]
  BY <1>1, RankedPlaces
<1>5. \A i, j \in 1..n : i < j => l[i] > l[j]
  BY <1>1 DEF IsRanking
<1>6. d \in Nat /\ BestLimit \in Nat
  BY BestConstants
<1>7. /\ \A e : e \in ToSet(l) <=> \E i \in 1..n : l[i] = e
      /\ \A e : e \in ToSet(R) <=> \E i \in 1..m : R[i] = e
  BY <1>1, <1>2, InToSet DEF IsRanking
<1>8. n = BestLimit => l[n] < d
  <2> SUFFICES ASSUME n = BestLimit PROVE l[n] < d
    OBVIOUS
  <2>1. n \in 1..n
    BY <1>2, BestConstants
  <2>2. ~(d <= l[n])
    BY <1>1 DEF Outranked, Last
  <2> QED
    BY <1>3, <1>6, <2>1, <2>2
<1> HIDE DEF l
<1>9. \A i, j \in 1..m : i < j => R[i] > R[j]
  <2> SUFFICES ASSUME NEW i \in 1..m, NEW j \in 1..m, i < j PROVE R[i] > R[j]
    OBVIOUS
  <2>1. i \in Nat /\ j \in Nat /\ 1 <= i /\ j <= m /\ i <= n /\ i \in 1..n
    BY <1>2
  <2>2. j > 1 /\ j - 1 \in 1..n /\ (j <= n => j \in 1..n)
    BY <1>2, <2>1
  <2>3. l[i] \in Nat /\ l[j - 1] \in Nat /\ (j <= n => l[j] \in Nat /\ l[i] > l[j])
    BY <1>3, <1>5, <2>1, <2>2
  <2>4. i = j - 1 \/ (i < j - 1 /\ l[i] > l[j - 1])
    BY <1>5, <2>1, <2>2
  <2>5. i > 1 => i - 1 \in 1..n /\ l[i - 1] \in Nat /\ l[i - 1] > l[j - 1] /\ l[i - 1] > l[i]
    <3> SUFFICES ASSUME i > 1
                 PROVE  i - 1 \in 1..n /\ l[i - 1] \in Nat /\ l[i - 1] > l[j - 1] /\ l[i - 1] > l[i]
      OBVIOUS
    <3>1. i - 1 \in 1..n /\ i - 1 < j - 1 /\ i - 1 < i
      BY <1>2, <2>1
    <3> QED
      BY <1>3, <1>5, <2>1, <2>2, <3>1
  <2>6. CASE i <= n /\ l[i] > d /\ R[i] = l[i]
    BY <1>4, <1>6, <2>1, <2>2, <2>3, <2>4, <2>6
  <2>7. CASE l[i] < d /\ R[i] = d
    <3>1. l[j - 1] < d
      BY <1>6, <2>3, <2>4, <2>7
    <3>2. j <= n => l[j] < d
      BY <1>6, <2>3, <2>7
    <3>3. R[j] = l[j - 1]
      BY <1>4, <1>6, <2>2, <2>3, <3>1, <3>2
    <3> QED
      BY <2>7, <3>1, <3>3
  <2>8. CASE l[i] < d /\ i > 1 /\ R[i] = l[i - 1]
    <3>1. l[j - 1] < d
      BY <1>6, <2>3, <2>4, <2>8
    <3>2. j <= n => l[j] < d
      BY <1>6, <2>3, <2>8
    <3>3. R[j] = l[j - 1]
      BY <1>4, <1>6, <2>2, <2>3, <3>1, <3>2
    <3> QED
      BY <2>5, <2>8, <3>3
  <2>9. ~(i > n)
    BY <1>2, <2>1
  <2> QED
    BY <1>4, <2>1, <2>6, <2>7, <2>8, <2>9
<1>10. IsRanking(R)
  BY <1>2, <1>9 DEF IsRanking
<1>11. d \in ToSet(R)
  <2> DEFINE Behind == {i \in 1..(n + 1) : i = n + 1 \/ l[i] < d}
  <2>1. PICK i \in Behind : \A j \in Behind : i <= j
    <3>1. Behind \in SUBSET Nat /\ n + 1 \in Behind
      BY <1>2
    <3> HIDE DEF Behind
    <3> QED
      BY <3>1, LeastNatural
  <2>2. i \in 1..m
    <3>1. n = BestLimit => n \in Behind
      BY <1>2, <1>6, <1>8, BestConstants
    <3>2. n + 1 \in Behind
      BY <1>2
    <3> QED
      BY <1>1, <1>2, <2>1, <3>1, <3>2
  <2>3. i = 1 \/ l[i - 1] > d
    <3> SUFFICES ASSUME i # 1 PROVE l[i - 1] > d
      OBVIOUS
    <3>1. i - 1 \in 1..n /\ i - 1 \in Nat /\ i \in Nat /\ ~(i <= i - 1)
      BY <1>2, <2>1
    <3>2. ~(l[i - 1] < d)
      <4>1. i - 1 \in 1..(n + 1)
        BY <1>2, <3>1
      <4>2. l[i - 1] < d => i - 1 \in Behind
        BY <4>1
      <4> QED
        BY <2>1, <3>1, <4>2
    <3> QED
      BY <1>3, <1>6, <3>1, <3>2
  <2>4. i > n \/ l[i] < d
    BY <1>2, <2>1
  <2>5. i <= n => l[i] \in Nat
    BY <1>2, <1>3, <2>2
  <2>6. i > 1 /\ i - 1 <= n => l[i - 1] \in Nat
    BY <1>2, <1>3, <2>2
  <2>7. R[i] = d
    BY <1>2, <1>4, <1>6, <2>2, <2>3, <2>4, <2>5, <2>6
  <2> QED
    BY <1>7, <2>2, <2>7
<1>12. ToSet(R) \subseteq ToSet(l) \cup {d}
  <2> SUFFICES ASSUME NEW i \in 1..m PROVE R[i] \in ToSet(l) \cup {d}
    BY <1>7
  <2>1. (i <= n => i \in 1..n) /\ (i > 1 /\ i - 1 <= n => i - 1 \in 1..n)
    BY <1>2
  <2> QED
    BY <1>4, <1>7, <2>1
<1>13. \A e \in ToSet(l) \ ToSet(R) : m = BestLimit /\ \A f \in ToSet(R) : f > e
  <2> SUFFICES ASSUME NEW k \in 1..n, l[k] \notin ToSet(R)
               PROVE  m = BestLimit /\ \A f \in ToSet(R) : f > l[k]
    BY <1>7
  <2>1. k \in Nat /\ k \in 1..m /\ l[k] \in Nat /\ l[k] # d
    BY <1>2, <1>3
  <2>2. l[k] < d
    <3>1. l[k] > d => R[k] = l[k]
      <4>1. k <= n /\ ~(k > n) /\ (l[k] > d => ~(l[k] < d))
        BY <1>2, <1>6, <2>1
      <4> QED
        BY <1>4, <2>1, <4>1
    <3> QED
      BY <1>6, <1>7, <2>1, <3>1
  <2>3. k = n /\ n = BestLimit
    <3>1. ASSUME k + 1 <= m PROVE FALSE
      <4>1. k + 1 \in 1..m /\ k + 1 > 1 /\ (k + 1) - 1 = k
        BY <2>1, <3>1
      <4>2. k + 1 <= n => l[k + 1] \in Nat /\ l[k + 1] < d
        <5> SUFFICES ASSUME k + 1 <= n PROVE l[k + 1] \in Nat /\ l[k + 1] < d
          OBVIOUS
        <5>1. k + 1 \in 1..n /\ k < k + 1
          BY <1>2, <2>1
        <5>2. l[k] > l[k + 1] /\ l[k + 1] \in Nat
          BY <1>3, <1>5, <5>1
        <5> QED
          BY <1>6, <2>1, <2>2, <5>2
      <4>3. R[k + 1] = l[k]
        BY <1>4, <1>6, <2>1, <2>2, <4>1, <4>2
      <4> QED
        BY <1>7, <4>1, <4>3
    <3>2. k + 1 > m
      BY <1>2, <2>1, <3>1
    <3> QED
      BY <1>1, <1>2, <2>1, <3>2
  <2>4. ASSUME NEW i \in 1..m PROVE R[i] > l[k]
    <3>1. m = n
      BY <1>1, <2>3
    <3>2. i \in 1..n /\ (i > 1 => i - 1 \in 1..n /\ i - 1 < n /\ i - 1 \in 1..n)
      BY <1>2, <3>1
    <3>3. i > 1 => l[i - 1] > l[n]
      BY <1>2, <1>5, <2>3, <3>2
    <3>4. l[i] \in Nat /\ l[n] \in Nat /\ l[n] < d
      BY <1>3, <2>2, <2>3, <3>2
    <3> QED
      BY <1>4, <1>6, <2>3, <3>2, <3>3, <3>4
  <2> QED
    BY <1>1, <1>7, <2>3, <2>4
<1>14. n = BestLimit => m = BestLimit
  BY <1>1, <1>2, <1>6
<1> QED
  BY <1>1, <1>2, <1>10, <1>11, <1>12, <1>13, <1>14 DEF l

LEMMA BestFacts ==
    ASSUME BestInv
    PROVE  /\ BestTypes /\ AllRanked /\ BestOfListed /\ NotListedYet /\ OneWriter
           /\ bestShares \in Seq(Ranks) /\ bestTable \in Seq(Ranks) /\ bestQueue \in Seq(Ranks)
           /\ writers \subseteq [by : {"worker", "spawned", "retry"}, list : Seq(Ranks)]
BY DEF BestInv, BestTypes, AllRanked, IsRanking

\* A share that is neither listed nor new goes into the list: recordBestShare as a whole
LEMMA InsertKept ==
    ASSUME BestInv, NEW by \in {"worker", "spawned"}, NEW d \in Ranks, Insert(by, d),
           d \notin listed, bestTable' = bestTable, retries' = retries
    PROVE  /\ AllRanked' /\ BestOfListed' /\ OneWriter'
           /\ writers' \subseteq [by : {"worker", "spawned", "retry"}, list : Seq(Ranks)]
           /\ writersCrossed' \in BOOLEAN
           /\ listed' = listed \cup {d}
           /\ \A e : e \notin listed /\ e # d /\ (\A w \in writers : e \notin ToSet(w.list))
                       => \A w \in writers' : e \notin ToSet(w.list)
<1>0. BestTypes /\ AllRanked /\ BestOfListed /\ NotListedYet /\ OneWriter
  BY BestFacts
<1>1. IsRanking(bestShares) /\ d \notin ToSet(bestShares) /\ bestShares \in Seq(Ranks)
  BY <1>0 DEF AllRanked, BestOfListed, IsRanking
<1>2. listed' = listed \cup {d}
  BY DEF Insert
<1>3. CASE Outranked(d) /\ UNCHANGED <<bestShares, writers, writersCrossed>>
  <2>1. PICK n : n = Len(bestShares)
    OBVIOUS
  <2>2. n = BestLimit /\ n \in 1..n /\ d < bestShares[n] /\ d \in Nat
    <3>1. n \in 1..n /\ n = BestLimit /\ d <= bestShares[n]
      BY <1>3, <2>1, BestConstants DEF Outranked, Last
    <3>2. bestShares[n] # d /\ bestShares[n] \in Nat /\ d \in Nat
      BY <1>1, <2>1, <3>1, InToSet, BestConstants
    <3> QED
      BY <3>1, <3>2
  <2>3. \A e \in ToSet(bestShares) : e > d
    <3> SUFFICES ASSUME NEW i \in 1..n PROVE bestShares[i] > d
      BY <1>1, <2>1, InToSet
    <3>1. bestShares[i] \in Nat /\ bestShares[n] \in Nat
      BY <1>1, <2>1, <2>2, InToSet
    <3>2. i = n \/ bestShares[i] > bestShares[n]
      BY <1>1, <2>1, <2>2 DEF IsRanking
    <3> QED
      BY <2>2, <3>1, <3>2
  <2>4. BestOfListed'
    BY <1>0, <1>2, <1>3, <2>1, <2>2, <2>3 DEF BestOfListed
  <2>5. AllRanked' /\ OneWriter'
    BY <1>0, <1>3 DEF AllRanked, OneWriter
  <2> QED
    BY <1>0, <1>2, <1>3, <2>4, <2>5 DEF BestTypes
<1>4. CASE ~Outranked(d) /\ bestShares' = Ranked(d) /\ WriteStarts(by, bestShares')
  <2>1. PICK R : R = Ranked(d)
    OBVIOUS
  <2>2. /\ IsRanking(R) /\ d \in ToSet(R) /\ ToSet(R) \subseteq ToSet(bestShares) \cup {d}
        /\ Len(bestShares) = BestLimit => Len(R) = BestLimit
        /\ \A e \in ToSet(bestShares) \ ToSet(R) :
              Len(R) = BestLimit /\ \A f \in ToSet(R) : f > e
    BY <1>1, <1>4, <2>1, RankedIsBest
  <2>3. bestShares' = R /\ writers' = writers \cup {[by |-> by, list |-> R]}
        /\ writersCrossed' = (writersCrossed \/ writers # {})
    BY <1>4, <2>1 DEF WriteStarts
  <2>4. AllRanked'
    BY <1>0, <2>2, <2>3 DEF AllRanked
  <2>5. BestOfListed'
    <3>1. ToSet(R) \subseteq listed \cup {d}
      BY <1>0, <2>2 DEF BestOfListed
    <3>2. ASSUME NEW e \in (listed \cup {d}) \ ToSet(R)
          PROVE  Len(R) = BestLimit /\ \A f \in ToSet(R) : f > e
      <4>1. CASE e \in ToSet(bestShares)
        BY <2>2, <3>2, <4>1
      <4>2. CASE e \in listed \ ToSet(bestShares)
        <5>1. Len(bestShares) = BestLimit /\ \A f \in ToSet(bestShares) : f > e
          BY <1>0, <4>2 DEF BestOfListed
        <5>2. PICK n : n = Len(bestShares)
          OBVIOUS
        <5>3. n = BestLimit /\ n \in 1..n
          BY <5>1, <5>2, BestConstants
        <5>4. bestShares[n] \in ToSet(bestShares) /\ bestShares[n] \in Nat
          BY <1>1, <5>2, <5>3, InToSet
        <5>5. ~(d <= bestShares[n])
          BY <1>4, <5>2, <5>3 DEF Outranked, Last
        <5>6. e \in Nat /\ d \in Nat
          BY <1>0, <4>2, BestConstants DEF BestTypes
        <5>7. d > e
          BY <5>1, <5>4, <5>5, <5>6
        <5> QED
          BY <2>2, <5>1, <5>7
      <4> QED
        BY <2>2, <4>1, <4>2
    <3> QED
      BY <1>2, <2>3, <3>1, <3>2 DEF BestOfListed
  <2>6. OneWriter'
    <3>1. writersCrossed' <=> (writersCrossed \/ writers # {})
      BY <2>3, Zenon
    <3>2. ~writersCrossed' => writers' = {[by |-> by, list |-> R]}
      BY <2>3, <3>1
    <3>3. PICK v : v = [by |-> by, list |-> R]
      OBVIOUS
    <3>4. v.list = bestShares' /\ (~writersCrossed' => writers' = {v})
      BY <2>3, <3>2, <3>3
    <3> QED
      BY <3>4 DEF OneWriter
  <2>7. writers' \subseteq [by : {"worker", "spawned", "retry"}, list : Seq(Ranks)]
        /\ writersCrossed' \in BOOLEAN
    BY <1>0, <2>2, <2>3 DEF BestTypes, IsRanking
  <2>8. \A e : e \notin listed /\ e # d => e \notin ToSet(R)
    BY <1>0, <2>2 DEF BestOfListed
  <2> QED
    BY <1>2, <2>3, <2>4, <2>5, <2>6, <2>7, <2>8
<1> QED
  BY <1>3, <1>4 DEF Insert

LEMMA TrackBestStep == ASSUME BestInv, NEW d \in Ranks, TrackBest(d) PROVE BestInv'
<1>0. BestTypes /\ AllRanked /\ BestOfListed /\ NotListedYet /\ OneWriter
  BY BestFacts
<1>1. /\ ranking[d] = "new" /\ ranking' \in [Ranks -> {"new", "fits", "spawned", "done"}]
      /\ \A e \in Ranks : ranking'[e] # "done" => ranking[e] # "done"
  BY <1>0 DEF TrackBest, BestTypes
<1>2. UNCHANGED <<bestQueue, bestShares, writers, bestTable, retries, writersCrossed, listed,
                  tableFaults, processStops>>
  BY DEF TrackBest
<1>3. BestTypes' /\ AllRanked' /\ BestOfListed' /\ OneWriter'
  BY <1>0, <1>1, <1>2 DEF BestTypes, AllRanked, BestOfListed, OneWriter
<1>4. NotListedYet'
  BY <1>0, <1>1, <1>2 DEF NotListedYet
<1> QED
  BY <1>3, <1>4 DEF BestInv

LEMMA QueueBestStep == ASSUME BestInv, NEW d \in Ranks, QueueBest(d) PROVE BestInv'
<1>0. BestTypes /\ AllRanked /\ BestOfListed /\ NotListedYet /\ OneWriter
  BY BestFacts
<1>1. ranking[d] = "fits"
      /\ UNCHANGED <<bestShares, writers, bestTable, retries, writersCrossed, listed, tableFaults,
                     processStops>>
  BY DEF QueueBest
<1>2. AllRanked' /\ BestOfListed' /\ OneWriter'
  BY <1>0, <1>1 DEF AllRanked, BestOfListed, OneWriter
<1>3. CASE Len(bestQueue) < BestRoom
  <2>1. bestQueue' = Append(bestQueue, d) /\ ranking' = [ranking EXCEPT ![d] = "done"]
    BY <1>3 DEF QueueBest
  <2>2. PICK q, n : q = bestQueue /\ n = Len(q)
    OBVIOUS
  <2>3. q \in Seq(Ranks) /\ n \in Nat /\ n < BestRoom
    BY <1>0, <1>3, <2>2 DEF BestTypes
  <2>4. Append(q, d) \in Seq(Ranks) /\ Len(Append(q, d)) = n + 1 /\ Append(q, d)[n + 1] = d
        /\ \A i \in 1..n : Append(q, d)[i] = q[i]
    BY <2>2, <2>3, AppendProperties
  <2>5. \A e : e \in ToSet(Append(q, d)) => e = d \/ e \in ToSet(q)
    <3>1. PICK r : r = Append(q, d)
      OBVIOUS
    <3>2. r \in Seq(Ranks) /\ Len(r) = n + 1
      BY <2>4, <3>1
    <3>3. ASSUME NEW i \in 1..(n + 1) PROVE r[i] = d \/ r[i] \in ToSet(q)
      <4>1. i = n + 1 \/ i \in 1..n
        BY <2>3
      <4> QED
        BY <2>2, <2>3, <2>4, <3>1, <4>1, InToSet
    <3>4. \A e : e \in ToSet(r) => \E i \in 1..(n + 1) : r[i] = e
      BY <3>2, InToSet
    <3> QED
      BY <3>1, <3>3, <3>4
  <2>6. n + 1 <= BestRoom /\ \A i \in 1..(n + 1) : i = n + 1 \/ i \in 1..n
    BY <2>3, BestConstants
  <2>7. \A i \in 1..n : q[i] \in ToSet(q) /\ q[i] # d
    BY <1>0, <1>1, <2>2, <2>3, InToSet DEF NotListedYet
  <2>8. BestTypes'
    BY <1>0, <1>1, <2>1, <2>2, <2>4, <2>6 DEF BestTypes
  <2>9. NotListedYet'
    <3>1. \A e \in Ranks : ranking'[e] # "done" => e # d /\ ranking[e] # "done"
      BY <1>0, <2>1 DEF BestTypes
    <3>2. \A e \in Ranks : ranking'[e] # "done" =>
             /\ e \notin listed' /\ e \notin ToSet(bestQueue)' /\ e \notin ToSet(bestTable)'
             /\ \A w \in writers' : e \notin ToSet(w.list)
      BY <1>0, <1>1, <2>1, <2>2, <2>5, <3>1 DEF NotListedYet
    <3>3. d \notin listed /\ \A i \in 1..n : q[i] \notin listed
      BY <1>0, <1>1, <2>2 DEF NotListedYet
    <3>4. \A i, j \in 1..n : i # j => q[i] # q[j]
      BY <1>0, <2>2 DEF NotListedYet
    <3>5. bestQueue' = Append(q, d) /\ Len(bestQueue') = n + 1
      BY <2>1, <2>2, <2>4
    <3>6. \A i, j \in 1..(n + 1) : i # j => bestQueue'[i] # bestQueue'[j]
      BY <2>4, <2>6, <2>7, <3>4, <3>5
    <3>7. \A i \in 1..(n + 1) : bestQueue'[i] \notin listed'
      BY <1>1, <2>4, <2>6, <3>3, <3>5
    <3> QED
      BY <3>2, <3>5, <3>6, <3>7 DEF NotListedYet
  <2> QED
    BY <1>2, <2>8, <2>9 DEF BestInv
<1>4. CASE ~(Len(bestQueue) < BestRoom)
  <2>1. bestQueue' = bestQueue /\ ranking' = [ranking EXCEPT ![d] = "spawned"]
    BY <1>4 DEF QueueBest
  <2>2. \A e \in Ranks : ranking'[e] # "done" => ranking[e] # "done"
    BY <1>0, <1>1, <2>1 DEF BestTypes
  <2>3. BestTypes'
    BY <1>0, <1>1, <2>1 DEF BestTypes
  <2>4. NotListedYet'
    BY <1>0, <1>1, <2>1, <2>2 DEF NotListedYet
  <2> QED
    BY <1>2, <2>3, <2>4 DEF BestInv
<1> QED
  BY <1>3, <1>4

LEMMA InsertQueuedStep == ASSUME BestInv, InsertQueued PROVE BestInv'
<1>0. BestTypes /\ AllRanked /\ BestOfListed /\ NotListedYet /\ OneWriter
  BY BestFacts
<1>1. PICK d, q, n : d = Head(bestQueue) /\ q = bestQueue /\ n = Len(q)
  OBVIOUS
<1>2. q \in Seq(Ranks) /\ q # <<>> /\ bestQueue' = Tail(q) /\ Insert("worker", d)
      /\ UNCHANGED <<ranking, bestTable, retries, tableFaults, processStops>>
  BY <1>0, <1>1 DEF InsertQueued, BestTypes
<1>3. /\ n \in Nat /\ n >= 1 /\ d = q[1] /\ d \in Ranks /\ Tail(q) \in Seq(Ranks) /\ Len(Tail(q)) = n - 1
      /\ \A i \in 1..(n - 1) : Tail(q)[i] = q[i + 1] /\ i + 1 \in 1..n /\ i + 1 # 1
  <2>1. n \in Nat /\ n >= 1
    BY <1>1, <1>2, EmptySeq
  <2>2. d \in Ranks /\ Tail(q) \in Seq(Ranks) /\ Len(Tail(q)) = n - 1
        /\ \A i \in 1..(n - 1) : Tail(q)[i] = q[i + 1]
    BY <1>1, <1>2, HeadTailProperties
  <2>3. d = q[1]
    BY <1>1, <1>2
  <2>4. \A i \in 1..(n - 1) : i + 1 \in 1..n /\ i + 1 # 1
    BY <2>1
  <2> QED
    BY <2>1, <2>2, <2>3, <2>4
<1>4. 1 \in 1..n /\ d \notin listed
  BY <1>0, <1>1, <1>3 DEF NotListedYet
<1>5. /\ AllRanked' /\ BestOfListed' /\ OneWriter'
      /\ writers' \subseteq [by : {"worker", "spawned", "retry"}, list : Seq(Ranks)]
      /\ writersCrossed' \in BOOLEAN /\ listed' = listed \cup {d}
      /\ \A e : e \notin listed /\ e # d /\ (\A w \in writers : e \notin ToSet(w.list))
                  => \A w \in writers' : e \notin ToSet(w.list)
  BY <1>2, <1>3, <1>4, InsertKept
<1>6. BestTypes'
  <2>1. n - 1 <= BestRoom
    BY <1>0, <1>1, <1>3, BestConstants DEF BestTypes
  <2> QED
    BY <1>0, <1>2, <1>3, <1>5, <2>1 DEF BestTypes
<1>7. NotListedYet'
  <2>1. d \in ToSet(q) /\ \A e : e \in ToSet(Tail(q)) => e \in ToSet(q)
    <3>0. Len(q) = n
      BY <1>1
    <3>1. d \in ToSet(q)
      BY <1>2, <1>3, <1>4, <3>0, InToSet
    <3>2. ASSUME NEW i \in 1..(n - 1) PROVE Tail(q)[i] \in ToSet(q)
      BY <1>1, <1>2, <1>3, InToSet
    <3>3. \A e : e \in ToSet(Tail(q)) => \E i \in 1..(n - 1) : Tail(q)[i] = e
      <4>1. PICK t : t = Tail(q)
        OBVIOUS
      <4>2. t \in Seq(Ranks) /\ Len(t) = n - 1
        BY <1>3, <4>1
      <4>3. \A e : e \in ToSet(t) => \E i \in 1..(n - 1) : t[i] = e
        BY <4>2, InToSet
      <4> QED
        BY <4>1, <4>3
    <3> QED
      BY <3>1, <3>2, <3>3
  <2>2. ASSUME NEW e \in Ranks, ranking[e] # "done"
        PROVE  /\ e \notin listed' /\ e \notin ToSet(Tail(q)) /\ e \notin ToSet(bestTable)
               /\ \A w \in writers' : e \notin ToSet(w.list)
    <3>1. e \notin listed /\ e \notin ToSet(q) /\ e \notin ToSet(bestTable)
          /\ \A w \in writers : e \notin ToSet(w.list)
      BY <1>0, <1>1, <2>2 DEF NotListedYet
    <3> QED
      BY <1>5, <2>1, <3>1
  <2>3. /\ \A i, j \in 1..n : i # j => q[i] # q[j]
        /\ \A i \in 1..n : q[i] \notin listed
    BY <1>0, <1>1 DEF NotListedYet
  <2>4. \A i, j \in 1..(n - 1) : i # j => i + 1 # j + 1
    BY <1>3
  <2>5. \A i, j \in 1..(n - 1) : i # j => Tail(q)[i] # Tail(q)[j]
    BY <1>3, <2>3, <2>4
  <2>6. \A i \in 1..(n - 1) : Tail(q)[i] \notin listed /\ Tail(q)[i] # d
    BY <1>3, <1>4, <2>3
  <2> QED
    BY <1>2, <1>3, <1>5, <2>2, <2>5, <2>6 DEF NotListedYet
<1> QED
  BY <1>5, <1>6, <1>7 DEF BestInv

LEMMA InsertSpawnedStep == ASSUME BestInv, NEW d \in Ranks, InsertSpawned(d) PROVE BestInv'
<1>0. BestTypes /\ AllRanked /\ BestOfListed /\ NotListedYet /\ OneWriter
  BY BestFacts
<1>1. ranking[d] = "spawned" /\ ranking' = [ranking EXCEPT ![d] = "done"] /\ Insert("spawned", d)
      /\ UNCHANGED <<bestQueue, bestTable, retries, tableFaults, processStops>>
  BY DEF InsertSpawned
<1>2. d \notin listed /\ d \notin ToSet(bestQueue)
  BY <1>0, <1>1 DEF NotListedYet
<1>3. /\ AllRanked' /\ BestOfListed' /\ OneWriter'
      /\ writers' \subseteq [by : {"worker", "spawned", "retry"}, list : Seq(Ranks)]
      /\ writersCrossed' \in BOOLEAN /\ listed' = listed \cup {d}
      /\ \A e : e \notin listed /\ e # d /\ (\A w \in writers : e \notin ToSet(w.list))
                  => \A w \in writers' : e \notin ToSet(w.list)
  BY <1>1, <1>2, InsertKept
<1>4. BestTypes'
  BY <1>0, <1>1, <1>3 DEF BestTypes
<1>5. NotListedYet'
  <2>1. \A e \in Ranks : ranking'[e] # "done" => e # d /\ ranking[e] # "done"
    BY <1>0, <1>1 DEF BestTypes
  <2>2. \A i \in 1..Len(bestQueue) : bestQueue[i] # d
    BY <1>0, <1>2, InToSet DEF BestTypes
  <2>3. ASSUME NEW e \in Ranks, ranking'[e] # "done"
        PROVE  /\ e \notin listed' /\ e \notin ToSet(bestQueue) /\ e \notin ToSet(bestTable)
               /\ \A w \in writers' : e \notin ToSet(w.list)
    BY <1>0, <1>3, <2>1, <2>3 DEF NotListedYet
  <2>4. /\ \A i, j \in 1..Len(bestQueue) : i # j => bestQueue[i] # bestQueue[j]
        /\ \A i \in 1..Len(bestQueue) : bestQueue[i] \notin listed'
    BY <1>0, <1>3, <2>2 DEF NotListedYet
  <2> QED
    BY <1>1, <2>3, <2>4 DEF NotListedYet
<1> QED
  BY <1>3, <1>4, <1>5 DEF BestInv

LEMMA WriteTableStep ==
    ASSUME BestInv, NEW w \in writers, NEW ok \in BOOLEAN, WriteTable(w, ok) PROVE BestInv'
<1>0. BestTypes /\ AllRanked /\ BestOfListed /\ NotListedYet /\ OneWriter
  BY BestFacts
<1>1. writers' = writers \ {w}
      /\ UNCHANGED <<ranking, bestQueue, bestShares, listed, processStops>>
  BY DEF WriteTable
<1>2. CASE ok
  <2>1. bestTable' = w.list /\ UNCHANGED <<retries, writersCrossed, tableFaults>>
    BY <1>2 DEF WriteTable
  <2>2. BestTypes' /\ AllRanked' /\ BestOfListed'
    BY <1>0, <1>1, <2>1 DEF BestTypes, AllRanked, BestOfListed
  <2>3. NotListedYet'
    BY <1>0, <1>1, <2>1 DEF NotListedYet
  <2>4. OneWriter'
    BY <1>0, <1>1, <2>1 DEF OneWriter
  <2> QED
    BY <2>2, <2>3, <2>4 DEF BestInv
<1>3. CASE ~ok
  <2>1. /\ tableFaults < MaxTableFaults /\ tableFaults' = tableFaults + 1
        /\ retries' = (IF w.by = "retry" THEN retries ELSE retries + 1)
        /\ writersCrossed' = (writersCrossed \/ w.by = "retry") /\ UNCHANGED bestTable
    BY <1>3 DEF WriteTable
  <2>2. tableFaults' \in 0..MaxTableFaults /\ retries' \in 0..tableFaults'
        /\ retries \in Nat /\ writersCrossed' \in BOOLEAN
    BY <1>0, <2>1, BestConstants DEF BestTypes
  <2>3. BestTypes'
    BY <1>0, <1>1, <2>2 DEF BestTypes
  <2>4. AllRanked' /\ BestOfListed'
    BY <1>0, <1>1, <2>1 DEF AllRanked, BestOfListed
  <2>5. NotListedYet'
    BY <1>0, <1>1, <2>1 DEF NotListedYet
  <2>6. OneWriter'
    <3>1. writersCrossed' <=> (writersCrossed \/ w.by = "retry")
      BY <2>1, Zenon
    <3>2. retries + 1 # 0
      BY <2>2
    <3>3. ~writersCrossed' => ~writersCrossed /\ retries' # 0
      BY <2>1, <3>1, <3>2
    <3> QED
      BY <1>0, <1>1, <3>3 DEF OneWriter
  <2> QED
    BY <2>3, <2>4, <2>5, <2>6 DEF BestInv
<1> QED
  BY <1>2, <1>3

LEMMA WriteAgainStep == ASSUME BestInv, WriteAgain PROVE BestInv'
<1>0. BestTypes /\ AllRanked /\ BestOfListed /\ NotListedYet /\ OneWriter
  BY BestFacts
<1>1. /\ retries > 0 /\ retries' = retries - 1
      /\ writers' = writers \cup {[by |-> "retry", list |-> bestShares]}
      /\ writersCrossed' = (writersCrossed \/ writers # {})
      /\ UNCHANGED <<ranking, bestQueue, bestShares, bestTable, listed, tableFaults, processStops>>
  BY DEF WriteAgain, WriteStarts
<1>2. retries' \in 0..tableFaults /\ writersCrossed' \in BOOLEAN /\ bestShares \in Seq(Ranks)
  BY <1>0, <1>1, BestConstants, BestFacts DEF BestTypes
<1>3. BestTypes'
  BY <1>0, <1>1, <1>2 DEF BestTypes
<1>4. AllRanked' /\ BestOfListed' /\ OneWriter'
  <2>1. writersCrossed' <=> (writersCrossed \/ writers # {})
    BY <1>1, Zenon
  <2>2. bestShares' = bestShares /\ bestTable' = bestTable /\ listed' = listed
        /\ writers' = writers \cup {[by |-> "retry", list |-> bestShares]}
    BY <1>1
  <2>3. AllRanked' /\ BestOfListed'
    BY <1>0, <2>2 DEF AllRanked, BestOfListed
  <2>4. ~writersCrossed' => writers' = {[by |-> "retry", list |-> bestShares]}
    BY <2>1, <2>2
  <2>5. PICK v : v = [by |-> "retry", list |-> bestShares]
    OBVIOUS
  <2>6. v.list = bestShares' /\ (~writersCrossed' => writers' = {v})
    BY <2>2, <2>4, <2>5
  <2>7. OneWriter'
    BY <2>6 DEF OneWriter
  <2> QED
    BY <2>3, <2>7
<1>5. NotListedYet'
  <2>1. \A e : e \notin listed => e \notin ToSet(bestShares)
    BY <1>0 DEF BestOfListed
  <2> QED
    BY <1>0, <1>1, <2>1 DEF NotListedYet
<1> QED
  BY <1>3, <1>4, <1>5 DEF BestInv

LEMMA NewProcessStep == ASSUME BestInv, NewProcess PROVE BestInv'
<1>0. BestTypes /\ AllRanked /\ BestOfListed /\ NotListedYet /\ OneWriter
  BY BestFacts
<1>1. /\ processStops < MaxProcessStops /\ processStops' = processStops + 1
      /\ bestShares' = bestTable /\ listed' = ToSet(bestTable)
      /\ bestQueue' = <<>> /\ writers' = {} /\ retries' = 0 /\ writersCrossed' = FALSE
      /\ ranking' = [d \in Ranks |-> IF ranking[d] = "new" THEN "new" ELSE "done"]
      /\ UNCHANGED <<bestTable, tableFaults>>
  BY DEF NewProcess
<1>2. bestTable \in Seq(Ranks) /\ ToSet(bestTable) \subseteq Ranks
  BY BestFacts, InToSet
<1>3. bestQueue' \in Seq(Ranks) /\ Len(bestQueue') = 0 /\ ToSet(bestQueue)' = {}
  BY <1>1 DEF ToSet
<1>4. BestTypes'
  <2>1. processStops' \in 0..MaxProcessStops /\ retries' \in 0..tableFaults /\ Len(bestQueue') <= BestRoom
    BY <1>0, <1>1, <1>3, BestConstants DEF BestTypes
  <2> QED
    BY <1>0, <1>1, <1>2, <1>3, <2>1 DEF BestTypes
<1>5. AllRanked' /\ BestOfListed' /\ OneWriter'
  <2>1. AllRanked'
    BY <1>0, <1>1 DEF AllRanked
  <2>2. BestOfListed'
    BY <1>1 DEF BestOfListed
  <2>3. OneWriter'
    BY <1>1 DEF OneWriter
  <2> QED
    BY <2>1, <2>2, <2>3
<1>6. NotListedYet'
  <2>1. \A d \in Ranks : ranking'[d] # "done" => ranking[d] # "done"
    BY <1>1
  <2> QED
    BY <1>0, <1>1, <1>3, <2>1 DEF NotListedYet
<1> QED
  BY <1>4, <1>5, <1>6 DEF BestInv

LEMMA BestStarts == BestInit => BestInv
<1> SUFFICES ASSUME BestInit PROVE BestInv
  OBVIOUS
<1>1. /\ bestQueue = <<>> /\ bestShares = <<>> /\ bestTable = <<>> /\ writers = {} /\ listed = {}
      /\ retries = 0 /\ writersCrossed = FALSE /\ tableFaults = 0 /\ processStops = 0
      /\ ranking = [d \in Ranks |-> "new"]
  BY DEF BestInit
<1>2. <<>> \in Seq(Ranks) /\ Len(<<>>) = 0 /\ ToSet(<<>>) = {}
  BY DEF ToSet
<1>3. IsRanking(<<>>)
  BY <1>2, BestConstants DEF IsRanking
<1>4. BestTypes
  <2>1. bestQueue \in Seq(Ranks) /\ Len(bestQueue) <= BestRoom
    BY <1>1, <1>2, BestConstants
  <2>2. writersCrossed \in BOOLEAN
    BY <1>1
  <2> QED
    BY <1>1, <2>1, <2>2, BestConstants DEF BestTypes
<1>5. AllRanked /\ BestOfListed /\ OneWriter
  BY <1>1, <1>2, <1>3 DEF AllRanked, BestOfListed, OneWriter
<1>6. NotListedYet
  BY <1>1, <1>2 DEF NotListedYet
<1> QED
  BY <1>4, <1>5, <1>6 DEF BestInv

LEMMA BestKept == BestInv /\ [BestNext]_bestVars => BestInv'
<1> SUFFICES ASSUME BestInv, [BestNext]_bestVars PROVE BestInv'
  OBVIOUS
<1>1. CASE \E d \in Ranks : TrackBest(d) \/ QueueBest(d) \/ InsertSpawned(d)
  BY <1>1, TrackBestStep, QueueBestStep, InsertSpawnedStep
<1>2. CASE InsertQueued \/ WriteAgain \/ NewProcess
  BY <1>2, InsertQueuedStep, WriteAgainStep, NewProcessStep
<1>3. CASE \E w \in writers, ok \in BOOLEAN : WriteTable(w, ok)
  BY <1>3, WriteTableStep
<1>4. CASE UNCHANGED bestVars
  BY <1>4 DEF bestVars, BestInv, BestTypes, AllRanked, BestOfListed, NotListedYet, OneWriter
<1> QED
  BY <1>1, <1>2, <1>3, <1>4 DEF BestNext

LEMMA BestInvariant == BestSpec => []BestInv
BY BestStarts, BestKept, PTL DEF BestSpec

(* For any shares, limit and queue, the list is in order and holds the best *)
(* of the shares it was given, and the table follows it until two writers   *)
(* cross.                                                                   *)
THEOREM BestSharesHold == BestSpec => []BestSharesKept
<1>1. BestInv => BestSharesKept
  <2> SUFFICES ASSUME BestInv PROVE BestSharesKept
    OBVIOUS
  <2>1. AllRanked /\ BestOfListed /\ OneWriter /\ DOMAIN bestShares = 1..Len(bestShares)
    BY BestFacts, InToSet
  <2> QED
    BY <2>1 DEF AllRanked, IsRanking, BestOfListed, OneWriter, BestSharesKept
<1> QED
  BY <1>1, BestInvariant, PTL

\* A ranking is a list of at most BestLimit different shares.
LEMMA RankingsAreLists == ASSUME NEW l, IsRanking(l) PROVE l \in Lists
<1>1. PICK n : n = Len(l)
  OBVIOUS
<1>2. n \in Nat /\ n <= BestLimit /\ l \in [1..n -> Ranks] /\ n \in 0..BestLimit
  BY <1>1, BestConstants, LenProperties DEF IsRanking
<1>3. l \in BoundedSeq(Ranks, BestLimit)
  BY <1>2 DEF BoundedSeq, SeqOf
<1>4. IsInjective(l)
  <2> SUFFICES ASSUME NEW i \in 1..n, NEW j \in 1..n, l[i] = l[j] PROVE i = j
    BY <1>2 DEF IsInjective
  <2>1. l[i] \in Nat /\ l[j] \in Nat /\ (i < j => l[i] > l[j]) /\ (j < i => l[j] > l[i])
    BY <1>1, <1>2, BestConstants DEF IsRanking
  <2> QED
    BY <1>2, <2>1
<1> QED
  BY <1>3, <1>4 DEF Lists

\* The best shares, the table and its pending writes keep their types (metrics.go).
THEOREM BestTypesCorrect == BestSpec => []BestTypeOK
<1>1. BestInv => BestTypeOK
  <2> SUFFICES ASSUME BestInv PROVE BestTypeOK
    OBVIOUS
  <2>1. BestTypes /\ AllRanked
    BY BestFacts
  <2>2. bestShares \in Lists /\ bestTable \in Lists
    BY <2>1, RankingsAreLists DEF AllRanked
  <2>3. writers \subseteq [by : {"worker", "spawned", "retry"}, list : Lists]
    <3> SUFFICES ASSUME NEW w \in writers
                 PROVE  w \in [by : {"worker", "spawned", "retry"}, list : Lists]
      OBVIOUS
    <3>1. w.list \in Lists
      BY <2>1, RankingsAreLists DEF AllRanked
    <3>2. w \in [by : {"worker", "spawned", "retry"}, list : Seq(Ranks)]
      BY <2>1 DEF BestTypes
    <3> QED
      BY <3>1, <3>2
  <2>4. retries \in 0..MaxTableFaults /\ tableFaults \in 0..MaxTableFaults
    BY <2>1, BestConstants DEF BestTypes
  <2> QED
    BY <2>1, <2>2, <2>3, <2>4 DEF BestTypes, BestTypeOK
<1> QED
  BY <1>1, BestInvariant, PTL

HIDE BestSharesAssumption

-----------------------------------------------------------------------------
(* FoundBlockLog *)

USE AuditAssumption

AuditTypes ==
    /\ found \in Nat /\ poolTasks \in Nat
    /\ logging \in [Submitters -> Nat]
    /\ auditQueue \in Seq(Nat) /\ writing \in Int
    /\ stopping \in ShutdownSteps

Entries(q) == {q[i] : i \in 1 .. Len(q)}
Repeats(q) == \E i, j \in 1 .. Len(q) : i # j /\ q[i] = q[j]

\* Where a block is between its acceptance and its row.
ToLog == {logging[s] : s \in Submitters} \ {0}
Queued == Entries(auditQueue) \ {Barrier}
InHand == {writing} \ {Barrier, -1}

\* Every accepted block is in exactly one place.
OnePlace ==
    /\ 1 .. found = ToLog \cup Queued \cup InHand \cup written \cup skipped
    /\ ToLog \cap (Queued \cup InHand \cup written \cup skipped) = {}
    /\ Queued \cap (InHand \cup written \cup skipped) = {}
    /\ InHand \cap (written \cup skipped) = {}
    /\ written \cap skipped = {}
    /\ \A s, t \in Submitters : logging[s] = logging[t] /\ logging[s] # 0 => s = t
    /\ ~Repeats(auditQueue)

\* The stages of the stop: first no handler has a block, then no worker has
\* one, then the barrier is the last entry, then nothing is left.
Quiet ==
    /\ stopping = "draining pool" => \A h \in Handlers : logging[h] = 0
    /\ stopping \in {"sending barrier", "waiting barrier", "closed"} =>
          poolTasks = 0 /\ \A s \in Submitters : logging[s] = 0
    /\ stopping # "waiting barrier" =>
          Barrier \notin Entries(auditQueue) /\ writing # Barrier
    /\ stopping = "waiting barrier" =>
          \/ writing = Barrier /\ auditQueue = <<>>
          \/ /\ writing # Barrier
             /\ auditQueue # <<>> /\ auditQueue[Len(auditQueue)] = Barrier
    /\ stopping = "closed" => auditQueue = <<>> /\ writing = -1

AuditInv == AuditTypes /\ OnePlace /\ Quiet

----------------------------------------------------------------------------
(* The queue as a set.                                                     *)
LEMMA EntriesAppend ==
    ASSUME NEW q \in Seq(Nat), NEW n \in Nat
    PROVE  /\ Append(q, n) \in Seq(Nat)
           /\ Entries(Append(q, n)) = Entries(q) \cup {n}
           /\ Append(q, n) # <<>> /\ Append(q, n)[Len(Append(q, n))] = n
           /\ ~Repeats(q) /\ n \notin Entries(q) => ~Repeats(Append(q, n))
<1>1. /\ Append(q, n) \in Seq(Nat) /\ Len(Append(q, n)) = Len(q) + 1 /\ Len(q) \in Nat
      /\ Append(q, n)[Len(q) + 1] = n
      /\ \A i \in 1 .. Len(q) : Append(q, n)[i] = q[i]
  BY AppendProperties, LenProperties
<1>2. Entries(Append(q, n)) = Entries(q) \cup {n}
  BY <1>1 DEF Entries
<1>3. ~Repeats(q) /\ n \notin Entries(q) => ~Repeats(Append(q, n))
  BY <1>1 DEF Entries, Repeats
<1> QED
  BY <1>1, <1>2, <1>3

LEMMA EntriesTail ==
    ASSUME NEW q \in Seq(Nat), q # <<>>, ~Repeats(q)
    PROVE  /\ Tail(q) \in Seq(Nat) /\ ~Repeats(Tail(q))
           /\ Head(q) \in Entries(q) /\ Head(q) \in Nat
           /\ Entries(Tail(q)) = Entries(q) \ {Head(q)}
           /\ Tail(q) # <<>> => Tail(q)[Len(Tail(q))] = q[Len(q)]
           /\ Tail(q) = <<>> => Head(q) = q[Len(q)]
<1>1. /\ Tail(q) \in Seq(Nat) /\ Len(q) \in Nat \ {0} /\ Len(Tail(q)) = Len(q) - 1
      /\ Head(q) = q[1] /\ Head(q) \in Nat
      /\ \A i \in 1 .. Len(Tail(q)) : Tail(q)[i] = q[i + 1]
  BY HeadTailProperties, LenProperties, EmptySeq
<1>2. Entries(Tail(q)) = Entries(q) \ {Head(q)}
  <2>1. ASSUME NEW e \in Entries(q), e # Head(q) PROVE e \in Entries(Tail(q))
    <3>1. PICK i \in 1 .. Len(q) : e = q[i]
      BY <2>1 DEF Entries
    <3>2. i # 1 /\ i - 1 \in 1 .. Len(Tail(q)) /\ Tail(q)[i - 1] = q[i]
      BY <1>1, <2>1, <3>1
    <3> QED
      BY <3>1, <3>2 DEF Entries
  <2>2. ASSUME NEW e \in Entries(Tail(q)) PROVE e \in Entries(q) /\ e # Head(q)
    <3>1. PICK i \in 1 .. Len(Tail(q)) : e = Tail(q)[i]
      BY <2>2 DEF Entries
    <3>2. i + 1 \in 1 .. Len(q) /\ e = q[i + 1] /\ 1 \in 1 .. Len(q) /\ i + 1 # 1
      BY <1>1, <3>1
    <3> QED
      BY <1>1, <3>2 DEF Entries, Repeats
  <2> QED
    BY <2>1, <2>2
<1>3. ~Repeats(Tail(q))
  BY <1>1 DEF Repeats
<1>4. Tail(q) # <<>> => Tail(q)[Len(Tail(q))] = q[Len(q)]
  BY <1>1, EmptySeq
<1>5. Tail(q) = <<>> => Head(q) = q[Len(q)]
  <2>1. Tail(q) = <<>> => Len(Tail(q)) = 0
    BY <1>1, EmptySeq
  <2> QED
    BY <1>1, <2>1
<1>6. Head(q) \in Entries(q)
  BY <1>1 DEF Entries
<1> QED
  BY <1>1, <1>2, <1>3, <1>4, <1>5, <1>6

LEMMA EntriesEmpty == Entries(<<>>) = {} /\ ~Repeats(<<>>) /\ <<>> \in Seq(Nat)
BY EmptySeq DEF Entries, Repeats

----------------------------------------------------------------------------
LEMMA AuditStarts == AuditInit => AuditInv
<1> SUFFICES ASSUME AuditInit PROVE AuditInv
  OBVIOUS
<1>1. AuditTypes
  BY EntriesEmpty DEF AuditInit, AuditTypes, ShutdownSteps
<1>2. ToLog = {} /\ Queued = {} /\ InHand = {} /\ 1 .. found = {}
  BY EntriesEmpty DEF AuditInit, ToLog, Queued, InHand, Barrier
<1>3. OnePlace
  BY <1>2, EntriesEmpty DEF AuditInit, OnePlace
<1>4. Quiet
  BY EntriesEmpty DEF AuditInit, Quiet, Barrier
<1> QED
  BY <1>1, <1>3, <1>4 DEF AuditInv

\* A new block is in the hands of the submitter that found it.
LEMMA FindStep ==
    ASSUME AuditInv, NEW s \in Submitters, logging[s] = 0,
           found' = found + 1, logging' = [logging EXCEPT ![s] = found + 1],
           UNCHANGED <<auditQueue, writing, written, skipped>>
    PROVE  OnePlace'
<1>1. found \in Nat /\ logging \in [Submitters -> Nat]
  BY DEF AuditInv, AuditTypes
<1>2. OnePlace
  BY DEF AuditInv
<1>3. 1 .. found' = (1 .. found) \cup {found + 1} /\ found + 1 \notin 1 .. found
  BY <1>1
<1>4. ToLog' = ToLog \cup {found + 1}
  BY <1>1 DEF ToLog
<1>5. Queued' = Queued /\ InHand' = InHand /\ Repeats(auditQueue)' = Repeats(auditQueue)
  BY DEF Queued, InHand, Repeats, Entries
<1>6. \A t \in Submitters : logging[t] # found + 1
  BY <1>1, <1>2, <1>3 DEF OnePlace, ToLog
<1>7. \A t, u \in Submitters : logging'[t] = logging'[u] /\ logging'[t] # 0 => t = u
  BY <1>1, <1>2, <1>6 DEF OnePlace
<1> QED
  BY <1>2, <1>3, <1>4, <1>5, <1>7 DEF OnePlace

LEMMA HandlerFindsStep == ASSUME AuditInv, HandlerFinds PROVE AuditInv'
<1>1. PICK h \in Handlers :
        /\ HandlersServe /\ logging[h] = 0
        /\ found' = found + 1 /\ logging' = [logging EXCEPT ![h] = found + 1]
        /\ UNCHANGED <<auditQueue, writing, written, skipped, poolTasks, stopping>>
  BY DEF HandlerFinds
<1>2. h \in Submitters
  BY DEF Submitters
<1>3. OnePlace'
  BY <1>1, <1>2, FindStep
<1>4. AuditTypes'
  BY <1>1, <1>2 DEF AuditInv, AuditTypes
<1>5. Quiet'
  BY <1>1 DEF AuditInv, Quiet, HandlersServe, Entries
<1> QED
  BY <1>3, <1>4, <1>5 DEF AuditInv

LEMMA WorkerStep == ASSUME AuditInv, WorkerFinds PROVE AuditInv'
<1>1. PICK w \in PoolWorkers :
        /\ logging[w] = 0 /\ poolTasks > 0 /\ poolTasks' = poolTasks - 1
        /\ found' = found + 1 /\ logging' = [logging EXCEPT ![w] = found + 1]
        /\ UNCHANGED <<auditQueue, writing, written, skipped, stopping>>
  BY DEF WorkerFinds
<1>2. w \in Submitters /\ w \notin Handlers
  BY DEF Submitters
<1>3. OnePlace'
  BY <1>1, <1>2, FindStep
<1>4. AuditTypes'
  BY <1>1, <1>2 DEF AuditInv, AuditTypes
<1>5. stopping \notin {"sending barrier", "waiting barrier", "closed"}
  <2>1. poolTasks # 0
    BY <1>1
  <2> QED
    BY <2>1 DEF AuditInv, Quiet
<1>6. \A h \in Handlers : logging'[h] = logging[h]
  BY <1>1, <1>2 DEF AuditInv, AuditTypes, Submitters
<1>7. Quiet'
  BY <1>1, <1>5, <1>6 DEF AuditInv, Quiet, Entries
<1> QED
  BY <1>3, <1>4, <1>7 DEF AuditInv

LEMMA HandOverStep == ASSUME AuditInv, HandOver PROVE AuditInv'
<1>1. /\ HandlersServe /\ poolTasks' = poolTasks + 1
      /\ UNCHANGED <<found, logging, auditQueue, writing, written, skipped, stopping>>
  BY DEF HandOver
<1>2. AuditTypes'
  BY <1>1 DEF AuditInv, AuditTypes
<1>3. OnePlace'
  BY <1>1 DEF AuditInv, OnePlace, ToLog, Queued, InHand, Entries, Repeats
<1>4. Quiet'
  BY <1>1 DEF AuditInv, Quiet, HandlersServe, Entries
<1> QED
  BY <1>2, <1>3, <1>4 DEF AuditInv

\* The entry leaves its submitter for the queue, or is dropped.
LEMMA LogStep ==
    ASSUME AuditInv, NEW s \in Submitters, LogFoundBlock(s)
    PROVE  AuditInv'
<1>1. /\ logging[s] # 0 /\ logging' = [logging EXCEPT ![s] = 0]
      /\ UNCHANGED <<found, writing, written, poolTasks, stopping>>
      /\ \/ auditQueue' = Append(auditQueue, logging[s]) /\ skipped' = skipped
         \/ skipped' = skipped \cup {logging[s]} /\ auditQueue' = auditQueue
  BY DEF LogFoundBlock
<1>2. /\ AuditTypes /\ OnePlace /\ logging[s] \in Nat /\ auditQueue \in Seq(Nat)
      /\ logging[s] \in ToLog
  BY <1>1 DEF AuditInv, AuditTypes, ToLog
<1>3. ToLog' = ToLog \ {logging[s]}
  BY <1>1, <1>2 DEF AuditTypes, OnePlace, ToLog
<1>4. \A t, u \in Submitters : logging'[t] = logging'[u] /\ logging'[t] # 0 => t = u
  BY <1>1, <1>2 DEF AuditTypes, OnePlace
<1>5. InHand' = InHand /\ stopping \notin {"sending barrier", "waiting barrier", "closed"}
  BY <1>1 DEF AuditInv, Quiet, InHand
<1>6. \A t \in Submitters : logging[t] = 0 => logging'[t] = 0
  BY <1>1, <1>2 DEF AuditTypes
<1>7. logging[s] \notin Entries(auditQueue) /\ logging[s] # Barrier
  BY <1>1, <1>2 DEF OnePlace, Queued, Barrier
<1>8. CASE auditQueue' = Append(auditQueue, logging[s]) /\ skipped' = skipped
  <2>1. /\ auditQueue' \in Seq(Nat) /\ ~Repeats(auditQueue)'
        /\ Entries(auditQueue)' = Entries(auditQueue) \cup {logging[s]}
        /\ Queued' = Queued \cup {logging[s]}
    BY <1>2, <1>7, <1>8, EntriesAppend DEF OnePlace, Queued, Repeats, Entries
  <2>2. AuditTypes'
    BY <1>1, <1>2, <2>1 DEF AuditTypes
  <2>3. OnePlace'
    <3>1. 1 .. found' = ToLog' \cup Queued' \cup InHand' \cup written' \cup skipped'
      BY <1>1, <1>2, <1>3, <1>5, <1>8, <2>1, ZenonT(60) DEF OnePlace
    <3>2. ToLog' \cap (Queued' \cup InHand' \cup written' \cup skipped') = {}
      BY <1>1, <1>2, <1>3, <1>5, <1>8, <2>1 DEF OnePlace
    <3>3. logging[s] \notin Queued \cup InHand \cup written \cup skipped
      BY <1>2 DEF OnePlace
    <3>5. Queued' \cap (InHand' \cup written' \cup skipped') = {}
      BY <1>1, <1>2, <1>5, <1>8, <2>1, <3>3, ZenonT(60) DEF OnePlace
    <3>6. InHand' \cap (written' \cup skipped') = {}
      BY <1>1, <1>2, <1>5, <1>8, <3>3 DEF OnePlace
    <3>4. written' \cap skipped' = {}
      BY <1>1, <1>2, <1>8 DEF OnePlace
    <3> QED
      BY <1>2, <1>4, <1>8, <2>1, <3>1, <3>2, <3>4, <3>5, <3>6 DEF OnePlace
  <2>4. Quiet'
    BY <1>1, <1>5, <1>6, <1>7, <2>1 DEF AuditInv, Quiet, Submitters
  <2> QED
    BY <2>2, <2>3, <2>4 DEF AuditInv
<1>9. CASE skipped' = skipped \cup {logging[s]} /\ auditQueue' = auditQueue
  <2>1. Queued' = Queued /\ Repeats(auditQueue)' = Repeats(auditQueue)
    BY <1>9 DEF Queued, Repeats, Entries
  <2>2. AuditTypes'
    BY <1>1, <1>2, <1>9 DEF AuditTypes
  <2>3. OnePlace'
    <3>1. 1 .. found' = ToLog' \cup Queued' \cup InHand' \cup written' \cup skipped'
      BY <1>1, <1>2, <1>3, <1>5, <1>9, <2>1 DEF OnePlace
    <3>2. ToLog' \cap (Queued' \cup InHand' \cup written' \cup skipped') = {}
      BY <1>1, <1>2, <1>3, <1>5, <1>9, <2>1 DEF OnePlace
    <3>3. logging[s] \notin Queued \cup InHand \cup written \cup skipped
      BY <1>2 DEF OnePlace
    <3>5. Queued' \cap (InHand' \cup written' \cup skipped') = {}
      BY <1>1, <1>2, <1>5, <1>9, <2>1, <3>3, ZenonT(60) DEF OnePlace
    <3>6. InHand' \cap (written' \cup skipped') = {}
      BY <1>1, <1>2, <1>5, <1>9, <3>3, ZenonT(60) DEF OnePlace
    <3>4. written' \cap skipped' = {}
      BY <1>1, <1>2, <1>9 DEF OnePlace
    <3> QED
      BY <1>2, <1>4, <1>9, <2>1, <3>1, <3>2, <3>4, <3>5, <3>6 DEF OnePlace
  <2>4. Quiet'
    BY <1>1, <1>5, <1>6, <1>9 DEF AuditInv, Quiet, Submitters, Entries
  <2> QED
    BY <2>2, <2>3, <2>4 DEF AuditInv
<1> QED
  BY <1>1, <1>8, <1>9

LEMMA TakeStep == ASSUME AuditInv, TakeEntry PROVE AuditInv'
<1>1. /\ writing = -1 /\ auditQueue # <<>>
      /\ writing' = Head(auditQueue) /\ auditQueue' = Tail(auditQueue)
      /\ UNCHANGED <<found, logging, written, skipped, poolTasks, stopping>>
  BY DEF TakeEntry
<1>2. AuditTypes /\ OnePlace /\ auditQueue \in Seq(Nat) /\ ~Repeats(auditQueue)
  BY DEF AuditInv, AuditTypes, OnePlace
<1>3. /\ auditQueue' \in Seq(Nat) /\ ~Repeats(auditQueue') /\ writing' \in Nat
      /\ writing' \in Entries(auditQueue)
      /\ Entries(auditQueue') = Entries(auditQueue) \ {writing'}
      /\ auditQueue' # <<>> =>
            auditQueue'[Len(auditQueue')] = auditQueue[Len(auditQueue)]
      /\ auditQueue' = <<>> => writing' = auditQueue[Len(auditQueue)]
  BY <1>1, <1>2, EntriesTail
<1>4. Entries(auditQueue)' = Entries(auditQueue') /\ Repeats(auditQueue)' = Repeats(auditQueue')
  BY DEF Entries, Repeats
<1>5. Queued' = Queued \ {writing'} /\ InHand = {} /\ ToLog' = ToLog
  BY <1>1, <1>3, <1>4 DEF Queued, InHand, ToLog, Barrier
<1>6. InHand' = IF writing' = Barrier THEN {} ELSE {writing'}
  BY <1>3 DEF InHand, Barrier
<1>7. writing' # Barrier => writing' \in Queued
  BY <1>3 DEF Queued
<1>8. writing' = Barrier => Queued' = Queued
  BY <1>5 DEF Queued
<1>9. OnePlace'
  BY <1>1, <1>2, <1>3, <1>4, <1>5, <1>6, <1>7, <1>8 DEF OnePlace
<1>10. AuditTypes'
  BY <1>1, <1>2, <1>3 DEF AuditTypes
<1>11. stopping = "waiting barrier" =>
          auditQueue[Len(auditQueue)] = Barrier
  BY <1>1 DEF AuditInv, Quiet
<1>12. auditQueue' # <<>> => auditQueue'[Len(auditQueue')] \in Entries(auditQueue')
  BY <1>3, EmptySeq, LenProperties DEF Entries
<1>13. Quiet'
  BY <1>1, <1>3, <1>4, <1>11, <1>12 DEF AuditInv, Quiet
<1> QED
  BY <1>9, <1>10, <1>13 DEF AuditInv

LEMMA InsertStep == ASSUME AuditInv, InsertEntry PROVE AuditInv'
<1>1. /\ writing > 0 /\ stopping # "closed" /\ writing' = -1
      /\ UNCHANGED <<found, logging, auditQueue, poolTasks, stopping>>
      /\ \/ written' = written \cup {writing} /\ skipped' = skipped
         \/ skipped' = skipped \cup {writing} /\ written' = written
  BY DEF InsertEntry
<1>2. AuditTypes /\ OnePlace /\ Quiet
  BY DEF AuditInv
<1>3. /\ InHand = {writing} /\ InHand' = {} /\ ToLog' = ToLog
      /\ Queued' = Queued /\ Repeats(auditQueue)' = Repeats(auditQueue)
  BY <1>1, <1>2 DEF AuditTypes, InHand, ToLog, Queued, Repeats, Entries, Barrier
<1>4. OnePlace'
  BY <1>1, <1>2, <1>3 DEF OnePlace
<1>5. AuditTypes'
  BY <1>1, <1>2 DEF AuditTypes
<1>6. writing # Barrier /\ writing' # Barrier
  BY <1>1, <1>2 DEF AuditTypes, Barrier
<1>7. Quiet'
  BY <1>1, <1>2, <1>6 DEF Quiet, Entries
<1> QED
  BY <1>4, <1>5, <1>7 DEF AuditInv

LEMMA PassStep == ASSUME AuditInv, PassBarrier PROVE AuditInv'
<1>1. /\ writing = Barrier /\ stopping = "waiting barrier"
      /\ writing' = -1 /\ stopping' = "closed"
      /\ UNCHANGED <<found, logging, auditQueue, written, skipped, poolTasks>>
  BY DEF PassBarrier
<1>2. AuditTypes /\ OnePlace /\ Quiet
  BY DEF AuditInv
<1>3. /\ InHand = {} /\ InHand' = {} /\ ToLog' = ToLog
      /\ Queued' = Queued /\ Repeats(auditQueue)' = Repeats(auditQueue)
  BY <1>1 DEF InHand, ToLog, Queued, Repeats, Entries
<1>4. OnePlace'
  BY <1>1, <1>2, <1>3 DEF OnePlace
<1>5. AuditTypes'
  <2>1. stopping' \in ShutdownSteps
    BY <1>1 DEF ShutdownSteps
  <2>2. writing' \in Int
    <3>1. writing' = -1
      BY <1>1
    <3> QED
      BY ONLY <3>1
  <2> QED
    BY <1>1, <1>2, <2>1, <2>2 DEF AuditTypes
<1>6. auditQueue = <<>> /\ poolTasks = 0 /\ \A s \in Submitters : logging[s] = 0
  BY <1>1, <1>2 DEF Quiet
<1>7. Entries(auditQueue)' = {}
  BY <1>1, <1>6, EntriesEmpty DEF Entries
<1>8. Quiet'
  <2>1. auditQueue' = <<>> /\ poolTasks' = 0 /\ \A s \in Submitters : logging'[s] = 0
    BY <1>1, <1>6
  <2>2. writing' # Barrier
    <3>1. writing' = -1
      BY <1>1
    <3> QED
      BY ONLY <3>1 DEF Barrier
  <2> QED
    BY <1>1, <1>7, <2>1, <2>2 DEF Quiet
<1> QED
  BY <1>4, <1>5, <1>8 DEF AuditInv

\* The steps of main leave every block where it is.
LEMMA MainStep ==
    ASSUME AuditInv, BeginShutdown \/ HandlersDone \/ PoolDrained
    PROVE  AuditInv'
<1>1. UNCHANGED <<found, logging, auditQueue, writing, written, skipped, poolTasks>>
  BY DEF BeginShutdown, HandlersDone, PoolDrained
<1>2. AuditTypes /\ OnePlace /\ Quiet
  BY DEF AuditInv
<1>3. OnePlace'
  BY <1>1, <1>2 DEF OnePlace, ToLog, Queued, InHand, Entries, Repeats
<1>4. AuditTypes'
  BY <1>1, <1>2 DEF AuditTypes, ShutdownSteps, BeginShutdown, HandlersDone, PoolDrained
<1>5. Quiet'
  <2>1. CASE BeginShutdown
    BY <1>1, <1>2, <2>1 DEF BeginShutdown, Quiet, Entries
  <2>2. CASE HandlersDone
    BY <1>1, <1>2, <2>2 DEF HandlersDone, Quiet, Entries
  <2>3. CASE PoolDrained
    <3>1. \A s \in Submitters : logging[s] = 0
      BY <1>2, <2>3 DEF PoolDrained, Quiet, Submitters
    <3> QED
      BY <1>1, <1>2, <2>3, <3>1 DEF PoolDrained, Quiet, Entries
  <2> QED
    BY <2>1, <2>2, <2>3
<1> QED
  BY <1>3, <1>4, <1>5 DEF AuditInv

LEMMA BarrierStep == ASSUME AuditInv, SendBarrier PROVE AuditInv'
<1>1. /\ stopping = "sending barrier" /\ stopping' = "waiting barrier"
      /\ auditQueue' = Append(auditQueue, Barrier)
      /\ UNCHANGED <<found, logging, writing, written, skipped, poolTasks>>
  BY DEF SendBarrier
<1>2. AuditTypes /\ OnePlace /\ Quiet /\ auditQueue \in Seq(Nat) /\ Barrier \in Nat
  BY DEF AuditInv, AuditTypes, Barrier
<1>3. Barrier \notin Entries(auditQueue) /\ writing # Barrier
  BY <1>1, <1>2 DEF Quiet
<1>4. /\ auditQueue' \in Seq(Nat) /\ ~Repeats(auditQueue')
      /\ Entries(auditQueue') = Entries(auditQueue) \cup {Barrier}
      /\ auditQueue' # <<>> /\ auditQueue'[Len(auditQueue')] = Barrier
  BY <1>1, <1>2, <1>3, EntriesAppend DEF OnePlace
<1>5. /\ Queued' = Queued /\ ToLog' = ToLog /\ InHand' = InHand
      /\ Repeats(auditQueue)' = Repeats(auditQueue')
  <2>1. Entries(auditQueue)' = Entries(auditQueue')
    BY DEF Entries
  <2>2. Queued' = Queued
    BY <1>4, <2>1 DEF Queued
  <2>3. ToLog' = ToLog /\ InHand' = InHand
    BY <1>1 DEF ToLog, InHand
  <2>4. Repeats(auditQueue)' = Repeats(auditQueue')
    BY DEF Repeats
  <2> QED
    BY <2>2, <2>3, <2>4
<1>6. OnePlace'
  BY <1>1, <1>2, <1>4, <1>5 DEF OnePlace
<1>7. AuditTypes'
  BY <1>1, <1>2, <1>4 DEF AuditTypes, ShutdownSteps
<1>8. Quiet'
  BY <1>1, <1>2, <1>3, <1>4 DEF Quiet
<1> QED
  BY <1>6, <1>7, <1>8 DEF AuditInv

----------------------------------------------------------------------------
LEMMA AuditStep == AuditInv /\ [AuditNext]_auditVars => AuditInv'
<1> SUFFICES ASSUME AuditInv, [AuditNext]_auditVars PROVE AuditInv'
  OBVIOUS
<1>1. CASE HandlerFinds \/ HandOver \/ WorkerFinds
  BY <1>1, HandlerFindsStep, HandOverStep, WorkerStep
<1>2. CASE \E s \in Submitters : LogFoundBlock(s)
  BY <1>2, LogStep
<1>3. CASE TakeEntry \/ InsertEntry \/ PassBarrier
  BY <1>3, TakeStep, InsertStep, PassStep
<1>4. CASE BeginShutdown \/ HandlersDone \/ PoolDrained \/ SendBarrier
  BY <1>4, MainStep, BarrierStep
<1>5. CASE UNCHANGED auditVars
  <2>1. AuditTypes' /\ Quiet'
    BY <1>5 DEF auditVars, AuditInv, AuditTypes, Quiet, Entries
  <2>2. /\ ToLog' = ToLog /\ Queued' = Queued /\ InHand' = InHand
        /\ Repeats(auditQueue)' = Repeats(auditQueue)
        /\ logging' = logging /\ UNCHANGED <<found, written, skipped>>
    BY <1>5 DEF auditVars, ToLog, Queued, InHand, Entries, Repeats
  <2>3. OnePlace'
    BY <2>2 DEF AuditInv, OnePlace
  <2> QED
    BY <2>1, <2>3 DEF AuditInv
<1> QED
  BY <1>1, <1>2, <1>3, <1>4, <1>5 DEF AuditNext

LEMMA AuditEnough == AuditInv => AuditComplete
<1> SUFFICES ASSUME AuditInv PROVE AuditComplete
  OBVIOUS
<1>1. written \cap skipped = {}
  BY DEF AuditInv, OnePlace
<1>2. ASSUME stopping = "closed"
      PROVE  written \cup skipped = 1 .. found /\ auditQueue = <<>> /\ writing = -1
  <2>1. /\ auditQueue = <<>> /\ writing = -1
        /\ \A s \in Submitters : logging[s] = 0
    BY <1>2 DEF AuditInv, Quiet
  <2>2. ToLog = {} /\ Queued = {} /\ InHand = {}
    BY <2>1, EntriesEmpty DEF ToLog, Queued, InHand
  <2> QED
    BY <2>1, <2>2 DEF AuditInv, OnePlace
<1> QED
  BY <1>1, <1>2 DEF AuditComplete

(* When main closes the database, every accepted block has its audit row or *)
(* was dropped for a logged reason, and never both: no producer is left when *)
(* drainFoundBlockLogger queues its barrier, and nothing follows the barrier *)
(* (found_block_async.go, main.go 1027-1037).                               *)
THEOREM LogIsComplete == AuditSpec => []AuditComplete
<1>1. AuditInit => AuditInv
  BY AuditStarts
<1>2. AuditInv /\ [AuditNext]_auditVars => AuditInv'
  BY AuditStep
<1>3. AuditInv => AuditComplete
  BY AuditEnough
<1> QED
  BY <1>1, <1>2, <1>3, PTL DEF AuditSpec

\* The bounds of the log
AuditRange ==
    /\ found + poolTasks <= MaxFound /\ writeFaults \in 0 .. MaxWriteFaults
    /\ Len(auditQueue) <= AuditRoom /\ writing >= -1

LEMMA AuditRangeKept == AuditInv /\ AuditRange /\ [AuditNext]_auditVars => AuditRange'
<1> SUFFICES ASSUME AuditInv, AuditRange, [AuditNext]_auditVars PROVE AuditRange'
  OBVIOUS
<1>1. /\ found \in Nat /\ poolTasks \in Nat /\ logging \in [Submitters -> Nat]
      /\ auditQueue \in Seq(Nat) /\ writing \in Int
  BY DEF AuditInv, AuditTypes
<1>2. PICK l : l = Len(auditQueue) /\ l \in Nat /\ l <= AuditRoom /\ AuditRoom \in Nat
  BY <1>1, LenProperties DEF AuditRange
<1>3. CASE HandlerFinds \/ HandOver \/ WorkerFinds
  <2>1. /\ UNCHANGED <<auditQueue, writing, writeFaults>>
        /\ \/ found' = found + 1 /\ poolTasks' = poolTasks /\ found + poolTasks < MaxFound
           \/ found' = found /\ poolTasks' = poolTasks + 1 /\ found + poolTasks < MaxFound
           \/ found' = found + 1 /\ poolTasks' = poolTasks - 1
    BY <1>3 DEF HandlerFinds, HandOver, WorkerFinds
  <2>2. found' + poolTasks' <= MaxFound
    BY <1>1, <2>1 DEF AuditRange
  <2> QED
    BY <2>1, <2>2 DEF AuditRange
<1>4. ASSUME NEW s \in Submitters, LogFoundBlock(s) PROVE AuditRange'
  <2>1. /\ UNCHANGED <<found, poolTasks, writeFaults, writing>>
        /\ \/ auditQueue' = auditQueue
           \/ Len(auditQueue) < AuditRoom /\ auditQueue' = Append(auditQueue, logging[s])
    BY <1>4 DEF LogFoundBlock
  <2>2. logging[s] \in Nat
    BY <1>1
  <2>3. Len(Append(auditQueue, logging[s])) = l + 1
    BY <1>1, <1>2, <2>2, AppendProperties
  <2>4. Len(auditQueue') <= AuditRoom
    BY <1>2, <2>1, <2>3
  <2> QED
    BY <2>1, <2>4 DEF AuditRange
<1>5. CASE TakeEntry
  <2>1. /\ auditQueue # <<>> /\ writing' = Head(auditQueue) /\ auditQueue' = Tail(auditQueue)
        /\ UNCHANGED <<found, poolTasks, writeFaults>>
    BY <1>5 DEF TakeEntry
  <2>2. Head(auditQueue) \in Nat /\ Len(Tail(auditQueue)) = l - 1
    BY <1>1, <1>2, <2>1, HeadTailProperties
  <2>3. Len(auditQueue') <= AuditRoom /\ writing' >= -1
    BY <1>2, <2>1, <2>2
  <2> QED
    BY <2>1, <2>3 DEF AuditRange
<1>6. CASE InsertEntry \/ PassBarrier
  <2>1. /\ UNCHANGED <<found, poolTasks, auditQueue>> /\ writing' = -1
        /\ \/ writeFaults' = writeFaults
           \/ writeFaults < MaxWriteFaults /\ writeFaults' = writeFaults + 1
    BY <1>6 DEF InsertEntry, PassBarrier
  <2>2. writeFaults' \in 0 .. MaxWriteFaults
    BY <2>1 DEF AuditRange
  <2> QED
    BY <2>1, <2>2 DEF AuditRange
<1>7. CASE BeginShutdown \/ HandlersDone \/ PoolDrained \/ UNCHANGED auditVars
  <2>1. UNCHANGED <<found, poolTasks, auditQueue, writing, writeFaults>>
    BY <1>7 DEF BeginShutdown, HandlersDone, PoolDrained, auditVars
  <2> QED
    BY <2>1 DEF AuditRange
<1>8. CASE SendBarrier
  <2>1. /\ Len(auditQueue) < AuditRoom /\ auditQueue' = Append(auditQueue, Barrier)
        /\ UNCHANGED <<found, poolTasks, writeFaults, writing>> /\ Barrier \in Nat
    BY <1>8 DEF SendBarrier, Barrier
  <2>2. Len(Append(auditQueue, Barrier)) = l + 1
    BY <1>1, <1>2, <2>1, AppendProperties
  <2>3. Len(auditQueue') <= AuditRoom
    BY <1>2, <2>1, <2>2
  <2> QED
    BY <2>1, <2>3 DEF AuditRange
<1> QED
  BY <1>3, <1>4, <1>5, <1>6, <1>7, <1>8 DEF AuditNext

(* The queue and the entries under way are numbers of accepted blocks       *)
(* (found_block_async.go).                                                  *)
THEOREM AuditTypesCorrect == AuditSpec => []AuditTypeOK
<1>1. AuditInit => AuditRange
  <2>1. Len(<<>>) = 0
    OBVIOUS
  <2> QED
    BY <2>1 DEF AuditInit, AuditRange
<1>2. AuditInv /\ AuditRange => AuditTypeOK
  <2> SUFFICES ASSUME AuditInv, AuditRange PROVE AuditTypeOK
    OBVIOUS
  <2>1. /\ found \in Nat /\ poolTasks \in Nat /\ logging \in [Submitters -> Nat]
        /\ auditQueue \in Seq(Nat) /\ writing \in Int /\ stopping \in ShutdownSteps
        /\ 1 .. found = ToLog \cup Queued \cup InHand \cup written \cup skipped
    BY DEF AuditInv, AuditTypes, OnePlace
  <2>2. found \in 0 .. MaxFound /\ poolTasks \in 0 .. MaxFound /\ 1 .. found \subseteq 1 .. MaxFound
    BY <2>1 DEF AuditRange
  <2>3. written \subseteq 1 .. MaxFound /\ skipped \subseteq 1 .. MaxFound
    BY <2>1, <2>2
  <2>4. ASSUME NEW s \in Submitters PROVE logging[s] \in 0 .. MaxFound
    <3>1. logging[s] = 0 \/ logging[s] \in 1 .. MaxFound
      BY <2>1, <2>2 DEF ToLog
    <3> QED
      BY <2>2, <3>1
  <2>5. ASSUME NEW i \in 1 .. Len(auditQueue) PROVE auditQueue[i] \in 0 .. MaxFound
    <3>1. auditQueue[i] \in Entries(auditQueue)
      BY DEF Entries
    <3>2. auditQueue[i] = 0 \/ auditQueue[i] \in 1 .. MaxFound
      BY <2>1, <2>2, <3>1 DEF Queued, Barrier
    <3> QED
      BY <2>2, <3>2
  <2>6. auditQueue \in Seq(0 .. MaxFound)
    BY <2>1, <2>5, SeqDef, LenProperties
  <2>7. writing \in -1 .. MaxFound
    <3>1. writing \in {0, -1} \/ writing \in 1 .. MaxFound
      BY <2>1, <2>2 DEF InHand, Barrier
    <3> QED
      BY <2>2, <3>1
  <2>8. logging \in [Submitters -> 0 .. MaxFound]
    BY <2>1, <2>4
  <2> QED
    BY <2>1, <2>2, <2>3, <2>6, <2>7, <2>8 DEF AuditRange, AuditTypeOK
<1> QED
  BY <1>1, <1>2, AuditStarts, AuditStep, AuditRangeKept, PTL DEF AuditSpec

HIDE AuditAssumption
=============================================================================
