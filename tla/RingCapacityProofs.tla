------------------------ MODULE RingCapacityProofs ------------------------
(* Proofs about RingCapacity, for words of 4, 8, 16, 32 and 64 bits: the    *)
(* constructor of the ring rounds the request up to a power of two, and     *)
(* ticket & mask goes through the slots in turn, the overflow of the        *)
(* counters included.                                                       *)
EXTENDS RingCapacity, FiniteSetTheorems, WellFoundedInduction, TLAPS

---------------------------------------------------------------------------
(* Induction over the naturals, by the least number that is left out.      *)

\* Every set of naturals with a member has a least one.
LEMMA LeastNumber ==
  ASSUME NEW T \in SUBSET Nat, T # {}
  PROVE  \E x \in T : \A y \in T : x <= y
<1> DEFINE R == {ss \in Nat \X Nat : ss[1] < ss[2]}
<1>1. IsWellFoundedOn(R, Nat)
  BY NatLessThanWellFounded DEF OpToRel
<1> HIDE DEF R
<1>2. PICK x \in T : \A y \in T : ~ (<<y, x>> \in R)
  BY <1>1, WFMin
<1>3. ASSUME NEW y \in T PROVE x <= y
  <2>1. ~ (<<y, x>> \in R)
    BY <1>2
  <2>2. <<y, x>> \in Nat \X Nat /\ <<y, x>>[1] = y /\ <<y, x>>[2] = x
    OBVIOUS
  <2>3. ~ y < x
    BY <2>1, <2>2 DEF R
  <2> QED
    BY <2>3
<1> QED
  BY <1>3

\* Induction for a set: 0 is in it, and with each number the next.
LEMMA ByInduction ==
  ASSUME NEW S, 0 \in S, \A n \in Nat : n \in S => n + 1 \in S
  PROVE  Nat \subseteq S
<1> SUFFICES ASSUME Nat \ S # {} PROVE FALSE
  OBVIOUS
<1> PICK x \in Nat \ S : \A y \in Nat \ S : x <= y
  BY LeastNumber
<1>1. x # 0 /\ x - 1 \in Nat /\ ~(x <= x - 1)
  OBVIOUS
<1>2. x - 1 \in S
  BY <1>1
<1>3. (x - 1) + 1 = x
  OBVIOUS
<1> QED
  BY <1>1, <1>2, <1>3

---------------------------------------------------------------------------
(* Powers of two.  The provers know them for given exponents only; that    *)
(* each is twice the one before is read off the number of subsets.         *)

\* The powers of two count subsets.
LEMMA Subsets ==
  ASSUME NEW k \in Nat
  PROVE  IsFiniteSet(SUBSET (1 .. k)) /\ Cardinality(SUBSET (1 .. k)) = 2 ^ k
<1>1. IsFiniteSet(1 .. k) /\ Cardinality(1 .. k) = k
  BY FS_Interval
<1> QED
  BY <1>1, FS_SUBSET

\* Powers of two are natural numbers ...
LEMMA PowerIsNat ==
  ASSUME NEW k \in Nat
  PROVE  2 ^ k \in Nat
BY Subsets, FS_CardinalityType

\* A subset of 1 .. k + 1 is one of 1 .. k, or such a one with k + 1.
LEMMA PowerStep ==
  ASSUME NEW k \in Nat
  PROVE  2 ^ (k + 1) = 2 * 2 ^ k
<1> DEFINE A == SUBSET (1 .. k)
           B == {X \cup {k + 1} : X \in A}
           f == [X \in A |-> X \cup {k + 1}]
<1>1. SUBSET (1 .. k + 1) = A \cup B
  <2>1. A \subseteq SUBSET (1 .. k + 1) /\ B \subseteq SUBSET (1 .. k + 1)
    <3>1. 1 .. k \subseteq 1 .. k + 1 /\ k + 1 \in 1 .. k + 1
      OBVIOUS
    <3> QED
      BY <3>1, Zenon
  <2>2. ASSUME NEW Y \in SUBSET (1 .. k + 1)
        PROVE  Y \in A \cup B
    <3>1. CASE k + 1 \in Y
      <4>1. Y \ {k + 1} \in A
        OBVIOUS
      <4>2. Y = (Y \ {k + 1}) \cup {k + 1}
        BY <3>1
      <4> QED
        BY <4>1, <4>2
    <3>2. CASE k + 1 \notin Y
      BY <3>2
    <3> QED
      BY <3>1, <3>2
  <2> QED
    BY <2>1, <2>2
<1>2. A \cap B = {}
  OBVIOUS
<1>3. ExistsBijection(A, B)
  <2>1. f \in [A -> B]
    OBVIOUS
  <2>2. \A X, Y \in A : f[X] = f[Y] => X = Y
    <3> SUFFICES ASSUME NEW X \in A, NEW Y \in A, X \cup {k + 1} = Y \cup {k + 1}
                 PROVE  X = Y
      OBVIOUS
    <3>1. k + 1 \notin X /\ k + 1 \notin Y
      OBVIOUS
    <3> QED
      BY <3>1
  <2>3. \A Y \in B : \E X \in A : f[X] = Y
    OBVIOUS
  <2> HIDE DEF A, B, f
  <2> QED
    BY <2>1, <2>2, <2>3 DEF ExistsBijection, Bijection, Injection, Surjection, IsInjective
<1>4. IsFiniteSet(A) /\ Cardinality(A) = 2 ^ k
  BY Subsets
<1>5. Cardinality(SUBSET (1 .. k + 1)) = 2 ^ (k + 1)
  <2>1. k + 1 \in Nat
    OBVIOUS
  <2> QED
    BY <2>1, Subsets
<1> HIDE DEF A, B
<1>6. IsFiniteSet(B) /\ Cardinality(B) = Cardinality(A)
  BY <1>3, <1>4, FS_Bijection
<1>7. Cardinality(A \cup B) = Cardinality(A) + Cardinality(B) - Cardinality({})
  BY <1>2, <1>4, <1>6, FS_Union
<1>8. Cardinality({}) = 0
  BY FS_EmptySet
<1>9. Cardinality(A \cup B) = 2 ^ k + 2 ^ k - 0
  BY <1>4, <1>6, <1>7, <1>8
<1>10. 2 ^ k \in Nat
  BY PowerIsNat
<1>11. 2 ^ (k + 1) = 2 ^ k + 2 ^ k - 0
  BY <1>1, <1>5, <1>9
<1> QED
  BY <1>10, <1>11

\* ... and not 0.
LEMMA PowerPositive ==
  ASSUME NEW k \in Nat
  PROVE  2 ^ k \in Nat \ {0}
<1> DEFINE S == {n \in Nat : 2 ^ n \in Nat \ {0}}
<1>1. 0 \in S
  OBVIOUS
<1>2. \A n \in Nat : n \in S => n + 1 \in S
  BY PowerStep
<1> HIDE DEF S
<1>3. k \in S
  BY <1>1, <1>2, ByInduction
<1> QED
  BY <1>3 DEF S

\* Integer arithmetic, kept apart for the prover.
LEMMA Distribute ==
  ASSUME NEW a \in Nat, NEW b \in Nat
  PROVE  2 * (a * b) = a * (2 * b) /\ a * b \in Nat
OBVIOUS

\* Exponents add up.
LEMMA PowerSum ==
  ASSUME NEW j \in Nat, NEW k \in Nat
  PROVE  2 ^ (j + k) = 2 ^ j * 2 ^ k
<1> DEFINE S == {n \in Nat : 2 ^ (j + n) = 2 ^ j * 2 ^ n}
<1>1. 0 \in S
  <2>1. 2 ^ 0 = 1 /\ j + 0 = j /\ 2 ^ j \in Nat
    BY PowerIsNat
  <2> QED
    BY <2>1
<1>2. ASSUME NEW n \in Nat, n \in S
      PROVE  n + 1 \in S
  <2>1. 2 ^ (j + n) = 2 ^ j * 2 ^ n
    BY <1>2
  <2>2. 2 ^ ((j + n) + 1) = 2 * 2 ^ (j + n) /\ 2 ^ (n + 1) = 2 * 2 ^ n
    BY PowerStep
  <2>3. 2 ^ j \in Nat /\ 2 ^ n \in Nat
    BY PowerIsNat
  <2>4. 2 * (2 ^ j * 2 ^ n) = 2 ^ j * (2 * 2 ^ n)
    BY <2>3, Distribute
  <2>5. (j + n) + 1 = j + (n + 1)
    OBVIOUS
  <2> QED
    BY <2>1, <2>2, <2>4, <2>5
<1> HIDE DEF S
<1>3. k \in S
  BY <1>1, <1>2, ByInduction
<1> QED
  BY <1>3 DEF S

\* A product is not less than its factor.
LEMMA Monotone ==
  ASSUME NEW a \in Nat, NEW b \in Nat \ {0}
  PROVE  a <= a * b
<1>1. b - 1 \in Nat /\ b = (b - 1) + 1
  OBVIOUS
<1>2. a * (b - 1) \in Nat
  BY <1>1
<1>3. a * b = a * (b - 1) + a
  BY <1>1
<1> QED
  BY <1>2, <1>3

\* Greater exponents give greater powers.
LEMMA PowerMonotone ==
  ASSUME NEW j \in Nat, NEW k \in Nat, j <= k
  PROVE  2 ^ j <= 2 ^ k
<1>1. k - j \in Nat /\ j + (k - j) = k
  OBVIOUS
<1>2. 2 ^ k = 2 ^ j * 2 ^ (k - j)
  BY <1>1, PowerSum
<1>3. 2 ^ j \in Nat /\ 2 ^ (k - j) \in Nat \ {0}
  BY <1>1, PowerPositive
<1> QED
  BY <1>2, <1>3, Monotone

---------------------------------------------------------------------------
(* Quotients and remainders.                                               *)

\* Division by a positive number ...
LEMMA Quotient ==
  ASSUME NEW n \in Nat, NEW a \in Nat \ {0}
  PROVE  /\ n \div a \in Nat /\ n % a \in 0 .. a - 1
         /\ n = a * (n \div a) + (n % a)
OBVIOUS

\* ... has one result.
LEMMA QuotientIs ==
  ASSUME NEW n \in Nat, NEW a \in Nat \ {0}, NEW q \in Nat, NEW r \in 0 .. a - 1,
         n = a * q + r
  PROVE  n \div a = q /\ n % a = r
OBVIOUS

\* a * t + r is a remainder of a * c, where r is one of a and t is one of c.
LEMMA TwoRemainders ==
  ASSUME NEW a \in Nat \ {0}, NEW c \in Nat \ {0}, NEW r \in 0 .. a - 1, NEW t \in 0 .. c - 1
  PROVE  a * c \in Nat \ {0} /\ a * t + r \in 0 .. a * c - 1
<1>1. (c - 1) - t \in Nat /\ t \in Nat
  OBVIOUS
<1>2. a * ((c - 1) - t) \in Nat /\ a * t \in Nat
  BY <1>1
<1>3. a * c = a * ((c - 1) - t) + a * t + a
  BY <1>1
<1> QED
  BY <1>2, <1>3

\* Integer arithmetic, kept apart for the prover.
LEMMA Nested ==
  ASSUME NEW a \in Nat, NEW c \in Nat, NEW s \in Nat, NEW t \in Nat, NEW r \in Nat
  PROVE  a * (c * s + t) + r = (a * c) * s + (a * t + r)
OBVIOUS

\* Dividing by a and then by c is dividing by a * c; the remainders add up.
LEMMA QuotientTwice ==
  ASSUME NEW n \in Nat, NEW a \in Nat \ {0}, NEW c \in Nat \ {0}
  PROVE  /\ (n \div a) \div c = n \div (a * c)
         /\ n % (a * c) = a * ((n \div a) % c) + (n % a)
<1> DEFINE q == n \div a
           r == n % a
           s == q \div c
           t == q % c
<1>1. q \in Nat /\ r \in 0 .. a - 1 /\ n = a * q + r
  BY Quotient
<1>2. s \in Nat /\ t \in 0 .. c - 1 /\ q = c * s + t
  <2> HIDE DEF q
  <2> QED
    BY <1>1, Quotient
<1> HIDE DEF q, r, s, t
<1>3. n = (a * c) * s + (a * t + r)
  BY <1>1, <1>2, Nested
<1>4. a * c \in Nat \ {0} /\ a * t + r \in 0 .. a * c - 1
  BY <1>1, <1>2, TwoRemainders
<1>5. n \div (a * c) = s /\ n % (a * c) = a * t + r
  BY <1>2, <1>3, <1>4, QuotientIs
<1> QED
  BY <1>5 DEF q, r, s, t

---------------------------------------------------------------------------
(* The bits of a number.                                                   *)

HasBit(w, b) == (w \div 2 ^ b) % 2 = 1

Below(k) == 0 .. 2 ^ k - 1

\* One place more: a number is twice a smaller one, and a last bit.
LEMMA BelowStep ==
  ASSUME NEW k \in Nat
  PROVE  /\ Below(k) \subseteq Nat
         /\ \A w \in Below(k + 1) : w \div 2 \in Below(k)
         /\ \A w \in Below(k), r \in {0, 1} : 2 * w + r \in Below(k + 1)
<1> DEFINE p == 2 ^ k
<1>1. p \in Nat \ {0} /\ 2 ^ (k + 1) = 2 * p
  BY PowerStep, PowerPositive
<1> HIDE DEF p
<1>2. \A w \in 0 .. 2 * p - 1 : w \div 2 \in 0 .. p - 1
  BY <1>1
<1>3. \A w \in 0 .. p - 1, r \in {0, 1} : 2 * w + r \in 0 .. 2 * p - 1
  BY <1>1
<1>4. Below(k) = 0 .. p - 1 /\ Below(k + 1) = 0 .. 2 * p - 1
  BY <1>1 DEF Below, p
<1> QED
  BY <1>1, <1>2, <1>3, <1>4

\* Bit 0 tells odd from even.
LEMMA BitZero ==
  ASSUME NEW w \in Nat
  PROVE  HasBit(w, 0) <=> w % 2 = 1
<1>1. 2 ^ 0 = 1 /\ w \div 1 = w
  OBVIOUS
<1> QED
  BY <1>1 DEF HasBit

\* A shift to the right moves the bits.
LEMMA BitOfShift ==
  ASSUME NEW w \in Nat, NEW n \in Nat, NEW b \in Nat
  PROVE  w \div 2 ^ n \in Nat /\ (HasBit(w \div 2 ^ n, b) <=> HasBit(w, n + b))
<1>1. 2 ^ n \in Nat \ {0} /\ 2 ^ b \in Nat \ {0}
  BY PowerPositive
<1>2. (w \div 2 ^ n) \div 2 ^ b = w \div (2 ^ n * 2 ^ b)
  BY <1>1, QuotientTwice
<1>3. 2 ^ (n + b) = 2 ^ n * 2 ^ b
  BY PowerSum
<1>4. w \div 2 ^ n \in Nat
  BY <1>1, Quotient
<1> QED
  BY <1>2, <1>3, <1>4 DEF HasBit

\* Halving moves each bit down by one place.
LEMMA BitOfHalf ==
  ASSUME NEW w \in Nat, NEW b \in Nat
  PROVE  w \div 2 \in Nat /\ (HasBit(w \div 2, b) <=> HasBit(w, b + 1))
<1>1. 2 ^ 1 = 2 /\ 1 + b = b + 1 /\ w \div 2 \in Nat
  OBVIOUS
<1>2. HasBit(w \div 2 ^ 1, b) <=> HasBit(w, 1 + b)
  BY BitOfShift
<1> QED
  BY <1>1, <1>2

\* A number below 2 ^ k has no bit from k on.
LEMMA NoHighBits ==
  ASSUME NEW k \in Nat, NEW w \in Below(k), NEW b \in Nat, b >= k
  PROVE  ~ HasBit(w, b)
<1>1. 2 ^ k <= 2 ^ b /\ 2 ^ k \in Nat /\ 2 ^ b \in Nat \ {0}
  BY PowerMonotone, PowerPositive
<1>2. w \in Nat /\ w < 2 ^ b
  BY <1>1 DEF Below
<1>3. 0 \in Nat /\ w \in 0 .. 2 ^ b - 1 /\ w = 2 ^ b * 0 + w
  BY <1>1, <1>2
<1>4. w \div 2 ^ b = 0
  BY <1>1, <1>2, <1>3, QuotientIs
<1>5. 0 % 2 = 0
  OBVIOUS
<1> QED
  BY <1>4, <1>5 DEF HasBit

\* Numbers with the same bits are the same.
SameBits(k) ==
  \A v, w \in Below(k) : (\A b \in 0 .. k - 1 : HasBit(v, b) <=> HasBit(w, b)) => v = w

\* Numbers with the same bits are the same.
LEMMA BitsTell ==
  ASSUME NEW k \in Nat
  PROVE  SameBits(k)
<1> DEFINE S == {n \in Nat : SameBits(n)}
<1>1. 0 \in S
  <2>1. Below(0) = {0}
    BY DEF Below
  <2> QED
    BY <2>1 DEF SameBits
<1>2. ASSUME NEW n \in Nat, n \in S
      PROVE  n + 1 \in S
  <2> SUFFICES ASSUME NEW v \in Below(n + 1), NEW w \in Below(n + 1),
                      \A b \in 0 .. (n + 1) - 1 : HasBit(v, b) <=> HasBit(w, b)
               PROVE  v = w
    BY DEF SameBits
  <2>1. v \in Nat /\ w \in Nat
    BY BelowStep DEF Below
  <2>2. v \div 2 \in Below(n) /\ w \div 2 \in Below(n)
    BY BelowStep
  <2>3. ASSUME NEW b \in 0 .. n - 1
        PROVE  HasBit(v \div 2, b) <=> HasBit(w \div 2, b)
    <3>1. b \in Nat /\ b + 1 \in 0 .. (n + 1) - 1
      OBVIOUS
    <3>2. (HasBit(v \div 2, b) <=> HasBit(v, b + 1)) /\ (HasBit(w \div 2, b) <=> HasBit(w, b + 1))
      BY <2>1, <3>1, BitOfHalf
    <3> QED
      BY <3>1, <3>2
  <2>4. v \div 2 = w \div 2
    BY <1>2, <2>2, <2>3 DEF SameBits
  <2>5. v % 2 = 1 <=> w % 2 = 1
    <3>1. 0 \in 0 .. (n + 1) - 1
      OBVIOUS
    <3>2. HasBit(v, 0) <=> HasBit(w, 0)
      BY <3>1
    <3> QED
      BY <2>1, <3>2, BitZero
  <2> QED
    BY <2>1, <2>4, <2>5
<1> HIDE DEF S
<1>3. k \in S
  BY <1>1, <1>2, ByInduction
<1> QED
  BY <1>3 DEF S

\* Every set of places is the set of the bits of a number.
AllBits(k) ==
  \A T \in SUBSET (0 .. k - 1) : \E w \in Below(k) : \A b \in 0 .. k - 1 : HasBit(w, b) <=> b \in T

\* Every choice of bits is that of a number.
LEMMA BitsExist ==
  ASSUME NEW k \in Nat
  PROVE  AllBits(k)
<1> DEFINE S == {n \in Nat : AllBits(n)}
<1>1. 0 \in S
  <2>1. 0 \in Below(0)
    BY DEF Below
  <2>2. 0 .. 0 - 1 = {}
    OBVIOUS
  <2> QED
    BY <2>1, <2>2 DEF AllBits
<1>2. ASSUME NEW n \in Nat, n \in S
      PROVE  n + 1 \in S
  <2> SUFFICES ASSUME NEW T \in SUBSET (0 .. (n + 1) - 1)
               PROVE  \E w \in Below(n + 1) : \A b \in 0 .. (n + 1) - 1 : HasBit(w, b) <=> b \in T
    BY DEF AllBits
  <2> DEFINE U == {b \in 0 .. n - 1 : b + 1 \in T}
             r == IF 0 \in T THEN 1 ELSE 0
  <2>1. PICK h \in Below(n) : \A b \in 0 .. n - 1 : HasBit(h, b) <=> b \in U
    <3>1. U \in SUBSET (0 .. n - 1)
      OBVIOUS
    <3> HIDE DEF U
    <3> QED
      BY <1>2, <3>1 DEF AllBits
  <2>2. h \in Nat /\ r \in {0, 1} /\ (0 \in T <=> r = 1)
    BY BelowStep DEF Below
  <2>3. 2 * h + r \in Below(n + 1)
    BY <2>2, BelowStep
  <2> HIDE DEF r
  <2> DEFINE w == 2 * h + r
  <2>4. w \in Nat /\ w \div 2 = h /\ w % 2 = r
    BY <2>2
  <2> HIDE DEF w
  <2>5. ASSUME NEW b \in 0 .. (n + 1) - 1
        PROVE  HasBit(w, b) <=> b \in T
    <3>1. CASE b = 0
      BY <2>2, <2>4, <3>1, BitZero
    <3>2. CASE b # 0
      <4>1. b - 1 \in 0 .. n - 1 /\ b - 1 \in Nat /\ (b - 1) + 1 = b
        BY <3>2
      <4>2. HasBit(w, b) <=> HasBit(h, b - 1)
        BY <2>4, <4>1, BitOfHalf
      <4>3. HasBit(h, b - 1) <=> b - 1 \in U
        BY <2>1, <4>1
      <4> QED
        BY <4>1, <4>2, <4>3
    <3> QED
      BY <3>1, <3>2
  <2> QED
    BY <2>3, <2>5 DEF w
<1> HIDE DEF S
<1>3. k \in S
  BY <1>1, <1>2, ByInduction
<1> QED
  BY <1>3 DEF S

\* n % 2 ^ k has the bits of n before k.
LowBits(k) ==
  \A n, b \in Nat : HasBit(n % 2 ^ k, b) <=> b < k /\ HasBit(n, b)

\* The remainder by 2 ^ k keeps the bits below k.
LEMMA RemainderBits ==
  ASSUME NEW k \in Nat
  PROVE  LowBits(k)
<1> DEFINE S == {j \in Nat : LowBits(j)}
<1>1. 0 \in S
  <2> SUFFICES ASSUME NEW n \in Nat, NEW b \in Nat
               PROVE  ~ HasBit(n % 2 ^ 0, b)
    BY DEF LowBits
  <2>1. n % 2 ^ 0 = 0 /\ 0 \in Below(0) /\ b >= 0
    BY DEF Below
  <2> QED
    BY <2>1, NoHighBits
<1>2. ASSUME NEW j \in Nat, j \in S
      PROVE  j + 1 \in S
  <2> SUFFICES ASSUME NEW n \in Nat, NEW b \in Nat
               PROVE  HasBit(n % 2 ^ (j + 1), b) <=> b < j + 1 /\ HasBit(n, b)
    BY DEF LowBits
  <2> DEFINE p == 2 ^ j
             h == (n \div 2) % p
             r == n % 2
             w == n % 2 ^ (j + 1)
  <2>1. p \in Nat \ {0} /\ 2 ^ (j + 1) = 2 * p /\ n \div 2 \in Nat /\ r \in {0, 1}
    BY PowerPositive, PowerStep
  <2>2. w = 2 * h + r
    <3> HIDE DEF p
    <3>1. 2 \in Nat \ {0}
      OBVIOUS
    <3>2. n % (2 * p) = 2 * ((n \div 2) % p) + (n % 2)
      BY <2>1, <3>1, QuotientTwice
    <3> QED
      BY <2>1, <3>2
  <2>3. h \in Nat
    <3> HIDE DEF p
    <3> QED
      BY <2>1
  <2>4. \A c \in Nat : HasBit(h, c) <=> c < j /\ HasBit(n \div 2, c)
    BY <1>2, <2>1 DEF LowBits
  <2> HIDE DEF p, h, r, w
  <2>5. w \in Nat /\ w \div 2 = h /\ w % 2 = r
    BY <2>1, <2>2, <2>3
  <2>6. CASE b = 0
    <3>1. HasBit(w, 0) <=> r = 1
      BY <2>5, BitZero
    <3>2. HasBit(n, 0) <=> r = 1
      BY BitZero DEF r
    <3> QED
      BY <2>6, <3>1, <3>2 DEF w
  <2>7. CASE b # 0
    <3>1. b - 1 \in Nat /\ (b - 1) + 1 = b /\ (b - 1 < j <=> b < j + 1)
      BY <2>7
    <3>2. HasBit(w, b) <=> HasBit(h, b - 1)
      BY <2>5, <3>1, BitOfHalf
    <3>3. HasBit(n, b) <=> HasBit(n \div 2, b - 1)
      BY <3>1, BitOfHalf
    <3>4. HasBit(w, b) <=> b < j + 1 /\ HasBit(n, b)
      BY <2>4, <3>1, <3>2, <3>3
    <3> QED
      BY <3>4 DEF w
  <2> QED
    BY <2>6, <2>7
<1> HIDE DEF S
<1>3. k \in S
  BY <1>1, <1>2, ByInduction
<1> QED
  BY <1>3 DEF S

\* 2 ^ k - 1 has the bits before k.
OnesBelow(k) ==
  2 ^ k - 1 \in Below(k) /\ \A b \in Nat : HasBit(2 ^ k - 1, b) <=> b < k

\* 2 ^ k - 1 has all the bits below k.
LEMMA Ones ==
  ASSUME NEW k \in Nat
  PROVE  OnesBelow(k)
<1> DEFINE S == {j \in Nat : OnesBelow(j)}
<1>1. 0 \in S
  <2>1. 2 ^ 0 - 1 = 0 /\ 0 \in Below(0)
    BY DEF Below
  <2>2. \A b \in Nat : ~ HasBit(0, b) /\ ~ b < 0
    BY <2>1, NoHighBits
  <2> QED
    BY <2>1, <2>2 DEF OnesBelow
<1>2. ASSUME NEW j \in Nat, j \in S
      PROVE  j + 1 \in S
  <2> DEFINE p == 2 ^ j
             w == 2 ^ (j + 1) - 1
  <2>1. p \in Nat \ {0} /\ 2 ^ (j + 1) = 2 * p
    BY PowerPositive, PowerStep
  <2>2. \A b \in Nat : HasBit(p - 1, b) <=> b < j
    BY <1>2 DEF OnesBelow
  <2>3. w \in Below(j + 1)
    <3>1. 2 ^ (j + 1) \in Nat \ {0}
      BY PowerPositive
    <3> QED
      BY <3>1 DEF Below
  <2> HIDE DEF p
  <2>4. w \in Nat /\ w \div 2 = p - 1 /\ w % 2 = 1
    BY <2>1
  <2> HIDE DEF w
  <2>5. ASSUME NEW b \in Nat
        PROVE  HasBit(w, b) <=> b < j + 1
    <3>1. CASE b = 0
      BY <2>4, <3>1, BitZero
    <3>2. CASE b # 0
      <4>1. b - 1 \in Nat /\ (b - 1) + 1 = b /\ (b - 1 < j <=> b < j + 1)
        BY <3>2
      <4>2. HasBit(w, b) <=> HasBit(p - 1, b - 1)
        BY <2>4, <4>1, BitOfHalf
      <4> QED
        BY <2>2, <4>1, <4>2
    <3> QED
      BY <3>1, <3>2
  <2> QED
    BY <2>3, <2>5 DEF OnesBelow, w
<1> HIDE DEF S
<1>3. k \in S
  BY <1>1, <1>2, ByInduction
<1> QED
  BY <1>3 DEF S

---------------------------------------------------------------------------
(* Words.                                                                  *)

\* Every width that the assumption allows is a number of four or more.
LEMMA WidthIs ==
  /\ Width \in Nat /\ Width >= 4 /\ Width - 1 \in Nat
  /\ 2 ^ Width \in Nat \ {0} /\ 2 ^ (Width - 1) \in Nat \ {0}
  /\ 2 ^ Width = 2 * 2 ^ (Width - 1)
<1>1. Width \in Nat /\ Width >= 4 /\ Width - 1 \in Nat /\ (Width - 1) + 1 = Width
  BY WidthAssumption DEF WidthAssumption
<1>2. 2 ^ ((Width - 1) + 1) = 2 * 2 ^ (Width - 1)
  BY <1>1, PowerStep
<1> QED
  BY <1>1, <1>2, PowerPositive

\* Words, places and bits in the terms of the lemmas above.
LEMMA WordsAre ==
  /\ Words = Below(Width) /\ Words \subseteq Nat
  /\ \A w : Bits(w) = {b \in Places : HasBit(w, b)}
  /\ Places = 0 .. Width - 1 /\ Places \subseteq Nat
BY WidthIs DEF Words, Below, Bits, HasBit, Places

\* What is cut to the width is a word.
LEMMA WordIs ==
  ASSUME NEW n \in Nat
  PROVE  Word(n) \in Words
BY WidthIs DEF Word, Words

\* Less one wraps around at 0 only.
LEMMA LessOneIs ==
  ASSUME NEW n \in Words
  PROVE  LessOne(n) = IF n = 0 THEN 2 ^ Width - 1 ELSE n - 1
<1> DEFINE p == 2 ^ Width
<1>1. p \in Nat \ {0} /\ n \in 0 .. p - 1
  BY WidthIs DEF Words
<1> HIDE DEF p
<1>2. (n - 1) % p = IF n = 0 THEN p - 1 ELSE n - 1
  <2>1. CASE n = 0
    <3>1. (n - 1) = p * (-1) + (p - 1) /\ p - 1 \in 0 .. p - 1
      BY <1>1, <2>1
    <3> QED
      BY <1>1, <2>1, <3>1
  <2>2. CASE n # 0
    BY <1>1, <2>2
  <2> QED
    BY <2>1, <2>2
<1> QED
  BY <1>2 DEF LessOne, Word, p

\* Words with the same bits are the same.
LEMMA BitsTellWords ==
  ASSUME NEW v \in Words, NEW w \in Words, Bits(v) = Bits(w)
  PROVE  v = w
<1>1. \A b \in 0 .. Width - 1 : HasBit(v, b) <=> HasBit(w, b)
  BY WordsAre
<1>2. SameBits(Width) /\ v \in Below(Width) /\ w \in Below(Width)
  BY BitsTell, WidthIs, WordsAre
<1> QED
  BY <1>1, <1>2 DEF SameBits

\* WordOf finds the word with the given bits.
LEMMA WordOfBits ==
  ASSUME NEW T \in SUBSET Places
  PROVE  WordOf[T] \in Words /\ Bits(WordOf[T]) = T
<1>1. AllBits(Width)
  BY BitsExist, WidthIs
<1>2. PICK w \in Below(Width) : \A b \in 0 .. Width - 1 : HasBit(w, b) <=> b \in T
  BY <1>1, WordsAre DEF AllBits
<1>3. w \in Words /\ Bits(w) = T
  BY <1>2, WordsAre
<1>4. WordOf[T] = CHOOSE x \in Words : Bits(x) = T
  BY DEF WordOf
<1> QED
  BY <1>3, <1>4

\* | is the union of the bits,
LEMMA Or ==
  ASSUME NEW v, NEW w
  PROVE  (v | w) \in Words /\ Bits(v | w) = Bits(v) \cup Bits(w)
<1>1. Bits(v) \cup Bits(w) \in SUBSET Places
  BY DEF Bits
<1> QED
  BY <1>1, WordOfBits DEF |

\* & is the intersection of the bits,
LEMMA And ==
  ASSUME NEW v, NEW w
  PROVE  (v & w) \in Words /\ Bits(v & w) = Bits(v) \cap Bits(w)
<1>1. Bits(v) \cap Bits(w) \in SUBSET Places
  BY DEF Bits
<1> QED
  BY <1>1, WordOfBits DEF &

\* and shiftR moves them down.
LEMMA ShiftedBits ==
  ASSUME NEW w \in Words, NEW n \in Nat
  PROVE  Bits(shiftR(w, n)) = {b \in Places : b + n \in Bits(w)}
<1>1. w \in Nat /\ w \in Below(Width) /\ Width \in Nat
  BY WordsAre, WidthIs
<1>2. ASSUME NEW b \in Places
      PROVE  HasBit(shiftR(w, n), b) <=> b + n \in Bits(w)
  <2>1. b \in Nat /\ n + b \in Nat /\ n + b = b + n
    BY WordsAre
  <2>2. HasBit(shiftR(w, n), b) <=> HasBit(w, n + b)
    BY <1>1, <2>1, BitOfShift DEF shiftR
  <2>3. n + b >= Width => ~ HasBit(w, n + b)
    BY <1>1, <2>1, NoHighBits
  <2>4. n + b < Width => n + b \in Places
    BY <1>1, <2>1, WordsAre
  <2>5. n + b \in Bits(w) <=> n + b \in Places /\ HasBit(w, n + b)
    BY WordsAre
  <2>6. n + b \in Places => n + b < Width
    BY <2>1, <1>1, WordsAre
  <2> QED
    BY <1>1, <2>1, <2>2, <2>3, <2>4, <2>5, <2>6
<1> QED
  BY <1>2, WordsAre

\* The remainder by a power of two is what the mask below it leaves.
LEMMA Masked ==
  ASSUME NEW w \in Words, NEW k \in Nat, k <= Width
  PROVE  2 ^ k - 1 \in Words /\ (w & (2 ^ k - 1)) = w % 2 ^ k
<1> DEFINE p == 2 ^ k
<1>1. p \in Nat \ {0} /\ p <= 2 ^ Width /\ w \in Nat /\ Width \in Nat
  BY PowerPositive, PowerMonotone, WidthIs, WordsAre
<1>2. p - 1 \in Words
  BY <1>1, WidthIs DEF Words
<1>3. w % p \in Words
  <2>1. w % p \in 0 .. p - 1
    BY <1>1, Quotient
  <2> QED
    BY <1>1, <2>1, WidthIs DEF Words
<1>4. Bits(w % p) = Bits(w) \cap Bits(p - 1)
  <2>1. \A b \in Nat : HasBit(w % p, b) <=> b < k /\ HasBit(w, b)
    BY <1>1, RemainderBits DEF LowBits
  <2>2. \A b \in Nat : HasBit(p - 1, b) <=> b < k
    BY Ones DEF OnesBelow
  <2> HIDE DEF p
  <2> QED
    BY <2>1, <2>2, WordsAre
<1> HIDE DEF p
<1>5. (w & (p - 1)) = w % p
  BY <1>3, <1>4, And, BitsTellWords
<1> QED
  BY <1>2, <1>5 DEF p

---------------------------------------------------------------------------
(* The constructor.                                                        *)

\* After the rounds so far a bit is set where the request less one has one at
\* the place or less than i places above it.
RingInv ==
  /\ request \in Words /\ mask \in Words
  /\ i \in {1, 2, 4, 8, 16, 32, 64} /\ i <= Width
  /\ Bits(mask) = {b \in Places : \E c \in Bits(LessOne(request)) : b <= c /\ c < b + i}
  /\ capacity # Unset => i = Width /\ capacity = Word(mask + 1)

\* At first the mask is the request less one.
LEMMA InitRing == Init => RingInv
<1> SUFFICES ASSUME Init PROVE RingInv
  OBVIOUS
<1>1. request \in Words /\ mask = LessOne(request) /\ i = 1 /\ capacity = Unset
  BY DEF Init
<1>2. mask \in Words
  BY <1>1, LessOneIs, WidthIs DEF Words
<1>3. Bits(mask) = {b \in Places : \E c \in Bits(mask) : b <= c /\ c < b + 1}
  <2>1. Bits(mask) \subseteq Places /\ Places \subseteq Nat
    BY WordsAre
  <2>2. \A b, c \in Places : (b <= c /\ c < b + 1) <=> b = c
    BY <2>1
  <2>3. ASSUME NEW b \in Places
        PROVE  b \in Bits(mask) <=> \E c \in Bits(mask) : b <= c /\ c < b + 1
    BY <2>1, <2>2, Zenon
  <2> QED
    BY <2>1, <2>3, Zenon
<1> QED
  BY <1>1, <1>2, <1>3, WidthIs DEF RingInv

\* A round doubles how far the bits reach down.
LEMMA FillRing ==
  ASSUME RingInv, Fill
  PROVE  RingInv'
<1> DEFINE x == LessOne(request)
<1>1. /\ capacity = Unset /\ i <= LastShift
      /\ mask' = (mask | shiftR(mask, i)) /\ i' = 2 * i
      /\ request' = request /\ capacity' = capacity
  BY DEF Fill
<1>2. i' \in {1, 2, 4, 8, 16, 32, 64} /\ i' <= Width
  BY <1>1, WidthAssumption DEF RingInv, LastShift, WidthAssumption
<1>3. mask \in Words /\ i \in Nat
  BY DEF RingInv
<1>4. mask' \in Words /\ Bits(mask') = Bits(mask) \cup {b \in Places : b + i \in Bits(mask)}
  BY <1>1, <1>3, Or, ShiftedBits
<1>5. Bits(mask) = {b \in Places : \E c \in Bits(x) : b <= c /\ c < b + i}
  BY DEF RingInv
<1>6. Places = 0 .. Width - 1 /\ Places \subseteq Nat /\ Bits(x) \subseteq Places /\ Width \in Nat
  BY WordsAre, WidthIs
<1> HIDE DEF x
<1>7. Bits(mask') = {b \in Places : \E c \in Bits(x) : b <= c /\ c < b + 2 * i}
  <2>1. ASSUME NEW b \in Places, b \in Bits(mask')
        PROVE  \E c \in Bits(x) : b <= c /\ c < b + 2 * i
    <3>1. CASE b \in Bits(mask)
      <4>1. PICK c \in Bits(x) : b <= c /\ c < b + i
        BY <1>5, <3>1
      <4>2. c \in Nat /\ b \in Nat
        BY <1>6
      <4>3. c < b + 2 * i
        BY <1>3, <4>1, <4>2
      <4> QED
        BY <4>1, <4>3
    <3>2. CASE b + i \in Bits(mask)
      <4>1. PICK c \in Bits(x) : b + i <= c /\ c < (b + i) + i
        BY <1>5, <3>2
      <4>2. c \in Nat /\ b \in Nat
        BY <1>6
      <4>3. b <= c /\ c < b + 2 * i
        BY <1>3, <4>1, <4>2
      <4> QED
        BY <4>3
    <3> QED
      BY <1>4, <2>1, <3>1, <3>2
  <2>2. ASSUME NEW b \in Places, NEW c \in Bits(x), b <= c, c < b + 2 * i
        PROVE  b \in Bits(mask')
    <3>1. c \in Nat /\ b \in Nat /\ c <= Width - 1
      BY <1>6
    <3>2. CASE c < b + i
      BY <1>4, <1>5, <2>2, <3>2
    <3>3. CASE c >= b + i
      <4>1. b + i \in Places /\ b + i <= c /\ c < (b + i) + i
        BY <1>3, <1>6, <2>2, <3>1, <3>3
      <4>2. b + i \in Bits(mask)
        BY <1>5, <4>1
      <4> QED
        BY <1>4, <4>2
    <3> QED
      BY <1>3, <3>1, <3>2, <3>3
  <2> QED
    BY <1>4, <2>1, <2>2, <1>6, WordsAre
<1> QED
  BY <1>1, <1>2, <1>4, <1>7 DEF RingInv, x, Places, Bits, Words, LessOne, Word, Unset

\* The slots are made when all rounds are over.
LEMMA MakeSlotsRing ==
  ASSUME RingInv, MakeSlots
  PROVE  RingInv'
<1>1. i > LastShift /\ capacity' = Word(mask + 1) /\ UNCHANGED <<request, mask, i>>
  BY DEF MakeSlots
<1>2. i = Width
  BY <1>1, WidthAssumption DEF RingInv, LastShift, WidthAssumption
<1> QED
  BY <1>1, <1>2 DEF RingInv

\* RingInv is inductive.
LEMMA NextRing ==
  ASSUME RingInv, [Next]_vars
  PROVE  RingInv'
<1>1. CASE Fill
  BY <1>1, FillRing
<1>2. CASE MakeSlots
  BY <1>2, MakeSlotsRing
<1>3. CASE Made \/ UNCHANGED vars
  BY <1>3 DEF Made, vars, RingInv
<1> QED
  BY <1>1, <1>2, <1>3 DEF Next

\* In every state of the constructor the mask has the bits that its rounds have
\* filled in so far, whatever the request.
THEOREM RingFilled == Spec => []RingInv
BY InitRing, NextRing, PTL DEF Spec

\* After the last round the mask has all places up to the highest bit of the
\* request less one.
FullMask(k) ==
  /\ k \in 0 .. Width /\ mask = 2 ^ k - 1
  /\ LessOne(request) < 2 ^ k
  /\ \A j \in Nat : LessOne(request) < 2 ^ j => k <= j

\* After the last round the mask is all ones up to some place k, the least that
\* the request less one fits below.
LEMMA Filled ==
  ASSUME RingInv, i = Width
  PROVE  \E k \in 0 .. Width : FullMask(k)
<1> DEFINE x == LessOne(request)
           T == {j \in Nat : x < 2 ^ j}
<1>1. x \in Nat /\ x < 2 ^ Width /\ x \in Words
  BY LessOneIs, WidthIs DEF Words, RingInv
<1>2. Width \in T
  BY <1>1, WidthIs
<1> HIDE DEF x
<1>3. PICK k \in T : \A j \in T : k <= j
  BY <1>2, LeastNumber
<1>4. k \in Nat /\ x < 2 ^ k /\ k <= Width /\ Width \in Nat
  BY <1>2, <1>3, WidthIs
<1>5. \A b \in Places : HasBit(x, b) => b < k
  <2>1. x \in Below(k)
    BY <1>1, <1>4, PowerPositive DEF Below
  <2> QED
    BY <1>4, <2>1, NoHighBits, WordsAre
<1>6. k > 0 => HasBit(x, k - 1)
  <2> SUFFICES ASSUME k > 0 PROVE HasBit(x, k - 1)
    OBVIOUS
  <2> DEFINE p == 2 ^ (k - 1)
  <2>1. k - 1 \in Nat /\ (k - 1) + 1 = k /\ ~(k <= k - 1)
    BY <1>4
  <2>2. p \in Nat \ {0} /\ 2 ^ k = 2 * p
    <3>1. 2 ^ ((k - 1) + 1) = 2 * 2 ^ (k - 1)
      BY <2>1, PowerStep
    <3> QED
      BY <2>1, <3>1, PowerPositive
  <2>3. ~ x < p
    BY <1>3, <2>1
  <2> HIDE DEF p
  <2>4. x \div p = 1 /\ 1 % 2 = 1
    <3>1. 1 \in Nat /\ x - p \in 0 .. p - 1 /\ x = p * 1 + (x - p)
      BY <1>1, <1>4, <2>2, <2>3
    <3>2. x \div p = 1
      BY <1>1, <2>2, <3>1, QuotientIs
    <3> QED
      BY <3>2
  <2> QED
    BY <2>4 DEF HasBit, p
<1>7. Bits(mask) = {b \in Places : \E c \in Bits(x) : b <= c /\ c < b + Width}
  BY DEF RingInv, x
<1>8. ASSUME NEW b \in Places
      PROVE  b \in Bits(mask) <=> b < k
  <2>1. b \in Nat /\ Places = 0 .. Width - 1
    BY WordsAre
  <2>2. ASSUME NEW c \in Bits(x), b <= c PROVE b < k
    <3>1. c \in Places /\ c \in Nat /\ c < k
      BY <1>5, WordsAre
    <3> QED
      BY <1>4, <2>1, <2>2, <3>1
  <2>3. ASSUME b < k PROVE b \in Bits(mask)
    <3>1. k - 1 \in Places /\ b <= k - 1 /\ k - 1 < b + Width /\ k > 0
      BY <1>4, <2>1, <2>3
    <3>2. k - 1 \in Bits(x)
      BY <1>6, <3>1, WordsAre
    <3> QED
      BY <1>7, <3>1, <3>2
  <2> QED
    BY <1>7, <2>2, <2>3
<1>9. mask = 2 ^ k - 1
  <2>1. \A b \in Nat : HasBit(2 ^ k - 1, b) <=> b < k
    BY <1>4, Ones DEF OnesBelow
  <2>2. 2 ^ k - 1 \in Words
    BY <1>1, <1>4, Masked
  <2>3. Bits(2 ^ k - 1) = Bits(mask)
    <3>1. Bits(mask) \subseteq Places /\ Bits(2 ^ k - 1) \subseteq Places
      BY WordsAre
    <3>2. \A b \in Places : b \in Bits(2 ^ k - 1) <=> HasBit(2 ^ k - 1, b)
      BY WordsAre
    <3>3. \A b \in Places : b \in Bits(2 ^ k - 1) <=> b \in Bits(mask)
      BY <1>8, <2>1, <3>2, WordsAre
    <3> QED
      BY <3>1, <3>3
  <2>4. mask \in Words
    BY DEF RingInv
  <2> QED
    BY <2>2, <2>3, <2>4, BitsTellWords
<1>10. \A j \in Nat : x < 2 ^ j => k <= j
  BY <1>3
<1> QED
  BY <1>4, <1>9, <1>10 DEF FullMask, x

\* The slots that are made: a power of two, unless it does not fit the word.
LEMMA SlotsMade ==
  ASSUME RingInv, capacity # Unset
  PROVE  \E k \in 0 .. Width : FullMask(k) /\ capacity = IF k < Width THEN 2 ^ k ELSE 0
<1>1. i = Width /\ capacity = Word(mask + 1)
  BY DEF RingInv
<1>2. PICK k \in 0 .. Width : FullMask(k)
  BY <1>1, Filled
<1>3. k \in Nat /\ Width \in Nat /\ Width - 1 \in Nat
  BY <1>2, WidthIs
<1>4. mask + 1 = 2 ^ k /\ 2 ^ k \in Nat \ {0}
  <2>1. 2 ^ k \in Nat \ {0} /\ mask = 2 ^ k - 1
    BY <1>2, <1>3, PowerPositive DEF FullMask
  <2> QED
    BY <2>1
<1>5. CASE k < Width
  <2>1. k <= Width - 1
    BY <1>3, <1>5
  <2>2. 2 ^ k <= 2 ^ (Width - 1)
    BY <1>3, <2>1, PowerMonotone
  <2>3. 2 ^ k < 2 ^ Width
    BY <1>4, <2>2, WidthIs
  <2>4. 2 ^ k % 2 ^ Width = 2 ^ k
    BY <1>4, <2>3, WidthIs
  <2> QED
    BY <1>1, <1>2, <1>4, <1>5, <2>4 DEF Word
<1>6. CASE ~ k < Width
  <2>1. k = Width
    BY <1>3, <1>6
  <2>2. 2 ^ Width % 2 ^ Width = 0
    BY WidthIs
  <2> QED
    BY <1>1, <1>2, <1>4, <1>6, <2>1, <2>2 DEF Word
<1> QED
  BY <1>5, <1>6

\* 2 ^ k is the least power that holds the request.
LEMMA ReferenceIs ==
  ASSUME RingInv, NEW k \in 0 .. Width, FullMask(k), k < Width
  PROVE  request \in 1 .. 2 ^ (Width - 1) /\ Reference(request) = 2 ^ k
<1> DEFINE x == LessOne(request)
           Least(c) == c >= request /\ \A d \in Powers : d >= request => c <= d
<1>1. /\ k \in Nat /\ k <= Width - 1 /\ Width - 1 \in Nat
      /\ 2 ^ k \in Nat \ {0} /\ 2 ^ k <= 2 ^ (Width - 1)
      /\ 2 ^ (Width - 1) \in Nat \ {0} /\ 2 ^ Width = 2 * 2 ^ (Width - 1)
  <2>1. k \in Nat /\ k <= Width - 1 /\ Width - 1 \in Nat
    BY WidthIs
  <2> QED
    BY <2>1, WidthIs, PowerPositive, PowerMonotone
<1>2. request \in Nat /\ x = IF request = 0 THEN 2 ^ Width - 1 ELSE request - 1
  BY LessOneIs, WordsAre DEF RingInv
<1>3. x < 2 ^ k /\ \A j \in Nat : x < 2 ^ j => k <= j
  BY DEF FullMask
<1> HIDE DEF x
<1>4. request # 0
  BY <1>1, <1>2, <1>3
<1>5. x = request - 1
  BY <1>2, <1>4
<1>6. request \in 1 .. 2 ^ k
  BY <1>1, <1>2, <1>3, <1>4, <1>5
<1>7. request \in 1 .. 2 ^ (Width - 1)
  BY <1>1, <1>6
<1>8. 2 ^ k \in Powers
  BY <1>1 DEF Powers
<1>9. \A d \in Powers : d \in Nat /\ (d >= request => 2 ^ k <= d)
  <2> SUFFICES ASSUME NEW j \in 0 .. Width - 1
               PROVE  2 ^ j \in Nat /\ (2 ^ j >= request => 2 ^ k <= 2 ^ j)
    BY DEF Powers
  <2>1. j \in Nat /\ 2 ^ j \in Nat
    BY PowerPositive
  <2>2. 2 ^ j >= request => x < 2 ^ j
    BY <1>2, <1>5, <2>1
  <2>3. k <= j => 2 ^ k <= 2 ^ j
    BY <1>1, <2>1, PowerMonotone
  <2> QED
    BY <1>3, <2>1, <2>2, <2>3
<1>10. Least(2 ^ k)
  BY <1>1, <1>6, <1>9
<1>11. \A c \in Powers : Least(c) => c = 2 ^ k
  <2> SUFFICES ASSUME NEW c \in Powers, Least(c) PROVE c = 2 ^ k
    OBVIOUS
  <2>1. c \in Nat /\ c <= 2 ^ k /\ 2 ^ k <= c
    BY <1>8, <1>9, <1>10
  <2> QED
    BY <1>1, <2>1
<1>12. Reference(request) = CHOOSE c \in Powers : Least(c)
  BY DEF Reference
<1> HIDE DEF Least
<1> QED
  BY <1>7, <1>8, <1>10, <1>11, <1>12

\* The ring that is made has the capacity of the reference definition.
LEMMA RingRoundsUp ==
  ASSUME RingInv
  PROVE  RoundsUp
<1> SUFFICES ASSUME capacity # Unset
             PROVE  capacity = IF request \in 1 .. 2 ^ (Width - 1) THEN Reference(request) ELSE 0
  BY DEF RoundsUp
<1>1. PICK k \in 0 .. Width : FullMask(k) /\ capacity = IF k < Width THEN 2 ^ k ELSE 0
  BY SlotsMade
<1>2. CASE k < Width
  BY <1>1, <1>2, ReferenceIs
<1>3. CASE ~ k < Width
  <2>1. k = Width /\ ~(k <= Width - 1) /\ Width - 1 \in Nat
    BY <1>3, WidthIs
  <2>2. ~ LessOne(request) < 2 ^ (Width - 1)
    BY <1>1, <2>1 DEF FullMask
  <2>3. request \notin 1 .. 2 ^ (Width - 1)
    <3> SUFFICES ASSUME request \in 1 .. 2 ^ (Width - 1) PROVE FALSE
      OBVIOUS
    <3>1. LessOne(request) = request - 1
      BY LessOneIs DEF RingInv
    <3> QED
      BY <2>2, <3>1, WidthIs
  <2> QED
    BY <1>1, <1>3, <2>3
<1> QED
  BY <1>2, <1>3

\* A word less than the whole range has a next one, and the last has the first;
\* 2 ^ k divides the range, so both are the next modulo 2 ^ k.
LEMMA NextModulo ==
  ASSUME NEW c \in Nat \ {0}, NEW d \in Nat \ {0}, NEW n \in 0 .. c * d - 1
  PROVE  ((n + 1) % (c * d)) % c = ((n % c) + 1) % c
<1>1. n \in Nat /\ c * d \in Nat \ {0}
  OBVIOUS
<1>2. n % c \in 0 .. c - 1 /\ n \div c \in Nat /\ n = c * (n \div c) + (n % c)
  BY <1>1, Quotient
<1> DEFINE q == n \div c
           r == n % c
<1>3. (n + 1) % c = (r + 1) % c
  <2> HIDE DEF q, r
  <2>0. q \in Nat /\ r \in 0 .. c - 1 /\ n = c * q + r
    BY <1>2 DEF q, r
  <2>1. CASE r + 1 < c
    <3>1. r + 1 \in 0 .. c - 1 /\ n + 1 = c * q + (r + 1) /\ n + 1 \in Nat
      BY <2>0, <2>1, <1>1
    <3>2. (n + 1) % c = r + 1
      BY <2>0, <3>1, QuotientIs
    <3>3. (r + 1) % c = r + 1
      BY <2>0, <3>1
    <3> QED
      BY <3>2, <3>3
  <2>2. CASE ~ r + 1 < c
    <3>1. r + 1 = c /\ 0 \in 0 .. c - 1 /\ q + 1 \in Nat /\ n + 1 \in Nat
      BY <2>0, <2>2, <1>1
    <3>2. n + 1 = c * (q + 1) + 0
      <4>1. c * (q + 1) = c * q + c
        BY <2>0
      <4>2. c * q \in Nat
        BY <2>0
      <4> QED
        BY <2>0, <3>1, <4>1, <4>2
    <3>3. (n + 1) % c = 0
      BY <3>1, <3>2, QuotientIs
    <3>4. c % c = 0
      OBVIOUS
    <3> QED
      BY <3>1, <3>3, <3>4
  <2> QED
    BY <2>1, <2>2
<1>4. CASE n + 1 < c * d
  <2>1. (n + 1) % (c * d) = n + 1
    BY <1>1, <1>4
  <2> QED
    BY <1>3, <2>1
<1>5. CASE ~ n + 1 < c * d
  <2>1. n + 1 = c * d
    BY <1>1, <1>5
  <2>2. (n + 1) % (c * d) = 0 /\ 0 % c = 0
    BY <1>1, <2>1
  <2>3. (n + 1) % c = 0
    <3>1. 0 \in 0 .. c - 1 /\ n + 1 \in Nat /\ n + 1 = c * d + 0
      BY <1>1, <2>1
    <3> QED
      BY <3>1, QuotientIs
  <2> QED
    BY <1>3, <2>2, <2>3
<1> QED
  BY <1>4, <1>5

\* The mask of the ring that is made counts through its slots.
LEMMA RingSlotsInTurn ==
  ASSUME RingInv
  PROVE  SlotsInTurn
<1> SUFFICES ASSUME capacity \notin {Unset, 0}, NEW n \in Words
             PROVE  /\ (n & mask) = n % capacity
                    /\ (Word(n + 1) & mask) = ((n & mask) + 1) % capacity
  BY DEF SlotsInTurn
<1>1. PICK k \in 0 .. Width : FullMask(k) /\ capacity = IF k < Width THEN 2 ^ k ELSE 0
  BY SlotsMade
<1>2. capacity = 2 ^ k /\ mask = 2 ^ k - 1 /\ k \in Nat /\ k <= Width /\ n \in Nat
  BY <1>1, WidthIs, WordsAre DEF FullMask
<1>3. (n & mask) = n % 2 ^ k
  BY <1>2, Masked
<1>4. (Word(n + 1) & mask) = Word(n + 1) % 2 ^ k
  <2>1. Word(n + 1) \in Words
    <3>1. n + 1 \in Nat
      BY <1>2
    <3> QED
      BY <3>1, WordIs
  <2> QED
    BY <1>2, <2>1, Masked
<1>5. 2 ^ Width = 2 ^ k * 2 ^ (Width - k) /\ 2 ^ k \in Nat \ {0} /\ 2 ^ (Width - k) \in Nat \ {0}
  <2>1. Width - k \in Nat /\ k + (Width - k) = Width
    BY <1>2, WidthIs
  <2>2. 2 ^ (k + (Width - k)) = 2 ^ k * 2 ^ (Width - k)
    BY <1>2, <2>1, PowerSum
  <2> QED
    BY <1>2, <2>1, <2>2, PowerPositive
<1>6. Word(n + 1) % 2 ^ k = ((n % 2 ^ k) + 1) % 2 ^ k
  <2>1. n \in 0 .. 2 ^ k * 2 ^ (Width - k) - 1
    BY <1>5 DEF Words
  <2>2. ((n + 1) % (2 ^ k * 2 ^ (Width - k))) % 2 ^ k = ((n % 2 ^ k) + 1) % 2 ^ k
    BY <1>5, <2>1, NextModulo
  <2> QED
    BY <1>5, <2>2 DEF Word
<1> QED
  BY <1>2, <1>3, <1>4, <1>6

\* The ring has the least power of two that holds the request, or no slot where
\* that does not fit the word, for each width that WidthAssumption allows.
THEOREM RoundsUpAlways == Spec => []RoundsUp
BY RingFilled, RingRoundsUp, PTL

\* Ticket & mask goes through the slots in turn, where the counters overflow too,
\* for each width that WidthAssumption allows and whatever the request.
THEOREM SlotsInTurnAlways == Spec => []SlotsInTurn
BY RingFilled, RingSlotsInTurn, PTL

\* The range of a word is two laps of the ring or more, so that WordsWillDo of
\* CircleBufferRefinement is about every ring the constructor makes.
THEOREM RangeIsLaps ==
  Spec => [](capacity \notin {Unset, 0} =>
               \E laps \in Nat : laps >= 2 /\ 2 ^ Width = capacity * laps)
<1>1. ASSUME RingInv, capacity \notin {Unset, 0}
      PROVE  \E laps \in Nat : laps >= 2 /\ 2 ^ Width = capacity * laps
  <2>1. PICK k \in 0 .. Width : FullMask(k) /\ capacity = IF k < Width THEN 2 ^ k ELSE 0
    BY <1>1, SlotsMade
  <2>2. k < Width /\ capacity = 2 ^ k
    BY <1>1, <2>1
  <2>3. /\ k \in Nat /\ Width - k \in Nat /\ k + (Width - k) = Width
        /\ (Width - k) - 1 \in Nat /\ ((Width - k) - 1) + 1 = Width - k
    BY <2>2, WidthIs
  <2>4. 2 ^ (k + (Width - k)) = 2 ^ k * 2 ^ (Width - k)
    BY <2>3, PowerSum
  <2> DEFINE p == 2 ^ ((Width - k) - 1)
  <2>5. p \in Nat \ {0}
    BY <2>3, PowerPositive
  <2>6. 2 ^ (((Width - k) - 1) + 1) = 2 * p
    BY <2>3, PowerStep
  <2> HIDE DEF p
  <2>7. 2 ^ (Width - k) \in Nat /\ 2 ^ (Width - k) >= 2
    BY <2>3, <2>5, <2>6
  <2> QED
    BY <2>2, <2>3, <2>4, <2>7
<1> QED
  BY <1>1, RingFilled, PTL
===========================================================================
