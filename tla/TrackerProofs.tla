---------------------------- MODULE TrackerProofs ----------------------------
(* Proofs about Tracker, whatever the parameters, the detections and the    *)
(* similarities: tracks are forgotten in time; their ages, their order and  *)
(* their identities are right; no detection is used twice; the walks of     *)
(* GetClosestLocation and MergeTrack do what they are for.                  *)
EXTENDS Tracker, FiniteSetTheorems, WellFoundedInduction, TLAPS

---------------------------------------------------------------------------
(* Induction and recursion.  The walks are recursive functions, which are  *)
(* a CHOOSE to the prover; that there is a function with the equation has  *)
(* to be proved, by induction over sets of numbers.                        *)

\* A set of numbers that is not empty has a least one.
LEMMA LeastNat ==
  ASSUME NEW T \in SUBSET Nat, T # {}
  PROVE  \E x \in T : \A y \in T : x <= y
<1> DEFINE R == {ss \in Nat \X Nat : ss[1] < ss[2]}
<1>1. IsWellFoundedOn(R, Nat)
  BY NatLessThanWellFounded DEF OpToRel
<1> HIDE DEF R
<1>2. PICK x \in T : \A y \in T : ~ (<<y, x>> \in R)
  BY <1>1, WFMin
<1>3. ASSUME NEW y \in T PROVE x <= y
  <2>1. ~ (<<y, x>> \in R)
    BY <1>2
  <2>2. <<y, x>> \in Nat \X Nat /\ <<y, x>>[1] = y /\ <<y, x>>[2] = x
    OBVIOUS
  <2>3. ~ y < x
    BY <2>1, <2>2 DEF R
  <2> QED
    BY <2>3
<1> QED
  BY <1>3

\* Induction: a set with 0, and with the next of each number in it, has them all.
LEMMA Induction ==
  ASSUME NEW S, 0 \in S, \A n \in Nat : n \in S => n + 1 \in S
  PROVE  Nat \subseteq S
<1> SUFFICES ASSUME Nat \ S # {} PROVE FALSE
  OBVIOUS
<1> PICK x \in Nat \ S : \A y \in Nat \ S : x <= y
  BY LeastNat
<1>1. x # 0 /\ x - 1 \in Nat /\ ~(x <= x - 1)
  OBVIOUS
<1>2. x - 1 \in S
  BY <1>1
<1>3. (x - 1) + 1 = x
  OBVIOUS
<1> QED
  BY <1>1, <1>2, <1>3

\* F is the step of a recursive function on D in V: F[f][d] depends only on what f
\* is at places of a lower rank.
Recursive(D, V, M, rank, F) ==
  /\ V # {} /\ M \in Nat /\ rank \in [D -> 0 .. M]
  /\ F \in [[D -> V] -> [D -> V]]
  /\ \A f, g \in [D -> V] : \A d \in D :
       (\A e \in D : rank[e] < rank[d] => f[e] = g[e]) => F[f][d] = F[g][d]

\* Then there is such a function.
LEMMA Recursion ==
  ASSUME NEW D, NEW V, NEW M, NEW rank, NEW F, Recursive(D, V, M, rank, F)
  PROVE  \E f \in [D -> V] : f = F[f]
<1> USE DEF Recursive
<1> DEFINE Upto(f, m) == \A d \in D : rank[d] < m => f[d] = F[f][d]
           S == {m \in Nat : \E f \in [D -> V] : Upto(f, m)}
<1>1. 0 \in S
  <2>1. PICK v \in V : TRUE
    OBVIOUS
  <2>2. [d \in D |-> v] \in [D -> V]
    OBVIOUS
  <2>3. \A d \in D : ~ (rank[d] < 0)
    OBVIOUS
  <2> QED
    BY <2>2, <2>3
<1>2. ASSUME NEW m \in Nat, m \in S PROVE m + 1 \in S
  <2>1. PICK f \in [D -> V] : Upto(f, m)
    BY <1>2
  <2>2. F[f] \in [D -> V]
    OBVIOUS
  <2>3. ASSUME NEW d \in D, rank[d] < m + 1
        PROVE  F[f][d] = F[F[f]][d]
    <3>1. \A e \in D : rank[e] < rank[d] => f[e] = F[f][e]
      <4> TAKE e \in D
      <4>1. rank[e] \in Nat /\ rank[d] \in Nat
        OBVIOUS
      <4> QED
        BY <2>1, <2>3, <4>1
    <3> QED
      BY <2>2, <3>1
  <2>4. Upto(F[f], m + 1)
    BY <2>3
  <2> QED
    BY <2>2, <2>4
<1>3. M + 1 \in S
  <2> HIDE DEF S
  <2> QED
    BY <1>1, <1>2, Induction
<1>4. PICK f \in [D -> V] : Upto(f, M + 1)
  BY <1>3
<1>5. \A d \in D : f[d] = F[f][d]
  BY <1>4
<1> QED
  BY <1>5

---------------------------------------------------------------------------
(* The walks through two lists of objects.                                 *)

\* The objects of a list are in the order of their frames, one a frame.
InOrder(s) == \A i, j \in DOMAIN s : i < j => s[i].frame < s[j].frame

\* Two lists have no frame in common.
Apart(a, b) == \A i \in DOMAIN a, j \in DOMAIN b : a[i].frame # b[j].frame

\* The places of a walk through two lists, and how many steps are left from one.
Walk(a, b) == (1 .. Len(a) + 1) \X (1 .. Len(b) + 1)

Rest(a, b, p) == (Len(a) + 1 - p[1]) + (Len(b) + 1 - p[2])

\* What a list has from i on.
From(s, i) == {s[k] : k \in i .. Len(s)}

\* An object before a list of later ones.
LEMMA Prepended ==
  ASSUME NEW o \in Object, NEW s \in Seq(Object), InOrder(s),
         \A q \in Range(s) : o.frame < q.frame
  PROVE  /\ <<o>> \o s \in Seq(Object)
         /\ Len(<<o>> \o s) = Len(s) + 1
         /\ InOrder(<<o>> \o s)
         /\ Range(<<o>> \o s) = {o} \cup Range(s)
<1> DEFINE r == <<o>> \o s
<1>1. /\ r \in Seq(Object) /\ Len(r) = Len(s) + 1 /\ r[1] = o
      /\ \A k \in 1 .. Len(s) : r[k + 1] = s[k]
  OBVIOUS
<1> HIDE DEF r
<1>2. \A k \in 2 .. Len(r) : r[k] = s[k - 1] /\ k - 1 \in 1 .. Len(s)
  <2> TAKE k \in 2 .. Len(r)
  <2>1. k - 1 \in 1 .. Len(s) /\ (k - 1) + 1 = k
    BY <1>1
  <2> QED
    BY <1>1, <2>1
<1>3. DOMAIN r = 1 .. Len(r) /\ DOMAIN s = 1 .. Len(s)
  BY <1>1
<1>4. InOrder(r)
  <2> SUFFICES ASSUME NEW i \in 1 .. Len(r), NEW j \in 1 .. Len(r), i < j
               PROVE  r[i].frame < r[j].frame
    BY <1>3 DEF InOrder
  <2>1. r[j] = s[j - 1] /\ j - 1 \in 1 .. Len(s)
    BY <1>1, <1>2
  <2>2. CASE i = 1
    BY <1>1, <1>3, <2>1, <2>2 DEF Range
  <2>3. CASE i # 1
    <3>1. r[i] = s[i - 1] /\ i - 1 \in 1 .. Len(s)
      BY <1>1, <1>2, <2>3
    <3> QED
      BY <1>1, <1>3, <2>1, <3>1 DEF InOrder
  <2> QED
    BY <2>2, <2>3
<1>5. Range(r) = {o} \cup Range(s)
  <2>1. \A k \in 1 .. Len(r) : r[k] \in {o} \cup Range(s)
    <3> TAKE k \in 1 .. Len(r)
    <3>1. k = 1 \/ k \in 2 .. Len(r)
      BY <1>1
    <3> QED
      BY <1>1, <1>2, <1>3, <3>1 DEF Range
  <2>2. o \in Range(r)
    BY <1>1, <1>3 DEF Range
  <2>3. \A k \in 1 .. Len(s) : s[k] \in Range(r)
    <3> TAKE k \in 1 .. Len(s)
    <3>1. k + 1 \in 1 .. Len(r) /\ r[k + 1] = s[k]
      BY <1>1
    <3> QED
      BY <3>1, <1>3 DEF Range
  <2> QED
    BY <1>3, <2>1, <2>2, <2>3 DEF Range
<1> QED
  BY <1>1, <1>4, <1>5 DEF r

\* The end of a list.
LEMMA Rests ==
  ASSUME NEW s \in Seq(Object), NEW i \in 1 .. Len(s) + 1
  PROVE  /\ i > Len(s) => From(s, i) = {}
         /\ i <= Len(s) => From(s, i) = {s[i]} \cup From(s, i + 1)
         /\ SubSeq(s, i, Len(s)) \in Seq(Object)
         /\ Len(SubSeq(s, i, Len(s))) = Len(s) + 1 - i
         /\ Range(SubSeq(s, i, Len(s))) = From(s, i)
         /\ InOrder(s) => InOrder(SubSeq(s, i, Len(s)))
<1> DEFINE r == SubSeq(s, i, Len(s))
<1>1. /\ r \in Seq(Object) /\ Len(r) = Len(s) + 1 - i
      /\ \A k \in 1 .. Len(r) : r[k] = s[k + i - 1]
  OBVIOUS
<1> HIDE DEF r
<1>2. DOMAIN r = 1 .. Len(r) /\ DOMAIN s = 1 .. Len(s)
  BY <1>1
<1>3. \A k \in 1 .. Len(r) : k + i - 1 \in i .. Len(s)
  BY <1>1
<1>4. InOrder(s) => InOrder(r)
  <2> SUFFICES ASSUME InOrder(s), NEW k \in 1 .. Len(r), NEW l \in 1 .. Len(r), k < l
               PROVE  r[k].frame < r[l].frame
    BY <1>2 DEF InOrder
  <2>1. k + i - 1 \in 1 .. Len(s) /\ l + i - 1 \in 1 .. Len(s) /\ k + i - 1 < l + i - 1
    BY <1>1
  <2> QED
    BY <1>1, <1>2, <2>1 DEF InOrder
<1>5. Range(r) = From(s, i)
  <2>1. \A k \in i .. Len(s) : k - i + 1 \in 1 .. Len(r) /\ r[k - i + 1] = s[k]
    <3> TAKE k \in i .. Len(s)
    <3>1. k - i + 1 \in 1 .. Len(r) /\ (k - i + 1) + i - 1 = k
      BY <1>1
    <3> QED
      BY <3>1, <1>1
  <2>2. From(s, i) \subseteq Range(r)
    BY <2>1, <1>2 DEF From, Range
  <2>3. Range(r) \subseteq From(s, i)
    BY <1>1, <1>2, <1>3 DEF From, Range
  <2> QED
    BY <2>2, <2>3
<1>6. i > Len(s) => From(s, i) = {}
  BY DEF From
<1>7. i <= Len(s) => From(s, i) = {s[i]} \cup From(s, i + 1)
  <2> HAVE i <= Len(s)
  <2>1. i .. Len(s) = {i} \cup (i + 1) .. Len(s)
    OBVIOUS
  <2> QED
    BY <2>1 DEF From
<1> QED
  BY <1>1, <1>4, <1>5, <1>6, <1>7 DEF r

\* One turn of the loop in MergeTrack and what the rest of it makes.
MergeStep(a, b, w) ==
  [p \in (1 .. Len(a) + 1) \X (1 .. Len(b) + 1) |->
     LET i == p[1]
         j == p[2]
     IN  IF i > Len(a) THEN SubSeq(b, j, Len(b))
         ELSE IF j > Len(b) THEN SubSeq(a, i, Len(a))
         ELSE IF a[i].frame < b[j].frame THEN <<a[i]>> \o w[<<i + 1, j>>]
         ELSE IF a[i].frame > b[j].frame THEN <<b[j]>> \o w[<<i, j + 1>>]
         ELSE <<>>]

\* The places that a walk goes on to.
LEMMA Places ==
  ASSUME NEW a \in Seq(Object), NEW b \in Seq(Object), NEW p \in Walk(a, b)
  PROVE  /\ p[1] \in 1 .. Len(a) + 1 /\ p[2] \in 1 .. Len(b) + 1
         /\ p = <<p[1], p[2]>>
         /\ p[1] \in Int /\ p[2] \in Int /\ Len(a) \in Int /\ Len(b) \in Int
         /\ Rest(a, b, p) \in Nat /\ Rest(a, b, p) \in 0 .. Len(a) + Len(b)
         /\ p[1] <= Len(a) => /\ <<p[1] + 1, p[2]>> \in Walk(a, b)
                              /\ a[p[1]] \in Object
                              /\ Rest(a, b, <<p[1] + 1, p[2]>>) < Rest(a, b, p)
                              /\ Rest(a, b, <<p[1] + 1, p[2]>>) = Rest(a, b, p) - 1
         /\ p[2] <= Len(b) => /\ <<p[1], p[2] + 1>> \in Walk(a, b)
                              /\ b[p[2]] \in Object
                              /\ Rest(a, b, <<p[1], p[2] + 1>>) < Rest(a, b, p)
                              /\ Rest(a, b, <<p[1], p[2] + 1>>) = Rest(a, b, p) - 1
<1>1. p[1] \in 1 .. Len(a) + 1 /\ p[2] \in 1 .. Len(b) + 1 /\ p = <<p[1], p[2]>>
  BY DEF Walk
<1>2. Len(a) \in Nat /\ Len(b) \in Nat
  OBVIOUS
<1>3. Rest(a, b, p) \in 0 .. Len(a) + Len(b)
  BY <1>1, <1>2 DEF Rest
<1>4. p[1] <= Len(a) => /\ <<p[1] + 1, p[2]>> \in Walk(a, b)
                        /\ a[p[1]] \in Object
                        /\ Rest(a, b, <<p[1] + 1, p[2]>>) < Rest(a, b, p)
                        /\ Rest(a, b, <<p[1] + 1, p[2]>>) = Rest(a, b, p) - 1
  <2> HAVE p[1] <= Len(a)
  <2> DEFINE q == <<p[1] + 1, p[2]>>
  <2>1. q[1] = p[1] + 1 /\ q[2] = p[2] /\ p[1] + 1 \in 1 .. Len(a) + 1
    BY <1>1, <1>2
  <2>2. a[p[1]] \in Object /\ q \in Walk(a, b)
    BY <1>1, <1>2 DEF Walk
  <2> HIDE DEF q
  <2>3. Rest(a, b, q) = Rest(a, b, p) - 1
    BY <1>1, <1>2, <2>1 DEF Rest
  <2>4. Rest(a, b, q) < Rest(a, b, p)
    BY <1>3, <2>3
  <2> QED
    BY <2>2, <2>3, <2>4 DEF q
<1>5. p[2] <= Len(b) => /\ <<p[1], p[2] + 1>> \in Walk(a, b)
                        /\ b[p[2]] \in Object
                        /\ Rest(a, b, <<p[1], p[2] + 1>>) < Rest(a, b, p)
                        /\ Rest(a, b, <<p[1], p[2] + 1>>) = Rest(a, b, p) - 1
  <2> HAVE p[2] <= Len(b)
  <2> DEFINE q == <<p[1], p[2] + 1>>
  <2>1. q[1] = p[1] /\ q[2] = p[2] + 1 /\ p[2] + 1 \in 1 .. Len(b) + 1
    BY <1>1, <1>2
  <2>2. b[p[2]] \in Object /\ q \in Walk(a, b)
    BY <1>1, <1>2 DEF Walk
  <2> HIDE DEF q
  <2>3. Rest(a, b, q) = Rest(a, b, p) - 1
    BY <1>1, <1>2, <2>1 DEF Rest
  <2>4. Rest(a, b, q) < Rest(a, b, p)
    BY <1>3, <2>3
  <2> QED
    BY <2>2, <2>3, <2>4 DEF q
<1> QED
  BY <1>1, <1>2, <1>3, <1>4, <1>5

\* What holds at a place whenever it holds a step further holds at every place.
LEMMA WalkInduction ==
  ASSUME NEW a \in Seq(Object), NEW b \in Seq(Object), NEW T,
         \A p \in Walk(a, b) :
           (\A q \in Walk(a, b) : Rest(a, b, q) = Rest(a, b, p) - 1 => q \in T) => p \in T
  PROVE  <<1, 1>> \in T
<1> DEFINE S == {m \in Nat : \A p \in Walk(a, b) : Rest(a, b, p) = m => p \in T}
<1>1. \A q \in Walk(a, b) : Rest(a, b, q) \in Nat
  BY Places
<1>2. 0 \in S
  <2>1. ASSUME NEW p \in Walk(a, b), Rest(a, b, p) = 0 PROVE p \in T
    <3>1. \A q \in Walk(a, b) : Rest(a, b, q) # Rest(a, b, p) - 1
      BY <1>1, <2>1
    <3> QED
      BY <3>1
  <2> QED
    BY <2>1
<1>3. ASSUME NEW m \in Nat, m \in S PROVE m + 1 \in S
  <2>1. ASSUME NEW p \in Walk(a, b), Rest(a, b, p) = m + 1 PROVE p \in T
    <3>1. Rest(a, b, p) - 1 = m
      BY <2>1
    <3> QED
      BY <1>3, <3>1
  <2> QED
    BY <2>1
<1>4. Nat \subseteq S
  <2> HIDE DEF S
  <2> QED
    BY <1>2, <1>3, Induction
<1>5. <<1, 1>> \in Walk(a, b)
  <2>1. Len(a) \in Nat /\ Len(b) \in Nat
    OBVIOUS
  <2> QED
    BY <2>1 DEF Walk
<1> QED
  BY <1>1, <1>4, <1>5

\* The walk of MergeTrack is what its step says.
LEMMA MergeWalk ==
  ASSUME NEW a \in Seq(Object), NEW b \in Seq(Object)
  PROVE  \E w : w = MergeStep(a, b, w) /\ Interleaved(a, b) = w[<<1, 1>>]
<1> DEFINE D == Walk(a, b)
           V == Seq(Object)
           F == [w \in [D -> V] |-> MergeStep(a, b, w)]
           rank == [p \in D |-> Rest(a, b, p)]
           M == Len(a) + Len(b)
           W == CHOOSE w : w = MergeStep(a, b, w)
<1>1. V # {} /\ M \in Nat /\ rank \in [D -> 0 .. M]
  <2>1. <<>> \in V
    OBVIOUS
  <2>2. \A p \in D : Rest(a, b, p) \in 0 .. M
    BY Places
  <2> QED
    BY <2>1, <2>2
<1>2. F \in [[D -> V] -> [D -> V]]
  <2> SUFFICES ASSUME NEW w \in [D -> V], NEW p \in D
               PROVE  MergeStep(a, b, w)[p] \in V
    BY DEF MergeStep, Walk
  <2>1. p[1] <= Len(a) => a[p[1]] \in Object /\ w[<<p[1] + 1, p[2]>>] \in V
    BY Places
  <2>2. p[2] <= Len(b) => b[p[2]] \in Object /\ w[<<p[1], p[2] + 1>>] \in V
    BY Places
  <2>3. SubSeq(b, p[2], Len(b)) \in V /\ SubSeq(a, p[1], Len(a)) \in V
    BY Places, Rests
  <2>4. \A o \in Object, s \in V : <<o>> \o s \in V
    OBVIOUS
  <2>5. p[1] \in Int /\ p[2] \in Int /\ Len(a) \in Int /\ Len(b) \in Int /\ <<>> \in V
    <3>1. <<>> \in V
      OBVIOUS
    <3> QED
      BY <3>1, Places
  <2>6. MergeStep(a, b, w)[p] =
          IF p[1] > Len(a) THEN SubSeq(b, p[2], Len(b))
          ELSE IF p[2] > Len(b) THEN SubSeq(a, p[1], Len(a))
          ELSE IF a[p[1]].frame < b[p[2]].frame THEN <<a[p[1]]>> \o w[<<p[1] + 1, p[2]>>]
          ELSE IF a[p[1]].frame > b[p[2]].frame THEN <<b[p[2]]>> \o w[<<p[1], p[2] + 1>>]
          ELSE <<>>
    BY DEF MergeStep, Walk
  <2> HIDE DEF V
  <2> QED
    BY <2>1, <2>2, <2>3, <2>4, <2>5, <2>6
<1>3. ASSUME NEW f \in [D -> V], NEW g \in [D -> V], NEW p \in D,
             \A q \in D : rank[q] < rank[p] => f[q] = g[q]
      PROVE  F[f][p] = F[g][p]
  <2>1. \A q \in D : rank[q] = Rest(a, b, q)
    OBVIOUS
  <2>2. \A q \in Walk(a, b) : Rest(a, b, q) < Rest(a, b, p) => f[q] = g[q]
    BY <1>3, <2>1
  <2>3. p[1] <= Len(a) => f[<<p[1] + 1, p[2]>>] = g[<<p[1] + 1, p[2]>>]
    BY <2>2, Places
  <2>4. p[2] <= Len(b) => f[<<p[1], p[2] + 1>>] = g[<<p[1], p[2] + 1>>]
    BY <2>2, Places
  <2>5. MergeStep(a, b, f)[p] = MergeStep(a, b, g)[p]
    <3>1. p \in Walk(a, b)
      OBVIOUS
    <3>2. p[1] \in Int /\ p[2] \in Int /\ Len(a) \in Int /\ Len(b) \in Int
      BY Places
    <3> HIDE DEF D, V, F, rank, M, W
    <3> QED
      BY <2>3, <2>4, <3>1, <3>2 DEF MergeStep, Walk
  <2> QED
    BY <2>5
<1>4. \E w \in [D -> V] : w = F[w]
  <2> HIDE DEF D, V, F, rank, M, W
  <2>1. Recursive(D, V, M, rank, F)
    BY <1>1, <1>2, <1>3 DEF Recursive
  <2> QED
    BY <2>1, Recursion
<1>5. W = MergeStep(a, b, W)
  BY <1>4
<1>6. Interleaved(a, b) = W[<<1, 1>>]
  BY DEF Interleaved, MergeStep
<1> QED
  BY <1>5, <1>6

\* What is left of two lists that have no frame in common makes one list.
Merges(a, b, p, r) ==
  /\ r \in Seq(Object) /\ InOrder(r)
  /\ Len(r) = Rest(a, b, p)
  /\ Range(r) = From(a, p[1]) \cup From(b, p[2])

\* One step of the walk of MergeTrack: the object it takes comes before the rest.
LEMMA MergeStepMerges ==
  ASSUME NEW a \in Seq(Object), NEW b \in Seq(Object),
         InOrder(a), InOrder(b), Apart(a, b),
         NEW w, w = MergeStep(a, b, w), NEW p \in Walk(a, b),
         \A q \in Walk(a, b) : Rest(a, b, q) = Rest(a, b, p) - 1 => Merges(a, b, q, w[q])
  PROVE  Merges(a, b, p, w[p])
<1> DEFINE i == p[1]
           j == p[2]
           ahead == <<i + 1, j>>
           below == <<i, j + 1>>
<1>1. /\ i \in 1 .. Len(a) + 1 /\ j \in 1 .. Len(b) + 1
      /\ Len(a) \in Nat /\ Len(b) \in Nat
      /\ DOMAIN a = 1 .. Len(a) /\ DOMAIN b = 1 .. Len(b)
  <2>1. i \in 1 .. Len(a) + 1 /\ j \in 1 .. Len(b) + 1
    BY Places
  <2> QED
    BY <2>1
<1>2. w[p] = IF i > Len(a) THEN SubSeq(b, j, Len(b))
             ELSE IF j > Len(b) THEN SubSeq(a, i, Len(a))
             ELSE IF a[i].frame < b[j].frame THEN <<a[i]>> \o w[ahead]
             ELSE IF a[i].frame > b[j].frame THEN <<b[j]>> \o w[below]
             ELSE <<>>
  BY DEF MergeStep, Walk
<1>3. i <= Len(a) => Merges(a, b, ahead, w[ahead])
  BY Places
<1>4. j <= Len(b) => Merges(a, b, below, w[below])
  BY Places
<1>5. ahead[1] = i + 1 /\ ahead[2] = j /\ below[1] = i /\ below[2] = j + 1
  OBVIOUS
<1>6. i <= Len(a) => a[i] \in Object /\ Rest(a, b, ahead) = Rest(a, b, p) - 1
  BY Places
<1>7. j <= Len(b) => b[j] \in Object /\ Rest(a, b, below) = Rest(a, b, p) - 1
  BY Places
<1>8. Rest(a, b, p) = (Len(a) + 1 - i) + (Len(b) + 1 - j) /\ Rest(a, b, p) \in Nat
  <2>1. Rest(a, b, p) \in 0 .. Len(a) + Len(b)
    BY Places
  <2>2. Rest(a, b, p) = (Len(a) + 1 - i) + (Len(b) + 1 - j)
    BY DEF Rest
  <2> QED
    BY <1>1, <2>1, <2>2
<1>9. \A s \in Seq(Object), o \in Object :
        InOrder(s) /\ (\A q \in Range(s) : o.frame < q.frame)
          => /\ <<o>> \o s \in Seq(Object) /\ Len(<<o>> \o s) = Len(s) + 1
             /\ InOrder(<<o>> \o s) /\ Range(<<o>> \o s) = {o} \cup Range(s)
  BY Prepended
<1>10. \A o \in Object : o.frame \in Int
  BY DEF Object
<1>11. \A k \in 1 .. Len(a) : a[k] \in Object
  OBVIOUS
<1>12. \A k \in 1 .. Len(b) : b[k] \in Object
  OBVIOUS
<1> HIDE DEF i, j, ahead, below
<1>13. CASE i > Len(a)
  <2>1. w[p] = SubSeq(b, j, Len(b))
    BY <1>2, <1>13
  <2>4. Rest(a, b, p) = Len(b) + 1 - j
    BY <1>1, <1>8, <1>13
  <2>2. /\ w[p] \in Seq(Object) /\ Len(w[p]) = Len(b) + 1 - j
        /\ Range(w[p]) = From(b, j) /\ InOrder(w[p])
    BY <1>1, <2>1, Rests
  <2>3. From(a, i) = {}
    BY <1>1, <1>13, Rests
  <2> QED
    BY <2>2, <2>3, <2>4 DEF Merges, i, j
<1>14. CASE i <= Len(a) /\ j > Len(b)
  <2>1. w[p] = SubSeq(a, i, Len(a))
    BY <1>1, <1>2, <1>14
  <2>4. Rest(a, b, p) = Len(a) + 1 - i
    BY <1>1, <1>8, <1>14
  <2>2. /\ w[p] \in Seq(Object) /\ Len(w[p]) = Len(a) + 1 - i
        /\ Range(w[p]) = From(a, i) /\ InOrder(w[p])
    BY <1>1, <2>1, Rests
  <2>3. From(b, j) = {}
    BY <1>1, <1>14, Rests
  <2> QED
    BY <2>2, <2>3, <2>4 DEF Merges, i, j
<1>15. CASE i <= Len(a) /\ j <= Len(b) /\ a[i].frame < b[j].frame
  <2>1. w[p] = <<a[i]>> \o w[ahead]
    BY <1>1, <1>2, <1>15
  <2>2. /\ w[ahead] \in Seq(Object) /\ InOrder(w[ahead])
        /\ Len(w[ahead]) = Rest(a, b, p) - 1
        /\ Range(w[ahead]) = From(a, i + 1) \cup From(b, j)
    BY <1>3, <1>5, <1>6, <1>15 DEF Merges
  <2>3. ASSUME NEW q \in Range(w[ahead]) PROVE a[i].frame < q.frame
    <3>1. CASE q \in From(a, i + 1)
      BY <1>1, <1>15, <3>1 DEF From, InOrder
    <3>2. CASE q \in From(b, j)
      <4>1. PICK k \in j .. Len(b) : q = b[k]
        BY <3>2 DEF From
      <4>2. k = j \/ b[j].frame < b[k].frame
        BY <1>1, <1>15 DEF InOrder
      <4>3. b[k].frame \in Int /\ b[j].frame \in Int /\ a[i].frame \in Int
        BY <1>1, <1>10, <1>11, <1>12, <1>15
      <4> QED
        BY <1>15, <4>1, <4>2, <4>3
    <3> QED
      BY <2>2, <3>1, <3>2
  <2>4. /\ w[p] \in Seq(Object) /\ Len(w[p]) = (Rest(a, b, p) - 1) + 1
        /\ InOrder(w[p]) /\ Range(w[p]) = {a[i]} \cup (From(a, i + 1) \cup From(b, j))
    BY <1>6, <1>9, <1>15, <2>1, <2>2, <2>3
  <2>5. From(a, i) = {a[i]} \cup From(a, i + 1)
    BY <1>1, <1>15, Rests
  <2> QED
    BY <1>8, <2>4, <2>5 DEF Merges, i, j
<1>16. CASE i <= Len(a) /\ j <= Len(b) /\ a[i].frame > b[j].frame
  <2>1. w[p] = <<b[j]>> \o w[below]
    <3>1. b[j].frame \in Int /\ a[i].frame \in Int
      BY <1>1, <1>10, <1>11, <1>12, <1>16
    <3> QED
      BY <1>1, <1>2, <1>16, <3>1
  <2>2. /\ w[below] \in Seq(Object) /\ InOrder(w[below])
        /\ Len(w[below]) = Rest(a, b, p) - 1
        /\ Range(w[below]) = From(a, i) \cup From(b, j + 1)
    BY <1>4, <1>5, <1>7, <1>16 DEF Merges
  <2>3. ASSUME NEW q \in Range(w[below]) PROVE b[j].frame < q.frame
    <3>1. CASE q \in From(b, j + 1)
      BY <1>1, <1>16, <3>1 DEF From, InOrder
    <3>2. CASE q \in From(a, i)
      <4>1. PICK k \in i .. Len(a) : q = a[k]
        BY <3>2 DEF From
      <4>2. k = i \/ a[i].frame < a[k].frame
        BY <1>1, <1>16 DEF InOrder
      <4>3. a[k].frame \in Int /\ b[j].frame \in Int /\ a[i].frame \in Int
        BY <1>1, <1>10, <1>11, <1>12, <1>16
      <4> QED
        BY <1>16, <4>1, <4>2, <4>3
    <3> QED
      BY <2>2, <3>1, <3>2
  <2>4. /\ w[p] \in Seq(Object) /\ Len(w[p]) = (Rest(a, b, p) - 1) + 1
        /\ InOrder(w[p]) /\ Range(w[p]) = {b[j]} \cup (From(a, i) \cup From(b, j + 1))
    BY <1>7, <1>9, <1>16, <2>1, <2>2, <2>3
  <2>5. From(b, j) = {b[j]} \cup From(b, j + 1)
    BY <1>1, <1>16, Rests
  <2> QED
    BY <1>8, <2>4, <2>5 DEF Merges, i, j
<1>17. i <= Len(a) /\ j <= Len(b) => a[i].frame < b[j].frame \/ a[i].frame > b[j].frame
  <2> HAVE i <= Len(a) /\ j <= Len(b)
  <2>1. a[i].frame \in Int /\ b[j].frame \in Int /\ a[i].frame # b[j].frame
    BY <1>1, <1>10, <1>11, <1>12 DEF Apart
  <2> QED
    BY <2>1
<1> QED
  BY <1>1, <1>13, <1>14, <1>15, <1>16, <1>17

\* The walk of MergeTrack comes to its end with lists that have no frame in
\* common, and makes one list of them that is in order.
LEMMA InterleavedMerges ==
  ASSUME NEW a \in Seq(Object), NEW b \in Seq(Object),
         InOrder(a), InOrder(b), Apart(a, b)
  PROVE  /\ Interleaved(a, b) \in Seq(Object)
         /\ InOrder(Interleaved(a, b))
         /\ Len(Interleaved(a, b)) = Len(a) + Len(b)
         /\ Range(Interleaved(a, b)) = Range(a) \cup Range(b)
<1>1. PICK w : w = MergeStep(a, b, w) /\ Interleaved(a, b) = w[<<1, 1>>]
  BY MergeWalk
<1> DEFINE T == {p \in Walk(a, b) : Merges(a, b, p, w[p])}
<1>2. ASSUME NEW p \in Walk(a, b),
             \A q \in Walk(a, b) : Rest(a, b, q) = Rest(a, b, p) - 1 => q \in T
      PROVE  p \in T
  BY <1>1, <1>2, MergeStepMerges
<1>3. <<1, 1>> \in T
  <2> HIDE DEF T
  <2> QED
    BY <1>2, WalkInduction
<1>4. <<1, 1>>[1] = 1 /\ <<1, 1>>[2] = 1
  OBVIOUS
<1>5. Rest(a, b, <<1, 1>>) = Len(a) + Len(b)
  <2>1. Len(a) \in Nat /\ Len(b) \in Nat
    OBVIOUS
  <2> QED
    BY <1>4, <2>1 DEF Rest
<1>6. From(a, 1) = Range(a) /\ From(b, 1) = Range(b)
  BY DEF From, Range
<1> QED
  BY <1>1, <1>3, <1>4, <1>5, <1>6 DEF Merges

\* One turn of the loop in GetClosestLocation and what the rest of it finds.
MeetStep(a, b, w) ==
  [p \in (1 .. Len(a) + 1) \X (1 .. Len(b) + 1) |->
     LET i == p[1]
         j == p[2]
     IN  IF i > Len(a) \/ j > Len(b) THEN FALSE
         ELSE IF a[i].frame < b[j].frame THEN w[<<i + 1, j>>]
         ELSE IF a[i].frame > b[j].frame THEN w[<<i, j + 1>>]
         ELSE TRUE]

\* The walk of GetClosestLocation is what its step says.
LEMMA MeetWalk ==
  ASSUME NEW a \in Seq(Object), NEW b \in Seq(Object)
  PROVE  \E w : w = MeetStep(a, b, w) /\ Meet(a, b) = w[<<1, 1>>]
<1> DEFINE D == Walk(a, b)
           V == BOOLEAN
           F == [w \in [D -> V] |-> MeetStep(a, b, w)]
           rank == [p \in D |-> Rest(a, b, p)]
           M == Len(a) + Len(b)
           W == CHOOSE w : w = MeetStep(a, b, w)
<1>1. V # {} /\ M \in Nat /\ rank \in [D -> 0 .. M]
  <2>1. \A p \in D : Rest(a, b, p) \in 0 .. M
    BY Places
  <2>2. TRUE \in V
    OBVIOUS
  <2>3. M \in Nat
    OBVIOUS
  <2> QED
    BY <2>1, <2>2, <2>3
<1>2. F \in [[D -> V] -> [D -> V]]
  <2> SUFFICES ASSUME NEW w \in [D -> V], NEW p \in D
               PROVE  MeetStep(a, b, w)[p] \in V
    BY DEF MeetStep, Walk
  <2>1. p[1] <= Len(a) => w[<<p[1] + 1, p[2]>>] \in V
    BY Places
  <2>2. p[2] <= Len(b) => w[<<p[1], p[2] + 1>>] \in V
    BY Places
  <2>3. p[1] \in Int /\ p[2] \in Int /\ Len(a) \in Int /\ Len(b) \in Int
    BY Places
  <2>4. MeetStep(a, b, w)[p] =
          IF p[1] > Len(a) \/ p[2] > Len(b) THEN FALSE
          ELSE IF a[p[1]].frame < b[p[2]].frame THEN w[<<p[1] + 1, p[2]>>]
          ELSE IF a[p[1]].frame > b[p[2]].frame THEN w[<<p[1], p[2] + 1>>]
          ELSE TRUE
    BY DEF MeetStep, Walk
  <2> DEFINE s == MeetStep(a, b, w)[p]
             over == p[1] > Len(a) \/ p[2] > Len(b)
             less == a[p[1]].frame < b[p[2]].frame
             more == a[p[1]].frame > b[p[2]].frame
  <2>5. /\ over => s = FALSE
        /\ ~over /\ less => s = w[<<p[1] + 1, p[2]>>]
        /\ ~over /\ ~less /\ more => s = w[<<p[1], p[2] + 1>>]
        /\ ~over /\ ~less /\ ~more => s = TRUE
    BY <2>4, Zenon
  <2>6. ~over => p[1] <= Len(a) /\ p[2] <= Len(b)
    BY <2>3
  <2> HIDE DEF D, s, over, less, more
  <2>7. s \in BOOLEAN
    BY <2>1, <2>2, <2>5, <2>6, Zenon
  <2> QED
    BY <2>7 DEF s
<1>3. ASSUME NEW f \in [D -> V], NEW g \in [D -> V], NEW p \in D,
             \A q \in D : rank[q] < rank[p] => f[q] = g[q]
      PROVE  F[f][p] = F[g][p]
  <2>1. \A q \in D : rank[q] = Rest(a, b, q)
    OBVIOUS
  <2>2. \A q \in Walk(a, b) : Rest(a, b, q) < Rest(a, b, p) => f[q] = g[q]
    BY <1>3, <2>1
  <2>3. p[1] <= Len(a) => f[<<p[1] + 1, p[2]>>] = g[<<p[1] + 1, p[2]>>]
    BY <2>2, Places
  <2>4. p[2] <= Len(b) => f[<<p[1], p[2] + 1>>] = g[<<p[1], p[2] + 1>>]
    BY <2>2, Places
  <2>5. MeetStep(a, b, f)[p] = MeetStep(a, b, g)[p]
    <3>1. p \in Walk(a, b)
      OBVIOUS
    <3>2. p[1] \in Int /\ p[2] \in Int /\ Len(a) \in Int /\ Len(b) \in Int
      BY Places
    <3> HIDE DEF D, V, F, rank, M, W
    <3>3. ASSUME NEW h
          PROVE  MeetStep(a, b, h)[p] =
                   IF p[1] > Len(a) \/ p[2] > Len(b) THEN FALSE
                   ELSE IF a[p[1]].frame < b[p[2]].frame THEN h[<<p[1] + 1, p[2]>>]
                   ELSE IF a[p[1]].frame > b[p[2]].frame THEN h[<<p[1], p[2] + 1>>]
                   ELSE TRUE
      BY <3>1 DEF MeetStep, Walk
    <3>4. ~ (p[1] > Len(a) \/ p[2] > Len(b)) => p[1] <= Len(a) /\ p[2] <= Len(b)
      BY <3>2
    <3> QED
      BY <2>3, <2>4, <3>3, <3>4, Zenon
  <2> QED
    BY <2>5
<1>4. \E w \in [D -> V] : w = F[w]
  <2> HIDE DEF D, V, F, rank, M, W
  <2>1. Recursive(D, V, M, rank, F)
    BY <1>1, <1>2, <1>3 DEF Recursive
  <2> QED
    BY <2>1, Recursion
<1>5. W = MeetStep(a, b, W)
  BY <1>4
<1>6. Meet(a, b) = W[<<1, 1>>]
  BY DEF Meet, MeetStep
<1> QED
  BY <1>5, <1>6

\* What is left of two lists has a frame in common.
Shared(a, b, p) ==
  \E k \in p[1] .. Len(a), l \in p[2] .. Len(b) : a[k].frame = b[l].frame

\* One step of the walk of GetClosestLocation: the frame it leaves behind is not
\* in the other list.
LEMMA MeetStepFinds ==
  ASSUME NEW a \in Seq(Object), NEW b \in Seq(Object), InOrder(a), InOrder(b),
         NEW w, w = MeetStep(a, b, w), NEW p \in Walk(a, b),
         \A q \in Walk(a, b) : Rest(a, b, q) = Rest(a, b, p) - 1 => (w[q] <=> Shared(a, b, q))
  PROVE  w[p] <=> Shared(a, b, p)
<1> DEFINE i == p[1]
           j == p[2]
           ahead == <<i + 1, j>>
           below == <<i, j + 1>>
<1>1. /\ i \in 1 .. Len(a) + 1 /\ j \in 1 .. Len(b) + 1
      /\ Len(a) \in Nat /\ Len(b) \in Nat
      /\ DOMAIN a = 1 .. Len(a) /\ DOMAIN b = 1 .. Len(b)
  <2>1. i \in 1 .. Len(a) + 1 /\ j \in 1 .. Len(b) + 1
    BY Places
  <2> QED
    BY <2>1
<1>2. w[p] = IF i > Len(a) \/ j > Len(b) THEN FALSE
             ELSE IF a[i].frame < b[j].frame THEN w[ahead]
             ELSE IF a[i].frame > b[j].frame THEN w[below]
             ELSE TRUE
  BY DEF MeetStep, Walk
<1>3. i <= Len(a) => (w[ahead] <=> Shared(a, b, ahead))
  BY Places
<1>4. j <= Len(b) => (w[below] <=> Shared(a, b, below))
  BY Places
<1>5. /\ \A k \in 1 .. Len(a) : a[k].frame \in Int
      /\ \A k \in 1 .. Len(b) : b[k].frame \in Int
  <2>1. \A o \in Object : o.frame \in Int
    BY DEF Object
  <2>2. \A k \in 1 .. Len(a) : a[k] \in Object
    OBVIOUS
  <2>3. \A k \in 1 .. Len(b) : b[k] \in Object
    OBVIOUS
  <2> QED
    BY <2>1, <2>2, <2>3
<1>6. /\ Shared(a, b, p) <=> \E k \in i .. Len(a), l \in j .. Len(b) : a[k].frame = b[l].frame
      /\ Shared(a, b, ahead) <=>
           \E k \in i + 1 .. Len(a), l \in j .. Len(b) : a[k].frame = b[l].frame
      /\ Shared(a, b, below) <=>
           \E k \in i .. Len(a), l \in j + 1 .. Len(b) : a[k].frame = b[l].frame
  BY DEF Shared
<1> HIDE DEF i, j, ahead, below
<1>7. CASE i > Len(a) \/ j > Len(b)
  <2>1. ~ w[p]
    BY <1>2, <1>7, Zenon
  <2>2. ~ Shared(a, b, p)
    BY <1>1, <1>6, <1>7
  <2> QED
    BY <2>1, <2>2
<1>8. CASE i <= Len(a) /\ j <= Len(b)
  <2>1. /\ i \in 1 .. Len(a) /\ j \in 1 .. Len(b)
        /\ ~ (i > Len(a) \/ j > Len(b))
    BY <1>1, <1>8
  <2>2. a[i].frame \in Int /\ b[j].frame \in Int
    BY <1>5, <2>1
  <2>3. CASE a[i].frame < b[j].frame
    <3>1. w[p] <=> Shared(a, b, ahead)
      BY <1>2, <1>3, <1>8, <2>1, <2>3, Zenon
    <3>2. \A l \in j .. Len(b) : a[i].frame # b[l].frame
      <4> TAKE l \in j .. Len(b)
      <4>1. l \in 1 .. Len(b) /\ (l = j \/ j < l)
        BY <1>1
      <4>2. l = j \/ b[j].frame < b[l].frame
        BY <1>1, <2>1, <4>1 DEF InOrder
      <4>3. b[l].frame \in Int
        BY <1>5, <4>1
      <4> QED
        BY <2>2, <2>3, <4>2, <4>3
    <3>3. \A k \in i .. Len(a) : k = i \/ k \in i + 1 .. Len(a)
      BY <1>1
    <3>4. i + 1 .. Len(a) \subseteq i .. Len(a)
      BY <1>1
    <3> QED
      BY <1>6, <3>1, <3>2, <3>3, <3>4
  <2>4. CASE a[i].frame > b[j].frame
    <3>0. ~ (a[i].frame < b[j].frame)
      BY <2>2, <2>4
    <3>1. w[p] <=> Shared(a, b, below)
      BY <1>2, <1>4, <1>8, <2>1, <2>4, <3>0, Zenon
    <3>2. \A k \in i .. Len(a) : a[k].frame # b[j].frame
      <4> TAKE k \in i .. Len(a)
      <4>1. k \in 1 .. Len(a) /\ (k = i \/ i < k)
        BY <1>1
      <4>2. k = i \/ a[i].frame < a[k].frame
        BY <1>1, <2>1, <4>1 DEF InOrder
      <4>3. a[k].frame \in Int
        BY <1>5, <4>1
      <4> QED
        BY <2>2, <2>4, <4>2, <4>3
    <3>3. \A l \in j .. Len(b) : l = j \/ l \in j + 1 .. Len(b)
      BY <1>1
    <3>4. j + 1 .. Len(b) \subseteq j .. Len(b)
      BY <1>1
    <3> QED
      BY <1>6, <3>1, <3>2, <3>3, <3>4
  <2>5. CASE a[i].frame = b[j].frame
    <3>1. ~ (a[i].frame < b[j].frame) /\ ~ (a[i].frame > b[j].frame)
      BY <2>2, <2>5
    <3>2. w[p]
      BY <1>2, <2>1, <3>1, Zenon
    <3>3. i \in i .. Len(a) /\ j \in j .. Len(b)
      BY <2>1
    <3>4. Shared(a, b, p)
      BY <1>6, <2>5, <3>3
    <3> QED
      BY <3>2, <3>4
  <2> QED
    BY <2>2, <2>3, <2>4, <2>5
<1> QED
  BY <1>1, <1>7, <1>8

\* The walk of GetClosestLocation answers 0 exactly when two tracks have a frame
\* in common.
LEMMA MeetFinds ==
  ASSUME NEW a \in Seq(Object), NEW b \in Seq(Object), InOrder(a), InOrder(b)
  PROVE  Meet(a, b) <=> ~ Apart(a, b)
<1>1. PICK w : w = MeetStep(a, b, w) /\ Meet(a, b) = w[<<1, 1>>]
  BY MeetWalk
<1> DEFINE T == {p \in Walk(a, b) : w[p] <=> Shared(a, b, p)}
<1>2. ASSUME NEW p \in Walk(a, b),
             \A q \in Walk(a, b) : Rest(a, b, q) = Rest(a, b, p) - 1 => q \in T
      PROVE  p \in T
  BY <1>1, <1>2, MeetStepFinds
<1>3. <<1, 1>> \in T
  <2> HIDE DEF T
  <2> QED
    BY <1>2, WalkInduction
<1>4. <<1, 1>>[1] = 1 /\ <<1, 1>>[2] = 1
  OBVIOUS
<1>5. Shared(a, b, <<1, 1>>) <=> ~ Apart(a, b)
  <2>1. DOMAIN a = 1 .. Len(a) /\ DOMAIN b = 1 .. Len(b)
    OBVIOUS
  <2> QED
    BY <1>4, <2>1 DEF Shared, Apart
<1>6. w[<<1, 1>>] <=> Shared(a, b, <<1, 1>>)
  BY <1>3
<1> QED
  BY <1>1, <1>5, <1>6

---------------------------------------------------------------------------
(* Forgetting.                                                             *)

\* What is chosen in a frame: which detection goes on which track, which of them
\* are noise, where lost tracks are, and what is merged.
Decided(n, matches, noise, place, merge) ==
  /\ matches \in Assignments(active, 1 .. n)
  /\ noise \in SUBSET {id \in DOMAIN matches : MayBeNoise(tracks[id])}
  /\ place \in Predictions(active \ DOMAIN matches)
  /\ merge \in Mergers(BeforeRectify(n, matches, noise, place))
  /\ RectifyAndReport(n, matches, BeforeRectify(n, matches, noise, place), merge)

\* Process makes these choices.
LEMMA ProcessDecides ==
  ASSUME NEW n, Process(n)
  PROVE  \E matches, noise, place, merge : Decided(n, matches, noise, place, merge)
<1>1. PICK matches \in Assignments(active, 1 .. n) :
      \E noise \in SUBSET {id \in DOMAIN matches : MayBeNoise(tracks[id])} :
      \E place \in Predictions(active \ DOMAIN matches) :
      \E merge \in Mergers(BeforeRectify(n, matches, noise, place)) :
        RectifyAndReport(n, matches, BeforeRectify(n, matches, noise, place), merge)
  BY ZenonT(60) DEF Process
<1> QED
  BY <1>1, ZenonT(60) DEF Decided

\* A record with the fields of a track, of which two are numbers; what is in
\* objects does not matter for forgetting.
Counted(track) ==
  /\ DOMAIN track = {"objects", "lost", "length"}
  /\ track.lost \in Nat
  /\ track.length \in Nat

InTime(track) ==
  /\ track.lost <= ForgetDelay
  /\ track.length < 3 => track.lost <= ForgetDelay \div 3

\* A tracker with a track for each active identity, each of them counted.
Sound(t) ==
  /\ t.active = DOMAIN t.tracks
  /\ \A id \in t.active : Counted(t.tracks[id])

\* The inductive invariant: forgetting in time, for tracks that exist.
ForgetInv ==
  /\ active = DOMAIN tracks
  /\ \A id \in active : Counted(tracks[id]) /\ InTime(tracks[id])

\* Erasing leaves the others alone.
LEMMA ErasedSound ==
  ASSUME NEW t, Sound(t), NEW ids
  PROVE  /\ Sound(Erased(t, ids))
         /\ Erased(t, ids).active = t.active \ ids
         /\ \A id \in t.active \ ids : Erased(t, ids).tracks[id] = t.tracks[id]
BY DEF Erased, Restrict, Sound

\* A track that has just been seen is in time.
LEMMA SeenInTime ==
  ASSUME NEW track, Counted(track), track.lost = 0
  PROVE  InTime(track)
BY TrackerAssumption DEF Counted, InTime

\* Appending sets the track back to not lost.
LEMMA AppendCounted ==
  ASSUME NEW track, Counted(track), NEW id, NEW number
  PROVE  /\ Counted(AppendToTrack(track, id, number))
         /\ AppendToTrack(track, id, number).lost = 0
BY DEF Counted, AppendToTrack

\* So does merging.
LEMMA MergeCounted ==
  ASSUME NEW track1, NEW track2, Counted(track1), Counted(track2)
  PROVE  /\ Counted(MergeTrack(track1, track2))
         /\ MergeTrack(track1, track2).lost = 0
BY DEF Counted, MergeTrack

\* After matching, every track is the old one or has been seen.
LEMMA AppendedSound ==
  ASSUME NEW t, Sound(t), NEW matches, NEW noise, DOMAIN t = {"tracks", "active"}
  PROVE  /\ Sound(Appended(t, matches, noise))
         /\ Appended(t, matches, noise).active = t.active \ noise
         /\ \A id \in t.active \ noise :
              IF id \in DOMAIN matches
                THEN Appended(t, matches, noise).tracks[id].lost = 0
                ELSE Appended(t, matches, noise).tracks[id] = t.tracks[id]
<1> DEFINE grown == [id \in DOMAIN t.tracks |->
                       IF id \in DOMAIN matches
                         THEN AppendToTrack(t.tracks[id], id, matches[id])
                         ELSE t.tracks[id]]
           u == [t EXCEPT !.tracks = grown]
<1>1. u.tracks = grown /\ u.active = t.active
  OBVIOUS
<1>2. \A id \in t.active : /\ Counted(grown[id])
                           /\ id \in DOMAIN matches => grown[id].lost = 0
  BY AppendCounted DEF Sound
<1>3. Sound(u)
  BY <1>1, <1>2 DEF Sound
<1>4. Appended(t, matches, noise) = Erased(u, noise)
  BY DEF Appended
<1> HIDE DEF u
<1> QED
  BY <1>1, <1>2, <1>3, <1>4, ErasedSound DEF Sound

\* New tracks are not lost, the others stay as they are.
LEMMA AddedSound ==
  ASSUME NEW t, Sound(t), NEW numbers
  PROVE  /\ Sound(AddNewTracks(t, numbers))
         /\ t.active \subseteq AddNewTracks(t, numbers).active
         /\ \A id \in t.active : AddNewTracks(t, numbers).tracks[id] = t.tracks[id]
         /\ \A id \in AddNewTracks(t, numbers).active \ t.active :
              AddNewTracks(t, numbers).tracks[id].lost = 0
<1>1. \A id, number : /\ Counted(NewTrack(id, number))
                      /\ NewTrack(id, number).lost = 0
  BY DEF Counted, NewTrack
<1> QED
  BY <1>1 DEF AddNewTracks, Sound

\* A track that has been lost in this frame is erased or still in time.
LEMMA UpdatedSound ==
  ASSUME NEW t, Sound(t), DOMAIN t = {"tracks", "active"},
         NEW place, NEW again,
         \A id \in t.active \ DOMAIN place : InTime(t.tracks[id])
  PROVE  /\ Sound(UpdateLostTracks(t, place, again))
         /\ \A id \in UpdateLostTracks(t, place, again).active :
              InTime(UpdateLostTracks(t, place, again).tracks[id])
<1> DEFINE aged == [id \in DOMAIN t.tracks |->
                      IF id \in DOMAIN place THEN [t.tracks[id] EXCEPT !.lost = @ + 1]
                                             ELSE t.tracks[id]]
           gone == {id \in DOMAIN place : \/ OutOfFrame(aged[id], place[id], again)
                                          \/ LostTooManyFramesAgo(aged[id])}
           u == [t EXCEPT !.tracks = aged]
<1>1. \A id \in t.active : Counted(aged[id])
  BY DEF Sound, Counted
<1>2. \A id \in t.active \ gone : InTime(aged[id])
  <2> TAKE id \in t.active \ gone
  <2>1. CASE id \in DOMAIN place
    <3>1. ~ LostTooManyFramesAgo(aged[id])
      BY <2>1
    <3> HIDE DEF aged
    <3> QED
      BY <3>1, <1>1, TrackerAssumption
      DEF LostTooManyFramesAgo, IsTrackForgotten, InTime, Counted
  <2>2. CASE id \notin DOMAIN place
    BY <2>2 DEF Sound
  <2> QED
    BY <2>1, <2>2
<1>3. u.tracks = aged /\ u.active = t.active
  OBVIOUS
<1>4. Sound(u)
  BY <1>1, <1>3 DEF Sound
<1>5. UpdateLostTracks(t, place, again) = Erased(u, gone)
  BY DEF UpdateLostTracks
<1> HIDE DEF u, gone, aged
<1> QED
  BY <1>2, <1>3, <1>4, <1>5, ErasedSound

\* Merging sets tracks back to not lost and erases the rest.
LEMMA RectifiedSound ==
  ASSUME NEW t, Sound(t), DOMAIN t = {"tracks", "active"},
         \A id \in t.active : InTime(t.tracks[id]),
         NEW merge, \A id \in DOMAIN merge : merge[id] \in t.active
  PROVE  /\ Sound(Rectified(t, merge))
         /\ \A id \in Rectified(t, merge).active : InTime(Rectified(t, merge).tracks[id])
<1> DEFINE merged == [id \in DOMAIN t.tracks |->
                        IF id \in DOMAIN merge
                          THEN MergeTrack(t.tracks[id], t.tracks[merge[id]])
                          ELSE t.tracks[id]]
           u == [t EXCEPT !.tracks = merged]
<1>1. \A id \in t.active : Counted(merged[id]) /\ InTime(merged[id])
  BY MergeCounted, SeenInTime DEF Sound
<1>2. u.tracks = merged /\ u.active = t.active
  OBVIOUS
<1>3. Sound(u)
  BY <1>1, <1>2 DEF Sound
<1>4. Rectified(t, merge) = Erased(u, Range(merge))
  BY DEF Rectified
<1> HIDE DEF u, merged
<1> QED
  BY <1>1, <1>2, <1>3, <1>4, ErasedSound

\* One frame keeps the invariant.
LEMMA ProcessKeepsForgetInv ==
  ASSUME ForgetInv, NEW n \in PreProcess, Process(n)
  PROVE  ForgetInv'
<1>1. PICK matches, noise, place, merge : Decided(n, matches, noise, place, merge)
  BY ProcessDecides
<1>2. merge \in Mergers(BeforeRectify(n, matches, noise, place))
  BY <1>1 DEF Decided
<1>3. RectifyAndReport(n, matches, BeforeRectify(n, matches, noise, place), merge)
  BY <1>1 DEF Decided
<1>4. noise \subseteq DOMAIN matches /\ place \in Predictions(active \ DOMAIN matches)
  BY <1>1 DEF Decided
<1> DEFINE now == [tracks |-> tracks, active |-> active]
           matched == Appended(now, matches, noise)
           grown == AddNewTracks(matched, (1 .. n) \ Range(matches))
           lost == UpdateLostTracks(grown, place, active # {} /\ n > 0)
           aged == DropForgottenTracks(lost)
<1>5. aged = BeforeRectify(n, matches, noise, place)
  BY DEF BeforeRectify
<1>6. tracks' = Rectified(aged, merge).tracks /\ active' = Rectified(aged, merge).active
  <2> HIDE DEF aged
  <2> QED
    BY <1>3, <1>5 DEF RectifyAndReport
<1>7. Sound(now) /\ DOMAIN now = {"tracks", "active"}
  BY DEF ForgetInv, Sound
<1>8. DOMAIN place = active \ DOMAIN matches
  BY <1>4 DEF Predictions
<1>9. /\ Sound(matched)
      /\ matched.active = active \ noise
      /\ \A id \in matched.active : \/ id \in DOMAIN place
                                    \/ matched.tracks[id].lost = 0
  <2> HIDE DEF now
  <2>1. now.active = active
    BY DEF now
  <2> QED
    BY <1>4, <1>7, <1>8, <2>1, AppendedSound
<1>10. /\ Sound(grown)
      /\ \A id \in grown.active : \/ id \in DOMAIN place
                                  \/ grown.tracks[id].lost = 0
  <2> HIDE DEF matched
  <2> QED
    BY <1>9, AddedSound
<1>11. DOMAIN grown = {"tracks", "active"}
  BY DEF AddNewTracks
<1>12. Sound(lost) /\ \A id \in lost.active : InTime(lost.tracks[id])
  <2> HIDE DEF grown
  <2>1. \A id \in grown.active \ DOMAIN place : InTime(grown.tracks[id])
    BY <1>10, SeenInTime DEF Sound
  <2> QED
    BY <1>10, <1>11, <2>1, UpdatedSound
<1>13. Sound(aged) /\ \A id \in aged.active : InTime(aged.tracks[id])
  <2> HIDE DEF lost
  <2> QED
    BY <1>12, ErasedSound DEF DropForgottenTracks
<1>14. DOMAIN aged = {"tracks", "active"}
  BY DEF DropForgottenTracks, Erased
<1>15. \A id \in DOMAIN merge : merge[id] \in aged.active
  <2> HIDE DEF aged
  <2>1. merge \in Assignments(LostIds(aged), NewIds(aged))
    BY <1>2, <1>5 DEF Mergers
  <2> QED
    BY <2>1 DEF Assignments, NewIds
<1>16. /\ Sound(Rectified(aged, merge))
       /\ \A id \in Rectified(aged, merge).active : InTime(Rectified(aged, merge).tracks[id])
  <2> HIDE DEF aged
  <2> QED
    BY <1>13, <1>14, <1>15, RectifiedSound
<1> HIDE DEF aged
<1> QED
  BY <1>6, <1>16 DEF ForgetInv, Sound

\* The theorem about src/thirdparty/tracker/TrackerLib.cpp: in every tracker,
\* for all parameters, a lost track is gone after forget_delay frames, and
\* after a third of them if it is short, so the assertion of AppendToTrack
\* (line 958) holds; and active_track_ids_ names the tracks, so that no at()
\* on an active identity throws.
THEOREM TracksAreForgotten == Spec => [](ForgottenInTime /\ active = DOMAIN tracks)
<1>1. Init => ForgetInv
  BY DEF Init, ForgetInv
<1>2. ForgetInv /\ [Next]_vars => ForgetInv'
  <2> SUFFICES ASSUME ForgetInv, [Next]_vars PROVE ForgetInv'
    OBVIOUS
  <2>1. CASE StagePostProcess
    BY <2>1, ProcessKeepsForgetInv DEF StagePostProcess
  <2>2. CASE Over
    BY <2>2 DEF Over, vars, ForgetInv, Counted, InTime
  <2>3. CASE UNCHANGED vars
    BY <2>3 DEF vars, ForgetInv, Counted, InTime
  <2> QED
    BY <2>1, <2>2, <2>3 DEF Next
<1>3. ForgetInv => ForgottenInTime /\ active = DOMAIN tracks
  BY DEF ForgetInv, ForgottenInTime, InTime
<1> QED
  BY <1>1, <1>2, <1>3, PTL DEF Spec

---------------------------------------------------------------------------
(* The tracks as a whole.                                                  *)

\* A track as it should be: not empty, not too long, its objects in the order of
\* their frames and labelled with its identity, and not more than its length counts.
Kept(id, track) ==
  /\ track \in Track
  /\ Len(track.objects) \in 1 .. MaxObjects
  /\ Len(track.objects) <= track.length
  /\ InOrder(track.objects)
  /\ \A o \in Range(track.objects) : o.id = id

Same(o, p) == o.frame = p.frame /\ o.number = p.number

LastSeen(track) == Last(track.objects).frame

\* A tracker whose tracks are as they should be and share no detection.
Whole(t) ==
  /\ t.active = DOMAIN t.tracks
  /\ t.active \subseteq Ids
  /\ \A id \in t.active : Kept(id, t.tracks[id])
  /\ \A id, other \in t.active :
       \A o \in Range(t.tracks[id].objects), p \in Range(t.tracks[other].objects) :
         Same(o, p) => id = other

\* What a list that is not empty has at its end.
LEMMA AtTheEnd ==
  ASSUME NEW s \in Seq(Object), Len(s) >= 1, InOrder(s)
  PROVE  /\ DOMAIN s = 1 .. Len(s) /\ Len(s) \in DOMAIN s /\ 1 \in DOMAIN s
         /\ Last(s) = s[Len(s)] /\ Last(s) \in Object /\ Last(s) \in Range(s)
         /\ Last(s).frame \in Int
         /\ \A o \in Range(s) : o \in Object /\ o.frame \in Int /\ o.frame <= Last(s).frame
<1>1. DOMAIN s = 1 .. Len(s) /\ Len(s) \in DOMAIN s /\ 1 \in DOMAIN s
  OBVIOUS
<1>2. \A o \in Object : o.frame \in Int
  BY DEF Object
<1>3. Last(s) = s[Len(s)] /\ Last(s) \in Object /\ Last(s) \in Range(s)
  BY <1>1 DEF Last, Range
<1>4. ASSUME NEW o \in Range(s)
      PROVE  o \in Object /\ o.frame \in Int /\ o.frame <= Last(s).frame
  <2>1. PICK k \in DOMAIN s : o = s[k]
    BY DEF Range
  <2>2. o \in Object
    BY <1>1, <2>1
  <2>3. k = Len(s) \/ k < Len(s)
    BY <1>1
  <2>4. o = Last(s) \/ o.frame < Last(s).frame
    BY <1>1, <1>3, <2>1, <2>3 DEF InOrder
  <2> QED
    BY <1>2, <1>3, <2>2, <2>4
<1> QED
  BY <1>1, <1>2, <1>3, <1>4

\* Trimming keeps the last objects.
LEMMA TrimmedKeeps ==
  ASSUME NEW s \in Seq(Object), Len(s) >= 1, InOrder(s)
  PROVE  /\ Trimmed(s) \in Seq(Object) /\ Len(Trimmed(s)) \in 1 .. MaxObjects
         /\ InOrder(Trimmed(s)) /\ Range(Trimmed(s)) \subseteq Range(s)
         /\ Last(Trimmed(s)) = Last(s) /\ Len(Trimmed(s)) <= Len(s)
         /\ \A k \in DOMAIN s : k > Len(s) - MaxObjects => s[k] \in Range(Trimmed(s))
<1>1. MaxObjects \in Nat /\ MaxObjects >= 1 /\ Len(s) \in Nat /\ DOMAIN s = 1 .. Len(s)
  BY TrackerAssumption
<1>2. CASE Len(s) <= MaxObjects
  <2>1. Trimmed(s) = s
    BY <1>1, <1>2 DEF Trimmed
  <2> QED
    BY <1>1, <1>2, <2>1 DEF Range
<1>3. CASE Len(s) > MaxObjects
  <2> DEFINE i == Len(s) - MaxObjects + 1
             r == SubSeq(s, i, Len(s))
  <2>1. Trimmed(s) = r
    BY <1>1, <1>3 DEF Trimmed, LastObjects
  <2>2. i \in 1 .. Len(s) /\ i \in 1 .. Len(s) + 1 /\ Len(s) + 1 - i = MaxObjects
    BY <1>1, <1>3
  <2>3. r[MaxObjects] = s[Len(s)]
    BY <1>1, <1>3
  <2> HIDE DEF i
  <2>4. /\ r \in Seq(Object) /\ Len(r) = MaxObjects
        /\ Range(r) = From(s, i) /\ InOrder(r)
    BY <2>2, Rests
  <2>5. From(s, i) \subseteq Range(s)
    BY <1>1, <2>2 DEF From, Range
  <2>6. Last(r) = Last(s)
    BY <2>3, <2>4 DEF Last
  <2> HIDE DEF r
  <2>7. \A k \in DOMAIN s : k > Len(s) - MaxObjects => s[k] \in Range(r)
    <3> TAKE k \in DOMAIN s
    <3> HAVE k > Len(s) - MaxObjects
    <3>1. k \in i .. Len(s)
      BY <1>1, <1>3 DEF i
    <3> QED
      BY <2>4, <3>1 DEF From
  <2> QED
    BY <1>1, <1>3, <2>1, <2>4, <2>5, <2>6, <2>7
<1> QED
  BY <1>1, <1>2, <1>3

\* A list in the order of frames that grows by a later element.
LEMMA GrowsInOrder ==
  ASSUME NEW S, \A y \in S : y.frame \in Int,
         NEW s \in Seq(S), InOrder(s), NEW x \in S, \A y \in Range(s) : y.frame < x.frame
  PROVE  /\ Append(s, x) \in Seq(S) /\ Len(Append(s, x)) = Len(s) + 1
         /\ InOrder(Append(s, x)) /\ Range(Append(s, x)) = Range(s) \cup {x}
         /\ Last(Append(s, x)) = x
         /\ \A k \in 1 .. Len(s) : Append(s, x)[k] = s[k]
         /\ Len(s) >= 1 => Append(s, x)[1] = s[1]
         /\ Len(s) = 0 => Append(s, x)[1] = x
<1> DEFINE r == Append(s, x)
<1>1. /\ r \in Seq(S) /\ Len(r) = Len(s) + 1 /\ r[Len(s) + 1] = x
      /\ \A k \in 1 .. Len(s) : r[k] = s[k]
  OBVIOUS
<1> HIDE DEF r
<1>2. /\ DOMAIN r = 1 .. Len(s) + 1 /\ DOMAIN s = 1 .. Len(s) /\ Len(s) \in Nat
      /\ \A k \in DOMAIN r : k = Len(s) + 1 \/ k \in DOMAIN s
      /\ Len(s) + 1 \in DOMAIN r /\ DOMAIN s \subseteq DOMAIN r
  BY <1>1
<1>3. InOrder(r)
  <2> SUFFICES ASSUME NEW i \in DOMAIN r, NEW j \in DOMAIN r, i < j
               PROVE  r[i].frame < r[j].frame
    BY DEF InOrder
  <2>1. i \in DOMAIN s
    BY <1>2
  <2>2. CASE j \in DOMAIN s
    BY <1>1, <1>2, <2>1, <2>2 DEF InOrder
  <2>3. CASE j = Len(s) + 1
    BY <1>1, <1>2, <2>1, <2>3 DEF Range
  <2> QED
    BY <1>2, <2>2, <2>3
<1>4. Range(r) = Range(s) \cup {x}
  <2>1. Range(r) \subseteq Range(s) \cup {x}
    BY <1>1, <1>2 DEF Range
  <2>2. \A k \in DOMAIN s : s[k] \in Range(r)
    BY <1>1, <1>2 DEF Range
  <2>3. x \in Range(r)
    BY <1>1, <1>2 DEF Range
  <2> QED
    BY <2>1, <2>2, <2>3 DEF Range
<1>5. Last(r) = x
  BY <1>1 DEF Last
<1>6. (Len(s) >= 1 => r[1] = s[1]) /\ (Len(s) = 0 => r[1] = x)
  BY <1>1, <1>2
<1> QED
  BY <1>1, <1>3, <1>4, <1>5, <1>6 DEF r

\* What AppendToTrack does to a track that has not been seen in this frame.
LEMMA AppendKeeps ==
  ASSUME NEW id \in Ids, NEW track, Kept(id, track), LastSeen(track) <= frame,
         frame \in 0 .. MaxFrames - 1, NEW number \in 1 .. MaxDetections
  PROVE  LET new == [frame |-> frame + 1, number |-> number, id |-> id]
             grown == AppendToTrack(track, id, number)
         IN  /\ Kept(id, grown) /\ grown.lost = 0 /\ Last(grown.objects) = new
             /\ Range(grown.objects) \subseteq Range(track.objects) \cup {new}
             /\ 1 < MaxObjects => Last(track.objects) \in Range(grown.objects)
<1> DEFINE new == [frame |-> frame + 1, number |-> number, id |-> id]
           grown == AppendToTrack(track, id, number)
           s == track.objects
           r == Append(s, new)
<1>1. new \in Object /\ new.frame = frame + 1 /\ new.id = id
  BY TrackerAssumption DEF Object
<1>2. s \in Seq(Object) /\ Len(s) >= 1 /\ InOrder(s) /\ \A o \in Range(s) : o.id = id
  BY TrackerAssumption DEF Kept, Track
<1>3. grown.objects = Trimmed(r) /\ grown.lost = 0 /\ grown.length = track.length + 1
      /\ DOMAIN grown = {"objects", "lost", "length"}
      /\ grown = [objects |-> grown.objects, lost |-> grown.lost, length |-> grown.length]
  BY DEF AppendToTrack
<1>4. track.length + 1 \in Nat /\ Len(s) <= track.length /\ track.length \in Nat
  BY DEF Kept, Track
<1>5. \A o \in Range(s) : o.frame \in Int /\ o.frame < frame + 1
  <2>1. \A o \in Range(s) : o.frame \in Int /\ o.frame <= Last(s).frame /\ Last(s).frame \in Int
    BY <1>2, AtTheEnd
  <2> QED
    BY <2>1 DEF LastSeen
<1> HIDE DEF new, grown
<1>6. /\ r \in Seq(Object) /\ Len(r) = Len(s) + 1
      /\ \A k \in 1 .. Len(s) : r[k] = s[k]
      /\ InOrder(r) /\ Range(r) = Range(s) \cup {new} /\ Last(r) = new
  <2>1. \A o \in Object : o.frame \in Int
    BY DEF Object
  <2> QED
    BY <1>1, <1>2, <1>5, <2>1, GrowsInOrder
<1> HIDE DEF r
<1>7. DOMAIN r = 1 .. Len(s) + 1 /\ DOMAIN s = 1 .. Len(s) /\ Len(s) \in Nat
  BY <1>2, <1>6
<1>8. /\ Trimmed(r) \in Seq(Object) /\ Len(Trimmed(r)) \in 1 .. MaxObjects
       /\ InOrder(Trimmed(r)) /\ Range(Trimmed(r)) \subseteq Range(r)
       /\ Last(Trimmed(r)) = new /\ Len(Trimmed(r)) <= Len(r)
       /\ \A k \in DOMAIN r : k > Len(r) - MaxObjects => r[k] \in Range(Trimmed(r))
  <2>1. Len(r) >= 1
    BY <1>6, <1>7
  <2> QED
    BY <1>6, <2>1, TrimmedKeeps
<1>9. Kept(id, grown)
  <2>1. grown \in Track
    BY <1>3, <1>4, <1>8 DEF Track
  <2>2. \A o \in Range(grown.objects) : o.id = id
    BY <1>1, <1>2, <1>3, <1>6, <1>8
  <2>3. Len(grown.objects) <= grown.length
    <3>1. Len(Trimmed(r)) \in Nat
      BY <1>8
    <3> QED
      BY <1>3, <1>4, <1>6, <1>7, <1>8, <3>1
  <2> QED
    BY <1>3, <1>8, <2>1, <2>2, <2>3 DEF Kept
<1>10. ASSUME 1 < MaxObjects PROVE Last(s) \in Range(grown.objects)
  <2>1. Len(s) \in DOMAIN r /\ Len(s) > Len(r) - MaxObjects /\ r[Len(s)] = Last(s)
    BY <1>2, <1>6, <1>7, <1>10, TrackerAssumption DEF Last
  <2> QED
    BY <1>3, <1>8, <2>1
<1> QED
  BY <1>3, <1>6, <1>8, <1>9, <1>10 DEF new, grown

\* The objects of a track that is merged into another are the same detections.
LEMMA RelabelledKeeps ==
  ASSUME NEW s \in Seq(Object), InOrder(s), NEW id \in Ids
  PROVE  LET r == Relabelled(s, id)
         IN  /\ r \in Seq(Object) /\ InOrder(r) /\ Len(r) = Len(s)
             /\ \A o \in Range(r) : o.id = id /\ \E p \in Range(s) : Same(o, p)
             /\ \A p \in Range(s) : \E o \in Range(r) : Same(o, p)
<1> DEFINE r == Relabelled(s, id)
<1>1. DOMAIN s = 1 .. Len(s) /\ Len(s) \in Nat /\ \A i \in 1 .. Len(s) : s[i] \in Object
  OBVIOUS
<1>2. \A i \in 1 .. Len(s) : /\ r[i] \in Object /\ r[i].id = id /\ Same(r[i], s[i])
                             /\ r[i].frame = s[i].frame
  BY <1>1 DEF Relabelled, Object, Same
<1>3. DOMAIN r = 1 .. Len(s) /\ r = [i \in 1 .. Len(s) |-> r[i]]
  BY <1>1 DEF Relabelled
<1> HIDE DEF r
<1>4. r \in Seq(Object) /\ Len(r) = Len(s)
  BY <1>1, <1>2, <1>3
<1>5. InOrder(r)
  BY <1>1, <1>2, <1>3 DEF InOrder
<1> QED
  BY <1>1, <1>2, <1>3, <1>4, <1>5 DEF Range, r

\* In the merged list of two tracks what follows an object of the first after its
\* end is of the second.
LEMMA LastOfFirst ==
  ASSUME NEW a \in Seq(Object), Len(a) >= 1, InOrder(a), NEW c \in Seq(Object),
         NEW r \in Seq(Object), InOrder(r), Range(r) = Range(a) \cup Range(c)
  PROVE  \E k \in DOMAIN r : r[k] = Last(a) /\ Len(r) - k <= Len(c)
<1>1. /\ DOMAIN r = 1 .. Len(r) /\ DOMAIN c = 1 .. Len(c)
      /\ Len(r) \in Nat /\ Len(c) \in Nat
  OBVIOUS
<1>2. Last(a) \in Range(a) /\ \A o \in Range(a) : o.frame \in Int /\ o.frame <= Last(a).frame
  BY AtTheEnd
<1>3. PICK k \in DOMAIN r : r[k] = Last(a)
  BY <1>2 DEF Range
<1> DEFINE after == k + 1 .. Len(r)
           at == [i \in after |-> CHOOSE j \in 1 .. Len(c) : c[j] = r[i]]
<1>4. \A i \in after : i \in DOMAIN r /\ r[k].frame < r[i].frame
  BY <1>1 DEF InOrder
<1>5. ASSUME NEW i \in after PROVE \E j \in 1 .. Len(c) : c[j] = r[i]
  <2>1. r[i] \in Range(r) /\ r[k].frame < r[i].frame
    BY <1>4 DEF Range
  <2>2. r[i].frame \in Int /\ r[k].frame \in Int
    <3>1. \A o \in Object : o.frame \in Int
      BY DEF Object
    <3>2. r[i] \in Object /\ r[k] \in Object
      BY <1>1, <1>4
    <3> QED
      BY <3>1, <3>2
  <2>3. r[i] \notin Range(a)
    BY <1>2, <1>3, <2>1, <2>2
  <2> QED
    BY <1>1, <2>1, <2>3 DEF Range
<1>6. \A i \in after : at[i] \in 1 .. Len(c) /\ c[at[i]] = r[i]
  BY <1>5
<1> HIDE DEF at
<1>7. \A i, l \in after : at[i] = at[l] => i = l
  <2> SUFFICES ASSUME NEW i \in after, NEW l \in after, r[i] = r[l] PROVE i = l
    BY <1>6
  <2>1. r[i].frame \in Int
    <3>1. \A o \in Object : o.frame \in Int
      BY DEF Object
    <3>2. r[i] \in Object
      BY <1>1, <1>4
    <3> QED
      BY <3>1, <3>2
  <2>2. ~ (i < l) /\ ~ (l < i)
    BY <1>4, <2>1 DEF InOrder
  <2> QED
    BY <1>1, <2>2
<1>8. at \in Injection(after, 1 .. Len(c))
  <2>1. at \in [after -> 1 .. Len(c)]
    BY <1>6 DEF at
  <2> QED
    BY <1>7, <2>1 DEF Injection, IsInjective
<1>9. Cardinality(after) <= Cardinality(1 .. Len(c))
  <2>1. IsFiniteSet(1 .. Len(c))
    BY <1>1, FS_Interval
  <2> DEFINE before == 1 .. Len(c)
  <2> HIDE DEF after, before
  <2>2. at \in Injection(after, before) /\ IsFiniteSet(before)
    BY <1>8, <2>1 DEF before
  <2>3. Cardinality(after) <= Cardinality(before)
    BY <2>2, FS_Injection
  <2> QED
    BY <2>3 DEF before
<1>10. Cardinality(1 .. Len(c)) = Len(c)
  <2>1. 1 \in Int /\ Len(c) \in Int
    BY <1>1
  <2>2. Cardinality(1 .. Len(c)) = IF 1 > Len(c) THEN 0 ELSE Len(c) - 1 + 1
    BY <2>1, FS_Interval
  <2> QED
    BY <1>1, <2>2
<1>11. Cardinality(after) = Len(r) - k
  <2>1. k + 1 \in Int /\ Len(r) \in Int
    BY <1>1
  <2>2. Cardinality(after) = IF k + 1 > Len(r) THEN 0 ELSE Len(r) - (k + 1) + 1
    BY <2>1, FS_Interval
  <2> QED
    BY <1>1, <2>1, <2>2
<1> QED
  BY <1>3, <1>9, <1>10, <1>11

\* What MergeTrack makes of two tracks that have no frame in common: a track of
\* the first identity with the detections of both, and its walk ends.
LEMMA MergeKeeps ==
  ASSUME NEW id \in Ids, NEW track1, NEW other, NEW track2,
         Kept(id, track1), Kept(other, track2), MayMerge(track1, track2)
  PROVE  LET merged == MergeTrack(track1, track2)
             both == Range(track1.objects) \cup Range(track2.objects)
         IN  /\ Kept(id, merged) /\ merged.lost = 0
             /\ \A o \in Range(merged.objects) : \E p \in both : Same(o, p)
             /\ \A p \in both : p.frame <= LastSeen(merged)
             /\ WalkEnds(track1.objects, track2.objects)
             /\ Len(track2.objects) < MaxObjects => Last(track1.objects) \in Range(merged.objects)
<1> DEFINE merged == MergeTrack(track1, track2)
           a == track1.objects
           b == track2.objects
           c == Relabelled(b, id)
           r == Interleaved(a, c)
<1>1. /\ a \in Seq(Object) /\ Len(a) >= 1 /\ InOrder(a)
      /\ \A o \in Range(a) : o.id = id
      /\ b \in Seq(Object) /\ Len(b) >= 1 /\ InOrder(b)
      /\ Len(a) <= track1.length /\ Len(b) <= track2.length
      /\ track1.length \in Nat /\ track2.length \in Nat
  BY TrackerAssumption DEF Kept, Track
<1>2. a[1].id = id
  BY <1>1 DEF Range
<1>3. Apart(a, b)
  BY <1>1, MeetFinds DEF MayMerge
<1>4. WalkEnds(a, b)
  BY <1>1, <1>3, InterleavedMerges DEF WalkEnds
<1>5. /\ c \in Seq(Object) /\ InOrder(c) /\ Len(c) = Len(b)
      /\ \A o \in Range(c) : o.id = id /\ \E p \in Range(b) : Same(o, p)
      /\ \A p \in Range(b) : \E o \in Range(c) : Same(o, p)
  BY <1>1, RelabelledKeeps
<1>6. Apart(a, c)
  BY <1>3 DEF Apart, Relabelled
<1>7. /\ merged.objects = Trimmed(r) /\ merged.lost = 0
      /\ merged = [objects |-> Trimmed(r), lost |-> 0,
                   length |-> track1.length + track2.length]
  BY <1>2 DEF MergeTrack
<1> HIDE DEF a, b, c, merged
<1>8. /\ r \in Seq(Object) /\ InOrder(r) /\ Len(r) = Len(a) + Len(c)
      /\ Range(r) = Range(a) \cup Range(c)
  BY <1>1, <1>5, <1>6, InterleavedMerges
<1> HIDE DEF r
<1>9. Len(r) >= 1
  <2>1. Len(a) \in Nat /\ Len(b) \in Nat
    BY <1>1
  <2> QED
    BY <1>1, <1>5, <1>8, <2>1
<1>10. /\ Trimmed(r) \in Seq(Object) /\ Len(Trimmed(r)) \in 1 .. MaxObjects
       /\ InOrder(Trimmed(r)) /\ Range(Trimmed(r)) \subseteq Range(r)
       /\ Last(Trimmed(r)) = Last(r) /\ Len(Trimmed(r)) <= Len(r)
       /\ \A k \in DOMAIN r : k > Len(r) - MaxObjects => r[k] \in Range(Trimmed(r))
  BY <1>8, <1>9, TrimmedKeeps
<1>11. Kept(id, merged)
  <2>1. merged \in Track
    BY <1>1, <1>7, <1>10 DEF Track
  <2>2. \A o \in Range(r) : o.id = id
    BY <1>1, <1>5, <1>8
  <2>3. Len(Trimmed(r)) <= track1.length + track2.length
    <3>1. Len(a) \in Nat /\ Len(b) \in Nat /\ Len(Trimmed(r)) \in Nat
      BY <1>1, <1>10
    <3> QED
      BY <1>1, <1>5, <1>8, <1>10, <3>1
  <2> QED
    BY <1>7, <1>10, <2>1, <2>2, <2>3 DEF Kept
<1>12. \A o \in Range(merged.objects) : \E p \in Range(a) \cup Range(b) : Same(o, p)
  <2> TAKE o \in Range(merged.objects)
  <2>1. o \in Range(a) \/ o \in Range(c)
    BY <1>7, <1>8, <1>10
  <2>2. Same(o, o)
    BY DEF Same
  <2> QED
    BY <1>5, <2>1, <2>2
<1>13. \A p \in Range(a) \cup Range(b) : p.frame <= LastSeen(merged)
  <2> TAKE p \in Range(a) \cup Range(b)
  <2>1. \A o \in Range(r) : o.frame <= Last(r).frame
    BY <1>8, <1>9, AtTheEnd
  <2>2. \E o \in Range(r) : o.frame = p.frame
    BY <1>5, <1>8 DEF Same
  <2> QED
    BY <1>7, <1>10, <2>1, <2>2 DEF LastSeen
<1>14. ASSUME Len(b) < MaxObjects PROVE Last(a) \in Range(merged.objects)
  <2>1. PICK k \in DOMAIN r : r[k] = Last(a) /\ Len(r) - k <= Len(c)
    BY <1>1, <1>5, <1>8, LastOfFirst
  <2>2. k \in Nat /\ Len(r) \in Nat /\ Len(b) \in Nat /\ MaxObjects \in Nat
    BY <1>1, <1>8, TrackerAssumption
  <2>3. k > Len(r) - MaxObjects
    BY <1>5, <1>14, <2>1, <2>2
  <2> QED
    BY <1>7, <1>10, <2>1, <2>3
<1> QED
  BY <1>4, <1>7, <1>11, <1>12, <1>13, <1>14 DEF a, b, merged

\* Erasing leaves a tracker whole.
LEMMA ErasedWhole ==
  ASSUME NEW t, Whole(t), NEW ids
  PROVE  Whole(Erased(t, ids))
<1>1. /\ Erased(t, ids).active = t.active \ ids
      /\ DOMAIN Erased(t, ids).tracks = t.active \ ids
      /\ \A id \in t.active \ ids : Erased(t, ids).tracks[id] = t.tracks[id]
  BY DEF Erased, Restrict, Whole
<1> QED
  BY <1>1 DEF Whole

\* Appending the detections of this frame, each to one track, leaves the tracker
\* whole.
LEMMA AppendedWhole ==
  ASSUME NEW t, Whole(t), DOMAIN t = {"tracks", "active"},
         frame \in 0 .. MaxFrames - 1, \A id \in t.active : LastSeen(t.tracks[id]) <= frame,
         NEW n \in 0 .. MaxDetections, NEW matches \in Assignments(t.active, 1 .. n),
         NEW noise
  PROVE  LET done == Appended(t, matches, noise)
         IN  /\ Whole(done) /\ done.active = t.active \ noise
             /\ \A id \in done.active :
                  /\ id \in DOMAIN matches => LastSeen(done.tracks[id]) = frame + 1
                  /\ id \notin DOMAIN matches => done.tracks[id] = t.tracks[id]
                  /\ id \in DOMAIN matches /\ 1 < MaxObjects =>
                       Last(t.tracks[id].objects) \in Range(done.tracks[id].objects)
                  /\ \A o \in Range(done.tracks[id].objects) :
                       o.frame = frame + 1 => o.number \in Range(matches)
<1> DEFINE grown == [id \in DOMAIN t.tracks |->
                       IF id \in DOMAIN matches
                         THEN AppendToTrack(t.tracks[id], id, matches[id])
                         ELSE t.tracks[id]]
           u == [t EXCEPT !.tracks = grown]
           New(id) == [frame |-> frame + 1, number |-> matches[id], id |-> id]
<1>1. u.tracks = grown /\ u.active = t.active /\ Appended(t, matches, noise) = Erased(u, noise)
  BY DEF Appended
<1>2. /\ DOMAIN matches \subseteq t.active
      /\ \A id \in DOMAIN matches : matches[id] \in 1 .. n
      /\ \A id, other \in DOMAIN matches : matches[id] = matches[other] => id = other
  BY DEF Assignments, IsInjective
<1>3. \A id \in t.active : id \in Ids /\ Kept(id, t.tracks[id])
  BY DEF Whole
<1>4. ASSUME NEW id \in DOMAIN matches
      PROVE  /\ Kept(id, grown[id]) /\ Last(grown[id].objects) = New(id)
             /\ Range(grown[id].objects) \subseteq Range(t.tracks[id].objects) \cup {New(id)}
             /\ 1 < MaxObjects => Last(t.tracks[id].objects) \in Range(grown[id].objects)
  <2>1. grown[id] = AppendToTrack(t.tracks[id], id, matches[id])
    BY <1>2 DEF Whole
  <2>2. matches[id] \in 1 .. MaxDetections
    BY <1>2, TrackerAssumption
  <2> HIDE DEF grown
  <2> QED
    BY <1>2, <1>3, <2>1, <2>2, AppendKeeps
<1>5. \A id \in t.active \ DOMAIN matches : grown[id] = t.tracks[id]
  BY DEF Whole
<1>6. \A id \in t.active : \A o \in Range(t.tracks[id].objects) : o.frame \in Int /\ o.frame <= frame
  <2> TAKE id \in t.active
  <2>1. /\ t.tracks[id].objects \in Seq(Object) /\ Len(t.tracks[id].objects) >= 1
        /\ InOrder(t.tracks[id].objects)
    BY <1>3, TrackerAssumption DEF Kept, Track
  <2>2. \A o \in Range(t.tracks[id].objects) :
          o.frame \in Int /\ o.frame <= LastSeen(t.tracks[id])
    BY <2>1, AtTheEnd DEF LastSeen
  <2>3. LastSeen(t.tracks[id]) \in Int
    BY <2>1, AtTheEnd DEF LastSeen
  <2> QED
    BY <2>2, <2>3
<1>7. \A id \in DOMAIN matches : /\ New(id).frame = frame + 1 /\ New(id).number = matches[id]
                                 /\ matches[id] \in Range(matches)
  BY DEF Range
<1>8. DOMAIN grown = t.active
  BY DEF Whole
<1>9. \A id \in t.active : \A o \in Range(grown[id].objects) :
        o \in Range(t.tracks[id].objects) \/ (id \in DOMAIN matches /\ o = New(id))
  BY <1>4, <1>5
<1> HIDE DEF grown, New
<1>10. ASSUME NEW id \in t.active, NEW other \in t.active,
              NEW o \in Range(grown[id].objects), NEW p \in Range(grown[other].objects),
              Same(o, p)
       PROVE  id = other
  <2>1. CASE o \in Range(t.tracks[id].objects) /\ p \in Range(t.tracks[other].objects)
    BY <1>10, <2>1 DEF Whole
  <2>2. CASE o \in Range(t.tracks[id].objects) /\ p \notin Range(t.tracks[other].objects)
    BY <1>6, <1>7, <1>9, <1>10, <2>2 DEF Same
  <2>3. CASE o \notin Range(t.tracks[id].objects) /\ p \in Range(t.tracks[other].objects)
    BY <1>6, <1>7, <1>9, <1>10, <2>3 DEF Same
  <2>4. CASE o \notin Range(t.tracks[id].objects) /\ p \notin Range(t.tracks[other].objects)
    BY <1>2, <1>7, <1>9, <1>10, <2>4 DEF Same
  <2> QED
    BY <2>1, <2>2, <2>3, <2>4
<1>11. Whole(u)
  BY <1>1, <1>3, <1>4, <1>5, <1>8, <1>10 DEF Whole
<1>12. \A id \in t.active : \A o \in Range(grown[id].objects) :
         o.frame = frame + 1 => o.number \in Range(matches)
  BY <1>6, <1>7, <1>9
<1>13. \A id \in DOMAIN matches : LastSeen(grown[id]) = frame + 1
  BY <1>4, <1>7 DEF LastSeen
<1> DEFINE done == Erased(u, noise)
<1>14. Whole(done)
  BY <1>11, ErasedWhole
<1>15. /\ done.active = t.active \ noise
       /\ \A id \in t.active \ noise : done.tracks[id] = grown[id]
  BY <1>1, <1>8 DEF Erased, Restrict
<1> HIDE DEF u, done
<1> QED
  BY <1>1, <1>4, <1>5, <1>12, <1>13, <1>14, <1>15 DEF done

\* lost says how long ago the track was last seen.
Aged(track, at) == track.lost = at - LastSeen(track)

\* What is known of a track that is as it should be.
LEMMA KeptEnd ==
  ASSUME NEW id, NEW track, Kept(id, track)
  PROVE  /\ track.objects \in Seq(Object) /\ Len(track.objects) >= 1
         /\ InOrder(track.objects)
         /\ LastSeen(track) \in Int /\ track.lost \in Nat
         /\ Last(track.objects) \in Range(track.objects)
         /\ Last(track.objects).id = id
         /\ \A o \in Range(track.objects) : o.frame \in Int /\ o.frame <= LastSeen(track)
<1>1. /\ track.objects \in Seq(Object) /\ Len(track.objects) >= 1
      /\ InOrder(track.objects) /\ track.lost \in Nat
      /\ \A o \in Range(track.objects) : o.id = id
  BY TrackerAssumption DEF Kept, Track
<1> QED
  BY <1>1, AtTheEnd DEF LastSeen

\* An identity that is given to a new track comes from one of the detections.
LEMMA NewIdSound ==
  ASSUME counter \in Ids, NEW n \in Nat, NEW numbers \in SUBSET (1 .. n), NEW k
  PROVE  NewId(k, numbers) \in Ids
<1> DEFINE before == {m \in numbers : m < k}
<1>1. IsFiniteSet(1 .. n)
  BY FS_Interval
<1>2. Cardinality(before) \in Nat
  BY <1>1, FS_Subset, FS_CardinalityType
<1>3. LastId \in Nat /\ LastId > 0 /\ counter \in Nat /\ counter >= 1
  BY TrackerAssumption DEF Ids
<1> HIDE DEF before
<1>4. (counter - 1 + Cardinality(before)) % LastId \in 0 .. LastId - 1
  BY <1>2, <1>3
<1>5. NewId(k, numbers) = ((counter - 1 + Cardinality(before)) % LastId) + 1
  BY DEF NewId, before
<1> HIDE DEF NewId
<1> QED
  BY <1>3, <1>4, <1>5 DEF Ids

\* New tracks for detections that no track has leave the tracker whole.
LEMMA AddedWhole ==
  ASSUME NEW t, Whole(t), frame \in 0 .. MaxFrames - 1, counter \in Ids,
         NEW n \in 0 .. MaxDetections, NEW numbers \in SUBSET (1 .. n),
         \A id \in t.active : \A o \in Range(t.tracks[id].objects) :
           o.frame = frame + 1 => o.number \notin numbers
  PROVE  LET done == AddNewTracks(t, numbers)
         IN  /\ Whole(done) /\ t.active \subseteq done.active
             /\ \A id \in t.active : done.tracks[id] = t.tracks[id]
             /\ \A id \in done.active \ t.active :
                  done.tracks[id].lost = 0 /\ LastSeen(done.tracks[id]) = frame + 1
<1> DEFINE new == {NewId(k, numbers) : k \in numbers} \ DOMAIN t.tracks
           NumberOf(id) == CHOOSE k \in numbers : NewId(k, numbers) = id
           grown == [id \in DOMAIN t.tracks \cup new |->
                       IF id \in new THEN NewTrack(id, NumberOf(id)) ELSE t.tracks[id]]
           New(id) == [frame |-> frame + 1, number |-> NumberOf(id), id |-> id]
           done == AddNewTracks(t, numbers)
<1>1. done.tracks = grown /\ done.active = t.active \cup new
  BY DEF AddNewTracks
<1>2. \A id \in new : /\ NumberOf(id) \in numbers /\ NewId(NumberOf(id), numbers) = id
                      /\ id \in Ids /\ id \notin t.active
  <2> TAKE id \in new
  <2>1. \E k \in numbers : NewId(k, numbers) = id
    OBVIOUS
  <2>2. NumberOf(id) \in numbers /\ NewId(NumberOf(id), numbers) = id
    BY <2>1
  <2> HIDE DEF NumberOf, NewId
  <2>3. id \notin t.active
    BY DEF Whole
  <2>4. id \in Ids
    BY <2>2, NewIdSound
  <2> QED
    BY <2>2, <2>3, <2>4
<1> HIDE DEF NumberOf, done
<1>3. ASSUME NEW id \in new
      PROVE  /\ Kept(id, grown[id]) /\ grown[id].lost = 0 /\ Last(grown[id].objects) = New(id)
             /\ Range(grown[id].objects) = {New(id)}
  <2>1. grown[id] = [objects |-> <<New(id)>>, lost |-> 0, length |-> 1]
    BY DEF NewTrack
  <2>2. New(id) \in Object /\ New(id).id = id
    <3>1. NumberOf(id) \in 1 .. MaxDetections
      BY <1>2, TrackerAssumption
    <3>2. frame + 1 \in 1 .. MaxFrames
      BY TrackerAssumption
    <3> QED
      BY <1>2, <3>1, <3>2 DEF Object
  <2> HIDE DEF New, grown, new
  <2> DEFINE s == <<New(id)>>
  <2>3. s \in Seq(Object) /\ Len(s) = 1 /\ DOMAIN s = 1 .. 1 /\ s[1] = New(id)
    BY <2>2
  <2> HIDE DEF s
  <2>4. InOrder(s) /\ Range(s) = {New(id)} /\ Last(s) = New(id)
    BY <2>3 DEF InOrder, Range, Last
  <2>5. grown[id] \in Track
    BY <2>1, <2>3 DEF Track, s
  <2>6. grown[id].objects = s /\ grown[id].lost = 0 /\ grown[id].length = 1
    BY <2>1 DEF s
  <2>7. Len(s) \in 1 .. MaxObjects /\ Len(s) <= grown[id].length
    BY <2>3, <2>6, TrackerAssumption
  <2>8. \A o \in Range(s) : o.id = id
    BY <2>2, <2>4
  <2>9. Kept(id, grown[id])
    BY <2>4, <2>5, <2>6, <2>7, <2>8 DEF Kept
  <2> QED
    BY <2>4, <2>6, <2>9
<1>4. \A id \in t.active : id \notin new /\ grown[id] = t.tracks[id]
  BY <1>2 DEF Whole
<1>5. DOMAIN grown = t.active \cup new
  BY DEF Whole
<1>6. \A id \in new : New(id).frame = frame + 1 /\ New(id).number = NumberOf(id)
  OBVIOUS
<1> HIDE DEF grown, New, new
<1>7. ASSUME NEW id \in t.active \cup new, NEW other \in t.active \cup new,
             NEW o \in Range(grown[id].objects), NEW p \in Range(grown[other].objects),
             Same(o, p)
      PROVE  id = other
  <2>1. CASE id \in t.active /\ other \in t.active
    BY <1>4, <1>7, <2>1 DEF Whole
  <2>2. CASE id \in t.active /\ other \in new
    BY <1>2, <1>3, <1>4, <1>6, <1>7, <2>2 DEF Same
  <2>3. CASE id \in new /\ other \in t.active
    BY <1>2, <1>3, <1>4, <1>6, <1>7, <2>3 DEF Same
  <2>4. CASE id \in new /\ other \in new
    <3>1. NumberOf(id) = NumberOf(other)
      BY <1>3, <1>6, <1>7, <2>4 DEF Same
    <3> QED
      BY <1>2, <2>4, <3>1
  <2> QED
    BY <2>1, <2>2, <2>3, <2>4
<1>8. \A id \in t.active \cup new : id \in Ids /\ Kept(id, grown[id])
  BY <1>2, <1>3, <1>4 DEF Whole
<1>9. Whole(done)
  BY <1>1, <1>5, <1>7, <1>8 DEF Whole
<1>10. \A id \in new : LastSeen(grown[id]) = frame + 1 /\ grown[id].lost = 0
  BY <1>3, <1>6 DEF LastSeen
<1> QED
  BY <1>1, <1>4, <1>9, <1>10 DEF done

\* UpdateLostTracks makes the age of every track that of this frame.
LEMMA UpdatedWhole ==
  ASSUME NEW t, Whole(t), DOMAIN t = {"tracks", "active"}, frame \in Nat,
         NEW place, NEW again, DOMAIN place \subseteq t.active,
         \A id \in t.active : IF id \in DOMAIN place THEN Aged(t.tracks[id], frame)
                                                     ELSE Aged(t.tracks[id], frame + 1)
  PROVE  LET done == UpdateLostTracks(t, place, again)
         IN  /\ Whole(done)
             /\ \A id \in done.active : /\ Aged(done.tracks[id], frame + 1)
                                        /\ id \in t.active
                                        /\ done.tracks[id].objects = t.tracks[id].objects
<1> DEFINE aged == [id \in DOMAIN t.tracks |->
                      IF id \in DOMAIN place THEN [t.tracks[id] EXCEPT !.lost = @ + 1]
                                             ELSE t.tracks[id]]
           gone == {id \in DOMAIN place : \/ OutOfFrame(aged[id], place[id], again)
                                          \/ LostTooManyFramesAgo(aged[id])}
           u == [t EXCEPT !.tracks = aged]
<1>1. u.tracks = aged /\ u.active = t.active
  OBVIOUS
<1>2. \A id \in t.active : aged[id].objects = t.tracks[id].objects /\ Kept(id, aged[id])
  <2> TAKE id \in t.active
  <2>1. Kept(id, t.tracks[id]) /\ id \in DOMAIN t.tracks
    BY DEF Whole
  <2>2. t.tracks[id] \in Track
    BY <2>1 DEF Kept
  <2>3. /\ aged[id] \in Track /\ aged[id].objects = t.tracks[id].objects
        /\ aged[id].length = t.tracks[id].length
    BY <2>1, <2>2 DEF Track
  <2> HIDE DEF aged
  <2> QED
    BY <2>1, <2>3 DEF Kept
<1>3. \A id \in t.active : Aged(aged[id], frame + 1)
  <2> TAKE id \in t.active
  <2>1. Kept(id, t.tracks[id]) /\ id \in DOMAIN t.tracks
    BY DEF Whole
  <2>2. t.tracks[id].lost \in Nat /\ LastSeen(t.tracks[id]) \in Int
    BY <2>1, KeptEnd
  <2>3. LastSeen(aged[id]) = LastSeen(t.tracks[id])
    BY <1>2 DEF LastSeen
  <2>4. CASE id \in DOMAIN place
    <3>1. t.tracks[id] \in Track
      BY <2>1 DEF Kept
    <3>2. aged[id].lost = t.tracks[id].lost + 1
      BY <2>1, <2>4, <3>1 DEF Track
    <3>3. t.tracks[id].lost = frame - LastSeen(t.tracks[id])
      BY <2>4 DEF Aged
    <3> HIDE DEF aged
    <3> QED
      BY <2>2, <2>3, <3>2, <3>3 DEF Aged
  <2>5. CASE id \notin DOMAIN place
    <3>1. aged[id] = t.tracks[id]
      BY <2>1, <2>5
    <3> HIDE DEF aged
    <3> QED
      BY <2>5, <3>1
  <2> QED
    BY <2>4, <2>5
<1>4. DOMAIN aged = t.active
  BY DEF Whole
<1>5. UpdateLostTracks(t, place, again) = Erased(u, gone)
  BY DEF UpdateLostTracks
<1> HIDE DEF aged, gone
<1>6. Whole(u)
  BY <1>1, <1>2, <1>4 DEF Whole
<1>7. Whole(Erased(u, gone))
  BY <1>6, ErasedWhole
<1>8. /\ Erased(u, gone).active = t.active \ gone
      /\ \A id \in t.active \ gone : Erased(u, gone).tracks[id] = aged[id]
  BY <1>1, <1>4 DEF Erased, Restrict
<1> HIDE DEF u
<1> QED
  BY <1>2, <1>3, <1>5, <1>7, <1>8

\* The two tracks of a merger, and that no track is part of two.
LEMMA MergersSound ==
  ASSUME NEW t, NEW merge \in Mergers(t)
  PROVE  /\ DOMAIN merge \subseteq LostIds(t) /\ Range(merge) \subseteq NewIds(t)
         /\ DOMAIN merge \cap Range(merge) = {}
         /\ \A id \in DOMAIN merge : merge[id] \in NewIds(t)
         /\ \A id \in DOMAIN merge : MayMerge(t.tracks[id], t.tracks[merge[id]])
         /\ \A id, other \in DOMAIN merge : merge[id] = merge[other] => id = other
<1>1. /\ DOMAIN merge \subseteq LostIds(t) /\ \A id \in DOMAIN merge : merge[id] \in NewIds(t)
      /\ \A id, other \in DOMAIN merge : merge[id] = merge[other] => id = other
      /\ \A id \in DOMAIN merge : MayMerge(t.tracks[id], t.tracks[merge[id]])
  BY DEF Mergers, Assignments, IsInjective
<1>2. Range(merge) \subseteq NewIds(t)
  BY <1>1 DEF Range
<1>3. LostIds(t) \cap NewIds(t) = {}
  <2>1. \A id \in LostIds(t) : t.tracks[id].lost # 0
    BY DEF LostIds
  <2>2. \A id \in NewIds(t) : t.tracks[id].lost = 0
    BY DEF NewIds
  <2> QED
    BY <2>1, <2>2
<1> QED
  BY <1>1, <1>2, <1>3

\* Rectify leaves the tracker whole and its ages right, and the walks it makes
\* come to an end.
LEMMA RectifiedWhole ==
  ASSUME NEW t, Whole(t), DOMAIN t = {"tracks", "active"}, frame \in Nat,
         \A id \in t.active : Aged(t.tracks[id], frame + 1),
         NEW merge \in Mergers(t)
  PROVE  LET done == Rectified(t, merge)
         IN  /\ Whole(done)
             /\ done.active = t.active \ Range(merge)
             /\ \A id \in done.active : Aged(done.tracks[id], frame + 1)
             /\ \A id \in DOMAIN merge :
                  WalkEnds(t.tracks[id].objects, t.tracks[merge[id]].objects)
             /\ \A id \in done.active \ DOMAIN merge : done.tracks[id] = t.tracks[id]
             /\ \A id \in done.active \cap DOMAIN merge :
                  /\ t.tracks[id].lost > 0
                  /\ RectifyLength < MaxObjects =>
                       Last(t.tracks[id].objects) \in Range(done.tracks[id].objects)
<1> DEFINE merged == [id \in DOMAIN t.tracks |->
                        IF id \in DOMAIN merge
                          THEN MergeTrack(t.tracks[id], t.tracks[merge[id]])
                          ELSE t.tracks[id]]
           u == [t EXCEPT !.tracks = merged]
           done == Rectified(t, merge)
           Objects(id) == Range(t.tracks[id].objects)
<1>1. /\ done.active = t.active \ Range(merge) /\ DOMAIN done.tracks = t.active \ Range(merge)
      /\ \A id \in t.active \ Range(merge) : done.tracks[id] = merged[id]
  <2>1. done = Erased(u, Range(merge)) /\ u.active = t.active /\ u.tracks = merged
    BY DEF Rectified
  <2>2. DOMAIN merged = t.active
    BY DEF Whole
  <2> HIDE DEF done, u, merged
  <2> QED
    BY <2>1, <2>2 DEF Erased, Restrict
<1>2. /\ DOMAIN merge \subseteq LostIds(t)
      /\ \A id \in DOMAIN merge : merge[id] \in NewIds(t)
      /\ \A id \in DOMAIN merge : MayMerge(t.tracks[id], t.tracks[merge[id]])
      /\ \A id, other \in DOMAIN merge : merge[id] = merge[other] => id = other
  BY MergersSound
<1>3. /\ DOMAIN merge \subseteq t.active
      /\ \A id \in DOMAIN merge : merge[id] \in t.active /\ t.tracks[merge[id]].lost = 0
  BY <1>2 DEF LostIds, NewIds
<1>4. \A id \in t.active : Kept(id, t.tracks[id]) /\ id \in Ids
  BY DEF Whole
<1>5. ASSUME NEW id \in DOMAIN merge
      PROVE  /\ Kept(id, merged[id]) /\ merged[id].lost = 0
             /\ \A o \in Range(merged[id].objects) :
                  \E p \in Objects(id) \cup Objects(merge[id]) : Same(o, p)
             /\ \A p \in Objects(id) \cup Objects(merge[id]) : p.frame <= LastSeen(merged[id])
             /\ WalkEnds(t.tracks[id].objects, t.tracks[merge[id]].objects)
             /\ Len(t.tracks[merge[id]].objects) < MaxObjects =>
                  Last(t.tracks[id].objects) \in Range(merged[id].objects)
  <2>1. merged[id] = MergeTrack(t.tracks[id], t.tracks[merge[id]])
    BY <1>3 DEF Whole
  <2> HIDE DEF merged
  <2>2. /\ id \in Ids /\ Kept(id, t.tracks[id]) /\ Kept(merge[id], t.tracks[merge[id]])
        /\ MayMerge(t.tracks[id], t.tracks[merge[id]])
    BY <1>2, <1>3, <1>4
  <2> QED
    BY <2>1, <2>2, MergeKeeps
<1>6. \A id \in t.active \ DOMAIN merge : merged[id] = t.tracks[id]
  BY DEF Whole
<1> HIDE DEF merged, u, done
<1>7. \A id \in t.active : /\ LastSeen(t.tracks[id]) \in Int
                           /\ LastSeen(t.tracks[id]) <= frame + 1
                           /\ t.tracks[id].lost = 0 => LastSeen(t.tracks[id]) = frame + 1
  BY <1>4, KeptEnd DEF Aged
<1>8. \A id \in t.active : \A o \in Objects(id) : o.frame \in Int /\ o.frame <= frame + 1
  <2> TAKE id \in t.active
  <2>1. \A o \in Objects(id) : o.frame \in Int /\ o.frame <= LastSeen(t.tracks[id])
    BY <1>4, KeptEnd
  <2> QED
    BY <1>7, <2>1
<1>9. \A id \in t.active : Last(t.tracks[id].objects) \in Objects(id)
  BY <1>4, KeptEnd
<1>10. ASSUME NEW id \in DOMAIN merge PROVE LastSeen(merged[id]) = frame + 1
  <2>1. Last(merged[id].objects) \in Range(merged[id].objects) /\ LastSeen(merged[id]) \in Int
    BY <1>5, KeptEnd
  <2>2. LastSeen(merged[id]) <= frame + 1
    BY <1>3, <1>5, <1>8, <2>1 DEF LastSeen, Same
  <2>3. LastSeen(merged[id]) >= frame + 1
    <3>1. /\ Last(t.tracks[merge[id]].objects) \in Objects(merge[id])
          /\ LastSeen(t.tracks[merge[id]]) = frame + 1
      BY <1>3, <1>7, <1>9
    <3>2. LastSeen(t.tracks[merge[id]]) <= LastSeen(merged[id])
      BY <1>5, <3>1 DEF LastSeen
    <3> QED
      BY <2>1, <3>1, <3>2
  <2> QED
    BY <2>1, <2>2, <2>3
<1>11. \A id \in t.active : Kept(id, merged[id]) /\ Aged(merged[id], frame + 1)
  BY <1>4, <1>5, <1>6, <1>10 DEF Aged
<1> DEFINE Part(id, owner) == owner = id \/ (id \in DOMAIN merge /\ owner = merge[id])
<1>12. ASSUME NEW id \in t.active, NEW o \in Range(merged[id].objects)
       PROVE  \E owner \in t.active :
                Part(id, owner) /\ \E p \in Objects(owner) : Same(o, p)
  <2>1. CASE id \in DOMAIN merge
    BY <1>3, <1>5, <2>1
  <2>2. CASE id \notin DOMAIN merge
    BY <1>6, <2>2 DEF Same
  <2> QED
    BY <2>1, <2>2
<1>13. ASSUME NEW id \in t.active \ Range(merge), NEW other \in t.active \ Range(merge),
              NEW o \in Range(merged[id].objects), NEW p \in Range(merged[other].objects),
              Same(o, p)
       PROVE  id = other
  <2>1. PICK x \in t.active : Part(id, x) /\ \E q \in Objects(x) : Same(o, q)
    BY <1>12
  <2>2. PICK y \in t.active : Part(other, y) /\ \E q \in Objects(y) : Same(p, q)
    BY <1>12
  <2>3. x = y
    <3>1. PICK q \in Objects(x) : Same(o, q)
      BY <2>1
    <3>2. PICK r \in Objects(y) : Same(p, r)
      BY <2>2
    <3>3. Same(q, r)
      BY <1>13, <3>1, <3>2 DEF Same
    <3> QED
      BY <3>3 DEF Whole
  <2>4. \A i \in DOMAIN merge : merge[i] \in Range(merge)
    BY DEF Range
  <2> QED
    BY <1>2, <2>1, <2>2, <2>3, <2>4
<1>14. Whole(done)
  BY <1>1, <1>4, <1>11, <1>13 DEF Whole
<1>15. \A id \in DOMAIN merge :
         /\ t.tracks[id].lost > 0
         /\ RectifyLength < MaxObjects => Last(t.tracks[id].objects) \in Range(merged[id].objects)
  <2> TAKE id \in DOMAIN merge
  <2>1. t.tracks[id].lost > 0
    BY <1>2 DEF LostIds
  <2>2. /\ t.tracks[merge[id]].length = RectifyLength
        /\ Len(t.tracks[merge[id]].objects) <= t.tracks[merge[id]].length
        /\ Len(t.tracks[merge[id]].objects) \in Nat
    BY <1>2, <1>3, <1>4 DEF NewIds, Kept, Track
  <2>3. RectifyLength < MaxObjects => Len(t.tracks[merge[id]].objects) < MaxObjects
    BY <2>2, TrackerAssumption
  <2> QED
    BY <1>5, <2>1, <2>3
<1> QED
  BY <1>1, <1>5, <1>6, <1>11, <1>14, <1>15 DEF done

\* The inductive invariant: with everything that is to be shown of the tracks in
\* one place, because what one function of the tracker relies on the others keep.
TrackInv ==
  /\ frame \in 0 .. MaxFrames
  /\ counter \in Ids
  /\ out \in UNION {[1 .. n -> Ids \cup {NoId}] : n \in 0 .. MaxDetections}
  /\ Whole([tracks |-> tracks, active |-> active])
  /\ \A id \in active : Aged(tracks[id], frame)
  /\ stuck = FALSE
  /\ ReportedIdIsTheTracks

\* The identity that is reported for a detection is that of the one track that
\* has it.
LEMMA TrackIdSound ==
  ASSUME NEW t, Whole(t), NEW number
  PROVE  \/ TrackId(t, number) = NoId
         \/ /\ TrackId(t, number) \in t.active
            /\ LastSeen(t.tracks[TrackId(t, number)]) = frame + 1
            /\ Last(t.tracks[TrackId(t, number)].objects).number = number
<1> DEFINE at == {id \in Reported(t) :
                    /\ Last(t.tracks[id].objects).frame = frame + 1
                    /\ Last(t.tracks[id].objects).number = number}
           least == CHOOSE id \in at : \A other \in at : id <= other
<1>1. CASE at = {}
  BY <1>1 DEF TrackId
<1>2. CASE at # {}
  <2>1. at \subseteq t.active
    BY DEF Reported
  <2>2. at \subseteq Nat
    BY <2>1 DEF Whole, Ids
  <2>3. \E id \in at : \A other \in at : id <= other
    <3> HIDE DEF at
    <3> QED
      BY <1>2, <2>2, LeastNat
  <2>4. least \in at
    BY <2>3
  <2>5. TrackId(t, number) = Last(t.tracks[least].objects).id
    BY <1>2 DEF TrackId
  <2>6. /\ least \in t.active /\ LastSeen(t.tracks[least]) = frame + 1
        /\ Last(t.tracks[least].objects).number = number
    BY <2>1, <2>4 DEF LastSeen
  <2> HIDE DEF least
  <2>7. Last(t.tracks[least].objects).id = least
    BY <2>6, KeptEnd DEF Whole
  <2> QED
    BY <2>5, <2>6, <2>7
<1> QED
  BY <1>1, <1>2

\* What Process does to the tracker: what the functions before Rectify leave is
\* whole and its ages are right.
LEMMA BeforeRectifyWhole ==
  ASSUME TrackInv, frame < MaxFrames, NEW n \in PreProcess,
         NEW matches \in Assignments(active, 1 .. n),
         NEW noise \in SUBSET {id \in DOMAIN matches : MayBeNoise(tracks[id])},
         NEW place \in Predictions(active \ DOMAIN matches)
  PROVE  LET t == BeforeRectify(n, matches, noise, place)
         IN  /\ Whole(t) /\ DOMAIN t = {"tracks", "active"}
             /\ \A id \in t.active : Aged(t.tracks[id], frame + 1)
             /\ \A id \in t.active \cap active :
                  \/ t.tracks[id].objects = tracks[id].objects
                  \/ /\ LastSeen(t.tracks[id]) = frame + 1
                     /\ \/ MayBeNoise(tracks[id])
                        \/ 1 < MaxObjects =>
                             Last(tracks[id].objects) \in Range(t.tracks[id].objects)
<1> DEFINE now == [tracks |-> tracks, active |-> active]
           numbers == (1 .. n) \ Range(matches)
           matched == Appended(now, matches, noise)
           grown == AddNewTracks(matched, numbers)
           again == active # {} /\ n > 0
           lost == UpdateLostTracks(grown, place, again)
           aged == DropForgottenTracks(lost)
<1>1. aged = BeforeRectify(n, matches, noise, place)
  BY DEF BeforeRectify
<1>2. frame \in 0 .. MaxFrames - 1 /\ frame \in Nat /\ n \in 0 .. MaxDetections /\ counter \in Ids
  BY TrackerAssumption DEF TrackInv, PreProcess
<1>3. Whole(now) /\ DOMAIN now = {"tracks", "active"} /\ now.active = active /\ now.tracks = tracks
  BY DEF TrackInv
<1>4. DOMAIN place = active \ DOMAIN matches /\ noise \subseteq DOMAIN matches
  BY DEF Predictions
<1>5. \A id \in active : Kept(id, tracks[id]) /\ Aged(tracks[id], frame)
  BY DEF TrackInv, Whole
<1>6. \A id \in active : LastSeen(tracks[id]) <= frame
  <2>1. \A id \in active : LastSeen(tracks[id]) \in Int /\ tracks[id].lost \in Nat
    BY <1>5, KeptEnd
  <2> QED
    BY <1>2, <1>5, <2>1 DEF Aged
<1> HIDE DEF now
<1>7. /\ Whole(matched) /\ matched.active = active \ noise
      /\ \A id \in matched.active :
           /\ id \in DOMAIN matches => LastSeen(matched.tracks[id]) = frame + 1
           /\ id \notin DOMAIN matches => matched.tracks[id] = tracks[id]
           /\ id \in DOMAIN matches /\ 1 < MaxObjects =>
                Last(tracks[id].objects) \in Range(matched.tracks[id].objects)
           /\ \A o \in Range(matched.tracks[id].objects) :
                o.frame = frame + 1 => o.number \in Range(matches)
  BY <1>2, <1>3, <1>6, AppendedWhole
<1>8. \A id \in matched.active \cap DOMAIN matches : matched.tracks[id].lost = 0
  <2> TAKE id \in matched.active \cap DOMAIN matches
  <2>1. /\ matched.tracks = Restrict(
             [i \in DOMAIN tracks |->
                IF i \in DOMAIN matches THEN AppendToTrack(tracks[i], i, matches[i])
                                        ELSE tracks[i]], DOMAIN tracks \ noise)
    BY <1>3 DEF Appended, Erased, now
  <2>2. id \in DOMAIN tracks \ noise
    BY <1>3, <1>7 DEF Whole
  <2>3. matched.tracks[id] = AppendToTrack(tracks[id], id, matches[id])
    BY <2>1, <2>2 DEF Restrict
  <2> HIDE DEF matched
  <2> QED
    BY <2>3 DEF AppendToTrack
<1> HIDE DEF matched
<1>9. /\ Whole(grown) /\ matched.active \subseteq grown.active
      /\ \A id \in matched.active : grown.tracks[id] = matched.tracks[id]
      /\ \A id \in grown.active \ matched.active :
           grown.tracks[id].lost = 0 /\ LastSeen(grown.tracks[id]) = frame + 1
  <2>1. numbers \in SUBSET (1 .. n)
    OBVIOUS
  <2>2. \A id \in matched.active : \A o \in Range(matched.tracks[id].objects) :
          o.frame = frame + 1 => o.number \notin numbers
    BY <1>7
  <2> HIDE DEF numbers
  <2> QED
    BY <1>2, <1>7, <2>1, <2>2, AddedWhole
<1>10. DOMAIN grown = {"tracks", "active"}
  BY DEF AddNewTracks
<1> HIDE DEF grown
<1>11. ASSUME NEW id \in grown.active
       PROVE  IF id \in DOMAIN place THEN Aged(grown.tracks[id], frame)
                                     ELSE Aged(grown.tracks[id], frame + 1)
  <2>1. CASE id \in DOMAIN place
    <3>1. id \in matched.active /\ grown.tracks[id] = tracks[id]
      BY <1>4, <1>7, <1>9, <2>1
    <3> QED
      BY <1>4, <1>5, <2>1, <3>1
  <2>2. CASE id \notin DOMAIN place
    <3>1. grown.tracks[id].lost = 0 /\ LastSeen(grown.tracks[id]) = frame + 1
      BY <1>4, <1>7, <1>8, <1>9, <2>2
    <3> QED
      BY <1>2, <2>2, <3>1 DEF Aged
  <2> QED
    BY <2>1, <2>2
<1>12. DOMAIN place \subseteq grown.active
  BY <1>4, <1>7, <1>9
<1> HIDE DEF again
<1>13. /\ Whole(lost)
       /\ \A id \in lost.active : /\ Aged(lost.tracks[id], frame + 1)
                                  /\ id \in grown.active
                                  /\ lost.tracks[id].objects = grown.tracks[id].objects
  BY <1>2, <1>9, <1>10, <1>11, <1>12, UpdatedWhole
<1> HIDE DEF lost
<1>14. Whole(aged) /\ DOMAIN aged = {"tracks", "active"}
  BY <1>13, ErasedWhole DEF DropForgottenTracks, Erased
<1>15. \A id \in aged.active : /\ Aged(aged.tracks[id], frame + 1)
                               /\ id \in grown.active
                               /\ aged.tracks[id].objects = grown.tracks[id].objects
  <2>1. \A id \in aged.active : id \in lost.active /\ aged.tracks[id] = lost.tracks[id]
    BY <1>13 DEF DropForgottenTracks, Erased, Restrict, Whole
  <2> QED
    BY <1>13, <2>1
<1> HIDE DEF aged
<1>16. ASSUME NEW id \in aged.active \cap active
       PROVE  \/ aged.tracks[id].objects = tracks[id].objects
              \/ /\ LastSeen(aged.tracks[id]) = frame + 1
                 /\ \/ MayBeNoise(tracks[id])
                    \/ 1 < MaxObjects =>
                         Last(tracks[id].objects) \in Range(aged.tracks[id].objects)
  <2>1. id \in grown.active /\ aged.tracks[id].objects = grown.tracks[id].objects
    BY <1>15
  <2>2. CASE id \in noise
    <3>1. LastSeen(grown.tracks[id]) = frame + 1 /\ MayBeNoise(tracks[id])
      BY <1>7, <1>9, <2>1, <2>2
    <3> QED
      BY <2>1, <3>1 DEF LastSeen
  <2>3. CASE id \notin noise
    <3>1. id \in matched.active /\ grown.tracks[id] = matched.tracks[id]
      BY <1>7, <1>9, <2>3
    <3> QED
      BY <1>7, <2>1, <3>1 DEF LastSeen
  <2> QED
    BY <2>2, <2>3
<1> QED
  BY <1>1, <1>14, <1>15, <1>16

\* One frame keeps the invariant.
LEMMA ProcessKeepsTrackInv ==
  ASSUME TrackInv, frame < MaxFrames, frame' = frame + 1, NEW n \in PreProcess, Process(n)
  PROVE  TrackInv'
<1>1. PICK matches, noise, place, merge : Decided(n, matches, noise, place, merge)
  BY ProcessDecides
<1>2. /\ matches \in Assignments(active, 1 .. n)
      /\ noise \in SUBSET {id \in DOMAIN matches : MayBeNoise(tracks[id])}
      /\ place \in Predictions(active \ DOMAIN matches)
  BY <1>1 DEF Decided
<1>3. merge \in Mergers(BeforeRectify(n, matches, noise, place))
  BY <1>1 DEF Decided
<1>4. RectifyAndReport(n, matches, BeforeRectify(n, matches, noise, place), merge)
  BY <1>1 DEF Decided
<1> DEFINE t == BeforeRectify(n, matches, noise, place)
           done == Rectified(t, merge)
<1>5. /\ Whole(t) /\ DOMAIN t = {"tracks", "active"}
      /\ \A id \in t.active : Aged(t.tracks[id], frame + 1)
  BY <1>2, BeforeRectifyWhole
<1> HIDE DEF t
<1>6. /\ tracks' = done.tracks
      /\ active' = done.active
      /\ counter' = ((counter - 1 + n - Cardinality(DOMAIN matches)) % LastId) + 1
      /\ out' = [number \in 1 .. n |-> TrackId(done, number)]
      /\ stuck' = \E id \in DOMAIN merge :
                     ~ WalkEnds(t.tracks[id].objects, t.tracks[merge[id]].objects)
  BY <1>4 DEF RectifyAndReport, t
<1>7. /\ frame \in Nat /\ frame + 1 \in 0 .. MaxFrames /\ counter \in Ids
      /\ n \in 0 .. MaxDetections /\ active \subseteq Ids
  BY TrackerAssumption DEF TrackInv, PreProcess, Whole
<1>8. /\ Whole(done)
      /\ \A id \in done.active : Aged(done.tracks[id], frame + 1)
      /\ \A id \in DOMAIN merge :
           WalkEnds(t.tracks[id].objects, t.tracks[merge[id]].objects)
  BY <1>3, <1>5, <1>7, RectifiedWhole DEF t
<1>9. stuck' = FALSE
  BY <1>6, <1>8
<1> HIDE DEF done
<1>10. counter' \in Ids
  <2>1. Cardinality(DOMAIN matches) \in Nat
    <3>1. DOMAIN matches \subseteq active
      BY <1>2 DEF Assignments
    <3>2. DOMAIN matches \subseteq 1 .. LastId
      BY <1>7, <3>1 DEF Ids
    <3>3. IsFiniteSet(1 .. LastId)
      BY FS_Interval, TrackerAssumption
    <3> QED
      BY <3>2, <3>3, FS_Subset, FS_CardinalityType
  <2>2. LastId \in Nat /\ LastId > 0 /\ counter \in Nat /\ n \in Nat
    BY <1>7, TrackerAssumption DEF Ids
  <2>3. (counter - 1 + n - Cardinality(DOMAIN matches)) % LastId \in 0 .. LastId - 1
    BY <2>1, <2>2
  <2> QED
    BY <1>6, <2>2, <2>3 DEF Ids
<1>11. \A number \in 1 .. n :
         out'[number] # NoId => /\ out'[number] \in done.active
                                /\ Last(done.tracks[out'[number]].objects).number = number
  BY <1>6, <1>8, TrackIdSound
<1>12. out' \in [1 .. n -> Ids \cup {NoId}]
  <2>1. \A number \in 1 .. n : TrackId(done, number) \in Ids \cup {NoId}
    BY <1>8, TrackIdSound DEF Whole
  <2> QED
    BY <1>6, <2>1
<1>13. out' \in UNION {[1 .. m -> Ids \cup {NoId}] : m \in 0 .. MaxDetections}
  BY <1>7, <1>12
<1>14. ReportedIdIsTheTracks'
  BY <1>6, <1>11, <1>12 DEF ReportedIdIsTheTracks
<1>15. Whole([tracks |-> tracks, active |-> active])'
  BY <1>6, <1>8 DEF Whole
<1>16. (\A id \in active : Aged(tracks[id], frame))'
  BY <1>6, <1>8 DEF Aged, LastSeen
<1> QED
  BY <1>7, <1>9, <1>10, <1>13, <1>14, <1>15, <1>16 DEF TrackInv

\* Initially there is no track.
LEMMA InitTrackInv == ASSUME Init PROVE TrackInv
<1>1. frame \in 0 .. MaxFrames /\ counter \in Ids /\ stuck = FALSE
  BY TrackerAssumption DEF Init, Ids
<1>2. out \in [1 .. 0 -> Ids \cup {NoId}] /\ 0 \in 0 .. MaxDetections
  BY TrackerAssumption DEF Init
<1>3. Whole([tracks |-> tracks, active |-> active]) /\ \A id \in active : Aged(tracks[id], frame)
  BY DEF Init, Whole
<1>4. ReportedIdIsTheTracks
  BY DEF Init, ReportedIdIsTheTracks
<1> QED
  BY <1>1, <1>2, <1>3, <1>4 DEF TrackInv

\* TrackInv is about the state only.
LEMMA StutterKeepsTrackInv == ASSUME TrackInv, UNCHANGED vars PROVE TrackInv'
BY DEF vars, TrackInv, Whole, Aged, LastSeen, ReportedIdIsTheTracks

\* The invariant holds in every tracker.
LEMMA TrackInvHolds == Spec => []TrackInv
<1>1. Init => TrackInv
  BY InitTrackInv
<1>2. TrackInv /\ [Next]_vars => TrackInv'
  <2> SUFFICES ASSUME TrackInv, [Next]_vars PROVE TrackInv'
    OBVIOUS
  <2>1. CASE StagePostProcess
    BY <2>1, ProcessKeepsTrackInv DEF StagePostProcess
  <2>2. CASE UNCHANGED vars
    BY <2>2, StutterKeepsTrackInv
  <2> QED
    BY <2>1, <2>2 DEF Next, Over
<1> QED
  BY <1>1, <1>2, PTL DEF Spec

\* The theorem about the types of the tracker: also that no track is without an
\* object, which back() on its objects relies on, and none is longer than
\* max_num_objects_in_track.
THEOREM TrackerTyped == Spec => []TypeOK
<1>1. TrackInv => TypeOK
  <2> SUFFICES ASSUME TrackInv PROVE TypeOK
    OBVIOUS
  <2>1. DOMAIN tracks = active /\ active \subseteq Ids /\ \A id \in active : Kept(id, tracks[id])
    BY DEF TrackInv, Whole
  <2>2. Range(tracks) \subseteq Track
    BY <2>1 DEF Range, Kept
  <2>3. \A id \in DOMAIN tracks : Len(tracks[id].objects) \in 1 .. MaxObjects
    BY <2>1 DEF Kept
  <2>4. /\ frame \in 0 .. MaxFrames /\ counter \in Ids /\ stuck \in BOOLEAN
        /\ out \in UNION {[1 .. n -> Ids \cup {NoId}] : n \in 0 .. MaxDetections}
    BY DEF TrackInv
  <2> QED
    BY <2>1, <2>2, <2>3, <2>4 DEF TypeOK
<1> QED
  BY <1>1, TrackInvHolds, PTL

\* The theorem about lost, through AppendToTrack, UpdateLostTracks, MergeTrack and
\* trimming: it says how many frames ago the track was seen.
THEOREM AgesAreRight == Spec => []LostIsAge
<1>1. TrackInv => LostIsAge
  BY DEF TrackInv, Whole, Aged, LastSeen, LostIsAge
<1> QED
  BY <1>1, TrackInvHolds, PTL

\* The theorem about the order of objects_, which the walks of GetClosestLocation
\* and MergeTrack and the speed of a track rely on.
THEOREM OrderIsKept == Spec => []TracksInOrder
<1>1. TrackInv => TracksInOrder
  BY DEF TrackInv, Whole, Kept, InOrder, TracksInOrder
<1> QED
  BY <1>1, TrackInvHolds, PTL

\* The theorem about the loop of MergeTrack: it comes to its end, because
\* GetClosestLocation does not let two tracks with a common frame come to it.
THEOREM WalksEnd == Spec => []MergingEnds
<1>1. TrackInv => MergingEnds
  BY DEF TrackInv, MergingEnds
<1> QED
  BY <1>1, TrackInvHolds, PTL

\* The theorem about the use of detections by matching, new tracks and merging:
\* none is used twice.
THEOREM DetectionsAreUsedOnce == Spec => []OneTrackPerDetection
<1>1. TrackInv => OneTrackPerDetection
  <2> SUFFICES ASSUME TrackInv,
                      NEW id \in active, NEW other \in active,
                      NEW i \in DOMAIN tracks[id].objects,
                      NEW j \in DOMAIN tracks[other].objects,
                      Same(tracks[id].objects[i], tracks[other].objects[j])
               PROVE  id = other /\ i = j
    BY DEF OneTrackPerDetection, Same
  <2>1. id = other
    BY DEF TrackInv, Whole, Range
  <2>2. /\ tracks[id].objects \in Seq(Object) /\ Len(tracks[id].objects) >= 1
        /\ InOrder(tracks[id].objects)
        /\ \A o \in Range(tracks[id].objects) : o.frame \in Int
    BY KeptEnd DEF TrackInv, Whole
  <2>3. i \in Nat /\ j \in Nat
    BY <2>1, <2>2
  <2>4. ~ (i < j) /\ ~ (j < i)
    BY <2>1, <2>2 DEF InOrder, Same, Range
  <2> QED
    BY <2>1, <2>3, <2>4
<1> QED
  BY <1>1, TrackInvHolds, PTL

\* The theorem about what TrackedDetections and run() report: the identity of the
\* one track that has the detection.
THEOREM IdentitiesAreReported == Spec => []ReportedIdIsTheTracks
<1>1. TrackInv => ReportedIdIsTheTracks
  BY DEF TrackInv
<1> QED
  BY <1>1, TrackInvHolds, PTL

\* A young track is shorter than what a track may hold.
ShortBeforeLong == RectifyLength < MaxObjects

\* The theorem about KeepsIdentity: as long as rectify_length is less than
\* max_num_objects_in_track, what was last seen of a track is part of it after the
\* next frame, through appending, losing, merging and trimming, also when the
\* counter of identities starts again.
THEOREM IdentitiesAreKept == ShortBeforeLong => (Spec => KeepsIdentity)
<1> SUFFICES ASSUME ShortBeforeLong PROVE Spec => KeepsIdentity
  OBVIOUS
<1> DEFINE Remembered(id) ==
             \/ MayBeNoise(tracks[id])
             \/ \E object \in Range(tracks'[id].objects) :
                  /\ object.frame = Last(tracks[id].objects).frame
                  /\ object.number = Last(tracks[id].objects).number
           Step == \A id \in DOMAIN tracks \cap DOMAIN tracks' : Remembered(id)
<1>1. RectifyLength < MaxObjects /\ 1 < MaxObjects
  BY TrackerAssumption DEF ShortBeforeLong
<1>2. TrackInv /\ [Next]_vars => [Step]_vars
  <2> SUFFICES ASSUME TrackInv, StagePostProcess, NEW id \in DOMAIN tracks \cap DOMAIN tracks'
               PROVE  Remembered(id)
    BY DEF Next, Over
  <2>1. PICK n \in PreProcess : Process(n)
    BY DEF StagePostProcess
  <2>2. frame < MaxFrames
    BY DEF StagePostProcess
  <2>3. PICK matches, noise, place, merge : Decided(n, matches, noise, place, merge)
    BY <2>1, ProcessDecides
  <2>4. /\ matches \in Assignments(active, 1 .. n)
        /\ noise \in SUBSET {i \in DOMAIN matches : MayBeNoise(tracks[i])}
        /\ place \in Predictions(active \ DOMAIN matches)
    BY <2>3 DEF Decided
  <2>5. merge \in Mergers(BeforeRectify(n, matches, noise, place))
    BY <2>3 DEF Decided
  <2>6. RectifyAndReport(n, matches, BeforeRectify(n, matches, noise, place), merge)
    BY <2>3 DEF Decided
  <2> DEFINE t == BeforeRectify(n, matches, noise, place)
             done == Rectified(t, merge)
  <2>7. /\ Whole(t) /\ DOMAIN t = {"tracks", "active"}
        /\ \A i \in t.active : Aged(t.tracks[i], frame + 1)
        /\ \A i \in t.active \cap active :
             \/ t.tracks[i].objects = tracks[i].objects
             \/ /\ LastSeen(t.tracks[i]) = frame + 1
                /\ \/ MayBeNoise(tracks[i])
                   \/ 1 < MaxObjects => Last(tracks[i].objects) \in Range(t.tracks[i].objects)
    BY <2>2, <2>4, BeforeRectifyWhole
  <2>8. tracks' = done.tracks /\ merge \in Mergers(t)
    BY <2>5, <2>6 DEF RectifyAndReport
  <2> HIDE DEF t
  <2>9. frame \in Nat
    BY DEF TrackInv
  <2>10. /\ Whole(done)
         /\ done.active = t.active \ Range(merge)
         /\ \A i \in done.active \ DOMAIN merge : done.tracks[i] = t.tracks[i]
         /\ \A i \in done.active \cap DOMAIN merge :
              /\ t.tracks[i].lost > 0
              /\ RectifyLength < MaxObjects =>
                   Last(t.tracks[i].objects) \in Range(done.tracks[i].objects)
    BY <2>7, <2>8, <2>9, RectifiedWhole
  <2> HIDE DEF done
  <2>11. id \in active /\ id \in done.active /\ id \in t.active
    BY <2>8, <2>10 DEF TrackInv, Whole
  <2>12. Last(tracks[id].objects) \in Range(tracks[id].objects)
    BY <2>11, KeptEnd DEF TrackInv, Whole
  <2>13. Last(tracks[id].objects) \in Range(done.tracks[id].objects) \/ MayBeNoise(tracks[id])
    <3>1. CASE id \notin DOMAIN merge
      BY <1>1, <2>7, <2>10, <2>11, <2>12, <3>1
    <3>2. CASE id \in DOMAIN merge
      <4>1. /\ t.tracks[id].lost > 0
            /\ Last(t.tracks[id].objects) \in Range(done.tracks[id].objects)
        BY <1>1, <2>10, <2>11, <3>2
      <4>2. LastSeen(t.tracks[id]) # frame + 1
        <5>1. t.tracks[id].lost = (frame + 1) - LastSeen(t.tracks[id])
          BY <2>7, <2>11 DEF Aged
        <5> QED
          BY <2>9, <4>1, <5>1
      <4> QED
        BY <2>7, <2>11, <4>1, <4>2
    <3> QED
      BY <3>1, <3>2
  <2> QED
    BY <2>8, <2>13
<1>3. Spec => [][Step]_vars
  BY <1>2, TrackInvHolds, PTL DEF Spec
<1> QED
  BY <1>3 DEF KeepsIdentity
===============================================================================
