--------------------------- MODULE DetectorProofs ---------------------------
(* Proofs about Detector, for all numbers of candidates, scores and costs:  *)
(* suppression keeps the best of each cluster, FindAssociationPairs returns *)
(* a stable matching, and every body becomes one person.                    *)
EXTENDS Detector, FiniteSetTheorems, WellFoundedInduction, TLAPS

---------------------------------------------------------------------------
(* NMSProcess.                                                             *)

\* What the loop has looked at is marked; what is marked is kept or overlaps
\* something that is kept; and what overlaps something kept is not kept.
Suppression ==
  /\ select \in Nat
  /\ DOMAIN bboxes \subseteq Nat
  /\ IsFiniteSet(DOMAIN bboxes)
  /\ \A i \in DOMAIN bboxes : bboxes[i] \in Int
  /\ \A i, j \in DOMAIN bboxes : i < j => bboxes[i] >= bboxes[j]
  /\ alike \subseteq {p \in (DOMAIN bboxes) \X (DOMAIN bboxes) : p[1] < p[2]}
  /\ kept \subseteq merged /\ merged \subseteq DOMAIN bboxes
  /\ \A i \in kept : i < select
  /\ \A i \in DOMAIN bboxes : i < select => i \in merged
  /\ \A i \in kept, j \in DOMAIN bboxes : <<i, j>> \in alike => j \in merged \ kept
  /\ \A j \in merged \ kept : \E i \in kept : <<i, j>> \in alike

\* A step that is not one of NMSProcess leaves its variables alone.
LEMMA OtherSuppression ==
  ASSUME Suppression, UNCHANGED nmsVars
  PROVE  Suppression'
BY DEF Suppression, nmsVars

\* The candidates of a class are sorted and none is marked yet.
LEMMA CandidatesSuppression ==
  ASSUME Suppression, Candidates
  PROVE  Suppression'
<1>1. PICK n \in 0 .. MaxCandidates[class] :
        /\ bboxes' \in {s \in [1 .. n -> Scores] : \A i, j \in 1 .. n : i < j => s[i] >= s[j]}
        /\ alike' \in SUBSET {p \in (1 .. n) \X (1 .. n) : p[1] < p[2]}
  BY DEF Candidates
<1>2. DOMAIN bboxes' = 1 .. n /\ n \in Int
  BY <1>1
<1>3. IsFiniteSet(1 .. n)
  BY <1>2, FS_Interval
<1>4. \A i \in 1 .. n : bboxes'[i] \in Int
  BY <1>1, DetectorAssumption DEF DetectorAssumption
<1> QED
  BY <1>1, <1>2, <1>3, <1>4 DEF Suppression, Candidates

\* The next candidate is neither marked nor before select_idx, so nothing that
\* is kept overlaps it; what it overlaps comes after it.
LEMMA SelectSuppression ==
  ASSUME Suppression, Select
  PROVE  Suppression'
<1>1. PICK i \in Unmerged :
        /\ \A j \in Unmerged : i <= j
        /\ kept' = kept \cup {i}
        /\ merged' = merged \cup {i} \cup Overlapping(i)
        /\ select' = i + 1
  BY DEF Select
<1>2. UNCHANGED <<bboxes, alike>>
  BY DEF Select
<1>3. i \in DOMAIN bboxes /\ i \in Nat /\ i >= select /\ i \notin merged
  BY <1>1 DEF Unmerged, Suppression
<1>4. Overlapping(i) = {j \in DOMAIN bboxes : i < j /\ <<i, j>> \in alike}
  BY DEF Overlapping
<1>5. \A j \in DOMAIN bboxes : j < select' => j \in merged'
  <2> SUFFICES ASSUME NEW j \in DOMAIN bboxes, j < i + 1 PROVE j \in merged'
    BY <1>1
  <2>1. j \in Nat /\ select \in Nat
    BY DEF Suppression
  <2>2. CASE j < select
    BY <2>2, <1>1 DEF Suppression
  <2>3. CASE j >= select
    BY <2>1, <2>3, <1>1, <1>3 DEF Unmerged
  <2> QED
    BY <2>1, <2>2, <2>3 DEF Suppression
<1>6. \A j \in kept' : j < select'
  BY <1>1, <1>3 DEF Suppression
<1>7. \A k \in kept', j \in DOMAIN bboxes : <<k, j>> \in alike => j \in merged' \ kept'
  <2> SUFFICES ASSUME NEW k \in kept', NEW j \in DOMAIN bboxes, <<k, j>> \in alike
               PROVE  j \in merged' \ kept'
    OBVIOUS
  <2>1. k < j /\ j \in Nat /\ k \in Nat
    BY DEF Suppression
  <2>2. CASE k \in kept
    BY <2>2, <1>1, <1>3 DEF Suppression
  <2>3. CASE k = i
    BY <2>1, <2>3, <1>1, <1>3, <1>4 DEF Suppression
  <2> QED
    BY <2>2, <2>3, <1>1
<1>8. \A j \in merged' \ kept' : \E k \in kept' : <<k, j>> \in alike
  BY <1>1, <1>4 DEF Suppression
<1> QED
  BY <1>1, <1>2, <1>3, <1>4, <1>5, <1>6, <1>7, <1>8 DEF Suppression

\* Nothing is left of the class when its boxes have been handed over.
LEMMA AllMergedSuppression ==
  ASSUME Suppression, AllMerged
  PROVE  Suppression'
BY FS_EmptySet DEF Suppression, AllMerged

\* When all candidates are marked, what is kept is the best of what overlaps.
LEMMA SuppressionBest ==
  ASSUME Suppression
  PROVE  BestOfEachCluster
<1> SUFFICES ASSUME Unmerged = {}
             PROVE  /\ \A i, j \in kept : <<i, j>> \notin alike
                    /\ \A j \in DOMAIN bboxes \ kept :
                         \E i \in kept : <<i, j>> \in alike /\ bboxes[i] >= bboxes[j]
  BY DEF BestOfEachCluster
<1>1. \A i, j \in kept : <<i, j>> \notin alike
  BY DEF Suppression
<1>2. ASSUME NEW j \in DOMAIN bboxes \ kept
      PROVE  \E i \in kept : <<i, j>> \in alike /\ bboxes[i] >= bboxes[j]
  <2>1. j \in merged
    BY DEF Unmerged, Suppression
  <2>2. PICK i \in kept : <<i, j>> \in alike
    BY <1>2, <2>1 DEF Suppression
  <2> QED
    BY <2>2 DEF Suppression
<1> QED
  BY <1>1, <1>2
---------------------------------------------------------------------------
(* FindAssociationPairs.                                                   *)

Taken(p) == p[1] \in DOMAIN pairs \/ \E r \in DOMAIN pairs : pairs[r] = p[2]

\* One of the two goes with somebody who is at least as good.
Settled(p) ==
  \/ p[1] \in DOMAIN pairs /\ CostOf(p[1]) <= given[p]
  \/ \E r \in DOMAIN pairs : pairs[r] = p[2] /\ CostOf(r) <= given[p]

\* The matrix is the given one except that it is Far where a row or a column
\* is taken, and whatever is taken is settled.
Matching ==
  /\ DOMAIN cost = DOMAIN given
  /\ \A p \in DOMAIN given : given[p] \in Costs
  /\ \A p \in DOMAIN given : p = <<p[1], p[2]>>
  /\ \A r \in DOMAIN pairs : <<r, pairs[r]>> \in DOMAIN given
  /\ \A r, s \in DOMAIN pairs : pairs[r] = pairs[s] => r = s
  /\ \A p \in DOMAIN given : cost[p] = IF Taken(p) THEN Far ELSE given[p]
  /\ \A p \in DOMAIN given : Taken(p) => Settled(p)
  /\ phase \in {"persons", "faced"} => \A p \in DOMAIN cost : cost[p] > Gate

\* Steps outside FindAssociationPairs leave the matching alone.
LEMMA OtherMatching ==
  ASSUME Matching, UNCHANGED matchVars, phase' \notin {"persons", "faced"}
  PROVE  Matching'
BY DEF Matching, matchVars, Taken, Settled, CostOf

\* A call starts with no pair.
LEMMA CallMatching ==
  ASSUME NEW rows, NEW cols, NEW matching, NEW next,
         MatchOrReturn(rows, cols, matching, next), matching \notin {"persons", "faced"}
  PROVE  Matching'
<1>1. CASE rows = {} \/ cols = {}
  BY <1>1 DEF MatchOrReturn, Matching, Taken, Settled
<1>2. CASE rows # {} /\ cols # {}
  BY <1>2 DEF MatchOrReturn, Matching, Taken, Settled
<1> QED
  BY <1>1, <1>2

\* The pair that is taken is free and the cheapest of all: so it settles all
\* pairs of its row and of its column that are free.
LEMMA TakePairMatching ==
  ASSUME Matching, TakePair
  PROVE  Matching'
<1>1. PICK p \in Cheapest :
        /\ pairs' = [r \in DOMAIN pairs \cup {p[1]} |-> IF r = p[1] THEN p[2] ELSE pairs[r]]
        /\ cost' = Masked(p[1], p[2])
  BY DEF TakePair
<1>2. UNCHANGED given /\ phase' = phase /\ phase \notin {"persons", "faced"}
  BY DEF TakePair
<1>3. /\ p \in DOMAIN given /\ cost[p] <= Gate
      /\ \A q \in DOMAIN given : cost[p] <= cost[q]
  BY DEF Cheapest, Matching
<1>4. \A q \in DOMAIN given : given[q] \in Int /\ given[q] < Far
  BY DetectorAssumption DEF DetectorAssumption, Matching
<1>5. ~ Taken(p) /\ cost[p] = given[p] /\ p = <<p[1], p[2]>>
  BY <1>3, <1>4, DetectorAssumption DEF DetectorAssumption, Matching
<1>6. /\ DOMAIN pairs' = DOMAIN pairs \cup {p[1]}
      /\ pairs'[p[1]] = p[2]
      /\ p[1] \notin DOMAIN pairs
      /\ \A r \in DOMAIN pairs : pairs'[r] = pairs[r] /\ pairs[r] # p[2]
  BY <1>1, <1>5 DEF Taken
<1>7. \A q \in DOMAIN given : Taken(q)' <=> Taken(q) \/ q[1] = p[1] \/ q[2] = p[2]
  BY <1>6 DEF Taken
<1>8. \A q \in DOMAIN given :
        cost'[q] = IF q[1] = p[1] \/ q[2] = p[2] THEN Far ELSE cost[q]
  BY <1>1 DEF Masked, Matching
<1>9. \A q \in DOMAIN given : cost'[q] = IF Taken(q)' THEN Far ELSE given[q]
  BY <1>7, <1>8 DEF Matching
<1>10. CostOf(p[1])' = given[p]
  BY <1>2, <1>5, <1>6 DEF CostOf
<1>11. \A r \in DOMAIN pairs : CostOf(r)' = CostOf(r)
  BY <1>2, <1>6 DEF CostOf
<1>12. ASSUME NEW q \in DOMAIN given, Taken(q)'
       PROVE  Settled(q)'
  <2>1. CASE Taken(q)
    <3>1. Settled(q)
      BY <2>1 DEF Matching
    <3> QED
      BY <3>1, <1>2, <1>6, <1>11 DEF Settled
  <2>2. CASE ~ Taken(q)
    <3>1. q[1] = p[1] \/ q[2] = p[2]
      BY <2>2, <1>7, <1>12
    <3>2. given[p] <= given[q]
      BY <2>2, <1>3, <1>5 DEF Matching
    <3> QED
      BY <3>1, <3>2, <1>2, <1>6, <1>10 DEF Settled
  <2> QED
    BY <2>1, <2>2
<1>13. \A r \in DOMAIN pairs' : <<r, pairs'[r]>> \in DOMAIN given
  BY <1>3, <1>5, <1>6 DEF Matching
<1>14. \A r, s \in DOMAIN pairs' : pairs'[r] = pairs'[s] => r = s
  BY <1>6 DEF Matching
<1>15. DOMAIN cost' = DOMAIN given
  BY <1>1 DEF Masked, Matching
<1> QED
  BY <1>2, <1>9, <1>12, <1>13, <1>14, <1>15 DEF Matching

\* FindAssociationPairs returns when no entry within the gate is left.
LEMMA NoMorePairsMatching ==
  ASSUME Matching, NoMorePairs
  PROVE  Matching'
BY DEF Matching, NoMorePairs, Taken, Settled, CostOf

\* At the end everything good enough is taken.
LEMMA MatchingStable ==
  ASSUME Matching
  PROVE  Stable
<1> SUFFICES ASSUME phase \in {"persons", "faced"},
                    NEW p \in DOMAIN given, given[p] <= Gate
             PROVE  Settled(p)
  BY DEF Stable, Settled
<1>1. given[p] \in Int /\ Gate \in Int
  BY DetectorAssumption DEF DetectorAssumption, Matching
<1>2. Taken(p)
  BY <1>1 DEF Matching
<1> QED
  BY <1>2 DEF Matching
---------------------------------------------------------------------------
(* ComputeAssociate.                                                       *)

\* The phases of NMSProcess have a class to work on.
ClassGiven ==
  /\ phase = "class" => class \in 0 .. 4
  /\ phase = "suppress" => class \in 0 .. 3

\* The boxes of a class are finitely many numbers.
BoxesFinite ==
  /\ DOMAIN nms_boxes = Classes
  /\ \A c \in Classes : Boxes(c) \subseteq Nat /\ IsFiniteSet(Boxes(c))

\* What FindAssociationPairs says of the bodies when it has returned: each has
\* a head or is an orphan, if there are heads at all.
HeadsMatched ==
  /\ DOMAIN pairs \subseteq Boxes(cls_person)
  /\ \A r \in DOMAIN pairs : pairs[r] \in Boxes(cls_shoulder)
  /\ orphans \subseteq Boxes(cls_person) \ DOMAIN pairs
  /\ Boxes(cls_shoulder) # {} => Boxes(cls_person) = DOMAIN pairs \cup orphans

Association ==
  /\ ClassGiven
  /\ BoxesFinite
  /\ persons \in [DOMAIN persons -> Person]
  /\ phase = "headsMatching" => DOMAIN given = Boxes(cls_person) \X Boxes(cls_shoulder)
  /\ phase = "persons" => HeadsMatched
  /\ phase = "facesMatching" => DOMAIN given = Boxes(cls_face) \X DOMAIN persons
  /\ phase = "faced" => DOMAIN pairs \subseteq Boxes(cls_face)
  /\ OnePersonPerBody

DetectorInv == Suppression /\ Matching /\ Association

\* Steps of NMSProcess before a class is finished make no persons.
LEMMA NMSAssociation ==
  ASSUME Suppression, Association, Candidates \/ Select \/ FilterBoxByScore
  PROVE  Association'
<1>1. CASE Candidates \/ Select
  BY <1>1 DEF Candidates, Select, Association, ClassGiven, BoxesFinite, Boxes, OnePersonPerBody,
              personVars
<1>2. CASE FilterBoxByScore
  <2>1. \A c \in Classes : Boxes(c)' \subseteq Boxes(c)
    BY <1>2 DEF FilterBoxByScore, Boxes, Restrict
  <2>2. BoxesFinite'
    BY <1>2, <2>1, FS_Subset DEF FilterBoxByScore, Association, BoxesFinite, Boxes
  <2> QED
    BY <1>2, <2>2 DEF FilterBoxByScore, Association, ClassGiven, OnePersonPerBody, personVars
<1> QED
  BY <1>1, <1>2

\* A finished class hands on boxes of that class only.
LEMMA AllMergedAssociation ==
  ASSUME Suppression, Association, AllMerged
  PROVE  Association'
<1>1. class \in Classes
  BY DEF AllMerged, Association, ClassGiven, Classes
<1>2. \A c \in Classes : Boxes(c)' = IF c = class THEN kept ELSE Boxes(c)
  BY <1>1 DEF AllMerged, Association, BoxesFinite, Boxes, Restrict
<1>3. kept \subseteq Nat /\ IsFiniteSet(kept)
  BY FS_Subset DEF Suppression
<1>4. BoxesFinite'
  BY <1>1, <1>2, <1>3 DEF AllMerged, Association, BoxesFinite
<1> QED
  BY <1>1, <1>4 DEF AllMerged, Association, ClassGiven, Classes, OnePersonPerBody, personVars

\* The call for heads begins.
LEMMA MatchHeadsAssociation ==
  ASSUME Association, MatchHeads
  PROVE  Association'
<1>1. UNCHANGED <<nms_boxes, persons>>
  BY DEF MatchHeads, personVars
<1>2. BoxesFinite'
  BY <1>1 DEF Association, BoxesFinite, Boxes
<1>3. CASE Boxes(cls_person) = {} \/ Boxes(cls_shoulder) = {}
  BY <1>1, <1>2, <1>3 DEF MatchHeads, MatchOrReturn, Association, ClassGiven, HeadsMatched,
                          OnePersonPerBody, Boxes
<1>4. CASE Boxes(cls_person) # {} /\ Boxes(cls_shoulder) # {}
  <2>1. DOMAIN given' = Boxes(cls_person) \X Boxes(cls_shoulder) /\ phase' = "headsMatching"
    BY <1>4 DEF MatchHeads, MatchOrReturn
  <2> QED
    BY <1>1, <1>2, <2>1 DEF Association, ClassGiven, OnePersonPerBody, Boxes
<1> QED
  BY <1>3, <1>4

\* A pair is taken; the persons are not touched.
LEMMA TakePairAssociation ==
  ASSUME Association, TakePair
  PROVE  Association'
BY DEF TakePair, Association, ClassGiven, BoxesFinite, OnePersonPerBody, Boxes, personVars

\* A call of FindAssociationPairs returns distinct rows and columns.
LEMMA NoMorePairsAssociation ==
  ASSUME Matching, Association, NoMorePairs
  PROVE  Association'
<1>1. UNCHANGED <<nms_boxes, persons, given, cost, pairs>>
  BY DEF NoMorePairs, personVars
<1>2. BoxesFinite'
  BY <1>1 DEF Association, BoxesFinite, Boxes
<1>3. CASE phase = "headsMatching"
  <2>1. DOMAIN cost = Boxes(cls_person) \X Boxes(cls_shoulder)
    BY <1>3 DEF Association, Matching
  <2>2. \A r \in DOMAIN pairs : r \in Boxes(cls_person) /\ pairs[r] \in Boxes(cls_shoulder)
    <3>1. \A r \in DOMAIN pairs : <<r, pairs[r]>> \in DOMAIN cost
      BY DEF Matching
    <3> QED
      BY <2>1, <3>1
  <2>3. orphans' = {p[1] : p \in DOMAIN cost} \ DOMAIN pairs
    BY DEF NoMorePairs
  <2>4. ASSUME NEW body \in Boxes(cls_person), NEW head \in Boxes(cls_shoulder)
        PROVE  body \in {p[1] : p \in DOMAIN cost}
    <3>1. <<body, head>> \in DOMAIN cost /\ <<body, head>>[1] = body
      BY <2>1
    <3> QED
      BY <3>1
  <2>5. {p[1] : p \in DOMAIN cost} \subseteq Boxes(cls_person)
    BY <2>1
  <2>6. HeadsMatched'
    BY <1>1, <2>2, <2>3, <2>4, <2>5 DEF HeadsMatched, Boxes
  <2> QED
    BY <1>1, <1>2, <1>3, <2>6 DEF NoMorePairs, Association, ClassGiven, OnePersonPerBody
<1>4. CASE phase = "facesMatching"
  <2>1. \A r \in DOMAIN pairs : r \in Boxes(cls_face)
    BY <1>4 DEF Association, Matching
  <2> QED
    BY <1>1, <1>2, <1>4, <2>1 DEF NoMorePairs, Association, ClassGiven, OnePersonPerBody, Boxes
<1> QED
  BY <1>3, <1>4 DEF NoMorePairs

\* The first persons are the matched bodies, which differ and have heads that
\* differ, and the others are the orphans, which differ from those.
LEMMA MakePersonsAssociation ==
  ASSUME Matching, Association, MakePersons
  PROVE  Association'
<1> DEFINE n == Cardinality(DOMAIN pairs)
           m == Cardinality(orphans)
<1>1. PICK matched \in Orders(DOMAIN pairs), unmatched \in Orders(orphans) :
        persons' = [i \in 1 .. (n + m) |->
                      PersonOf(IF i <= n THEN matched[i] ELSE unmatched[i - n])]
  BY DEF MakePersons
<1>2. UNCHANGED <<nms_boxes, pairs, orphans>> /\ phase' = "faces"
  BY DEF MakePersons, matchVars
<1>3. HeadsMatched /\ BoxesFinite
  BY DEF MakePersons, Association
<1>4. n \in Nat /\ m \in Nat
  <2>1. IsFiniteSet(Boxes(cls_person))
    BY <1>3 DEF BoxesFinite, Classes, cls_person
  <2>2. IsFiniteSet(DOMAIN pairs) /\ IsFiniteSet(orphans)
    BY <1>3, <2>1, FS_Subset DEF HeadsMatched
  <2> QED
    BY <2>2, FS_CardinalityType
<1>5. /\ matched \in [1 .. n -> DOMAIN pairs]
      /\ \A i, j \in 1 .. n : matched[i] = matched[j] => i = j
      /\ \A r \in DOMAIN pairs : \E i \in 1 .. n : matched[i] = r
  BY DEF Orders, IsInjective
<1>6. /\ unmatched \in [1 .. m -> orphans]
      /\ \A i, j \in 1 .. m : unmatched[i] = unmatched[j] => i = j
      /\ \A r \in orphans : \E i \in 1 .. m : unmatched[i] = r
  BY DEF Orders, IsInjective
<1> DEFINE body(i) == IF i <= n THEN matched[i] ELSE unmatched[i - n]
<1>7. /\ DOMAIN persons' = 1 .. (n + m)
      /\ \A i \in 1 .. (n + m) : persons'[i] = PersonOf(body(i))
  BY <1>1
<1>8. \A i \in 1 .. (n + m) :
        /\ i <= n => i \in 1 .. n /\ body(i) \in DOMAIN pairs
        /\ ~ (i <= n) => i - n \in 1 .. m /\ body(i) \in orphans
  <2> SUFFICES ASSUME NEW i \in 1 .. (n + m)
               PROVE  /\ i <= n => i \in 1 .. n /\ body(i) \in DOMAIN pairs
                      /\ ~ (i <= n) => i - n \in 1 .. m /\ body(i) \in orphans
    OBVIOUS
  <2>1. i <= n => i \in 1 .. n
    BY <1>4
  <2>2. ~ (i <= n) => i - n \in 1 .. m
    BY <1>4
  <2> HIDE DEF n, m
  <2> QED
    BY <2>1, <2>2, <1>5, <1>6
<1>9. \A i, j \in 1 .. (n + m) : body(i) = body(j) => i = j
  <2> SUFFICES ASSUME NEW i \in 1 .. (n + m), NEW j \in 1 .. (n + m), body(i) = body(j)
               PROVE  i = j
    OBVIOUS
  <2>1. i <= n <=> j <= n
    BY <1>3, <1>8 DEF HeadsMatched
  <2> HIDE DEF n, m
  <2> QED
    BY <2>1, <1>4, <1>5, <1>6, <1>8
<1>10. \A r \in DOMAIN pairs \cup orphans : \E i \in 1 .. (n + m) : body(i) = r
  <2> HIDE DEF n, m
  <2>1. ASSUME NEW r \in DOMAIN pairs PROVE \E i \in 1 .. (n + m) : body(i) = r
    BY <1>4, <1>5
  <2>2. ASSUME NEW r \in orphans PROVE \E i \in 1 .. (n + m) : body(i) = r
    <3>1. PICK i \in 1 .. m : unmatched[i] = r
      BY <1>6
    <3>2. i + n \in 1 .. (n + m) /\ ~ (i + n <= n) /\ (i + n) - n = i
      BY <1>4
    <3> QED
      BY <3>1, <3>2
  <2> QED
    BY <2>1, <2>2
<1>11. \A i \in 1 .. (n + m) :
         /\ persons'[i].body = body(i) /\ body(i) \in Boxes(cls_person)
         /\ persons'[i].head = IF body(i) \in DOMAIN pairs THEN pairs[body(i)] ELSE 0
         /\ persons'[i].face = 0
         /\ persons'[i] \in Person
  <2> HIDE DEF n, m
  <2> SUFFICES ASSUME NEW i \in 1 .. (n + m)
               PROVE  /\ persons'[i].body = body(i) /\ body(i) \in Boxes(cls_person)
                      /\ persons'[i].head = IF body(i) \in DOMAIN pairs THEN pairs[body(i)] ELSE 0
                      /\ persons'[i].face = 0
                      /\ persons'[i] \in Person
    OBVIOUS
  <2> DEFINE b == body(i)
  <2>1. persons'[i] = PersonOf(b)
    BY <1>7
  <2>2. b \in Boxes(cls_person)
    BY <1>3, <1>8 DEF HeadsMatched
  <2>3. Boxes(cls_person) \subseteq Nat /\ Boxes(cls_shoulder) \subseteq Nat
    BY <1>3 DEF BoxesFinite, Classes, cls_person, cls_shoulder
  <2> HIDE DEF b
  <2>4. b \in DOMAIN pairs => pairs[b] \in Nat
    BY <1>3, <2>3 DEF HeadsMatched
  <2>5. /\ PersonOf(b).body = b /\ PersonOf(b).face = 0
        /\ PersonOf(b).head = IF b \in DOMAIN pairs THEN pairs[b] ELSE 0
        /\ PersonOf(b) \in Person
    BY <2>2, <2>3, <2>4 DEF PersonOf, Person
  <2> QED
    BY <2>1, <2>2, <2>5 DEF b
<1>12. \A i \in 1 .. (n + m) : persons'[i].head \in Boxes(cls_shoulder) \cup {0}
  BY <1>3, <1>11 DEF HeadsMatched
<1>13. \A i, j \in 1 .. (n + m) : i # j =>
         /\ persons'[i].body # persons'[j].body
         /\ persons'[i].head = 0 \/ persons'[i].head # persons'[j].head
  <2> HIDE DEF n, m, body
  <2> SUFFICES ASSUME NEW i \in 1 .. (n + m), NEW j \in 1 .. (n + m), i # j
               PROVE  /\ persons'[i].body # persons'[j].body
                      /\ persons'[i].head = 0 \/ persons'[i].head # persons'[j].head
    OBVIOUS
  <2>1. body(i) # body(j)
    BY <1>9
  <2>2. CASE body(i) \in DOMAIN pairs /\ body(j) \in DOMAIN pairs
    BY <2>1, <2>2, <1>11 DEF Matching
  <2>3. CASE body(i) \notin DOMAIN pairs
    BY <2>1, <2>3, <1>11
  <2>4. CASE body(j) \notin DOMAIN pairs
    BY <2>1, <2>4, <1>11
  <2> QED
    BY <2>2, <2>3, <2>4
<1>14. Boxes(cls_shoulder) # {} =>
         \A r \in Boxes(cls_person) : \E i \in 1 .. (n + m) : persons'[i].body = r
  BY <1>3, <1>10, <1>11 DEF HeadsMatched
<1> HIDE DEF n, m, body
<1>15. OnePersonPerBody'
  BY <1>2, <1>7, <1>11, <1>12, <1>13, <1>14 DEF OnePersonPerBody, Boxes
<1>16. persons' \in [DOMAIN persons' -> Person]
  BY <1>7, <1>11, <1>1
<1>17. BoxesFinite'
  BY <1>2, <1>3 DEF BoxesFinite, Boxes
<1> QED
  BY <1>2, <1>15, <1>16, <1>17 DEF Association, ClassGiven

\* The call for faces begins.
LEMMA MatchFacesAssociation ==
  ASSUME Association, MatchFaces
  PROVE  Association'
<1>1. UNCHANGED <<nms_boxes, persons>> /\ phase = "faces"
  BY DEF MatchFaces, personVars
<1>2. BoxesFinite'
  BY <1>1 DEF Association, BoxesFinite, Boxes
<1>3. CASE Boxes(cls_face) = {} \/ DOMAIN persons = {}
  BY <1>1, <1>2, <1>3 DEF MatchFaces, MatchOrReturn, Association, ClassGiven, OnePersonPerBody, Boxes
<1>4. CASE Boxes(cls_face) # {} /\ DOMAIN persons # {}
  <2>1. DOMAIN given' = Boxes(cls_face) \X DOMAIN persons /\ phase' = "facesMatching"
    BY <1>4 DEF MatchFaces, MatchOrReturn
  <2> QED
    BY <1>1, <1>2, <2>1 DEF Association, ClassGiven, OnePersonPerBody, Boxes
<1> QED
  BY <1>3, <1>4

\* A person has the face that was given to it, which is given to no other.
LEMMA FacePersonsAssociation ==
  ASSUME Association, FacePersons
  PROVE  Association'
<1>1. PICK face \in [DOMAIN persons -> DOMAIN pairs \cup {0}] :
        /\ \A j \in DOMAIN persons :
             IF j \in Range(pairs) THEN face[j] # 0 /\ pairs[face[j]] = j ELSE face[j] = 0
        /\ persons' = [j \in DOMAIN persons |-> [persons[j] EXCEPT !.face = face[j]]]
  BY DEF FacePersons
<1>2. UNCHANGED nms_boxes /\ phase = "faced" /\ phase' = "packages"
  BY DEF FacePersons
<1>3. BoxesFinite'
  BY <1>2 DEF Association, BoxesFinite, Boxes
<1>4. DOMAIN pairs \subseteq Boxes(cls_face) /\ Boxes(cls_face) \subseteq Nat
  BY <1>2 DEF Association, BoxesFinite, Classes, cls_face
<1>5. \A j \in DOMAIN persons :
        /\ persons'[j].body = persons[j].body /\ persons'[j].head = persons[j].head
        /\ persons'[j].face = face[j]
        /\ persons'[j] \in Person
  <2> SUFFICES ASSUME NEW j \in DOMAIN persons
               PROVE  /\ persons'[j].body = persons[j].body /\ persons'[j].head = persons[j].head
                      /\ persons'[j].face = face[j]
                      /\ persons'[j] \in Person
    OBVIOUS
  <2>1. persons[j] \in Person /\ persons'[j] = [persons[j] EXCEPT !.face = face[j]]
    BY <1>1 DEF Association
  <2>2. face[j] \in Nat
    BY <1>1, <1>4
  <2> QED
    BY <2>1, <2>2 DEF Person
<1>6. DOMAIN persons' = DOMAIN persons /\ persons' \in [DOMAIN persons' -> Person]
  BY <1>1, <1>5
<1>7. \A i \in DOMAIN persons : face[i] \in Boxes(cls_face) \cup {0}
  BY <1>1, <1>4
<1>8. \A i, j \in DOMAIN persons : i # j => face[i] = 0 \/ face[i] # face[j]
  BY <1>1
<1>9. OnePersonPerBody'
  BY <1>2, <1>5, <1>6, <1>7, <1>8 DEF Association, OnePersonPerBody, Boxes
<1> QED
  BY <1>2, <1>3, <1>6, <1>9 DEF Association, ClassGiven

\* A package is given to a person; bodies, heads and faces stay apart.
LEMMA GivePackageAssociation ==
  ASSUME Association, GivePackage
  PROVE  Association'
<1>1. UNCHANGED nms_boxes /\ phase = "packages" /\ phase' \in {"packages", "overrun"}
  BY DEF GivePackage
<1>2. BoxesFinite'
  BY <1>1 DEF Association, BoxesFinite, Boxes
<1>3. CASE UNCHANGED persons
  BY <1>1, <1>2, <1>3 DEF Association, ClassGiven, OnePersonPerBody, Boxes
<1>4. CASE \E j \in DOMAIN persons :
             /\ persons[j].packages < MaxPackages
             /\ persons' = [persons EXCEPT ![j].packages = @ + 1]
  <2>1. PICK j \in DOMAIN persons : persons' = [persons EXCEPT ![j].packages = @ + 1]
    BY <1>4
  <2>2. DOMAIN persons' = DOMAIN persons
    BY <2>1
  <2>3. \A i \in DOMAIN persons :
          /\ persons'[i].body = persons[i].body /\ persons'[i].head = persons[i].head
          /\ persons'[i].face = persons[i].face /\ persons'[i] \in Person
    <3> SUFFICES ASSUME NEW i \in DOMAIN persons
                 PROVE  /\ persons'[i].body = persons[i].body
                        /\ persons'[i].head = persons[i].head
                        /\ persons'[i].face = persons[i].face /\ persons'[i] \in Person
      OBVIOUS
    <3>1. persons[i] \in Person
      BY DEF Association
    <3>2. persons'[i] = IF i = j THEN [persons[i] EXCEPT !.packages = @ + 1] ELSE persons[i]
      BY <2>1
    <3> QED
      BY <3>1, <3>2 DEF Person
  <2>4. persons' \in [DOMAIN persons' -> Person]
    BY <2>1, <2>2, <2>3
  <2>5. OnePersonPerBody'
    BY <1>1, <2>2, <2>3 DEF Association, OnePersonPerBody, Boxes
  <2> QED
    BY <1>1, <1>2, <2>4, <2>5 DEF Association, ClassGiven
<1> QED
  BY <1>3, <1>4 DEF GivePackage

---------------------------------------------------------------------------
(* The stage.                                                              *)

\* Initially nothing is kept, matched or made.
LEMMA DetectorInit == Init => DetectorInv
<1> SUFFICES ASSUME Init PROVE DetectorInv
  OBVIOUS
<1>1. Suppression
  BY FS_EmptySet DEF Init, Suppression
<1>2. Matching
  BY DEF Init, Matching, Taken, Settled
<1>3. BoxesFinite
  BY FS_EmptySet DEF Init, BoxesFinite, Boxes
<1>4. Association
  BY <1>3 DEF Init, Association, ClassGiven, OnePersonPerBody
<1> QED
  BY <1>1, <1>2, <1>4 DEF DetectorInv

\* DetectorInv is inductive.
LEMMA DetectorStep == DetectorInv /\ [Next]_vars => DetectorInv'
<1> SUFFICES ASSUME DetectorInv, [Next]_vars PROVE DetectorInv'
  OBVIOUS
<1> USE DEF DetectorInv
<1>1. CASE Candidates
  BY <1>1, CandidatesSuppression, OtherMatching, NMSAssociation DEF Candidates
<1>2. CASE Select
  <2>1. UNCHANGED matchVars /\ phase' = "suppress"
    BY <1>2 DEF Select
  <2> QED
    BY <1>2, <2>1, SelectSuppression, OtherMatching, NMSAssociation
<1>3. CASE AllMerged
  <2>1. UNCHANGED matchVars /\ phase' \in {"filter", "class"}
    BY <1>3 DEF AllMerged
  <2> QED
    BY <1>3, <2>1, AllMergedSuppression, OtherMatching, AllMergedAssociation
<1>4. CASE FilterBoxByScore
  BY <1>4, OtherSuppression, OtherMatching, NMSAssociation DEF FilterBoxByScore
<1>5. CASE MatchHeads
  BY <1>5, OtherSuppression, CallMatching, MatchHeadsAssociation DEF MatchHeads
<1>6. CASE MatchFaces
  BY <1>6, OtherSuppression, CallMatching, MatchFacesAssociation DEF MatchFaces
<1>7. CASE TakePair
  BY <1>7, OtherSuppression, TakePairMatching, TakePairAssociation DEF TakePair
<1>8. CASE NoMorePairs
  BY <1>8, OtherSuppression, NoMorePairsMatching, NoMorePairsAssociation DEF NoMorePairs
<1>9. CASE MakePersons
  BY <1>9, OtherSuppression, OtherMatching, MakePersonsAssociation DEF MakePersons
<1>10. CASE FacePersons
  BY <1>10, OtherSuppression, OtherMatching, FacePersonsAssociation DEF FacePersons
<1>11. CASE GivePackage
  <2>1. UNCHANGED <<nmsVars, matchVars>> /\ phase' \in {"packages", "overrun"}
    BY <1>11 DEF GivePackage
  <2> QED
    BY <1>11, <2>1, OtherSuppression, OtherMatching, GivePackageAssociation
<1>12. CASE AllGiven
  <2>1. UNCHANGED <<nmsVars, matchVars, nms_boxes, persons>> /\ phase = "packages" /\ phase' = "done"
    BY <1>12 DEF AllGiven, personVars
  <2>2. Association'
    BY <2>1 DEF Association, ClassGiven, BoxesFinite, OnePersonPerBody, Boxes
  <2> QED
    BY <2>1, <2>2, OtherSuppression, OtherMatching
<1>13. CASE UNCHANGED vars
  <2>1. UNCHANGED <<phase, nmsVars, matchVars, nms_boxes, persons>>
    BY <1>13 DEF vars, personVars
  <2>2. Association'
    <3>1. BoxesFinite' /\ ClassGiven'
      BY <2>1 DEF Association, ClassGiven, BoxesFinite, Boxes, nmsVars
    <3>2. HeadsMatched => HeadsMatched'
      BY <2>1 DEF HeadsMatched, Boxes, matchVars
    <3>3. OnePersonPerBody'
      BY <2>1 DEF Association, OnePersonPerBody, Boxes
    <3> QED
      BY <2>1, <3>1, <3>2, <3>3 DEF Association, Boxes, matchVars
  <2>3. Matching'
    BY <2>1 DEF Matching, matchVars, Taken, Settled, CostOf
  <2> QED
    BY <2>1, <2>2, <2>3, OtherSuppression
<1> QED
  BY <1>1, <1>2, <1>3, <1>4, <1>5, <1>6, <1>7, <1>8, <1>9, <1>10, <1>11, <1>12, <1>13
  DEF Next, Over

\* The inductive invariant of the stage.
THEOREM DetectorCorrect == Spec => []DetectorInv
BY DetectorInit, DetectorStep, PTL DEF Spec

\* NMSProcess: of any candidates it keeps those that no kept one overlaps, and
\* drops no candidate but for one as good.
THEOREM SuppressionIsSound == Spec => []BestOfEachCluster
<1>1. DetectorInv => BestOfEachCluster
  BY SuppressionBest DEF DetectorInv
<1> QED
  BY <1>1, DetectorCorrect, PTL

\* FindAssociationPairs: of any matrix it makes a stable matching.
THEOREM MatchingIsStable == Spec => []Stable
<1>1. DetectorInv => Stable
  BY MatchingStable DEF DetectorInv
<1> QED
  BY <1>1, DetectorCorrect, PTL

\* ComputeAssociate: each body becomes one person, unless there is no head, and
\* no two persons share a head or a face.
THEOREM PersonsAreDistinct == Spec => []OnePersonPerBody
<1>1. DetectorInv => OnePersonPerBody
  BY DEF DetectorInv, Association
<1> QED
  BY <1>1, DetectorCorrect, PTL

---------------------------------------------------------------------------
(* The types of the stage.                                                 *)

\* Where the packages have not been looked at.
Earlier == {"class", "suppress", "filter", "heads", "headsMatching", "persons", "faces",
            "facesMatching", "faced"}

\* The boxes of the classes, with their scores.
Scored ==
  \A c \in Classes : \A i \in Boxes(c) : i \in Nat \ {0} /\ nms_boxes[c][i] \in Scores

\* The boxes of the class that is suppressed, and select_idx among them.
Sorted ==
  /\ \A i \in DOMAIN bboxes : bboxes[i] \in Scores
  /\ \E n \in Nat : DOMAIN bboxes = 1 .. n /\ select \in 1 .. n + 1

\* Rows and columns are numbers.
Numbered == orphans \subseteq Nat /\ \A p \in DOMAIN given : p[1] \in Nat /\ p[2] \in Nat

\* No person has more packages than there is room for.
Carried ==
  /\ DOMAIN persons \subseteq Nat
  /\ \A j \in DOMAIN persons : persons[j].packages <= MaxPackages
  /\ packages \subseteq Boxes(cls_handpackage)
  /\ phase \in Earlier => packages = {}

Ranged ==
  /\ phase \in Earlier \cup {"packages", "overrun", "done"} /\ class \in 0 .. 4
  /\ Sorted /\ Scored /\ Numbered /\ Carried

\* Initially all lists are empty.
LEMMA RangedInit == Init => Ranged
<1> SUFFICES ASSUME Init PROVE Ranged
  OBVIOUS
<1>1. Sorted
  <2>1. DOMAIN bboxes = 1 .. 0 /\ select \in 1 .. 0 + 1 /\ 0 \in Nat
    BY DEF Init
  <2> QED
    BY <2>1 DEF Sorted
<1>2. Scored /\ Numbered /\ Carried
  BY DEF Init, Scored, Numbered, Carried, Boxes
<1> QED
  BY <1>1, <1>2 DEF Init, Ranged, Earlier

\* Candidates come with scores, sorted, and select_idx never passes their end.
LEMMA CandidatesRanged ==
  ASSUME DetectorInv, Ranged, Candidates \/ Select
  PROVE  Ranged'
<1>1. UNCHANGED <<class, nms_boxes, matchVars, personVars>> /\ phase' = "suppress" /\ phase \in Earlier
  BY DEF Candidates, Select, Earlier
<1>2. Scored' /\ Numbered' /\ Carried'
  BY <1>1 DEF Ranged, Scored, Numbered, Carried, Boxes, matchVars, personVars, Earlier
<1>3. CASE Candidates
  <2>1. PICK n \in 0 .. MaxCandidates[class] :
          bboxes' \in {s \in [1 .. n -> Scores] : \A i, j \in 1 .. n : i < j => s[i] >= s[j]}
    BY <1>3 DEF Candidates
  <2>2. n \in Nat /\ select' \in 1 .. n + 1
    BY <1>3, <2>1 DEF Candidates
  <2>3. Sorted'
    BY <2>1, <2>2 DEF Sorted
  <2> QED
    BY <1>1, <1>2, <2>3 DEF Ranged, Earlier
<1>4. CASE Select
  <2>1. PICK i \in Unmerged : select' = i + 1
    BY <1>4 DEF Select
  <2>2. PICK n \in Nat : DOMAIN bboxes = 1 .. n
    BY DEF Ranged, Sorted
  <2>3. select' \in 1 .. n + 1 /\ bboxes' = bboxes
    BY <1>4, <2>1, <2>2 DEF Unmerged, Select
  <2>4. Sorted'
    BY <2>2, <2>3 DEF Sorted, Ranged
  <2> QED
    BY <1>1, <1>2, <2>4 DEF Ranged, Earlier
<1> QED
  BY <1>3, <1>4

\* The boxes that are kept are candidates, those that are left after the filter
\* were kept.
LEMMA KeptRanged ==
  ASSUME DetectorInv, Ranged, AllMerged \/ FilterBoxByScore
  PROVE  Ranged'
<1>1. UNCHANGED <<matchVars, personVars>> /\ phase \in Earlier /\ phase' \in Earlier
  BY DEF AllMerged, FilterBoxByScore, Earlier
<1>2. Numbered' /\ Carried'
  BY <1>1 DEF Ranged, Numbered, Carried, Boxes, matchVars, personVars, Earlier
<1>3. DOMAIN nms_boxes = Classes
  BY DEF DetectorInv, Association, BoxesFinite
<1>4. CASE AllMerged
  <2>1. class \in Classes /\ class' = class + 1
    BY <1>4 DEF AllMerged, DetectorInv, Association, ClassGiven, Classes
  <2>2. \A c \in Classes : nms_boxes'[c] = IF c = class THEN Restrict(bboxes, kept)
                                            ELSE nms_boxes[c]
    BY <1>3, <1>4 DEF AllMerged
  <2>3. /\ kept \subseteq DOMAIN bboxes /\ DOMAIN bboxes \subseteq Nat \ {0}
        /\ \A i \in DOMAIN bboxes : bboxes[i] \in Scores
    BY DEF DetectorInv, Suppression, Ranged, Sorted
  <2>4. DOMAIN Restrict(bboxes, kept) = kept /\ \A i \in kept : Restrict(bboxes, kept)[i] = bboxes[i]
    BY DEF Restrict
  <2>5. Scored'
    BY <2>2, <2>3, <2>4 DEF Ranged, Scored, Boxes
  <2>6. DOMAIN bboxes' = 1 .. 0 /\ select' \in 1 .. 0 + 1 /\ 0 \in Nat
    BY <1>4 DEF AllMerged
  <2>7. Sorted'
    BY <2>6 DEF Sorted
  <2> QED
    BY <1>1, <1>2, <2>1, <2>5, <2>7 DEF Ranged, Classes
<1>5. CASE FilterBoxByScore
  <2>1. \A c \in Classes :
          nms_boxes'[c] = Restrict(nms_boxes[c],
                                   {i \in Boxes(c) : nms_boxes[c][i] >= BoxThreshold})
    BY <1>5 DEF FilterBoxByScore
  <2>2. ASSUME NEW c \in Classes, NEW i \in DOMAIN nms_boxes'[c]
        PROVE  i \in Boxes(c) /\ nms_boxes'[c][i] = nms_boxes[c][i]
    BY <2>1 DEF Restrict
  <2>3. Scored'
    BY <2>2 DEF Ranged, Scored, Boxes
  <2>4. class' = class /\ Sorted'
    BY <1>5 DEF FilterBoxByScore, nmsVars, Ranged, Sorted
  <2> QED
    BY <1>1, <1>2, <2>3, <2>4 DEF Ranged
<1> QED
  BY <1>4, <1>5

\* Rows and columns are boxes and persons.
LEMMA MatchRanged ==
  ASSUME DetectorInv, Ranged, MatchHeads \/ MatchFaces \/ TakePair \/ NoMorePairs
  PROVE  Ranged'
<1>1. /\ UNCHANGED <<nmsVars, nms_boxes, personVars>>
      /\ phase \in Earlier /\ phase' \in Earlier
  BY DEF MatchHeads, MatchFaces, MatchOrReturn, TakePair, NoMorePairs, Earlier
<1>2. class' = class /\ Sorted' /\ Scored' /\ Carried'
  BY <1>1 DEF nmsVars, personVars, Ranged, Sorted, Scored, Carried, Boxes
<1>3. /\ Boxes(cls_person) \subseteq Nat /\ Boxes(cls_shoulder) \subseteq Nat
      /\ Boxes(cls_face) \subseteq Nat /\ DOMAIN persons \subseteq Nat
  BY DEF Ranged, Scored, Carried, Classes, cls_person, cls_shoulder, cls_face
<1>4. ASSUME NEW rows \in SUBSET Nat, NEW cols \in SUBSET Nat, NEW matching, NEW next,
             MatchOrReturn(rows, cols, matching, next)
      PROVE  Numbered'
  <2>1. orphans' = {}
    BY <1>4 DEF MatchOrReturn
  <2>2. CASE rows = {} \/ cols = {}
    <3>1. given' = <<>>
      BY <1>4, <2>2 DEF MatchOrReturn
    <3>2. DOMAIN given' = {}
      BY <3>1
    <3> QED
      BY <2>1, <3>2 DEF Numbered
  <2>3. CASE rows # {} /\ cols # {}
    <3>1. DOMAIN given' = rows \X cols
      BY <1>4, <2>3 DEF MatchOrReturn
    <3> QED
      BY <2>1, <3>1 DEF Numbered
  <2> QED
    BY <2>2, <2>3
<1>5. CASE MatchHeads \/ MatchFaces
  <2>1. Numbered'
    BY <1>3, <1>4, <1>5 DEF MatchHeads, MatchFaces
  <2> QED
    BY <1>1, <1>2, <2>1 DEF Ranged
<1>6. CASE TakePair
  <2>1. Numbered'
    BY <1>6 DEF TakePair, Ranged, Numbered
  <2> QED
    BY <1>1, <1>2, <2>1 DEF Ranged
<1>7. CASE NoMorePairs
  <2>1. given' = given /\ orphans' \subseteq {p[1] : p \in DOMAIN cost} /\ DOMAIN cost = DOMAIN given
    BY <1>7 DEF NoMorePairs, DetectorInv, Matching
  <2>2. Numbered'
    BY <2>1 DEF Ranged, Numbered
  <2> QED
    BY <1>1, <1>2, <2>2 DEF Ranged
<1> QED
  BY <1>5, <1>6, <1>7

\* A new person has no package; one with a full hand_packages is given no more.
LEMMA PersonsRanged ==
  ASSUME DetectorInv, Ranged, MakePersons \/ FacePersons \/ GivePackage \/ AllGiven
  PROVE  Ranged'
<1>1. UNCHANGED <<nmsVars, nms_boxes, matchVars>>
  BY DEF MakePersons, FacePersons, GivePackage, AllGiven
<1>2. class' = class /\ Sorted' /\ Scored' /\ Numbered' /\ Boxes(cls_handpackage)' = Boxes(cls_handpackage)
  BY <1>1 DEF nmsVars, matchVars, Ranged, Sorted, Scored, Numbered, Boxes
<1>3. MaxPackages \in Nat
  BY DetectorAssumption
<1>4. phase' \in {"faces", "packages", "overrun", "done"}
      /\ (phase' = "faces" <=> MakePersons) /\ (MakePersons => phase = "persons")
  BY DEF MakePersons, FacePersons, GivePackage, AllGiven, Ranged, Earlier
<1>5. Carried'
  <2>1. CASE MakePersons
    <3>1. PICK n, m, f : persons' = [i \in 1 .. (n + m) |-> PersonOf(f[i])]
      <4>1. PICK matched \in Orders(DOMAIN pairs), unmatched \in Orders(orphans) :
              LET n == Cardinality(DOMAIN pairs)
              IN  persons' = [i \in 1 .. (n + Cardinality(orphans)) |->
                                PersonOf(IF i <= n THEN matched[i] ELSE unmatched[i - n])]
        BY <2>1 DEF MakePersons
      <4> DEFINE n == Cardinality(DOMAIN pairs)
                 m == Cardinality(orphans)
                 f == [i \in 1 .. (n + m) |-> IF i <= n THEN matched[i] ELSE unmatched[i - n]]
      <4>2. persons' = [i \in 1 .. (n + m) |-> PersonOf(f[i])]
        BY <4>1
      <4> HIDE DEF n, m, f
      <4> QED
        BY <4>2
    <3>2. DOMAIN persons' \subseteq Nat /\ \A j \in DOMAIN persons' : persons'[j].packages = 0
      BY <3>1 DEF PersonOf
    <3>3. packages' = packages /\ packages = {}
      BY <2>1 DEF MakePersons, Ranged, Carried, Earlier
    <3> QED
      BY <1>3, <3>2, <3>3 DEF Carried
  <2>2. CASE FacePersons
    <3>1. PICK face : persons' = [j \in DOMAIN persons |-> [persons[j] EXCEPT !.face = face[j]]]
      BY <2>2 DEF FacePersons
    <3>2. \A j \in DOMAIN persons : persons'[j].packages = persons[j].packages
      BY <3>1 DEF DetectorInv, Association, Person
    <3>3. packages' = Boxes(cls_handpackage) /\ phase' \notin Earlier
      BY <2>2 DEF FacePersons, Earlier
    <3> QED
      BY <1>2, <3>1, <3>2, <3>3 DEF Ranged, Carried
  <2>3. CASE GivePackage
    <3>1. packages' \subseteq packages /\ phase' \notin Earlier
      BY <2>3 DEF GivePackage, Earlier
    <3>2. CASE UNCHANGED persons
      BY <1>2, <3>1, <3>2 DEF Ranged, Carried
    <3>3. CASE \E j \in DOMAIN persons :
                 /\ persons[j].packages < MaxPackages
                 /\ persons' = [persons EXCEPT ![j].packages = @ + 1]
      <4>1. PICK j \in DOMAIN persons :
              /\ persons[j].packages < MaxPackages
              /\ persons' = [persons EXCEPT ![j].packages = @ + 1]
        BY <3>3
      <4>2. \A i \in DOMAIN persons : persons[i] \in Person
        BY DEF DetectorInv, Association
      <4>3. DOMAIN persons' = DOMAIN persons
        BY <4>1
      <4>4. persons'[j].packages = persons[j].packages + 1 /\ persons[j].packages \in Nat
        BY <4>1, <4>2 DEF Person
      <4>5. \A i \in DOMAIN persons : i # j => persons'[i] = persons[i]
        BY <4>1
      <4>6. persons[j].packages + 1 <= MaxPackages
        BY <1>3, <4>1, <4>4
      <4>7. \A i \in DOMAIN persons' : persons'[i].packages <= MaxPackages
        BY <4>3, <4>4, <4>5, <4>6 DEF Ranged, Carried
      <4> QED
        BY <1>2, <3>1, <4>3, <4>7 DEF Ranged, Carried
    <3> QED
      BY <2>3, <3>2, <3>3 DEF GivePackage
  <2>4. CASE AllGiven
    <3>1. persons' = persons /\ packages' = packages /\ phase' \notin Earlier
      BY <2>4 DEF AllGiven, personVars, Earlier
    <3> QED
      BY <1>2, <3>1 DEF Ranged, Carried
  <2> QED
    BY <2>1, <2>2, <2>3, <2>4
<1>6. phase' \in Earlier \cup {"packages", "overrun", "done"}
  BY <1>4 DEF Earlier
<1> QED
  BY <1>2, <1>5, <1>6 DEF Ranged

\* The theorem about the types of the stage, for all numbers of candidates: also
\* that no hand_packages holds more than its length, and that select_idx stays in
\* the list.
THEOREM DetectorTyped == Spec => []TypeOK
<1>1. DetectorInv /\ Ranged /\ [Next]_vars => Ranged'
  <2> SUFFICES ASSUME DetectorInv, Ranged, [Next]_vars PROVE Ranged'
    OBVIOUS
  <2>1. CASE UNCHANGED vars
    BY <2>1 DEF vars, nmsVars, matchVars, personVars, Ranged, Sorted, Scored, Numbered, Carried, Boxes
  <2> QED
    BY <2>1, CandidatesRanged, KeptRanged, MatchRanged, PersonsRanged DEF Next, Over
<1>2. ASSUME DetectorInv, Ranged PROVE TypeOK
  <2> USE <1>2
  <2>1. phase \in {"class", "suppress", "filter", "heads", "headsMatching",
                   "persons", "faces", "facesMatching", "faced", "packages",
                   "overrun", "done"} /\ class \in 0 .. 4
    BY DEF Ranged, Earlier
  <2>2. /\ DOMAIN bboxes \subseteq Nat /\ Range(bboxes) \subseteq Scores
        /\ kept \subseteq merged /\ merged \subseteq DOMAIN bboxes
        /\ alike \subseteq (DOMAIN bboxes) \X (DOMAIN bboxes)
    BY DEF DetectorInv, Suppression, Ranged, Sorted, Range
  <2>3. DOMAIN nms_boxes = Classes
    BY DEF DetectorInv, Association, BoxesFinite
  <2>4. \A c \in Classes : Boxes(c) \subseteq Nat \ {0} /\ Range(nms_boxes[c]) \subseteq Scores
    BY DEF Ranged, Scored, Boxes, Range
  <2>5. select \in 1 .. Cardinality(DOMAIN bboxes) + 1
    <3>1. PICK n \in Nat : DOMAIN bboxes = 1 .. n /\ select \in 1 .. n + 1
      BY DEF Ranged, Sorted
    <3>2. Cardinality(1 .. n) = IF 1 > n THEN 0 ELSE n - 1 + 1
      BY FS_Interval
    <3>3. Cardinality(1 .. n) = n
      BY <3>2
    <3> QED
      BY <3>1, <3>3
  <2>6. DOMAIN cost = DOMAIN given /\ Range(given) \subseteq Costs
    BY DEF DetectorInv, Matching, Range
  <2>7. Range(cost) \subseteq Costs \cup {Far}
    BY DEF DetectorInv, Matching, Range
  <2>8. DOMAIN pairs \cup orphans \subseteq Nat /\ Range(pairs) \subseteq Nat
    <3>1. ASSUME NEW r \in DOMAIN pairs PROVE r \in Nat /\ pairs[r] \in Nat
      <4>1. <<r, pairs[r]>> \in DOMAIN given
        BY DEF DetectorInv, Matching
      <4>2. <<r, pairs[r]>>[1] \in Nat /\ <<r, pairs[r]>>[2] \in Nat
        BY <4>1 DEF Ranged, Numbered
      <4> QED
        BY <4>2
    <3> QED
      BY <3>1 DEF Ranged, Numbered, Range
  <2>9. DOMAIN persons \subseteq Nat /\ Range(persons) \subseteq Person
    BY DEF Ranged, Carried, DetectorInv, Association, Range
  <2>10. /\ \A j \in DOMAIN persons : persons[j].packages <= MaxPackages
         /\ packages \subseteq Boxes(cls_handpackage)
    BY DEF Ranged, Carried
  <2> QED
    BY <2>1, <2>2, <2>3, <2>4, <2>5, <2>6, <2>7, <2>8, <2>9, <2>10 DEF TypeOK
<1> QED
  BY <1>1, <1>2, RangedInit, DetectorCorrect, PTL DEF Spec

---------------------------------------------------------------------------
(* The loops come to their ends.  Whether a step is taken is up to the      *)
(* thread; that there are only so many of them is not: each step leaves     *)
(* fewer phases ahead, or as many and less to do inside the present one.    *)

\* What is ahead of a phase of ComputeAssociate.
PhasesLeft ==
  [filter |-> 10, heads |-> 9, headsMatching |-> 8, persons |-> 7, faces |-> 6,
   facesMatching |-> 5, faced |-> 4, packages |-> 3, overrun |-> 0, done |-> 0]

\* NMSProcess goes through two phases for each class.
Ahead ==
  IF phase = "class" THEN 10 + 2 * (4 - class)
  ELSE IF phase = "suppress" THEN 9 + 2 * (4 - class)
  ELSE PhasesLeft[phase]

\* The pairs that can still be taken.
GoodPairs == {p \in DOMAIN cost : cost[p] <= Gate}

\* What the loop of the present phase has still to go through.
Inside ==
  IF phase = "suppress" THEN Cardinality(Unmerged)
  ELSE IF phase \in {"headsMatching", "facesMatching"} THEN Cardinality(GoodPairs)
  ELSE IF phase = "packages" THEN Cardinality(packages)
  ELSE 0

\* A step goes to a later phase, or has less left in the present one.
Shrinks == Ahead' < Ahead \/ (Ahead' = Ahead /\ Inside' < Inside)

\* The matrix and the persons are finite.
FiniteWork == IsFiniteSet(DOMAIN given) /\ IsFiniteSet(DOMAIN persons)

\* FiniteWork is inductive, given DetectorInv.
LEMMA FiniteStep ==
  ASSUME DetectorInv, FiniteWork, [Next]_vars
  PROVE  FiniteWork'
<1>1. \A c \in Classes : IsFiniteSet(Boxes(c))
  BY DEF DetectorInv, Association, BoxesFinite
<1>2. cls_person \in Classes /\ cls_shoulder \in Classes /\ cls_face \in Classes
  BY DEF cls_person, cls_shoulder, cls_face, Classes
<1>3. CASE MatchHeads
  <2>1. persons' = persons
    BY <1>3 DEF MatchHeads, personVars
  <2>2. given' = <<>> \/ DOMAIN given' = Boxes(cls_person) \X Boxes(cls_shoulder)
    BY <1>3 DEF MatchHeads, MatchOrReturn
  <2>3. DOMAIN given' = {} \/ DOMAIN given' = Boxes(cls_person) \X Boxes(cls_shoulder)
    BY <2>2
  <2>4. IsFiniteSet(DOMAIN given')
    BY <1>1, <1>2, <2>3, FS_EmptySet, FS_Product
  <2> QED
    BY <2>1, <2>4 DEF FiniteWork
<1>4. CASE MatchFaces
  <2>1. persons' = persons
    BY <1>4 DEF MatchFaces, personVars
  <2>2. given' = <<>> \/ DOMAIN given' = Boxes(cls_face) \X DOMAIN persons
    BY <1>4 DEF MatchFaces, MatchOrReturn
  <2>3. DOMAIN given' = {} \/ DOMAIN given' = Boxes(cls_face) \X DOMAIN persons
    BY <2>2
  <2>4. IsFiniteSet(DOMAIN given')
    BY <1>1, <1>2, <2>3, FS_EmptySet, FS_Product DEF FiniteWork
  <2> QED
    BY <2>1, <2>4 DEF FiniteWork
<1>5. CASE MakePersons
  <2>1. given' = given
    BY <1>5 DEF MakePersons, matchVars
  <2>2. DOMAIN persons' = 1 .. (Cardinality(DOMAIN pairs) + Cardinality(orphans))
    BY <1>5 DEF MakePersons
  <2>3. HeadsMatched
    BY <1>5 DEF DetectorInv, Association, MakePersons
  <2>4. DOMAIN pairs \in SUBSET Boxes(cls_person) /\ orphans \in SUBSET Boxes(cls_person)
    BY <2>3 DEF HeadsMatched
  <2>5. IsFiniteSet(DOMAIN pairs) /\ IsFiniteSet(orphans)
    BY <1>1, <1>2, <2>4, FS_Subset
  <2>6. Cardinality(DOMAIN pairs) + Cardinality(orphans) \in Int
    BY <2>5, FS_CardinalityType
  <2>7. IsFiniteSet(DOMAIN persons')
    BY <2>2, <2>6, FS_Interval
  <2> QED
    BY <2>1, <2>7 DEF FiniteWork
<1>6. CASE FacePersons
  <2>1. given' = given /\ DOMAIN persons' = DOMAIN persons
    BY <1>6 DEF FacePersons, matchVars
  <2> QED
    BY <2>1 DEF FiniteWork
<1>7. CASE GivePackage
  <2>1. given' = given /\ DOMAIN persons' = DOMAIN persons
    BY <1>7 DEF GivePackage, matchVars
  <2> QED
    BY <2>1 DEF FiniteWork
<1>8. CASE TakePair
  BY <1>8 DEF TakePair, personVars, FiniteWork
<1>9. CASE Candidates \/ Select \/ AllMerged \/ FilterBoxByScore
  BY <1>9 DEF Candidates, Select, AllMerged, FilterBoxByScore, matchVars, personVars, FiniteWork
<1>10. CASE NoMorePairs \/ AllGiven \/ Over \/ UNCHANGED vars
  BY <1>10 DEF NoMorePairs, AllGiven, Over, vars, matchVars, personVars, FiniteWork
<1> QED
  BY <1>3, <1>4, <1>5, <1>6, <1>7, <1>8, <1>9, <1>10 DEF Next

\* A finite set is smaller without one of its elements.
LEMMA Fewer ==
  ASSUME NEW S, IsFiniteSet(S), NEW x \in S, NEW T, T \subseteq S \ {x}
  PROVE  /\ Cardinality(S) \in Nat /\ Cardinality(T) \in Nat
         /\ Cardinality(T) < Cardinality(S)
<1>1. IsFiniteSet(S \ {x}) /\ Cardinality(S \ {x}) = Cardinality(S) - 1
  BY FS_RemoveElement
<1>2. IsFiniteSet(T) /\ Cardinality(T) <= Cardinality(S \ {x})
  BY <1>1, FS_Subset
<1>3. Cardinality(S) \in Nat /\ Cardinality(T) \in Nat
  BY <1>2, FS_CardinalityType
<1> QED
  BY <1>1, <1>2, <1>3

\* Every set of naturals with a member has a least one.
LEMMA LeastNumber ==
  ASSUME NEW T \in SUBSET Nat, T # {}
  PROVE  \E x \in T : \A y \in T : x <= y
<1> DEFINE R == {ss \in Nat \X Nat : ss[1] < ss[2]}
<1>1. IsWellFoundedOn(R, Nat)
  BY NatLessThanWellFounded DEF OpToRel
<1> HIDE DEF R
<1>2. PICK x \in T : \A y \in T : ~ (<<y, x>> \in R)
  BY <1>1, WFMin
<1>3. ASSUME NEW y \in T PROVE x <= y
  <2>1. ~ (<<y, x>> \in R)
    BY <1>2
  <2>2. <<y, x>> \in Nat \X Nat /\ <<y, x>>[1] = y /\ <<y, x>>[2] = x
    OBVIOUS
  <2>3. ~ y < x
    BY <2>1, <2>2 DEF R
  <2> QED
    BY <2>3
<1> QED
  BY <1>3

\* What is left to do is always a number, though a matrix is given anew.
LEMMA WorkIsFinite ==
  ASSUME DetectorInv, TypeOK, FiniteWork
  PROVE  /\ Ahead \in Nat /\ Inside \in Nat
         /\ IsFiniteSet(Unmerged) /\ IsFiniteSet(GoodPairs) /\ IsFiniteSet(packages)
<1>1. IsFiniteSet(Unmerged)
  <2>1. IsFiniteSet(DOMAIN bboxes) /\ Unmerged \in SUBSET DOMAIN bboxes
    BY DEF DetectorInv, Suppression, Unmerged
  <2> QED
    BY <2>1, FS_Subset
<1>2. IsFiniteSet(GoodPairs)
  <2>1. IsFiniteSet(DOMAIN cost) /\ GoodPairs \in SUBSET DOMAIN cost
    BY DEF TypeOK, FiniteWork, GoodPairs
  <2> QED
    BY <2>1, FS_Subset
<1>3. IsFiniteSet(packages)
  <2>1. cls_handpackage \in Classes
    BY DEF cls_handpackage, Classes
  <2>2. IsFiniteSet(Boxes(cls_handpackage)) /\ packages \in SUBSET Boxes(cls_handpackage)
    BY <2>1 DEF DetectorInv, Association, BoxesFinite, TypeOK
  <2> QED
    BY <2>2, FS_Subset
<1>4. Ahead \in Nat
  <2>1. class \in 0 .. 4 /\ phase \in {"class", "suppress", "filter", "heads", "headsMatching",
                "persons", "faces", "facesMatching", "faced", "packages", "overrun", "done"}
    BY DEF TypeOK
  <2> QED
    BY <2>1 DEF Ahead, PhasesLeft
<1>5. Cardinality(Unmerged) \in Nat /\ Cardinality(GoodPairs) \in Nat /\ Cardinality(packages) \in Nat
  BY <1>1, <1>2, <1>3, FS_CardinalityType
<1>6. Inside \in Nat
  BY <1>5 DEF Inside
<1> QED
  BY <1>1, <1>2, <1>3, <1>4, <1>6

\* The candidate that is kept is not come to again.
LEMMA SelectShrinks ==
  ASSUME DetectorInv, TypeOK, FiniteWork, Select
  PROVE  Shrinks
<1>1. PICK i \in Unmerged :
        /\ merged' = merged \cup {i} \cup Overlapping(i)
        /\ select' = i + 1
  BY DEF Select
<1>2. UNCHANGED <<bboxes, class, phase>> /\ phase = "suppress"
  BY DEF Select
<1>3. /\ DOMAIN bboxes \subseteq Nat /\ select \in Nat
      /\ i \in DOMAIN bboxes /\ i >= select
  BY DEF DetectorInv, Suppression, Unmerged
<1>4. Unmerged' \subseteq Unmerged \ {i}
  BY <1>1, <1>2, <1>3 DEF Unmerged
<1>5. Cardinality(Unmerged') < Cardinality(Unmerged)
  BY <1>4, WorkIsFinite, Fewer
<1>6. Ahead' = Ahead
  BY <1>2 DEF Ahead
<1>7. Inside' < Inside
  BY <1>2, <1>5 DEF Inside
<1> QED
  BY <1>6, <1>7 DEF Shrinks

\* What a pair covers, the pair itself included, is beyond the gate.
LEMMA TakePairShrinks ==
  ASSUME DetectorInv, TypeOK, FiniteWork, TakePair
  PROVE  Shrinks
<1>1. PICK p \in Cheapest : cost' = Masked(p[1], p[2])
  BY DEF TakePair
<1>2. UNCHANGED <<phase, class>> /\ phase \in {"headsMatching", "facesMatching"}
  BY DEF TakePair, nmsVars
<1>3. p \in GoodPairs
  BY DEF Cheapest, GoodPairs
<1>4. GoodPairs' \subseteq GoodPairs \ {p}
  <2>1. ~ (Far <= Gate)
    BY DetectorAssumption DEF DetectorAssumption
  <2>2. DOMAIN cost' = DOMAIN cost /\ cost'[p] = Far
        /\ \A q \in DOMAIN cost : cost'[q] = Far \/ cost'[q] = cost[q]
    BY <1>1, <1>3 DEF Masked, GoodPairs
  <2> QED
    BY <2>1, <2>2 DEF GoodPairs
<1>5. Cardinality(GoodPairs') < Cardinality(GoodPairs)
  BY <1>3, <1>4, WorkIsFinite, Fewer
<1>6. Ahead' = Ahead
  BY <1>2 DEF Ahead
<1>7. Inside' < Inside
  BY <1>2, <1>5 DEF Inside
<1> QED
  BY <1>6, <1>7 DEF Shrinks

\* The package is taken from the list, whoever gets it.
LEMMA GivePackageShrinks ==
  ASSUME DetectorInv, TypeOK, FiniteWork, GivePackage
  PROVE  Shrinks
<1> DEFINE least == CHOOSE i \in packages : \A k \in packages : i <= k
<1>1. /\ phase = "packages" /\ packages # {} /\ packages' = packages \ {least}
      /\ phase' \in {"packages", "overrun"}
  BY DEF GivePackage
<1>2. least \in packages
  <2>1. cls_handpackage \in Classes
    BY DEF cls_handpackage, Classes
  <2>2. packages \in SUBSET Nat
    BY <2>1 DEF TypeOK
  <2>3. \E i \in packages : \A k \in packages : i <= k
    BY <1>1, <2>2, LeastNumber
  <2> QED
    BY <2>3
<1> HIDE DEF least
<1>3. Cardinality(packages') < Cardinality(packages)
  BY <1>1, <1>2, WorkIsFinite, Fewer
<1>4. CASE phase' = "overrun"
  BY <1>1, <1>4 DEF Shrinks, Ahead, PhasesLeft
<1>5. CASE phase' = "packages"
  BY <1>1, <1>3, <1>5 DEF Shrinks, Ahead, Inside, PhasesLeft
<1> QED
  BY <1>1, <1>4, <1>5

\* Every step that changes something shrinks what is left.
LEMMA StepShrinks ==
  ASSUME DetectorInv, TypeOK, FiniteWork, [Next]_vars, vars' # vars
  PROVE  Shrinks
<1>1. class \in 0 .. 4
  BY DEF TypeOK
<1>2. CASE Candidates
  BY <1>1, <1>2 DEF Candidates, Shrinks, Ahead
<1>3. CASE AllMerged
  <2>1. phase = "suppress" => class \in 0 .. 3
    BY DEF DetectorInv, Association, ClassGiven
  <2> QED
    BY <1>3, <2>1 DEF AllMerged, Shrinks, Ahead, PhasesLeft
<1>4. CASE FilterBoxByScore
  BY <1>4 DEF FilterBoxByScore, Shrinks, Ahead, PhasesLeft
<1>5. CASE MatchHeads
  <2>1. phase = "heads" /\ phase' \in {"headsMatching", "persons"}
    BY <1>5 DEF MatchHeads, MatchOrReturn
  <2> QED
    BY <2>1 DEF Shrinks, Ahead, PhasesLeft
<1>6. CASE MatchFaces
  <2>1. phase = "faces" /\ phase' \in {"facesMatching", "faced"}
    BY <1>6 DEF MatchFaces, MatchOrReturn
  <2> QED
    BY <2>1 DEF Shrinks, Ahead, PhasesLeft
<1>7. CASE NoMorePairs
  BY <1>7 DEF NoMorePairs, Shrinks, Ahead, PhasesLeft
<1>8. CASE MakePersons \/ FacePersons \/ AllGiven
  BY <1>8 DEF MakePersons, FacePersons, AllGiven, Shrinks, Ahead, PhasesLeft
<1>9. CASE Over
  BY <1>9 DEF Over
<1> QED
  BY <1>2, <1>3, <1>4, <1>5, <1>6, <1>7, <1>8, <1>9,
     SelectShrinks, TakePairShrinks, GivePackageShrinks DEF Next

\* The loops of NMSProcess, FindAssociationPairs and ComputeAssociate cannot run
\* for ever on any frame: in the order of the phases first, and of what is left
\* inside a phase next, every step goes down, and both are numbers.
THEOREM StepsRunOut == Spec => [](Ahead \in Nat /\ Inside \in Nat) /\ [][Shrinks]_vars
<1>1. Init => FiniteWork
  <2> SUFFICES ASSUME Init PROVE FiniteWork
    OBVIOUS
  <2>1. DOMAIN given = {} /\ DOMAIN persons = {}
    BY DEF Init
  <2> QED
    BY <2>1, FS_EmptySet DEF FiniteWork
<1>2. DetectorInv /\ FiniteWork /\ [Next]_vars => FiniteWork'
  BY FiniteStep
<1>3. DetectorInv /\ TypeOK /\ FiniteWork => Ahead \in Nat /\ Inside \in Nat
  BY WorkIsFinite
<1>4. DetectorInv /\ TypeOK /\ FiniteWork /\ [Next]_vars => [Shrinks]_vars
  BY StepShrinks
<1> QED
  BY <1>1, <1>2, <1>3, <1>4, DetectorCorrect, DetectorTyped, PTL DEF Spec
=============================================================================
