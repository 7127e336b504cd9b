------------------------------ MODULE Detector ------------------------------
(* The detector stage on one frame: what yolo_decorator_stage.cc makes of   *)
(* the candidates in the tensor.  NMSProcess suppresses, class by class,    *)
(* the candidates that overlap a better one; FilterBoxByScore drops poor    *)
(* ones; ComputeAssociate pairs heads and faces with bodies by              *)
(* FindAssociationPairs and gives each package to the body it is close to.  *)
(* Boxes are abstracted to what the loops decide on: the score of a         *)
(* candidate, whether two candidates overlap too much, the cost of a pair,  *)
(* which person is close to a package.  A box is the number of its          *)
(* candidate in the sorted list of its class.                               *)
EXTENDS Integers, FiniteSets, Functions

CONSTANTS
  Scores,         \* the scores a candidate can have
  BoxThreshold,   \* kBoxThreshold: 0.3
  Costs,          \* the costs of a pair: 1 - iou
  Gate,           \* matching_gate: 0.8
  Far,            \* std::numeric_limits<float>::max()
  MaxPackages,    \* the length of PersonInfo::hand_packages: 10
  MaxCandidates   \* bound: candidates of each class

Classes == 0 .. 3
cls_person == 0
cls_shoulder == 1
cls_face == 2
cls_handpackage == 3

ASSUME DetectorAssumption ==
  /\ Scores \subseteq Int /\ BoxThreshold \in Int
  /\ Costs \subseteq Int /\ Gate \in Int /\ Far \in Int
  /\ Gate < Far /\ \A c \in Costs : c < Far
  /\ MaxPackages \in Nat
  /\ MaxCandidates \in [Classes -> Nat]

VARIABLES
  phase,      \* where StagePostProcess is
  class,      \* the class whose candidates NMSProcess is given
  bboxes,     \* the scores of its candidates, sorted
  alike,      \* the pairs of them that overlap by more than kIouThreshold
  merged,     \* mask_merged
  select,     \* select_idx
  kept,       \* bboxes_nms
  nms_boxes,  \* the boxes that are left of each class, with their scores
  given,      \* the cost matrix FindAssociationPairs is given ...
  cost,       \* ... and what it has made of it
  pairs,      \* matched_pairs
  orphans,    \* orphan_row_items
  persons,    \* associated_detections
  packages    \* the packages that have not been given to a person yet

nmsVars == <<class, bboxes, alike, merged, select, kept>>
matchVars == <<given, cost, pairs, orphans>>
personVars == <<persons, packages>>
vars == <<phase, nmsVars, nms_boxes, matchVars, personVars>>

Boxes(c) == DOMAIN nms_boxes[c]

\* A head of 0 is the one the body itself predicts; a face of 0 is none.
Person == [body : Nat, head : Nat, face : Nat, packages : Nat]

TypeOK ==
  /\ phase \in {"class", "suppress", "filter", "heads", "headsMatching",
                "persons", "faces", "facesMatching", "faced", "packages",
                "overrun", "done"}
  /\ class \in 0 .. 4
  /\ DOMAIN bboxes \subseteq Nat /\ Range(bboxes) \subseteq Scores
  /\ kept \subseteq merged /\ merged \subseteq DOMAIN bboxes
  /\ alike \subseteq (DOMAIN bboxes) \X (DOMAIN bboxes)
  /\ DOMAIN nms_boxes = Classes
  /\ \A c \in Classes : Boxes(c) \subseteq Nat \ {0} /\ Range(nms_boxes[c]) \subseteq Scores
  /\ select \in 1 .. Cardinality(DOMAIN bboxes) + 1
  /\ DOMAIN cost = DOMAIN given
  /\ Range(given) \subseteq Costs /\ Range(cost) \subseteq Costs \cup {Far}
  /\ DOMAIN pairs \cup orphans \subseteq Nat /\ Range(pairs) \subseteq Nat
  /\ DOMAIN persons \subseteq Nat /\ Range(persons) \subseteq Person
  /\ \A j \in DOMAIN persons : persons[j].packages <= MaxPackages
  /\ packages \subseteq Boxes(cls_handpackage)

Init ==
  /\ phase = "class"
  /\ class = 0
  /\ bboxes = <<>>
  /\ alike = {}
  /\ merged = {}
  /\ select = 1
  /\ kept = {}
  /\ nms_boxes = [c \in Classes |-> <<>>]
  /\ given = <<>>
  /\ cost = <<>>
  /\ pairs = <<>>
  /\ orphans = {}
  /\ persons = <<>>
  /\ packages = {}

---------------------------------------------------------------------------
(* NMSProcess.                                                             *)

\* The candidates of the next class, after std::sort.
Candidates ==
  /\ phase = "class" /\ class < 4
  /\ \E n \in 0 .. MaxCandidates[class] :
       /\ bboxes' \in {s \in [1 .. n -> Scores] : \A i, j \in 1 .. n : i < j => s[i] >= s[j]}
       /\ alike' \in SUBSET {p \in (1 .. n) \X (1 .. n) : p[1] < p[2]}
  /\ merged' = {}
  /\ select' = 1
  /\ kept' = {}
  /\ phase' = "suppress"
  /\ UNCHANGED <<class, nms_boxes, matchVars, personVars>>

\* The candidates that select_idx can still come to.
Unmerged == {i \in DOMAIN bboxes : i >= select /\ i \notin merged}

\* A slip: only the next candidate is compared.
OverlappingNext(i) == {j \in {i + 1} : <<i, j>> \in alike}

Overlapping(i) == {j \in DOMAIN bboxes : i < j /\ <<i, j>> \in alike}

\* A slip: the candidate that is kept is not marked.
SelectUnmarked ==
  /\ phase = "suppress"
  /\ \E i \in Unmerged :
       /\ \A j \in Unmerged : i <= j
       /\ kept' = kept \cup {i}
       /\ merged' = merged \cup Overlapping(i)
       /\ select' = i + 1
  /\ UNCHANGED <<phase, class, bboxes, alike, nms_boxes, matchVars, personVars>>

\* The best candidate left is kept, and those that overlap it are not.
Select ==
  /\ phase = "suppress"
  /\ \E i \in Unmerged :
       /\ \A j \in Unmerged : i <= j
       /\ kept' = kept \cup {i}
       /\ merged' = merged \cup {i} \cup Overlapping(i)
       /\ select' = i + 1
  /\ UNCHANGED <<phase, class, bboxes, alike, nms_boxes, matchVars, personVars>>

\* all_merged
AllMerged ==
  /\ phase = "suppress" /\ Unmerged = {}
  /\ nms_boxes' = [nms_boxes EXCEPT ![class] = Restrict(bboxes, kept)]
  /\ class' = class + 1
  /\ bboxes' = <<>> /\ alike' = {} /\ merged' = {} /\ kept' = {} /\ select' = 1
  /\ phase' = IF class = 3 THEN "filter" ELSE "class"
  /\ UNCHANGED <<matchVars, personVars>>

FilterBoxByScore ==
  /\ phase = "filter"
  /\ nms_boxes' = [c \in Classes |->
                     Restrict(nms_boxes[c],
                              {i \in Boxes(c) : nms_boxes[c][i] >= BoxThreshold})]
  /\ phase' = "heads"
  /\ UNCHANGED <<nmsVars, matchVars, personVars>>

---------------------------------------------------------------------------
(* FindAssociationPairs, in which the rows are given the columns.          *)

\* A slip: the results are cleared after the early return only.
MatchOrReturnStale(rows, cols, matching, next) ==
  \/ /\ rows = {} \/ cols = {}
     /\ phase' = next
     /\ UNCHANGED matchVars
  \/ /\ rows # {} /\ cols # {}
     /\ given' \in [rows \X cols -> Costs]
     /\ cost' = given'
     /\ pairs' = <<>> /\ orphans' = {}
     /\ phase' = matching

\* The call: the results of the call before are cleared, and where there are
\* no rows or no columns that is all.
MatchOrReturn(rows, cols, matching, next) ==
  /\ pairs' = <<>> /\ orphans' = {}
  /\ \/ /\ rows = {} \/ cols = {}
        /\ given' = <<>> /\ cost' = <<>>
        /\ phase' = next
     \/ /\ rows # {} /\ cols # {}
        /\ given' \in [rows \X cols -> Costs]
        /\ cost' = given'
        /\ phase' = matching

\* A slip: the column of a pair can be taken again.
MaskedRow(r, c) ==
  [p \in DOMAIN cost |-> IF p[1] = r THEN Far ELSE cost[p]]

\* A slip: neither the row nor the column of a pair is taken out.
MaskedNever(r, c) == cost

Masked(r, c) ==
  [p \in DOMAIN cost |-> IF p[1] = r \/ p[2] = c THEN Far ELSE cost[p]]

\* A slip: any pair that is good enough.
GoodEnough == {p \in DOMAIN cost : cost[p] <= Gate}

\* minCoeff, if it is good enough; which of several is left open.
Cheapest ==
  {p \in DOMAIN cost : cost[p] <= Gate /\ \A q \in DOMAIN cost : cost[p] <= cost[q]}

TakePair ==
  /\ phase \in {"headsMatching", "facesMatching"}
  /\ \E p \in Cheapest :
       /\ pairs' = [r \in DOMAIN pairs \cup {p[1]} |-> IF r = p[1] THEN p[2] ELSE pairs[r]]
       /\ cost' = Masked(p[1], p[2])
  /\ UNCHANGED <<phase, nmsVars, nms_boxes, given, orphans, personVars>>

\* No pair is good enough any more: the rows without one are orphans.
NoMorePairs ==
  /\ \A p \in DOMAIN cost : cost[p] > Gate
  /\ \/ phase = "headsMatching" /\ phase' = "persons"
     \/ phase = "facesMatching" /\ phase' = "faced"
  /\ orphans' = {p[1] : p \in DOMAIN cost} \ DOMAIN pairs
  /\ UNCHANGED <<nmsVars, nms_boxes, given, cost, pairs, personVars>>

---------------------------------------------------------------------------
(* ComputeAssociate.                                                       *)

MatchHeads ==
  /\ phase = "heads"
  /\ MatchOrReturn(Boxes(cls_person), Boxes(cls_shoulder), "headsMatching", "persons")
  /\ UNCHANGED <<nmsVars, nms_boxes, personVars>>

\* The orders in which a set can be gone through.
Orders(S) ==
  {s \in [1 .. Cardinality(S) -> S] : IsInjective(s) /\ \A x \in S : \E i \in DOMAIN s : s[i] = x}

PersonOf(body) ==
  [body |-> body, head |-> IF body \in DOMAIN pairs THEN pairs[body] ELSE 0,
   face |-> 0, packages |-> 0]

\* First the bodies that have a head, in the order of an unordered_map, then
\* the orphans.
MakePersons ==
  /\ phase = "persons"
  /\ \E matched \in Orders(DOMAIN pairs), unmatched \in Orders(orphans) :
       /\ \A i, j \in DOMAIN unmatched : i < j => unmatched[i] < unmatched[j]
       /\ LET n == Cardinality(DOMAIN pairs)
          IN  persons' = [i \in 1 .. (n + Cardinality(orphans)) |->
                            PersonOf(IF i <= n THEN matched[i] ELSE unmatched[i - n])]
  /\ phase' = "faces"
  /\ UNCHANGED <<nmsVars, nms_boxes, matchVars, packages>>

MatchFaces ==
  /\ phase = "faces"
  /\ MatchOrReturn(Boxes(cls_face), DOMAIN persons, "facesMatching", "faced")
  /\ UNCHANGED <<nmsVars, nms_boxes, personVars>>

\* The pairs are gone through in the order of an unordered_map.
FacePersons ==
  /\ phase = "faced"
  /\ \E face \in [DOMAIN persons -> DOMAIN pairs \cup {0}] :
       /\ \A j \in DOMAIN persons :
            IF j \in Range(pairs) THEN face[j] # 0 /\ pairs[face[j]] = j ELSE face[j] = 0
       /\ persons' = [j \in DOMAIN persons |-> [persons[j] EXCEPT !.face = face[j]]]
  /\ packages' = Boxes(cls_handpackage)
  /\ phase' = "packages"
  /\ UNCHANGED <<nmsVars, nms_boxes, matchVars>>

\* The next package goes to the person that is closest, or to nobody.
GivePackage ==
  /\ phase = "packages" /\ packages # {}
  /\ \/ /\ \E j \in DOMAIN persons :
             /\ persons[j].packages < MaxPackages
             /\ persons' = [persons EXCEPT ![j].packages = @ + 1]
        /\ UNCHANGED phase
     \/ UNCHANGED <<persons, phase>>
     \/ \* hand_packages is written past its end
        /\ \E j \in DOMAIN persons : persons[j].packages = MaxPackages
        /\ phase' = "overrun"
        /\ UNCHANGED persons
  /\ packages' = packages \ {CHOOSE i \in packages : \A k \in packages : i <= k}
  /\ UNCHANGED <<nmsVars, nms_boxes, matchVars>>

AllGiven ==
  /\ phase = "packages" /\ packages = {}
  /\ phase' = "done"
  /\ UNCHANGED <<nmsVars, nms_boxes, matchVars, personVars>>

\* StagePostProcess has returned, or nobody knows what it does.
Over == phase \in {"overrun", "done"} /\ UNCHANGED vars

Next ==
  \/ Candidates \/ Select \/ AllMerged \/ FilterBoxByScore
  \/ MatchHeads \/ MatchFaces \/ TakePair \/ NoMorePairs
  \/ MakePersons \/ FacePersons \/ GivePackage \/ AllGiven
  \/ Over

Spec == Init /\ [][Next]_vars

\* The thread that runs the stage keeps running.
FairSpec == Spec /\ WF_vars(Next)

---------------------------------------------------------------------------
(* Properties.                                                             *)

\* NMSProcess keeps the best of what overlaps: no two kept boxes overlap, and a
\* candidate is dropped only for one that is as good, so FilterBoxByScore, which
\* comes after it, never leaves a person without a box who had a good one.
BestOfEachCluster ==
  phase = "suppress" /\ Unmerged = {} =>
    /\ \A i, j \in kept : <<i, j>> \notin alike
    /\ \A j \in DOMAIN bboxes \ kept :
         \E i \in kept : <<i, j>> \in alike /\ bboxes[i] >= bboxes[j]

CostOf(r) == given[r, pairs[r]]

\* What FindAssociationPairs returns is a stable matching: no row and column
\* that are good enough for each other both go with nobody or with a worse one.
Stable ==
  phase \in {"persons", "faced"} =>
    \A p \in DOMAIN given : given[p] <= Gate =>
      \/ p[1] \in DOMAIN pairs /\ CostOf(p[1]) <= given[p]
      \/ \E r \in DOMAIN pairs : pairs[r] = p[2] /\ CostOf(r) <= given[p]

\* Every body becomes one person and no more, unless there is no head at all,
\* where the early return of FindAssociationPairs leaves no orphans and all are
\* lost; and nobody shares a head or a face or has one that was not detected,
\* though all calls of FindAssociationPairs share their results.
OnePersonPerBody ==
  phase \in {"faces", "facesMatching", "faced", "packages", "done"} =>
    /\ \A i \in DOMAIN persons :
         /\ persons[i].body \in Boxes(cls_person)
         /\ persons[i].head \in Boxes(cls_shoulder) \cup {0}
         /\ persons[i].face \in Boxes(cls_face) \cup {0}
    /\ \A i, j \in DOMAIN persons : i # j =>
         /\ persons[i].body # persons[j].body
         /\ persons[i].head = 0 \/ persons[i].head # persons[j].head
         /\ persons[i].face = 0 \/ persons[i].face # persons[j].face
    /\ Boxes(cls_shoulder) # {} =>
         \A body \in Boxes(cls_person) : \E i \in DOMAIN persons : persons[i].body = body

\* The loops of NMSProcess and FindAssociationPairs come to their ends.
StageEnds == <>(phase \in {"overrun", "done"})
=============================================================================
