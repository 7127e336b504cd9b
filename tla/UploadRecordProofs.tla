-------------------------- MODULE UploadRecordProofs --------------------------
(* Proofs about UploadRecord, whatever the parameters and whatever the      *)
(* detector says of the persons: the records agree with themselves and with *)
(* what the tracker reports, their shots are the best that were seen, and,  *)
(* as long as identities do not start again, they follow the tracks.  This  *)
(* rests on the invariant of the tracker (TrackerProofs).                   *)
EXTENDS UploadRecord, TrackerProofs

---------------------------------------------------------------------------
(* One record.                                                             *)

Point == [frame : Nat, number : Nat]

Person == [prob : Nat \ {0}, observed : BOOLEAN, face : Nat, packages : Nat]

Record ==
  [startTimestamp : Nat, endTimestamp : Nat,
   bodyTrailNum : Nat, trail : Seq(Point), seen : Seq(Person),
   bodyProb : Nat, selected : Nat, feat : Nat,
   faceProb : Nat, face : Nat,
   handpackageTrailNum : Nat, packages : Seq(Nat)]

\* upload_struct_: a record for each identity that has been reported.
Records == UNION {[ids -> Record] : ids \in SUBSET Ids}

Increasing(s) == \A i, j \in DOMAIN s : i < j => s[i] < s[j]

Times(r) == {point.frame : point \in Range(r.trail)}

\* A record whose numbers fit its lists.
Fits(r) ==
  /\ r \in Record
  /\ Len(r.trail) >= 1 /\ InOrder(r.trail)
  /\ r.bodyTrailNum = Len(r.trail)
  /\ r.startTimestamp = r.trail[1].frame /\ r.endTimestamp = Last(r.trail).frame
  /\ Increasing(r.packages) /\ Range(r.packages) \subseteq Times(r)
  /\ r.handpackageTrailNum >= Len(r.packages)

\* The shots of a record are the best of what was seen at its boxes.
Best(r) ==
  /\ Len(r.seen) = Len(r.trail)
  /\ IsBestShot(Bodies(r), r.trail, r.bodyProb, r.selected)
  /\ IsBestShot(Faces(r), r.trail, r.faceProb, r.face)

\* A record with a body, its feature or none, and the best shots.
Shows(r) ==
  /\ r.bodyProb > 0 /\ r.selected \in Times(r) /\ r.selected # None
  /\ r.feat = IF r.selected = r.endTimestamp THEN r.selected ELSE None
  /\ Best(r)

\* A list of numbers that grows by a larger one.
LEMMA GrowsIncreasing ==
  ASSUME NEW s \in Seq(Nat), Increasing(s), NEW x \in Nat, \A y \in Range(s) : y < x
  PROVE  /\ Append(s, x) \in Seq(Nat) /\ Len(Append(s, x)) = Len(s) + 1
         /\ Increasing(Append(s, x)) /\ Range(Append(s, x)) = Range(s) \cup {x}
<1> DEFINE r == Append(s, x)
<1>1. /\ r \in Seq(Nat) /\ Len(r) = Len(s) + 1 /\ r[Len(s) + 1] = x
      /\ \A k \in 1 .. Len(s) : r[k] = s[k]
  OBVIOUS
<1> HIDE DEF r
<1>2. /\ DOMAIN r = 1 .. Len(s) + 1 /\ DOMAIN s = 1 .. Len(s) /\ Len(s) \in Nat
      /\ \A k \in DOMAIN r : k = Len(s) + 1 \/ k \in DOMAIN s
      /\ Len(s) + 1 \in DOMAIN r /\ DOMAIN s \subseteq DOMAIN r
  BY <1>1
<1>3. Increasing(r)
  <2> SUFFICES ASSUME NEW i \in DOMAIN r, NEW j \in DOMAIN r, i < j PROVE r[i] < r[j]
    BY DEF Increasing
  <2>1. i \in DOMAIN s
    BY <1>2
  <2>2. CASE j \in DOMAIN s
    BY <1>1, <1>2, <2>1, <2>2 DEF Increasing
  <2>3. CASE j = Len(s) + 1
    BY <1>1, <1>2, <2>1, <2>3 DEF Range
  <2> QED
    BY <1>2, <2>2, <2>3
<1>4. Range(r) = Range(s) \cup {x}
  <2>1. Range(r) \subseteq Range(s) \cup {x}
    BY <1>1, <1>2 DEF Range
  <2>2. \A k \in DOMAIN s : s[k] \in Range(r)
    BY <1>1, <1>2 DEF Range
  <2>3. x \in Range(r)
    BY <1>1, <1>2 DEF Range
  <2> QED
    BY <2>1, <2>2, <2>3 DEF Range
<1> QED
  BY <1>1, <1>3, <1>4 DEF r

\* A record that fits is that of boxes up to its end.
LEMMA FitsEnd ==
  ASSUME NEW r, Fits(r)
  PROVE  /\ \A point \in Range(r.trail) : point.frame \in Nat /\ point.frame <= r.endTimestamp
         /\ \A time \in Times(r) : time \in Nat /\ time <= r.endTimestamp
         /\ r.endTimestamp \in Nat
<1>1. /\ r.trail \in Seq(Point) /\ Len(r.trail) >= 1 /\ InOrder(r.trail)
      /\ r.endTimestamp \in Nat /\ r.endTimestamp = r.trail[Len(r.trail)].frame
  BY DEF Fits, Record, Last
<1>2. ASSUME NEW point \in Range(r.trail)
      PROVE  point.frame \in Nat /\ point.frame <= r.endTimestamp
  <2>1. PICK k \in 1 .. Len(r.trail) : point = r.trail[k]
    BY <1>1 DEF Range
  <2>2. point \in Point /\ point.frame \in Nat
    <3>1. r.trail[k] \in Point
      BY <1>1, <2>1
    <3> QED
      BY <2>1, <3>1 DEF Point
  <2>3. k = Len(r.trail) \/ k < Len(r.trail)
    BY <1>1
  <2>4. point.frame = r.endTimestamp \/ point.frame < r.endTimestamp
    BY <1>1, <2>1, <2>3 DEF InOrder
  <2> QED
    BY <1>1, <2>2, <2>4
<1> QED
  BY <1>1, <1>2 DEF Times

\* A record that may take a box of this frame.
Ready(r) ==
  /\ r \in Record
  /\ InOrder(r.trail) /\ \A point \in Range(r.trail) : point.frame <= frame
  /\ r.bodyTrailNum = Len(r.trail)
  /\ Len(r.trail) = 0 => r.startTimestamp = frame + 1
  /\ Len(r.trail) >= 1 => r.startTimestamp = r.trail[1].frame
  /\ Increasing(r.packages) /\ Range(r.packages) \subseteq Times(r)
  /\ r.handpackageTrailNum >= Len(r.packages)
  /\ r.bodyProb > 0 => r.selected \in Times(r) /\ r.selected # None
  /\ Best(r)

\* A trail with a box of this frame at its end.
Longer(trail, number) == Append(trail, [frame |-> frame + 1, number |-> number])

\* A record that a box of this frame has been added to.
Taken(r, number) ==
  /\ Fits(r) /\ Shows(r)
  /\ r.endTimestamp = frame + 1
  /\ Last(r.trail) = [frame |-> frame + 1, number |-> number]

\* One more score, x, at one more box: it is the best shot if it is better than
\* the best so far, and otherwise the best shot is the one it was.
LEMMA ShotKept ==
  ASSUME NEW trail \in Seq(Point), NEW scores \in Seq(Nat), Len(scores) = Len(trail),
         NEW best \in Nat, NEW shot, IsBestShot(scores, trail, best, shot),
         NEW x \in Nat, NEW box \in Point,
         NEW newBest, NEW newShot,
         x > best => newBest = x /\ newShot = box.frame,
         ~(x > best) => newBest = best /\ newShot = shot
  PROVE  IsBestShot(Append(scores, x), Append(trail, box), newBest, newShot)
<1> DEFINE more == Append(scores, x)
           grown == Append(trail, box)
           n == Len(scores) + 1
<1>1. /\ n \in Nat /\ n >= 1 /\ DOMAIN scores = 1 .. n - 1 /\ DOMAIN more = 1 .. n
      /\ more[n] = x /\ grown[n] = box
      /\ \A i \in 1 .. n - 1 : /\ more[i] = scores[i] /\ scores[i] \in Nat
                              /\ grown[i] = trail[i]
  OBVIOUS
<1>2. /\ \A i \in 1 .. n : i = n \/ i \in 1 .. n - 1
      /\ \A i \in 1 .. n - 1 : i \in 1 .. n /\ i < n
      /\ n \in 1 .. n
  BY <1>1
<1> HIDE DEF more, grown, n
<1>3. \A i \in 1 .. n - 1 : scores[i] <= best
  <2>1. CASE \A i \in DOMAIN scores : scores[i] = 0
    <3>1. best = 0
      BY <2>1 DEF IsBestShot
    <3>2. \A i \in 1 .. n - 1 : scores[i] = 0
      BY <1>1, <2>1
    <3> QED
      BY <3>1, <3>2
  <2>2. CASE ~(\A i \in DOMAIN scores : scores[i] = 0)
    <3>1. PICK i \in DOMAIN scores : FirstBest(scores, i) /\ best = scores[i]
      BY <2>2 DEF IsBestShot
    <3> QED
      BY <1>1, <3>1 DEF FirstBest
  <2> QED
    BY <2>1, <2>2
<1>4. CASE x > best
  <2>1. FirstBest(more, n)
    BY <1>1, <1>2, <1>3, <1>4 DEF FirstBest
  <2>2. more[n] # 0 /\ newBest = more[n] /\ newShot = grown[n].frame
    BY <1>1, <1>4
  <2> QED
    BY <1>1, <1>2, <2>1, <2>2 DEF IsBestShot, more, grown
<1>5. CASE ~(x > best)
  <2>1. newBest = best /\ newShot = shot /\ x <= best
    BY <1>5
  <2>2. CASE \A i \in DOMAIN scores : scores[i] = 0
    <3>1. best = 0 /\ shot = None /\ x = 0
      BY <2>1, <2>2 DEF IsBestShot
    <3>2. \A i \in DOMAIN more : more[i] = 0
      BY <1>1, <1>2, <2>2, <3>1
    <3> QED
      BY <2>1, <3>1, <3>2 DEF IsBestShot, more
  <2>3. CASE ~(\A i \in DOMAIN scores : scores[i] = 0)
    <3>1. PICK i \in 1 .. n - 1 : /\ FirstBest(scores, i)
                                /\ best = scores[i] /\ shot = trail[i].frame
      BY <1>1, <2>3 DEF IsBestShot
    <3>2. FirstBest(more, i)
      BY <1>1, <1>2, <2>1, <3>1 DEF FirstBest
    <3>3. ~(\A k \in DOMAIN more : more[k] = 0)
      BY <1>1, <1>2, <2>3
    <3>4. i \in DOMAIN more /\ newBest = more[i] /\ newShot = grown[i].frame
      BY <1>1, <1>2, <2>1, <3>1
    <3> QED
      BY <3>2, <3>3, <3>4 DEF IsBestShot, more, grown
  <2> QED
    BY <2>2, <2>3
<1> QED
  BY <1>4, <1>5

\* A list with one number more is what Append makes.
LEMMA OneMore ==
  ASSUME NEW s \in Seq(Nat), NEW n \in Nat, n = Len(s), NEW x \in Nat, NEW t,
         t \in Seq(Nat), Len(t) = n + 1,
         \A i \in 1 .. n : t[i] = s[i], t[n + 1] = x
  PROVE  t = Append(s, x)
<1> DEFINE more == Append(s, x)
<1>1. /\ more = [i \in 1 .. n + 1 |-> more[i]] /\ more[n + 1] = x
      /\ \A i \in 1 .. n : more[i] = s[i]
  <2>1. /\ more \in Seq(Nat) /\ Len(more) = n + 1 /\ more[n + 1] = x
        /\ \A i \in 1 .. n : more[i] = s[i]
    OBVIOUS
  <2> HIDE DEF more
  <2> QED
    BY <2>1
<1>2. \A i \in 1 .. n + 1 : i \in 1 .. n \/ i = n + 1
  OBVIOUS
<1> HIDE DEF more
<1>3. \A i \in 1 .. n + 1 : t[i] = more[i]
  BY <1>1, <1>2
<1>4. t = [i \in 1 .. n + 1 |-> t[i]]
  OBVIOUS
<1>5. t = more
  BY <1>1, <1>3, <1>4
<1> QED
  BY <1>5 DEF more

\* Best shots stay best when a person is added to what was seen: the body with
\* its score, the face with its own if it was observed.
LEMMA BestKept ==
  ASSUME NEW r \in Record, Best(r), NEW box \in Point, NEW person \in Person,
         NEW new \in Record,
         new.trail = Append(r.trail, box), new.seen = Append(r.seen, person),
         new.bodyProb = IF person.prob > r.bodyProb THEN person.prob ELSE r.bodyProb,
         new.selected = IF person.prob > r.bodyProb THEN box.frame ELSE r.selected,
         new.faceProb = IF person.observed /\ person.face > r.faceProb
                          THEN person.face ELSE r.faceProb,
         new.face = IF person.observed /\ person.face > r.faceProb
                      THEN box.frame ELSE r.face
  PROVE  Best(new)
<1> DEFINE x == IF person.observed THEN person.face ELSE 0
           n == Len(r.seen)
<1>1. /\ r.trail \in Seq(Point) /\ r.seen \in Seq(Person)
      /\ r.bodyProb \in Nat /\ r.faceProb \in Nat /\ n \in Nat
      /\ person.prob \in Nat /\ person.face \in Nat /\ x \in Nat
  BY DEF Record, Person
<1>2. /\ DOMAIN r.seen = 1 .. n /\ DOMAIN new.seen = 1 .. n + 1
      /\ \A i \in 1 .. n : new.seen[i] = r.seen[i] /\ r.seen[i] \in Person
      /\ new.seen[n + 1] = person /\ Len(new.seen) = n + 1
  BY <1>1
<1>3. /\ n = Len(r.trail) /\ Len(new.trail) = n + 1
      /\ IsBestShot(Bodies(r), r.trail, r.bodyProb, r.selected)
      /\ IsBestShot(Faces(r), r.trail, r.faceProb, r.face)
  BY <1>1 DEF Best
<1> HIDE DEF n
<1>4. /\ Bodies(r) \in Seq(Nat) /\ Len(Bodies(r)) = n
      /\ Bodies(new) = Append(Bodies(r), person.prob)
  <2>1. Bodies(r) = [i \in 1 .. n |-> r.seen[i].prob]
    BY <1>2 DEF Bodies
  <2>2. \A i \in 1 .. n : r.seen[i].prob \in Nat
    BY <1>2 DEF Person
  <2>3. Bodies(r) \in Seq(Nat) /\ Len(Bodies(r)) = n
    BY <1>1, <2>1, <2>2
  <2>4. /\ Bodies(new) = [i \in 1 .. n + 1 |-> new.seen[i].prob]
        /\ \A i \in 1 .. n : new.seen[i].prob = r.seen[i].prob
        /\ new.seen[n + 1].prob = person.prob
    BY <1>2 DEF Bodies
  <2> DEFINE scores == Bodies(r)
             longer == Bodies(new)
  <2>5. /\ longer \in Seq(Nat) /\ Len(longer) = n + 1
        /\ \A i \in 1 .. n : longer[i] = scores[i]
        /\ longer[n + 1] = person.prob
    <3>1. /\ n + 1 \in 1 .. n + 1 /\ n + 1 \in Nat
          /\ \A i \in 1 .. n : i \in 1 .. n + 1
          /\ \A i \in 1 .. n + 1 : i \in 1 .. n \/ i = n + 1
      BY <1>1
    <3>2. \A i \in 1 .. n + 1 : longer[i] \in Nat
      <4>1. \A i \in 1 .. n + 1 : longer[i] = new.seen[i].prob
        BY <2>4
      <4>2. \A i \in 1 .. n + 1 : new.seen[i].prob \in Nat
        BY <1>1, <2>2, <2>4, <3>1
      <4> HIDE DEF longer
      <4> QED
        BY <4>1, <4>2
    <3>3. longer \in Seq(Nat) /\ Len(longer) = n + 1
      <4>1. longer = [i \in 1 .. n + 1 |-> longer[i]]
        BY <2>4
      <4> HIDE DEF longer
      <4> QED
        BY <3>1, <3>2, <4>1
    <3> QED
      BY <2>1, <2>4, <3>1, <3>3
  <2> HIDE DEF scores, longer
  <2>6. longer = Append(scores, person.prob)
    <3>1. scores \in Seq(Nat) /\ n = Len(scores)
      BY <2>3 DEF scores
    <3> QED
      BY <1>1, <2>5, <3>1, OneMore
  <2> QED
    BY <2>3, <2>6 DEF scores, longer
<1>5. /\ Faces(r) \in Seq(Nat) /\ Len(Faces(r)) = n
      /\ Faces(new) = Append(Faces(r), x)
  <2> DEFINE score(i) == IF r.seen[i].observed THEN r.seen[i].face ELSE 0
  <2>1. Faces(r) = [i \in 1 .. n |-> score(i)]
    BY <1>2 DEF Faces
  <2>2. \A i \in 1 .. n : score(i) \in Nat
    BY <1>2 DEF Person
  <2>3. Faces(r) \in Seq(Nat) /\ Len(Faces(r)) = n
    <3> HIDE DEF score
    <3> QED
      BY <1>1, <2>1, <2>2
  <2> DEFINE later(i) == IF new.seen[i].observed THEN new.seen[i].face ELSE 0
  <2>4. /\ Faces(new) = [i \in 1 .. n + 1 |-> later(i)]
        /\ \A i \in 1 .. n : later(i) = score(i)
        /\ later(n + 1) = x
    BY <1>2 DEF Faces
  <2> HIDE DEF score, later, x
  <2> DEFINE scores == Faces(r)
             longer == Faces(new)
  <2>5. /\ longer \in Seq(Nat) /\ Len(longer) = n + 1
        /\ \A i \in 1 .. n : longer[i] = scores[i]
        /\ longer[n + 1] = x
    <3>1. /\ n + 1 \in 1 .. n + 1 /\ n + 1 \in Nat
          /\ \A i \in 1 .. n : i \in 1 .. n + 1
          /\ \A i \in 1 .. n + 1 : i \in 1 .. n \/ i = n + 1
      BY <1>1
    <3>2. \A i \in 1 .. n + 1 : longer[i] \in Nat
      BY <1>1, <1>2, <2>1, <2>2, <2>4, <3>1
    <3>3. longer \in Seq(Nat) /\ Len(longer) = n + 1
      BY <2>4, <3>1, <3>2
    <3> QED
      BY <2>1, <2>4, <3>1, <3>3
  <2> HIDE DEF scores, longer
  <2>6. longer = Append(scores, x)
    <3>1. scores \in Seq(Nat) /\ n = Len(scores)
      BY <2>3 DEF scores
    <3> QED
      BY <1>1, <2>5, <3>1, OneMore
  <2> QED
    BY <2>3, <2>6 DEF scores, longer
<1>6. IsBestShot(Bodies(new), new.trail, new.bodyProb, new.selected)
  BY <1>1, <1>3, <1>4, ShotKept
<1>7. ASSUME x > r.faceProb
      PROVE  IsBestShot(Faces(new), new.trail, new.faceProb, new.face)
  <2>1. person.observed /\ person.face > r.faceProb
    BY <1>1, <1>7
  <2>2. new.faceProb = person.face /\ person.face = x /\ new.face = box.frame
    BY <2>1
  <2> HIDE DEF x
  <2>3. /\ new.faceProb = IF x > r.faceProb THEN x ELSE r.faceProb
        /\ new.face = IF x > r.faceProb THEN box.frame ELSE r.face
    BY <1>7, <2>2
  <2> QED
    BY <1>1, <1>3, <1>5, <2>3, ShotKept
<1>8. ASSUME ~(x > r.faceProb)
      PROVE  IsBestShot(Faces(new), new.trail, new.faceProb, new.face)
  <2>1. ~(person.observed /\ person.face > r.faceProb)
    BY <1>1, <1>8
  <2>2. new.faceProb = r.faceProb /\ new.face = r.face
    BY <2>1
  <2> HIDE DEF x
  <2>3. /\ new.faceProb = IF x > r.faceProb THEN x ELSE r.faceProb
        /\ new.face = IF x > r.faceProb THEN box.frame ELSE r.face
    BY <1>8, <2>2
  <2> QED
    BY <1>1, <1>3, <1>5, <2>3, ShotKept
<1>9. IsBestShot(Faces(new), new.trail, new.faceProb, new.face)
  BY <1>7, <1>8
<1> QED
  BY <1>2, <1>3, <1>6, <1>9 DEF Best

\* A new record may take a box.
LEMMA NewIsReady == ASSUME frame \in Nat PROVE Ready(NewRecord)
<1>1. NewRecord \in Record
  BY DEF NewRecord, Record, None
<1>2. /\ NewRecord.trail = <<>> /\ NewRecord.packages = <<>>
      /\ NewRecord.startTimestamp = frame + 1 /\ NewRecord.bodyTrailNum = 0
      /\ NewRecord.bodyProb = 0 /\ NewRecord.faceProb = 0 /\ NewRecord.face = None
      /\ NewRecord.handpackageTrailNum = 0
      /\ NewRecord.seen = <<>> /\ NewRecord.selected = None
  BY DEF NewRecord
<1>3. Len(<<>>) = 0 /\ DOMAIN <<>> = {} /\ Range(<<>>) = {}
  BY DEF Range
<1>4. Best(NewRecord)
  <2>1. DOMAIN Bodies(NewRecord) = {} /\ DOMAIN Faces(NewRecord) = {}
    BY <1>2, <1>3 DEF Bodies, Faces
  <2> QED
    BY <1>2, <2>1 DEF Best, IsBestShot
<1> QED
  BY <1>1, <1>2, <1>3, <1>4 DEF Ready, InOrder, Increasing, Times, None

\* A record that ends by this frame can take a box of the next.
LEMMA OldIsReady ==
  ASSUME frame \in Nat, NEW r, Fits(r), Shows(r), r.endTimestamp <= frame
  PROVE  Ready(r)
<1>1. \A point \in Range(r.trail) : point.frame <= frame
  <2> SUFFICES ASSUME NEW point \in Range(r.trail) PROVE point.frame <= frame
    OBVIOUS
  <2>1. point.frame \in Nat /\ point.frame <= r.endTimestamp /\ r.endTimestamp \in Nat
    BY FitsEnd
  <2> QED
    BY <2>1
<1>2. r \in Record /\ Len(r.trail) \in Nat
  BY DEF Fits, Record
<1> QED
  BY <1>1, <1>2 DEF Ready, Fits, Shows

\* Body, face and packages of a person, the box first.
LEMMA RecordTakes ==
  ASSUME frame \in Nat, NEW r, Ready(r), NEW number \in Nat, NEW person \in Persons
  PROVE  Taken(WithPackages(WithFace(WithBody(r, number, person), person), person), number)
<1> DEFINE now  == frame + 1
           box  == [frame |-> now, number |-> number]
           body == WithBody(r, number, person)
           face == WithFace(body, person)
           new  == WithPackages(face, person)
           grown == Append(r.trail, box)
           more == Append(r.seen, person)
<1>1. /\ r \in Record /\ r.seen \in Seq(Person) /\ r.trail \in Seq(Point) /\ r.packages \in Seq(Nat)
      /\ r.bodyProb \in Nat /\ r.faceProb \in Nat /\ r.bodyTrailNum \in Nat
      /\ r.startTimestamp \in Nat /\ r.selected \in Nat /\ r.face \in Nat
      /\ r.handpackageTrailNum \in Nat
      /\ Len(r.trail) \in Nat /\ Len(r.packages) \in Nat
  BY DEF Ready, Record
<1>2. /\ person \in Person /\ person.prob \in Nat /\ person.prob > 0
      /\ person.face \in Nat /\ person.packages \in Nat
  <2>1. person \in Person
    BY PersonsAssumption DEF Person
  <2> QED
    BY <2>1 DEF Person
<1>3. box \in Point /\ box.frame = now /\ now \in Nat /\ now > frame /\ now # None
  BY DEF Point, None
<1>4. \A point \in Range(r.trail) : point.frame \in Nat /\ point.frame < now
  <2> SUFFICES ASSUME NEW point \in Range(r.trail)
               PROVE  point.frame \in Nat /\ point.frame < now
    OBVIOUS
  <2>1. PICK k \in 1 .. Len(r.trail) : point = r.trail[k]
    BY <1>1 DEF Range
  <2>2. r.trail[k] \in Point
    BY <1>1, <2>1
  <2>3. point.frame \in Nat /\ point.frame <= frame
    BY <2>1, <2>2 DEF Point, Ready
  <2> QED
    BY <2>3
<1>5. /\ grown \in Seq(Point) /\ Len(grown) = Len(r.trail) + 1 /\ InOrder(grown)
      /\ Range(grown) = Range(r.trail) \cup {box} /\ Last(grown) = box
      /\ Len(r.trail) >= 1 => grown[1] = r.trail[1]
      /\ Len(r.trail) = 0 => grown[1] = box
  <2>1. InOrder(r.trail) /\ \A y \in Range(r.trail) : y.frame < box.frame
    BY <1>3, <1>4 DEF Ready
  <2>2. \A point \in Point : point.frame \in Int
    BY DEF Point
  <2> DEFINE trail == r.trail
  <2>3. trail \in Seq(Point) /\ grown = Append(trail, box)
    BY <1>1
  <2> HIDE DEF box, grown, now, trail
  <2>4. /\ grown \in Seq(Point) /\ Len(grown) = Len(trail) + 1 /\ InOrder(grown)
        /\ Range(grown) = Range(trail) \cup {box} /\ Last(grown) = box
        /\ Len(trail) >= 1 => grown[1] = trail[1]
        /\ Len(trail) = 0 => grown[1] = box
    BY <1>3, <2>1, <2>2, <2>3, GrowsInOrder DEF trail
  <2> QED
    BY <2>4 DEF trail
<1> DEFINE times == Times(r) \cup {now}
<1>6. {point.frame : point \in Range(grown)} = times
  BY <1>3, <1>5 DEF Times
<1>7. \A time \in Times(r) : time \in Nat /\ time < now
  BY <1>4 DEF Times
<1>8. /\ body \in Record
      /\ body.startTimestamp = r.startTimestamp /\ body.endTimestamp = now
      /\ body.bodyTrailNum = r.bodyTrailNum + 1 /\ body.trail = grown
      /\ body.seen = more
      /\ body.bodyProb = IF person.prob > r.bodyProb THEN person.prob ELSE r.bodyProb
      /\ body.selected = IF person.prob > r.bodyProb THEN now ELSE r.selected
      /\ body.bodyProb > 0 /\ body.selected \in times /\ body.selected # None
      /\ body.feat = IF body.selected = now THEN now ELSE None
      /\ body.faceProb = r.faceProb /\ body.face = r.face
      /\ body.packages = r.packages /\ body.handpackageTrailNum = r.handpackageTrailNum
  <2> HIDE DEF box
  <2> DEFINE better == IsBetter(person.prob, r.bodyProb)
  <2>1. body = [r EXCEPT !.endTimestamp = now,
                !.bodyTrailNum = @ + 1,
                !.trail = grown,
                !.seen = more,
                !.bodyProb = IF better THEN person.prob ELSE @,
                !.selected = IF better THEN now ELSE @,
                !.feat = IF better THEN now ELSE None]
    BY DEF WithBody, box
  <2>2. /\ body.startTimestamp = r.startTimestamp /\ body.endTimestamp = now
        /\ body.bodyTrailNum = r.bodyTrailNum + 1 /\ body.trail = grown
        /\ body.seen = more
        /\ body.bodyProb = IF better THEN person.prob ELSE r.bodyProb
        /\ body.selected = IF better THEN now ELSE r.selected
        /\ body.feat = IF better THEN now ELSE None
        /\ body.faceProb = r.faceProb /\ body.face = r.face
        /\ body.packages = r.packages /\ body.handpackageTrailNum = r.handpackageTrailNum
    <3> HIDE DEF grown, more, now, better, body
    <3> QED
      BY <1>1, <2>1 DEF Record
  <2>3. body \in Record
    <3> DEFINE prob == IF better THEN person.prob ELSE r.bodyProb
               shot == IF better THEN now ELSE r.selected
               feat == IF better THEN now ELSE None
               count == r.bodyTrailNum + 1
    <3>1. /\ grown \in Seq(Point) /\ more \in Seq(Person) /\ now \in Nat /\ prob \in Nat /\ shot \in Nat
          /\ feat \in Nat /\ count \in Nat
      BY <1>1, <1>2, <1>3, <1>5 DEF None
    <3>2. body = [r EXCEPT !.endTimestamp = now, !.bodyTrailNum = count, !.trail = grown,
                           !.seen = more,
                           !.bodyProb = prob, !.selected = shot, !.feat = feat]
      BY <2>1
    <3> HIDE DEF grown, more, now, better, body, prob, shot, feat, count
    <3> QED
      BY <1>1, <3>1, <3>2 DEF Record
  <2>4. better \/ (~better /\ r.bodyProb > 0)
    BY <1>1, <1>2 DEF IsBetter
  <2>5. body.bodyProb > 0 /\ body.selected \in times /\ body.selected # None
    <3>1. r.bodyProb > 0 => r.selected \in times /\ r.selected # None
      BY DEF Ready
    <3> HIDE DEF times, now, better, body
    <3>2. now \in times /\ now # None
      BY <1>3 DEF times, now
    <3> QED
      BY <1>2, <2>2, <2>4, <3>1, <3>2
  <2>6. body.feat = IF body.selected = now THEN now ELSE None
    <3>1. ~better => r.selected \in Times(r)
      BY <2>4 DEF Ready
    <3>2. ~better => r.selected # now
      BY <1>7, <3>1, <1>1, <1>3
    <3> HIDE DEF now, better, body
    <3> QED
      BY <2>2, <3>2
  <2>7. better <=> person.prob > r.bodyProb
    BY DEF IsBetter
  <2> HIDE DEF grown, more, now, better, body, times
  <2> QED
    BY <2>2, <2>3, <2>5, <2>6, <2>7
<1>9. /\ face \in Record
      /\ face.startTimestamp = r.startTimestamp /\ face.endTimestamp = now
      /\ face.bodyTrailNum = r.bodyTrailNum + 1 /\ face.trail = grown
      /\ face.seen = more /\ face.bodyProb = body.bodyProb
      /\ face.selected = body.selected /\ face.feat = body.feat
      /\ face.faceProb = IF person.observed /\ person.face > r.faceProb
                           THEN person.face ELSE r.faceProb
      /\ face.face = IF person.observed /\ person.face > r.faceProb THEN now ELSE r.face
      /\ face.packages = r.packages /\ face.handpackageTrailNum = r.handpackageTrailNum
  <2> DEFINE better == person.observed /\ IsBetter(person.face, body.faceProb)
  <2>1. better <=> person.observed /\ person.face > r.faceProb
    BY <1>8 DEF IsBetter
  <2>2. face = IF better THEN [body EXCEPT !.faceProb = person.face, !.face = now] ELSE body
    BY DEF WithFace
  <2> HIDE DEF grown, more, now, body, times, face, better
  <2>3. CASE ~better
    <3>1. face = body
      BY <2>2, <2>3
    <3> QED
      BY <1>8, <2>1, <2>3, <3>1
  <2>4. CASE better
    <3>1. face = [body EXCEPT !.faceProb = person.face, !.face = now]
      BY <2>2, <2>4
    <3>2. face \in Record
      BY <1>2, <1>3, <1>8, <3>1 DEF Record
    <3>3. /\ face.startTimestamp = body.startTimestamp
          /\ face.endTimestamp = body.endTimestamp
          /\ face.bodyTrailNum = body.bodyTrailNum /\ face.trail = body.trail
          /\ face.seen = body.seen
          /\ face.bodyProb = body.bodyProb /\ face.selected = body.selected
          /\ face.feat = body.feat
          /\ face.faceProb = person.face /\ face.face = now
          /\ face.packages = body.packages
          /\ face.handpackageTrailNum = body.handpackageTrailNum
      BY <1>8, <3>1 DEF Record
    <3> QED
      BY <1>8, <2>1, <2>4, <3>2, <3>3
  <2> QED
    BY <2>3, <2>4
<1>10. /\ new \in Record
       /\ new.startTimestamp = r.startTimestamp /\ new.endTimestamp = now
       /\ new.bodyTrailNum = r.bodyTrailNum + 1 /\ new.trail = grown
       /\ new.seen = more /\ new.bodyProb = body.bodyProb
       /\ new.selected = body.selected /\ new.feat = body.feat
       /\ new.faceProb = face.faceProb /\ new.face = face.face
       /\ Increasing(new.packages) /\ Range(new.packages) \subseteq times
       /\ new.handpackageTrailNum >= Len(new.packages)
  <2> DEFINE list == Append(r.packages, now)
  <2>1. /\ Increasing(r.packages) /\ Range(r.packages) \subseteq times
        /\ r.handpackageTrailNum >= Len(r.packages)
    BY DEF Ready
  <2>2. \A y \in Range(r.packages) : y < now
    BY <1>7 DEF Ready
  <2>3. now \in times /\ now \in Nat
    BY <1>3
  <2>4. new = IF person.packages = 0 THEN face
              ELSE [face EXCEPT !.handpackageTrailNum = @ + person.packages,
                                !.packages = Append(@, now)]
    BY DEF WithPackages
  <2> HIDE DEF grown, more, now, body, times, face, new
  <2>5. CASE person.packages = 0
    <3>1. new = face
      BY <2>4, <2>5
    <3> QED
      BY <1>9, <2>1, <3>1
  <2>6. CASE person.packages # 0
    <3>1. new = [face EXCEPT !.handpackageTrailNum = @ + person.packages,
                             !.packages = Append(@, now)]
      BY <2>4, <2>6
    <3>2. /\ list \in Seq(Nat) /\ Len(list) = Len(r.packages) + 1
          /\ Increasing(list) /\ Range(list) = Range(r.packages) \cup {now}
      BY <1>1, <2>1, <2>2, <2>3, GrowsIncreasing
    <3>3. /\ face.packages = r.packages
          /\ face.handpackageTrailNum = r.handpackageTrailNum
      BY <1>9
    <3> HIDE DEF list
    <3>4. /\ new.startTimestamp = face.startTimestamp
          /\ new.endTimestamp = face.endTimestamp
          /\ new.bodyTrailNum = face.bodyTrailNum /\ new.trail = face.trail
          /\ new.seen = face.seen
          /\ new.bodyProb = face.bodyProb /\ new.selected = face.selected
          /\ new.feat = face.feat
          /\ new.faceProb = face.faceProb /\ new.face = face.face
          /\ new.packages = list
          /\ new.handpackageTrailNum = r.handpackageTrailNum + person.packages
      BY <1>9, <3>1, <3>3 DEF Record, list
    <3>5. new \in Record
      <4>1. r.handpackageTrailNum + person.packages \in Nat
        BY <1>1, <1>2
      <4>2. new = [face EXCEPT !.handpackageTrailNum = r.handpackageTrailNum + person.packages,
                               !.packages = list]
        BY <3>1, <3>3 DEF list
      <4> QED
        BY <1>9, <3>2, <4>1, <4>2 DEF Record
    <3>6. Increasing(new.packages) /\ Range(new.packages) \subseteq times
      BY <2>1, <2>3, <3>2, <3>4
    <3>7. new.handpackageTrailNum >= Len(new.packages)
      <4>1. person.packages >= 1
        BY <1>2, <2>6
      <4>2. Len(new.packages) = Len(r.packages) + 1
        BY <3>2, <3>4
      <4> QED
        BY <1>1, <1>2, <2>1, <3>4, <4>1, <4>2
    <3> QED
      BY <1>9, <3>4, <3>5, <3>6, <3>7
  <2> QED
    BY <2>5, <2>6
<1>11. Times(new) = times
  <2> HIDE DEF grown, new, times
  <2> QED
    BY <1>6, <1>10 DEF Times
<1>12. Fits(new)
  <2>1. Last(new.trail).frame = now
    BY <1>3, <1>5, <1>10
  <2>2. new.bodyTrailNum = Len(new.trail) /\ Len(new.trail) >= 1
    <3>1. r.bodyTrailNum = Len(r.trail)
      BY DEF Ready
    <3> HIDE DEF grown, new
    <3> QED
      BY <1>1, <1>5, <1>10, <3>1
  <2>3. new.startTimestamp = new.trail[1].frame
    <3>1. Len(r.trail) = 0 \/ Len(r.trail) >= 1
      BY <1>1
    <3>2. CASE Len(r.trail) = 0
      <4>1. r.startTimestamp = now /\ grown[1] = box
        BY <1>5, <3>2 DEF Ready
      <4> HIDE DEF grown, new, now, box
      <4> QED
        BY <1>3, <1>10, <4>1
    <3>3. CASE Len(r.trail) >= 1
      <4>1. r.startTimestamp = r.trail[1].frame /\ grown[1] = r.trail[1]
        BY <1>5, <3>3 DEF Ready
      <4> HIDE DEF grown, new, now, box
      <4> QED
        BY <1>10, <4>1
    <3> QED
      BY <3>1, <3>2, <3>3
  <2> HIDE DEF grown, new, now, box, times
  <2> QED
    BY <1>5, <1>10, <1>11, <2>1, <2>2, <2>3 DEF Fits
<1>13. Best(new)
  <2>1. box.frame = now /\ box \in Point /\ Best(r)
    BY <1>3 DEF Ready
  <2> HIDE DEF body, face, new, now, box, times
  <2>2. /\ new.trail = Append(r.trail, box) /\ new.seen = Append(r.seen, person)
        /\ new.bodyProb = IF person.prob > r.bodyProb THEN person.prob ELSE r.bodyProb
        /\ new.selected = IF person.prob > r.bodyProb THEN box.frame ELSE r.selected
        /\ new.faceProb = IF person.observed /\ person.face > r.faceProb
                            THEN person.face ELSE r.faceProb
        /\ new.face = IF person.observed /\ person.face > r.faceProb
                        THEN box.frame ELSE r.face
    BY <1>8, <1>9, <1>10, <2>1
  <2> QED
    BY <1>1, <1>2, <1>10, <2>1, <2>2, BestKept
<1>14. Shows(new)
  <2> HIDE DEF grown, more, new, body, face, now, box, times
  <2> QED
    BY <1>8, <1>10, <1>11, <1>13 DEF Shows
<1> QED
  BY <1>5, <1>10, <1>12, <1>14 DEF Taken

---------------------------------------------------------------------------
(* The records of a frame.                                                 *)

\* A record stays one, whatever is added to it.
LEMMA RecordTyped ==
  ASSUME frame \in Nat, NEW r \in Record, NEW number \in Nat, NEW person \in Persons
  PROVE  WithPackages(WithFace(WithBody(r, number, person), person), person) \in Record
<1> DEFINE now  == frame + 1
           body == WithBody(r, number, person)
           face == WithFace(body, person)
<1>1. /\ r.trail \in Seq(Point) /\ r.seen \in Seq(Person)
      /\ r.bodyProb \in Nat /\ r.bodyTrailNum \in Nat
      /\ r.selected \in Nat /\ now \in Nat /\ None \in Nat
  BY DEF Record, None
<1>2. /\ person \in Person
      /\ person.prob \in Nat /\ person.face \in Nat /\ person.packages \in Nat
  <2>1. person \in Person
    BY PersonsAssumption DEF Person
  <2> QED
    BY <2>1 DEF Person
<1>3. body \in Record
  <2> DEFINE better == IsBetter(person.prob, r.bodyProb)
             grown == Append(r.trail, [frame |-> now, number |-> number])
             prob == IF better THEN person.prob ELSE r.bodyProb
             shot == IF better THEN now ELSE r.selected
             feat == IF better THEN now ELSE None
             count == r.bodyTrailNum + 1
             more == Append(r.seen, person)
  <2>1. [frame |-> now, number |-> number] \in Point
    BY <1>1 DEF Point
  <2>2. grown \in Seq(Point) /\ more \in Seq(Person)
    BY <1>1, <1>2, <2>1
  <2>3. /\ prob \in Nat /\ shot \in Nat /\ feat \in Nat /\ count \in Nat
    BY <1>1, <1>2
  <2>4. body = [r EXCEPT !.endTimestamp = now, !.bodyTrailNum = count, !.trail = grown,
                         !.seen = more,
                         !.bodyProb = prob, !.selected = shot, !.feat = feat]
    BY DEF WithBody
  <2> HIDE DEF body, now, better, grown, more, prob, shot, feat, count
  <2> QED
    BY <1>1, <2>2, <2>3, <2>4 DEF Record
<1>4. face \in Record
  <2>1. face = body \/ face = [body EXCEPT !.faceProb = person.face, !.face = now]
    BY DEF WithFace
  <2> HIDE DEF body, face, now
  <2> QED
    BY <1>1, <1>2, <1>3, <2>1 DEF Record
<1>5. CASE person.packages = 0
  BY <1>4, <1>5 DEF WithPackages
<1>6. CASE person.packages # 0
  <2> DEFINE list == Append(face.packages, now)
             count == face.handpackageTrailNum + person.packages
  <2> HIDE DEF face, now
  <2>1. face.packages \in Seq(Nat) /\ face.handpackageTrailNum \in Nat
    BY <1>4 DEF Record
  <2>2. list \in Seq(Nat) /\ count \in Nat
    BY <1>1, <1>2, <2>1
  <2>3. WithPackages(face, person) =
          [face EXCEPT !.handpackageTrailNum = count, !.packages = list]
    BY <1>6 DEF WithPackages, now
  <2> HIDE DEF list, count
  <2>4. WithPackages(face, person) \in Record
    BY <1>4, <2>2, <2>3 DEF Record
  <2> QED
    BY <2>4 DEF face
<1> QED
  BY <1>5, <1>6

\* What is added to its trail is the box.
LEMMA TrailGrows ==
  ASSUME NEW r \in Record, NEW number, NEW person
  PROVE  WithPackages(WithFace(WithBody(r, number, person), person), person).trail =
           Longer(r.trail, number)
<1> DEFINE body == WithBody(r, number, person)
           face == WithFace(body, person)
           grown == Longer(r.trail, number)
<1>1. body.trail = grown /\ DOMAIN body = DOMAIN r
  BY DEF WithBody, Record, Longer
<1>2. "trail" \in DOMAIN r /\ "faceProb" # "trail" /\ "face" # "trail"
      /\ "packages" # "trail" /\ "handpackageTrailNum" # "trail"
  BY DEF Record
<1> HIDE DEF body, grown
<1>3. face.trail = grown /\ DOMAIN face = DOMAIN r
  BY <1>1, <1>2 DEF WithFace
<1> HIDE DEF face
<1>4. WithPackages(face, person).trail = grown
  BY <1>2, <1>3 DEF WithPackages
<1> QED
  BY <1>4 DEF face, body, grown

\* Records are functions from identities.
LEMMA RecordsOf ==
  /\ \A records \in Records :
       /\ DOMAIN records \subseteq Ids
       /\ \A id \in DOMAIN records : records[id] \in Record
  /\ \A ids \in SUBSET Ids : \A f \in [ids -> Record] : f \in Records
  BY DEF Records

\* How the record of one identity is made from what it was.
Updates(records, id, number, old, after) ==
  /\ after \in Records
  /\ DOMAIN after = DOMAIN records \cup {id}
  /\ \A i \in DOMAIN records : i # id => after[i] = records[i]
  /\ after[id].trail = Longer(old.trail, number)
  /\ Ready(old) => Taken(after[id], number)

\* What UpdataUpLoadJson leaves: one record more, or one that has changed.
LEMMA UpdatedRecords ==
  ASSUME frame \in Nat, NEW records \in Records, NEW id \in Ids, NEW number \in Nat,
         NEW person \in Persons,
         NEW old, old = IF id \in DOMAIN records THEN records[id] ELSE NewRecord,
         NEW after, after = UpdataUpLoadJson(records, id, number, person)
  PROVE  Updates(records, id, number, old, after)
<1> DEFINE new == WithPackages(WithFace(WithBody(old, number, person), person), person)
<1>1. NewRecord \in Record
  BY NewIsReady DEF Ready
<1>2. old \in Record
  BY <1>1, RecordsOf
<1>3. new \in Record
  BY <1>2, RecordTyped
<1>4. Ready(old) => Taken(new, number)
  BY RecordTakes
<1>5. after = [i \in DOMAIN records \cup {id} |-> IF i = id THEN new ELSE records[i]]
  BY DEF UpdataUpLoadJson
<1>8. new.trail = Longer(old.trail, number)
  BY <1>2, TrailGrows
<1> HIDE DEF new
<1>6. /\ DOMAIN after = DOMAIN records \cup {id} /\ after[id] = new
      /\ \A i \in DOMAIN records : i # id => after[i] = records[i]
  BY <1>5
<1>7. after \in Records
  <2>1. DOMAIN records \cup {id} \in SUBSET Ids
    BY RecordsOf
  <2>2. after \in [DOMAIN records \cup {id} -> Record]
    BY <1>3, <1>5, RecordsOf
  <2> QED
    BY <2>1, <2>2, RecordsOf
<1> QED
  BY <1>4, <1>6, <1>7, <1>8 DEF Updates

\* The step of the loop over the detections.
UploadStep(persons, w) ==
  [n \in 0 .. Len(out') |->
     IF n = 0 THEN upload
     ELSE IF out'[n] = NoId THEN w[n - 1]
     ELSE UpdataUpLoadJson(w[n - 1], out'[n], n, persons[n])]

\* What the tracker gives the stage for the next frame, and the detector.
Given(m, persons) ==
  /\ frame \in Nat /\ upload \in Records
  /\ m \in Nat /\ out' \in [1 .. m -> Ids \cup {NoId}]
  /\ \A i, j \in 1 .. m : out'[i] # NoId /\ out'[i] = out'[j] => i = j
  /\ persons \in [{n \in 1 .. m : out'[n] # NoId} -> Persons]

\* The loop is what its step says.
LEMMA UploadedWalk ==
  ASSUME NEW m, NEW persons, Given(m, persons)
  PROVE  \E w : w = UploadStep(persons, w) /\ Uploaded(persons) = w[m]
<1> DEFINE D == 0 .. m
           V == Records
           F == [w \in [D -> V] |-> UploadStep(persons, w)]
           rank == [n \in D |-> n]
           W == CHOOSE w : w = UploadStep(persons, w)
<1>1. /\ m \in Nat /\ out' \in Seq(Ids \cup {NoId}) /\ Len(out') = m
      /\ upload \in Records
  BY DEF Given
<1>2. V # {} /\ rank \in [D -> 0 .. m]
  BY <1>1
<1>3. \A n \in D : n # 0 => n - 1 \in D /\ n \in 1 .. m /\ n \in Nat /\ rank[n - 1] < rank[n]
  BY <1>1
<1>4. \A w : UploadStep(persons, w) =
        [n \in D |-> IF n = 0 THEN upload
                     ELSE IF out'[n] = NoId THEN w[n - 1]
                     ELSE UpdataUpLoadJson(w[n - 1], out'[n], n, persons[n])]
  BY <1>1 DEF UploadStep
<1> HIDE DEF V, D, rank
<1>5. ASSUME NEW w \in [D -> V]
      PROVE  UploadStep(persons, w) \in [D -> V]
  <2>1. ASSUME NEW n \in D, n # 0, out'[n] # NoId
        PROVE  UpdataUpLoadJson(w[n - 1], out'[n], n, persons[n]) \in V
    <3>1. n - 1 \in D /\ n \in 1 .. m /\ n \in Nat
      BY <1>3, <2>1
    <3>2. out'[n] \in Ids /\ persons[n] \in Persons /\ frame \in Nat
      BY <2>1, <3>1 DEF Given
    <3>3. w[n - 1] \in Records
      BY <3>1 DEF V
    <3> QED
      BY <3>1, <3>2, <3>3, UpdatedRecords DEF V, Updates
  <2>2. upload \in V
    BY <1>1 DEF V
  <2>3. \A n \in D : n # 0 => w[n - 1] \in V
    BY <1>3
  <2> QED
    BY <1>4, <2>1, <2>2, <2>3
<1>6. F \in [[D -> V] -> [D -> V]] /\ \A w \in [D -> V] : F[w] = UploadStep(persons, w)
  BY <1>5
<1>7. ASSUME NEW f \in [D -> V], NEW g \in [D -> V], NEW n \in D,
             \A e \in D : rank[e] < rank[n] => f[e] = g[e]
      PROVE  F[f][n] = F[g][n]
  <2>1. n # 0 => f[n - 1] = g[n - 1]
    BY <1>3, <1>7
  <2>2. UploadStep(persons, f)[n] = UploadStep(persons, g)[n]
    BY <1>4, <2>1
  <2> HIDE DEF F
  <2> QED
    BY <1>6, <2>2
<1> HIDE DEF F
<1>8. Recursive(D, V, m, rank, F)
  BY <1>1, <1>2, <1>6, <1>7 DEF Recursive
<1>9. \E f \in [D -> V] : f = F[f]
  BY <1>8, Recursion
<1>10. W = UploadStep(persons, W)
  BY <1>6, <1>9
<1>11. Uploaded(persons) = W[m]
  BY <1>1 DEF Uploaded, UploadStep
<1> QED
  BY <1>10, <1>11

OldTrail(id) == IF id \in DOMAIN upload THEN upload[id].trail ELSE <<>>

\* The records after the first n detections of the frame.
After(records, n) ==
  /\ records \in Records
  /\ \A id \in Ids : (\A k \in 1 .. n : out'[k] # id) =>
       /\ id \in DOMAIN records <=> id \in DOMAIN upload
       /\ id \in DOMAIN upload => records[id] = upload[id]
  /\ \A k \in 1 .. n : out'[k] # NoId =>
       /\ out'[k] \in DOMAIN records /\ Taken(records[out'[k]], k)
       /\ records[out'[k]].trail =
            Longer(OldTrail(out'[k]), k)

\* The loop ends with a box for each detection that has an identity.
LEMMA UploadedAfter ==
  ASSUME NEW m, NEW persons, Given(m, persons),
         \A id \in DOMAIN upload : Ready(upload[id])
  PROVE  After(Uploaded(persons), m)
<1>1. PICK w : w = UploadStep(persons, w) /\ Uploaded(persons) = w[m]
  BY UploadedWalk
<1>2. /\ m \in Nat /\ Len(out') = m /\ upload \in Records /\ frame \in Nat
  BY DEF Given
<1> DEFINE S == {n \in Nat : n <= m => After(w[n], n)}
<1>3. 0 \in S
  <2>1. w[0] = upload
    <3>1. 0 \in 0 .. Len(out')
      BY <1>2
    <3> QED
      BY <1>1, <3>1 DEF UploadStep
  <2>2. \A k \in 1 .. 0 : FALSE
    OBVIOUS
  <2> QED
    BY <1>2, <2>1, <2>2 DEF After
<1>4. ASSUME NEW n \in Nat, n \in S PROVE n + 1 \in S
  <2> SUFFICES ASSUME n + 1 <= m PROVE After(w[n + 1], n + 1)
    OBVIOUS
  <2>1. After(w[n], n)
    BY <1>2, <1>4
  <2>2. /\ n + 1 \in 0 .. Len(out') /\ n + 1 # 0 /\ (n + 1) - 1 = n /\ n + 1 \in 1 .. m
        /\ n + 1 \in Nat
    BY <1>2
  <2>3. w[n + 1] = IF out'[n + 1] = NoId THEN w[n]
                   ELSE UpdataUpLoadJson(w[n], out'[n + 1], n + 1, persons[n + 1])
    BY <1>1, <2>2 DEF UploadStep
  <2>4. \A k \in 1 .. n + 1 : k = n + 1 \/ k \in 1 .. n
    OBVIOUS
  <2>5. \A k \in 1 .. n : k \in 1 .. n + 1 /\ k # n + 1 /\ k \in 1 .. m
    BY <1>2
  <2>6. CASE out'[n + 1] = NoId
    <3>1. w[n + 1] = w[n]
      BY <2>3, <2>6
    <3>2. ASSUME NEW id \in Ids, \A k \in 1 .. n + 1 : out'[k] # id
          PROVE  \A k \in 1 .. n : out'[k] # id
      BY <2>5, <3>2
    <3>3. \A k \in 1 .. n + 1 : out'[k] # NoId => k \in 1 .. n
      BY <2>4, <2>6
    <3> QED
      BY <2>1, <3>1, <3>2, <3>3 DEF After
  <2>7. CASE out'[n + 1] # NoId
    <3> DEFINE id == out'[n + 1]
               records == w[n]
               after == UpdataUpLoadJson(records, id, n + 1, persons[n + 1])
    <3>1. id \in Ids /\ persons[n + 1] \in Persons
      BY <2>2, <2>7 DEF Given
    <3>2. \A k \in 1 .. n : out'[k] # id
      BY <2>2, <2>5, <2>7 DEF Given
    <3>3. w[n + 1] = after
      BY <2>3, <2>7
    <3> HIDE DEF id, records
    <3>4. records \in Records
      BY <2>1 DEF After, records
    <3>5. /\ id \in DOMAIN records <=> id \in DOMAIN upload
          /\ id \in DOMAIN upload => records[id] = upload[id]
      BY <2>1, <3>1, <3>2 DEF After, records
    <3> DEFINE old == IF id \in DOMAIN records THEN records[id] ELSE NewRecord
    <3>6. Ready(old)
      <4>1. Ready(NewRecord)
        BY <1>2, NewIsReady
      <4>2. id \in DOMAIN records => Ready(records[id])
        BY <3>5
      <4> QED
        BY <4>1, <4>2
    <3>7. /\ after \in Records
          /\ DOMAIN after = DOMAIN records \cup {id}
          /\ \A i \in DOMAIN records : i # id => after[i] = records[i]
          /\ Taken(after[id], n + 1)
          /\ after[id].trail = Longer(old.trail, n + 1)
      <4> DEFINE number == n + 1
                 person == persons[n + 1]
      <4>1. /\ after = UpdataUpLoadJson(records, id, number, person)
            /\ old = IF id \in DOMAIN records THEN records[id] ELSE NewRecord
        OBVIOUS
      <4>2. number \in Nat /\ person \in Persons /\ frame \in Nat
        BY <1>2, <2>2, <3>1
      <4> HIDE DEF after, number, person, old
      <4>3. Updates(records, id, number, old, after)
        BY <3>1, <3>4, <4>1, <4>2, UpdatedRecords
      <4>4. number = n + 1
        BY DEF number
      <4> QED
        BY <3>6, <4>3, <4>4 DEF Updates
    <3>10. old.trail = OldTrail(id)
      BY <3>5 DEF OldTrail, NewRecord
    <3> HIDE DEF after, old
    <3>8. ASSUME NEW i \in Ids, \A k \in 1 .. n + 1 : out'[k] # i
          PROVE  /\ i \in DOMAIN after <=> i \in DOMAIN upload
                 /\ i \in DOMAIN upload => after[i] = upload[i]
      <4>1. \A k \in 1 .. n : out'[k] # i
        BY <2>5, <3>8
      <4>2. i # id
        BY <3>8 DEF id
      <4>3. /\ i \in DOMAIN records <=> i \in DOMAIN upload
            /\ i \in DOMAIN upload => records[i] = upload[i]
        BY <2>1, <4>1 DEF After, records
      <4> QED
        BY <3>7, <4>2, <4>3
    <3>9. ASSUME NEW k \in 1 .. n + 1, out'[k] # NoId
          PROVE  /\ out'[k] \in DOMAIN after /\ Taken(after[out'[k]], k)
                 /\ after[out'[k]].trail =
                      Longer(OldTrail(out'[k]), k)
      <4>1. CASE k = n + 1
        BY <3>7, <3>10, <4>1 DEF id
      <4>2. CASE k \in 1 .. n
        <5>1. /\ out'[k] \in DOMAIN records /\ Taken(records[out'[k]], k) /\ out'[k] # id
              /\ records[out'[k]].trail =
                   Longer(OldTrail(out'[k]), k)
          BY <2>1, <3>2, <3>9, <4>2 DEF After, records
        <5> QED
          BY <3>7, <5>1
      <4> QED
        BY <2>4, <4>1, <4>2
    <3> QED
      BY <3>3, <3>7, <3>8, <3>9 DEF After
  <2> QED
    BY <2>6, <2>7
<1> HIDE DEF S
<1>5. m \in S
  BY <1>2, <1>3, <1>4, Induction
<1> QED
  BY <1>1, <1>2, <1>5 DEF S

---------------------------------------------------------------------------
(* The invariant of the records.                                           *)

Records1 ==
  /\ upload \in Records
  /\ \A id \in DOMAIN upload :
       Fits(upload[id]) /\ Shows(upload[id]) /\ upload[id].endTimestamp <= frame
  /\ \A n \in DOMAIN out : out[n] # NoId =>
       /\ out[n] \in DOMAIN upload
       /\ Last(upload[out[n]].trail) = [frame |-> frame, number |-> n]

RecordInv == TrackInv /\ Records1

\* What a frame does to the records: a box for each detection that has an identity.
LEMMA FrameAfter ==
  ASSUME RecordInv, RunFrame
  PROVE  \E m \in Nat : out' \in [1 .. m -> Ids \cup {NoId}] /\ After(upload', m)
<1>1. TrackInv'
  BY ProcessKeepsTrackInv DEF RecordInv, RunFrame, StagePostProcess
<1>2. PICK persons \in [{n \in DOMAIN out' : out'[n] # NoId} -> Persons] :
        upload' = Uploaded(persons)
  BY DEF RunFrame, UploadPostProcess
<1>3. frame \in Nat /\ frame' = frame + 1
  BY TrackerAssumption DEF RecordInv, TrackInv, RunFrame, StagePostProcess
<1>4. PICK m \in Nat : out' \in [1 .. m -> Ids \cup {NoId}]
  <2>1. PICK m \in 0 .. MaxDetections : out' \in [1 .. m -> Ids \cup {NoId}]
    BY <1>1 DEF TrackInv
  <2>2. m \in Nat
    BY <2>1
  <2> QED
    BY <2>1, <2>2
<1>5. Given(m, persons)
  <2>1. \A i, j \in 1 .. m : out'[i] # NoId /\ out'[i] = out'[j] => i = j
    BY <1>1, <1>4 DEF TrackInv, ReportedIdIsTheTracks
  <2> QED
    BY <1>2, <1>3, <1>4, <2>1 DEF Given, RecordInv, Records1
<1>6. \A id \in DOMAIN upload : Ready(upload[id])
  BY <1>3, OldIsReady DEF RecordInv, Records1
<1>7. After(upload', m)
  BY <1>2, <1>5, <1>6, UploadedAfter
<1> QED
  BY <1>4, <1>7

\* One frame keeps the invariant.
LEMMA FrameKeepsRecordInv == ASSUME RecordInv, RunFrame PROVE RecordInv'
<1>1. TrackInv'
  BY ProcessKeepsTrackInv DEF RecordInv, RunFrame, StagePostProcess
<1>2. frame \in Nat /\ frame' = frame + 1
  BY TrackerAssumption DEF RecordInv, TrackInv, RunFrame, StagePostProcess
<1>3. PICK m \in Nat : out' \in [1 .. m -> Ids \cup {NoId}] /\ After(upload', m)
  BY FrameAfter
<1>4. After(upload', m)
  BY <1>3
<1>5. upload' \in Records
  BY <1>4 DEF After
<1>6. ASSUME NEW id \in DOMAIN upload'
      PROVE  Fits(upload'[id]) /\ Shows(upload'[id]) /\ upload'[id].endTimestamp <= frame'
  <2>1. CASE \E k \in 1 .. m : out'[k] = id
    <3>1. id # NoId
      BY <1>5, RecordsOf DEF Ids, NoId
    <3>2. PICK k \in 1 .. m : Taken(upload'[id], k)
      BY <1>4, <2>1, <3>1 DEF After
    <3> QED
      BY <1>2, <3>2 DEF Taken
  <2>2. CASE \A k \in 1 .. m : out'[k] # id
    <3>1. id \in DOMAIN upload /\ upload'[id] = upload[id]
      BY <1>4, <1>5, <2>2, RecordsOf DEF After
    <3>2. /\ Fits(upload[id]) /\ Shows(upload[id]) /\ upload[id].endTimestamp <= frame
          /\ upload[id].endTimestamp \in Nat
      BY <3>1, FitsEnd DEF RecordInv, Records1
    <3>3. upload[id].endTimestamp <= frame'
      BY <1>2, <3>2
    <3> QED
      BY <3>1, <3>2, <3>3
  <2> QED
    BY <2>1, <2>2
<1>7. ASSUME NEW n \in DOMAIN out', out'[n] # NoId
       PROVE  /\ out'[n] \in DOMAIN upload'
              /\ Last(upload'[out'[n]].trail) = [frame |-> frame', number |-> n]
  BY <1>2, <1>3, <1>4, <1>7 DEF After, Taken
<1> QED
  BY <1>1, <1>5, <1>6, <1>7 DEF RecordInv, Records1

\* So does a step that leaves the tracker and the records alone.
LEMMA StutterKeepsRecordInv ==
  ASSUME RecordInv, UNCHANGED <<vars, upload>> PROVE RecordInv'
<1>1. TrackInv'
  BY StutterKeepsTrackInv DEF RecordInv
<1>2. upload' = upload /\ out' = out /\ frame' = frame
  BY DEF vars
<1>3. Records1'
  BY <1>2 DEF Records1, RecordInv
<1> QED
  BY <1>1, <1>3 DEF RecordInv

\* The invariant holds in every run of the stage.
LEMMA RecordInvHolds == RecordSpec => []RecordInv
<1>1. Init /\ RecordInit => RecordInv
  <2> SUFFICES ASSUME Init, RecordInit PROVE RecordInv
    OBVIOUS
  <2>1. TrackInv
    BY InitTrackInv
  <2>2. upload = <<>> /\ out = <<>> /\ DOMAIN <<>> = {}
    BY DEF RecordInit, Init
  <2>3. upload \in [{} -> Record]
    BY <2>2
  <2> QED
    BY <2>1, <2>2, <2>3, RecordsOf DEF RecordInv, Records1
<1>2. RecordInv /\ [RecordNext]_recordVars => RecordInv'
  <2> SUFFICES ASSUME RecordInv, [RecordNext]_recordVars PROVE RecordInv'
    OBVIOUS
  <2>1. CASE RunFrame
    BY <2>1, FrameKeepsRecordInv
  <2>2. CASE UNCHANGED <<vars, upload>>
    BY <2>2, StutterKeepsRecordInv
  <2> QED
    BY <2>1, <2>2 DEF RecordNext, Over, recordVars
<1>3. RecordInit => Init
  BY DEF RecordInit
<1> QED
  BY <1>1, <1>2, <1>3, PTL DEF RecordSpec

\* The theorem about the trails: after every frame, whatever the tracker reports
\* and however its tracks are lost, merged and forgotten, each record's boxes are
\* in the order of time, its times and numbers fit its lists, and what the tracker
\* has reported in the frame ends a trail.
THEOREM TrailsAlwaysAgree == RecordSpec => []TrailsAgree
<1>1. RecordInv => TrailsAgree
  <2> SUFFICES ASSUME RecordInv PROVE TrailsAgree
    OBVIOUS
  <2>1. \A n \in DOMAIN out : out[n] # NoId =>
          /\ out[n] \in DOMAIN upload
          /\ Last(upload[out[n]].trail) = [frame |-> frame, number |-> n]
    BY DEF RecordInv, Records1
  <2>2. ASSUME NEW id \in DOMAIN upload, NEW times,
               times = [i \in DOMAIN upload[id].trail |-> upload[id].trail[i].frame]
        PROVE  LET r == upload[id]
               IN  /\ \A i, j \in DOMAIN times : i < j => times[i] < times[j]
                   /\ r.bodyTrailNum = Len(r.trail)
                   /\ r.startTimestamp = times[1] /\ r.endTimestamp = Last(times)
                   /\ \A i, j \in DOMAIN r.packages : i < j => r.packages[i] < r.packages[j]
                   /\ Range(r.packages) \subseteq Range(times)
                   /\ r.handpackageTrailNum >= Len(r.packages)
    <3> DEFINE r == upload[id]
    <3>1. Fits(r) /\ r.trail \in Seq(Point) /\ Len(r.trail) >= 1 /\ Len(r.trail) \in Nat
      BY DEF RecordInv, Records1, Fits, Record
    <3>2. /\ times = [i \in 1 .. Len(r.trail) |-> r.trail[i].frame]
          /\ DOMAIN times = DOMAIN r.trail /\ DOMAIN times = 1 .. Len(r.trail)
          /\ \A i \in DOMAIN times : times[i] = r.trail[i].frame
      BY <2>2, <3>1
    <3>3. Len(times) = Len(r.trail)
      BY <3>1, <3>2
    <3> HIDE DEF r
    <3>4. Last(times) = Last(r.trail).frame /\ times[1] = r.trail[1].frame
      BY <3>1, <3>2, <3>3 DEF Last
    <3>5. \A i, j \in DOMAIN times : i < j => times[i] < times[j]
      BY <3>1, <3>2 DEF Fits, InOrder
    <3>6. Range(times) = Times(r)
      BY <3>2 DEF Range, Times
    <3> QED
      BY <3>1, <3>4, <3>5, <3>6 DEF Fits, Increasing, r
  <2> QED
    BY <2>1, <2>2 DEF TrailsAgree
<1> QED
  BY <1>1, RecordInvHolds, PTL

\* The theorem about the shots: whatever the detector sees, and however the
\* tracker loses, merges and forgets, a record shows its person and its face as
\* they were first seen best, over the whole of its trail, and its feature is that
\* of the selected shot or none.
THEOREM ShotsAreTheBest == RecordSpec => []BestShots
<1>1. RecordInv => BestShots
  BY DEF RecordInv, Records1, Shows, Best, BestShots
<1> QED
  BY <1>1, RecordInvHolds, PTL

---------------------------------------------------------------------------
(* What a track still knows of the trail of its record.                    *)

Seen(p, s) == \E o \in Range(s) : Same(o, p)

\* A point is one of the objects of the track, or the track is full and has lost it.
Known(p, s) == Seen(p, s) \/ (Len(s) = MaxObjects /\ p.frame < s[1].frame)

\* Trimming forgets only what is before the first object it leaves.
LEMMA TrimmedKnows ==
  ASSUME NEW r \in Seq(Object), Len(r) >= 1, InOrder(r), NEW p \in Point
  PROVE  /\ Seen(p, r) => Known(p, Trimmed(r))
         /\ Len(r) >= MaxObjects /\ p.frame < r[Len(r) - MaxObjects + 1].frame =>
              Known(p, Trimmed(r))
<1> DEFINE s == Trimmed(r)
           i == Len(r) - MaxObjects + 1
<1>1. /\ MaxObjects \in Nat /\ MaxObjects >= 1 /\ Len(r) \in Nat /\ DOMAIN r = 1 .. Len(r)
      /\ \A k \in DOMAIN r : r[k] \in Object
  BY TrackerAssumption
<1>2. MaxObjects \in Nat /\ Len(r) \in Nat
  BY <1>1
<1>3. \A k \in DOMAIN r : k > Len(r) - MaxObjects => r[k] \in Range(s)
  BY TrimmedKeeps
<1>4. ASSUME Len(r) >= MaxObjects PROVE Len(s) = MaxObjects /\ s[1] = r[i]
  <2>1. CASE ~ (Len(r) > MaxObjects)
    <3>1. Len(r) = MaxObjects /\ i = 1
      BY <1>2, <1>4, <2>1
    <3> HIDE DEF i
    <3> QED
      BY <3>1 DEF Trimmed
  <2>2. CASE Len(r) > MaxObjects
    <3>1. s = SubSeq(r, i, Len(r))
      BY <1>1, <2>2 DEF Trimmed, LastObjects
    <3>2. i \in 1 .. Len(r) /\ Len(r) \in 1 .. Len(r) /\ Len(r) - i + 1 = MaxObjects
      BY <1>1, <2>2
    <3> HIDE DEF i, s
    <3>3. Len(s) = MaxObjects /\ s[1] = r[i + 1 - 1]
      BY <1>1, <3>1, <3>2
    <3> QED
      BY <1>1, <3>2, <3>3
  <2> QED
    BY <2>1, <2>2
<1> HIDE DEF s
<1>5. ASSUME Seen(p, r) PROVE Known(p, s)
  <2>1. PICK k \in DOMAIN r : Same(r[k], p)
    BY <1>5 DEF Seen, Range
  <2>2. CASE k > Len(r) - MaxObjects
    BY <1>3, <2>1, <2>2 DEF Known, Seen
  <2>3. CASE k <= Len(r) - MaxObjects
    <3>1. Len(r) >= MaxObjects /\ i \in DOMAIN r /\ k < i
      BY <1>1, <2>3
    <3>2. r[k].frame < r[i].frame
      BY <3>1 DEF InOrder
    <3> QED
      BY <1>4, <2>1, <3>1, <3>2 DEF Known, Same
  <2>4. k > Len(r) - MaxObjects \/ k <= Len(r) - MaxObjects
    BY <1>1
  <2> QED
    BY <2>2, <2>3, <2>4
<1>6. ASSUME Len(r) >= MaxObjects, p.frame < r[i].frame PROVE Known(p, s)
  BY <1>4, <1>6 DEF Known
<1> QED
  BY <1>5, <1>6 DEF s

\* Nor does AppendToTrack forget anything else.
LEMMA AppendKnows ==
  ASSUME NEW id \in Ids, NEW track, Kept(id, track), LastSeen(track) <= frame,
         frame \in 0 .. MaxFrames - 1, NEW number \in 1 .. MaxDetections,
         NEW p \in Point, Known(p, track.objects)
  PROVE  Known(p, AppendToTrack(track, id, number).objects)
<1> DEFINE new == [frame |-> frame + 1, number |-> number, id |-> id]
           s == track.objects
           r == Append(s, new)
<1>1. new \in Object /\ new.frame = frame + 1
  BY TrackerAssumption DEF Object
<1>2. /\ s \in Seq(Object) /\ Len(s) >= 1 /\ InOrder(s)
      /\ \A o \in Range(s) : o.frame \in Int /\ o.frame < frame + 1
  <2>1. /\ s \in Seq(Object) /\ Len(s) >= 1 /\ InOrder(s) /\ LastSeen(track) \in Int
        /\ \A o \in Range(s) : o.frame \in Int /\ o.frame <= LastSeen(track)
    BY KeptEnd
  <2> QED
    BY <2>1
<1>3. AppendToTrack(track, id, number).objects = Trimmed(r)
  BY DEF AppendToTrack
<1> HIDE DEF new
<1>4. /\ r \in Seq(Object) /\ Len(r) = Len(s) + 1
      /\ \A k \in 1 .. Len(s) : r[k] = s[k]
      /\ InOrder(r) /\ Range(r) = Range(s) \cup {new}
  <2>1. \A o \in Object : o.frame \in Int
    BY DEF Object
  <2> QED
    BY <1>1, <1>2, <2>1, GrowsInOrder
<1>5. MaxObjects \in Nat /\ MaxObjects >= 1 /\ Len(s) \in Nat /\ DOMAIN r = 1 .. Len(r)
  BY <1>2, <1>4, TrackerAssumption
<1> HIDE DEF r
<1>6. Seen(p, s) => Seen(p, r)
  BY <1>4 DEF Seen
<1>7. ASSUME Len(s) = MaxObjects, p.frame < s[1].frame
      PROVE  Len(r) >= MaxObjects /\ p.frame < r[Len(r) - MaxObjects + 1].frame
  <2>1. Len(r) - MaxObjects + 1 = 2 /\ 1 \in DOMAIN r /\ 2 \in DOMAIN r /\ Len(r) >= MaxObjects
    BY <1>4, <1>5, <1>7
  <2>2. r[1] = s[1] /\ r[1].frame < r[2].frame
    <3>1. 1 \in 1 .. Len(s)
      BY <1>5, <1>7
    <3>2. r[1] = s[1]
      BY <1>4, <3>1
    <3>3. InOrder(r) /\ 1 < 2
      BY <1>4
    <3>4. r[1].frame < r[2].frame
      BY <2>1, <3>3 DEF InOrder
    <3> QED
      BY <3>2, <3>4
  <2>3. r[1].frame \in Int /\ r[2].frame \in Int /\ p.frame \in Int
    <3>1. r[1] \in Object /\ r[2] \in Object
      BY <1>4, <1>5, <2>1
    <3> QED
      BY <3>1 DEF Object, Point
  <2> QED
    BY <1>7, <2>1, <2>2, <2>3
<1>8. Len(r) >= 1
  BY <1>4, <1>5
<1> QED
  BY <1>3, <1>4, <1>6, <1>7, <1>8, TrimmedKnows DEF Known

\* In the merged list of two tracks no more objects are before the first of the
\* one than the other has.
LEMMA FirstOfMerged ==
  ASSUME NEW a \in Seq(Object), Len(a) >= 1, InOrder(a), NEW c \in Seq(Object),
         NEW r \in Seq(Object), InOrder(r), Range(r) = Range(a) \cup Range(c),
         Len(r) > Len(c)
  PROVE  a[1].frame <= r[Len(c) + 1].frame
<1>1. /\ DOMAIN r = 1 .. Len(r) /\ DOMAIN c = 1 .. Len(c) /\ DOMAIN a = 1 .. Len(a)
      /\ Len(r) \in Nat /\ Len(c) \in Nat /\ Len(a) \in Nat
      /\ Len(c) + 1 \in DOMAIN r /\ 1 \in DOMAIN a
  OBVIOUS
<1>2. \A o \in Object : o.frame \in Int
  BY DEF Object
<1>3. /\ \A k \in DOMAIN r : r[k] \in Object /\ r[k].frame \in Int
      /\ \A k \in DOMAIN a : a[k] \in Object /\ a[k].frame \in Int
  BY <1>1, <1>2
<1>4. \A o \in Range(a) : o.frame \in Int /\ a[1].frame <= o.frame
  <2> TAKE o \in Range(a)
  <2>1. PICK k \in DOMAIN a : o = a[k]
    BY DEF Range
  <2>2. k = 1 \/ 1 < k
    BY <1>1
  <2> QED
    BY <1>1, <1>3, <2>1, <2>2 DEF InOrder
<1> SUFFICES ASSUME r[Len(c) + 1].frame < a[1].frame PROVE FALSE
  <2>1. r[Len(c) + 1].frame \in Int /\ a[1].frame \in Int
    BY <1>1, <1>3
  <2> QED
    BY <2>1
<1> DEFINE before == 1 .. Len(c) + 1
           all == 1 .. Len(c)
           at == [i \in before |-> CHOOSE j \in all : c[j] = r[i]]
<1>5. \A i \in before : i \in DOMAIN r /\ (i = Len(c) + 1 \/ i < Len(c) + 1)
  BY <1>1
<1>6. ASSUME NEW i \in before PROVE \E j \in all : c[j] = r[i]
  <2>1. r[i].frame <= r[Len(c) + 1].frame
    <3> DEFINE last == Len(c) + 1
    <3>1. /\ i \in DOMAIN r /\ (i = last \/ i < last) /\ last \in DOMAIN r
          /\ r[i].frame \in Int /\ r[last].frame \in Int
      BY <1>1, <1>3, <1>5
    <3> HIDE DEF last, before
    <3>2. i = last => r[i].frame <= r[last].frame
      BY <3>1
    <3>3. i < last => r[i].frame < r[last].frame
      BY <3>1 DEF InOrder
    <3>4. r[i].frame <= r[last].frame
      BY <3>1, <3>2, <3>3
    <3> QED
      BY <3>4 DEF last
  <2>2. r[i] \notin Range(a)
    <3>1. r[i].frame \in Int /\ r[Len(c) + 1].frame \in Int /\ a[1].frame \in Int
      BY <1>1, <1>3, <1>5
    <3> HIDE DEF before
    <3> QED
      BY <1>4, <2>1, <3>1
  <2>3. r[i] \in Range(r)
    BY <1>5 DEF Range
  <2>4. r[i] \in Range(c)
    BY <2>2, <2>3
  <2> QED
    BY <1>1, <2>4 DEF Range
<1>7. \A i \in before : at[i] \in all /\ c[at[i]] = r[i]
  BY <1>6
<1> HIDE DEF at
<1>8. \A i, l \in before : at[i] = at[l] => i = l
  <2> SUFFICES ASSUME NEW i \in before, NEW l \in before, r[i] = r[l] PROVE i = l
    BY <1>7
  <2>1. ~ (i < l) /\ ~ (l < i)
    BY <1>3, <1>5 DEF InOrder
  <2> QED
    BY <1>1, <2>1
<1>9. at \in Injection(before, all)
  <2>1. at \in [before -> all]
    BY <1>7 DEF at
  <2> QED
    BY <1>8, <2>1 DEF Injection, IsInjective
<1>10. Cardinality(all) = Len(c) /\ IsFiniteSet(all)
  <2>1. 1 \in Int /\ Len(c) \in Int
    BY <1>1
  <2>2. Cardinality(1 .. Len(c)) = IF 1 > Len(c) THEN 0 ELSE Len(c) - 1 + 1
    BY <2>1, FS_Interval
  <2>3. IsFiniteSet(1 .. Len(c))
    BY <2>1, FS_Interval
  <2> QED
    BY <1>1, <2>2, <2>3
<1>11. Cardinality(before) = Len(c) + 1
  <2>1. 1 \in Int /\ Len(c) + 1 \in Int
    BY <1>1
  <2>2. Cardinality(1 .. Len(c) + 1) = IF 1 > Len(c) + 1 THEN 0 ELSE Len(c) + 1 - 1 + 1
    BY <2>1, FS_Interval
  <2> QED
    BY <1>1, <2>2
<1> HIDE DEF before, all
<1>12. Cardinality(before) <= Cardinality(all)
  BY <1>9, <1>10, FS_Injection
<1> QED
  BY <1>1, <1>10, <1>11, <1>12

\* MergeTrack forgets only what is before the first object it leaves, also when the
\* young track began earlier than the lost one.
LEMMA MergeKnows ==
  ASSUME NEW id \in Ids, NEW track1, NEW other, NEW track2,
         Kept(id, track1), Kept(other, track2), MayMerge(track1, track2),
         NEW p \in Point, Known(p, track1.objects)
  PROVE  Known(p, MergeTrack(track1, track2).objects)
<1> DEFINE a == track1.objects
           b == track2.objects
           c == Relabelled(b, id)
           r == Interleaved(a, c)
<1>1. /\ a \in Seq(Object) /\ Len(a) >= 1 /\ InOrder(a)
      /\ \A o \in Range(a) : o.id = id
      /\ b \in Seq(Object) /\ Len(b) >= 1 /\ InOrder(b)
  BY TrackerAssumption DEF Kept, Track
<1>2. a[1].id = id
  BY <1>1 DEF Range
<1>3. Apart(a, b)
  BY <1>1, MeetFinds DEF MayMerge
<1>4. c \in Seq(Object) /\ InOrder(c)
  BY <1>1, RelabelledKeeps
<1>5. Apart(a, c)
  BY <1>3 DEF Apart, Relabelled
<1>6. MergeTrack(track1, track2).objects = Trimmed(r)
  BY <1>2 DEF MergeTrack
<1> HIDE DEF a, b, c
<1>7. /\ r \in Seq(Object) /\ InOrder(r) /\ Len(r) = Len(a) + Len(c)
      /\ Range(r) = Range(a) \cup Range(c)
  BY <1>1, <1>4, <1>5, InterleavedMerges
<1> HIDE DEF r
<1>8. Len(a) \in Nat /\ Len(c) \in Nat /\ MaxObjects \in Nat /\ MaxObjects >= 1
  BY <1>1, <1>4, TrackerAssumption
<1>9. Len(r) >= 1 /\ Len(r) > Len(c)
  BY <1>1, <1>7, <1>8
<1>10. Seen(p, a) => Seen(p, r)
  BY <1>7 DEF Seen
<1>11. ASSUME Len(a) = MaxObjects, p.frame < a[1].frame
       PROVE  Len(r) >= MaxObjects /\ p.frame < r[Len(r) - MaxObjects + 1].frame
  <2>1. a[1].frame <= r[Len(c) + 1].frame
    BY <1>1, <1>4, <1>7, <1>9, FirstOfMerged
  <2>2. Len(r) - MaxObjects + 1 = Len(c) + 1 /\ Len(r) >= MaxObjects
    BY <1>7, <1>8, <1>11
  <2>3. a[1].frame \in Int /\ r[Len(c) + 1].frame \in Int /\ p.frame \in Int
    <3>1. Len(c) + 1 \in 1 .. Len(r) /\ 1 \in 1 .. Len(a)
      BY <1>1, <1>8, <1>9, <1>7
    <3>2. a[1] \in Object /\ r[Len(c) + 1] \in Object
      BY <1>1, <1>7, <3>1
    <3> QED
      BY <3>2 DEF Object, Point
  <2> QED
    BY <1>11, <2>1, <2>2, <2>3
<1>12. Known(p, a)
  BY DEF a
<1> QED
  BY <1>6, <1>7, <1>9, <1>10, <1>11, <1>12, TrimmedKnows DEF Known

\* The objects that the functions before Rectify leave to a track: those it had,
\* with its detection if it has one, or those of a new track.
Grown(t, id, matches, numbers) ==
  \/ /\ id \in active /\ id \in DOMAIN matches
     /\ t.tracks[id].objects = AppendToTrack(tracks[id], id, matches[id]).objects
  \/ id \in active /\ t.tracks[id].objects = tracks[id].objects
  \/ \E k \in numbers : id = NewId(k, numbers)

\* They do nothing else with the objects of a track.
LEMMA BeforeRectifyObjects ==
  ASSUME TrackInv, NEW n, NEW matches, NEW noise, NEW place,
         NEW t, t = BeforeRectify(n, matches, noise, place),
         NEW numbers, numbers = (1 .. n) \ Range(matches), NEW id \in t.active
  PROVE  Grown(t, id, matches, numbers)
<1> DEFINE now == [tracks |-> tracks, active |-> active]
           matched == Appended(now, matches, noise)
           grown == AddNewTracks(matched, numbers)
           again == active # {} /\ n > 0
           lost == UpdateLostTracks(grown, place, again)
           aged == DropForgottenTracks(lost)
<1>1. aged = t
  BY DEF BeforeRectify
<1>2. active = DOMAIN tracks
  BY DEF TrackInv, Whole
<1> DEFINE old == [i \in DOMAIN tracks |->
                     IF i \in DOMAIN matches THEN AppendToTrack(tracks[i], i, matches[i])
                                             ELSE tracks[i]]
<1>3. /\ matched.active = active \ noise /\ DOMAIN matched.tracks = active \ noise
      /\ \A i \in active \ noise : matched.tracks[i] = old[i]
  <2>1. matched = Erased([now EXCEPT !.tracks = old], noise)
    BY DEF Appended
  <2>2. DOMAIN old = active
    BY <1>2
  <2> HIDE DEF old
  <2> QED
    BY <2>1, <2>2 DEF Erased, Restrict
<1> HIDE DEF matched
<1> DEFINE new == {NewId(k, numbers) : k \in numbers} \ DOMAIN matched.tracks
<1>4. /\ grown.active = (active \ noise) \cup new /\ DOMAIN grown.tracks = (active \ noise) \cup new
      /\ \A i \in active \ noise : grown.tracks[i] = old[i]
  <2>1. \A i \in active \ noise : i \notin new
    BY <1>3
  <2> HIDE DEF old
  <2> QED
    BY <1>3, <2>1 DEF AddNewTracks
<1> HIDE DEF grown
<1> DEFINE later == [i \in DOMAIN grown.tracks |->
                       IF i \in DOMAIN place THEN [grown.tracks[i] EXCEPT !.lost = @ + 1]
                                             ELSE grown.tracks[i]]
<1>5. /\ lost.active \subseteq grown.active
      /\ lost.active = DOMAIN lost.tracks /\ grown.active = DOMAIN grown.tracks
      /\ \A i \in DOMAIN lost.tracks : lost.tracks[i].objects = grown.tracks[i].objects
  <2>1. PICK gone : lost = Erased([grown EXCEPT !.tracks = later], gone)
    BY DEF UpdateLostTracks
  <2>2. DOMAIN later = DOMAIN grown.tracks
    OBVIOUS
  <2>3. \A i \in DOMAIN grown.tracks : later[i].objects = grown.tracks[i].objects
    OBVIOUS
  <2>4. DOMAIN grown = {"tracks", "active"}
    BY DEF grown, AddNewTracks
  <2> HIDE DEF later, lost
  <2> QED
    BY <1>4, <2>1, <2>2, <2>3, <2>4 DEF Erased, Restrict
<1> HIDE DEF lost
<1>6. \A i \in aged.active : i \in lost.active /\ aged.tracks[i] = lost.tracks[i]
  BY <1>5 DEF DropForgottenTracks, Erased, Restrict
<1> HIDE DEF aged
<1>7. id \in grown.active /\ t.tracks[id].objects = grown.tracks[id].objects
  BY <1>1, <1>5, <1>6
<1>8. CASE id \in new
  BY <1>8 DEF Grown
<1>9. CASE id \in active \ noise
  <2>1. t.tracks[id].objects = old[id].objects
    BY <1>4, <1>7, <1>9
  <2>2. old[id] = IF id \in DOMAIN matches THEN AppendToTrack(tracks[id], id, matches[id])
                                           ELSE tracks[id]
    BY <1>2, <1>9
  <2> HIDE DEF old
  <2> QED
    BY <1>9, <2>1, <2>2 DEF Grown
<1>10. id \in new \/ id \in active \ noise
  BY <1>4, <1>7
<1> QED
  BY <1>8, <1>9, <1>10

\* As long as the counter does not start again, the identities given to new tracks
\* have not been used.
LEMMA NewIdsAreNew ==
  ASSUME counter \in Ids, active \subseteq Ids, counter - 1 + MaxDetections < LastId,
         NEW n \in 0 .. MaxDetections, NEW matches \in Assignments(active, 1 .. n),
         NEW numbers, numbers = (1 .. n) \ Range(matches),
         NEW next, next = ((counter - 1 + n - Cardinality(DOMAIN matches)) % LastId) + 1
  PROVE  /\ counter <= next /\ next <= counter + MaxDetections
         /\ \A k \in numbers : counter <= NewId(k, numbers) /\ NewId(k, numbers) < next
<1> DEFINE all == 1 .. n
           from == DOMAIN matches
           to == Range(matches)
<1>1. /\ LastId \in Nat /\ MaxDetections \in Nat /\ n \in Nat /\ n <= MaxDetections
      /\ counter \in Nat /\ counter >= 1 /\ LastId > 0
  BY TrackerAssumption DEF Ids
<1>2. IsFiniteSet(all) /\ Cardinality(all) = n
  <2>1. 1 \in Int /\ n \in Int
    BY <1>1
  <2>2. /\ IsFiniteSet(1 .. n)
        /\ Cardinality(1 .. n) = IF 1 > n THEN 0 ELSE n - 1 + 1
    BY <2>1, FS_Interval
  <2> QED
    BY <1>1, <2>2
<1>3. /\ from \subseteq Ids /\ to \subseteq all /\ matches \in [from -> to]
      /\ \A i, j \in from : matches[i] = matches[j] => i = j
  <2>1. /\ from \subseteq active /\ matches \in [from -> all]
        /\ \A i, j \in from : matches[i] = matches[j] => i = j
    BY DEF Assignments, IsInjective
  <2> HIDE DEF all
  <2> QED
    BY <2>1 DEF Range
<1>4. IsFiniteSet(from) /\ Cardinality(from) \in Nat
  <2>1. IsFiniteSet(1 .. LastId)
    BY <1>1, FS_Interval
  <2> QED
    BY <1>3, <2>1, FS_Subset, FS_CardinalityType DEF Ids
<1>5. IsFiniteSet(to) /\ Cardinality(to) \in Nat /\ Cardinality(to) <= n
  BY <1>2, <1>3, FS_Subset, FS_CardinalityType
<1>6. Cardinality(from) <= Cardinality(to)
  <2>1. matches \in Injection(from, to)
    BY <1>3 DEF Injection, IsInjective
  <2> HIDE DEF from, to
  <2> QED
    BY <1>5, <2>1, FS_Injection
<1> HIDE DEF all, from, to
<1>7. /\ IsFiniteSet(numbers) /\ Cardinality(numbers) = n - Cardinality(to)
      /\ Cardinality(numbers) \in Nat
  <2>1. numbers = all \ to /\ all \cap to = to
    BY <1>3 DEF all, to
  <2>2. /\ IsFiniteSet(all \ to)
        /\ Cardinality(all \ to) = Cardinality(all) - Cardinality(all \cap to)
    BY <1>2, FS_Difference
  <2> QED
    BY <1>2, <2>1, <2>2, FS_CardinalityType
<1> DEFINE used == Cardinality(from)
<1> HIDE DEF used
<1>8. used \in Nat /\ used <= n /\ Cardinality(numbers) <= n - used
  BY <1>1, <1>4, <1>5, <1>6, <1>7 DEF used
<1>9. \A x \in Nat : x < LastId => x % LastId = x
  BY <1>1
<1>10. next = counter + (n - used)
  <2> DEFINE x == counter - 1 + n - used
  <2>1. x \in Nat /\ x < LastId
    BY <1>1, <1>8
  <2>2. next = (x % LastId) + 1
    BY DEF from, used
  <2> HIDE DEF x
  <2>3. next = x + 1
    BY <1>9, <2>1, <2>2
  <2> QED
    BY <1>1, <1>8, <2>3 DEF x
<1>11. ASSUME NEW k \in numbers
      PROVE  counter <= NewId(k, numbers) /\ NewId(k, numbers) < next
  <2> DEFINE before == {m \in numbers : m < k}
  <2>1. IsFiniteSet(before) /\ Cardinality(before) \in Nat
    BY <1>7, FS_Subset, FS_CardinalityType
  <2>2. k \notin before /\ before \cup {k} \subseteq numbers
    <3>1. k \in Nat
      OBVIOUS
    <3> QED
      BY <3>1
  <2>3. NewId(k, numbers) = ((counter - 1 + Cardinality(before)) % LastId) + 1
    BY DEF NewId
  <2> HIDE DEF before
  <2>4. Cardinality(before \cup {k}) = Cardinality(before) + 1
    BY <2>1, <2>2, FS_AddElement
  <2>5. Cardinality(before) + 1 <= Cardinality(numbers)
    BY <1>7, <2>2, <2>4, FS_Subset
  <2> DEFINE place == Cardinality(before)
  <2> HIDE DEF place
  <2>6. place \in Nat /\ place < n - used
    BY <1>1, <1>7, <1>8, <2>1, <2>5 DEF place
  <2> DEFINE x == counter - 1 + place
  <2>7. x \in Nat /\ x < LastId
    BY <1>1, <1>8, <2>6
  <2>8. NewId(k, numbers) = (x % LastId) + 1
    BY <2>3 DEF place
  <2> HIDE DEF x, NewId
  <2>9. NewId(k, numbers) = x + 1
    BY <1>9, <2>7, <2>8
  <2> QED
    BY <1>1, <1>8, <1>10, <2>6, <2>9 DEF x
<1>12. counter <= next /\ next <= counter + MaxDetections
  BY <1>1, <1>8, <1>10
<1> QED
  BY <1>11, <1>12

\* What Rectify leaves to a track: its objects, or those of a merger.
LEMMA RectifiedKnows ==
  ASSUME NEW t, Whole(t), DOMAIN t = {"tracks", "active"}, NEW merge \in Mergers(t),
         NEW id \in t.active, id \notin Range(merge),
         NEW p \in Point, Known(p, t.tracks[id].objects)
  PROVE  Known(p, Rectified(t, merge).tracks[id].objects)
<1> DEFINE merged == [i \in DOMAIN t.tracks |->
                        IF i \in DOMAIN merge
                          THEN MergeTrack(t.tracks[i], t.tracks[merge[i]])
                          ELSE t.tracks[i]]
           u == [t EXCEPT !.tracks = merged]
<1>1. Rectified(t, merge).tracks[id] = merged[id]
  <2>1. Rectified(t, merge) = Erased(u, Range(merge)) /\ u.active = t.active /\ u.tracks = merged
    BY DEF Rectified
  <2>2. DOMAIN merged = t.active
    BY DEF Whole
  <2> HIDE DEF u, merged
  <2> QED
    BY <2>1, <2>2 DEF Erased, Restrict
<1>2. CASE id \notin DOMAIN merge
  BY <1>1, <1>2 DEF Whole
<1>3. CASE id \in DOMAIN merge
  <2>1. merged[id] = MergeTrack(t.tracks[id], t.tracks[merge[id]])
    BY <1>3 DEF Whole
  <2> HIDE DEF merged
  <2>2. merge[id] \in t.active /\ MayMerge(t.tracks[id], t.tracks[merge[id]])
    BY <1>3, MergersSound DEF NewIds
  <2>3. id \in Ids /\ Kept(id, t.tracks[id]) /\ Kept(merge[id], t.tracks[merge[id]])
    BY <2>2 DEF Whole
  <2> QED
    BY <1>1, <2>1, <2>2, <2>3, MergeKnows
<1> QED
  BY <1>2, <1>3

\* The counter does not start again before the video is over.
NeverAgain == MaxFrames * MaxDetections < LastId

\* No identity from the counter on has been used, and there are enough of them.
Fresh ==
  /\ (MaxFrames - frame) * MaxDetections + counter - 1 < LastId
  /\ \A id \in active \cup DOMAIN upload : id < counter

\* What a track does not know any more of its record's trail it has lost by trimming.
Followed ==
  \A id \in DOMAIN upload \cap active :
    \A p \in Range(upload[id].trail) : Known(p, tracks[id].objects)

FollowInv == RecordInv /\ Fresh /\ Followed

\* What a frame of the tracker does with the identities and the objects.
Follows(n) ==
  /\ counter <= counter' /\ counter' <= counter + MaxDetections
  /\ \A id \in active' : (id < counter /\ id \in active) \/ (counter <= id /\ id < counter')
  /\ \A id \in active' : id < counter =>
       \A p \in Point : Known(p, tracks[id].objects) => Known(p, tracks'[id].objects)
  /\ \A k \in 1 .. n : out'[k] # NoId =>
       /\ out'[k] \in active'
       /\ \E o \in Range(tracks'[out'[k]].objects) : o.frame = frame + 1 /\ o.number = k

\* The tracker forgets of its tracks only what it trims, and does not give an
\* identity again.
LEMMA ProcessFollows ==
  ASSUME TrackInv, frame < MaxFrames, NEW n \in PreProcess, Process(n),
         counter - 1 + MaxDetections < LastId, \A id \in active : id < counter
  PROVE  Follows(n) /\ DOMAIN out' = 1 .. n
<1>1. PICK matches, noise, place, merge : Decided(n, matches, noise, place, merge)
  BY ProcessDecides
<1>2. /\ matches \in Assignments(active, 1 .. n)
      /\ noise \in SUBSET {id \in DOMAIN matches : MayBeNoise(tracks[id])}
      /\ place \in Predictions(active \ DOMAIN matches)
  BY <1>1 DEF Decided
<1>3. merge \in Mergers(BeforeRectify(n, matches, noise, place))
  BY <1>1 DEF Decided
<1>4. RectifyAndReport(n, matches, BeforeRectify(n, matches, noise, place), merge)
  BY <1>1 DEF Decided
<1> DEFINE t == BeforeRectify(n, matches, noise, place)
           done == Rectified(t, merge)
           numbers == (1 .. n) \ Range(matches)
<1>5. /\ Whole(t) /\ DOMAIN t = {"tracks", "active"}
      /\ \A id \in t.active : Aged(t.tracks[id], frame + 1)
  BY <1>2, BeforeRectifyWhole
<1>6. /\ frame \in 0 .. MaxFrames - 1 /\ frame \in Nat /\ counter \in Ids
      /\ n \in 0 .. MaxDetections /\ active \subseteq Ids
      /\ \A id \in active : Kept(id, tracks[id]) /\ Aged(tracks[id], frame)
  BY TrackerAssumption DEF TrackInv, PreProcess, Whole
<1>7. ASSUME NEW id \in t.active PROVE Grown(t, id, matches, numbers)
  <2>1. t = BeforeRectify(n, matches, noise, place) /\ numbers = (1 .. n) \ Range(matches)
    OBVIOUS
  <2> HIDE DEF t, numbers
  <2> QED
    BY <2>1, BeforeRectifyObjects
<1> HIDE DEF t
<1>8. /\ tracks' = done.tracks /\ active' = done.active
      /\ counter' = ((counter - 1 + n - Cardinality(DOMAIN matches)) % LastId) + 1
      /\ out' = [number \in 1 .. n |-> TrackId(done, number)]
  BY <1>4 DEF RectifyAndReport, t
<1>9. merge \in Mergers(t)
  BY <1>3 DEF t
<1>10. Whole(done) /\ done.active = t.active \ Range(merge)
  BY <1>5, <1>6, <1>9, RectifiedWhole
<1>11. /\ counter <= counter' /\ counter' <= counter + MaxDetections
       /\ \A k \in numbers : counter <= NewId(k, numbers) /\ NewId(k, numbers) < counter'
  BY <1>2, <1>6, <1>8, NewIdsAreNew
<1> HIDE DEF numbers
<1>12. \A id \in active' : id \in t.active /\ id \notin Range(merge)
  BY <1>8, <1>10
<1>13. \A id \in Ids : id \in Nat
  BY DEF Ids
<1>14. counter \in Nat
  BY <1>6, <1>13
<1>15. ASSUME NEW id \in active'
       PROVE  (id < counter /\ id \in active) \/ (counter <= id /\ id < counter')
  BY <1>7, <1>11, <1>12, <1>15 DEF Grown
<1>16. ASSUME NEW id \in active', id < counter, NEW p \in Point, Known(p, tracks[id].objects)
       PROVE  Known(p, tracks'[id].objects)
  <2>1. id \in t.active /\ id \in Ids
    BY <1>5, <1>12 DEF Whole
  <2>2. ~ \E k \in numbers : id = NewId(k, numbers)
    <3> SUFFICES ASSUME NEW k \in numbers, counter <= id PROVE FALSE
      BY <1>11
    <3>1. id \in Nat
      BY <1>13, <2>1
    <3> QED
      BY <1>14, <1>16, <3>1
  <2>3. CASE id \in DOMAIN matches
             /\ t.tracks[id].objects = AppendToTrack(tracks[id], id, matches[id]).objects
    <3>1. id \in active /\ matches[id] \in 1 .. MaxDetections
      <4>1. id \in active /\ matches[id] \in 1 .. n
        BY <1>2, <2>3 DEF Assignments
      <4> QED
        BY <1>6, <4>1, TrackerAssumption
    <3>2. Kept(id, tracks[id]) /\ LastSeen(tracks[id]) <= frame
      <4>1. Kept(id, tracks[id]) /\ Aged(tracks[id], frame)
        BY <1>6, <3>1
      <4>2. LastSeen(tracks[id]) \in Int /\ tracks[id].lost \in Nat
        BY <4>1, KeptEnd
      <4> QED
        BY <1>6, <4>1, <4>2 DEF Aged
    <3>3. Known(p, AppendToTrack(tracks[id], id, matches[id]).objects)
      BY <1>6, <1>16, <2>1, <3>1, <3>2, AppendKnows
    <3>4. Known(p, t.tracks[id].objects)
      BY <2>3, <3>3
    <3> HIDE DEF done
    <3>5. Known(p, done.tracks[id].objects)
      BY <1>5, <1>9, <1>12, <2>1, <3>4, RectifiedKnows DEF done
    <3> QED
      BY <1>8, <3>5
  <2>4. CASE t.tracks[id].objects = tracks[id].objects
    <3>1. Known(p, t.tracks[id].objects)
      BY <1>16, <2>4
    <3> HIDE DEF done
    <3>2. Known(p, done.tracks[id].objects)
      BY <1>5, <1>9, <1>12, <2>1, <3>1, RectifiedKnows DEF done
    <3> QED
      BY <1>8, <3>2
  <2> QED
    BY <1>7, <2>1, <2>2, <2>3, <2>4 DEF Grown
<1>17. ASSUME NEW k \in 1 .. n, out'[k] # NoId
       PROVE  /\ out'[k] \in active'
              /\ \E o \in Range(tracks'[out'[k]].objects) : o.frame = frame + 1 /\ o.number = k
  <2> HIDE DEF done
  <2>1. out'[k] = TrackId(done, k)
    BY <1>8
  <2>2. /\ out'[k] \in done.active
        /\ LastSeen(done.tracks[out'[k]]) = frame + 1
        /\ Last(done.tracks[out'[k]].objects).number = k
    BY <1>10, <1>17, <2>1, TrackIdSound
  <2>3. Last(done.tracks[out'[k]].objects) \in Range(done.tracks[out'[k]].objects)
    BY <1>10, <2>2, KeptEnd DEF Whole
  <2> QED
    BY <1>8, <2>2, <2>3 DEF LastSeen
<1>18. DOMAIN out' = 1 .. n
  BY <1>8
<1> QED
  BY <1>11, <1>15, <1>16, <1>17, <1>18 DEF Follows

\* What is in a trail with a new box.
LEMMA LongerRange ==
  ASSUME frame \in Nat, NEW trail \in Seq(Point), NEW number \in Nat,
         NEW p \in Range(Longer(trail, number))
  PROVE  p \in Range(trail) \/ p = [frame |-> frame + 1, number |-> number]
<1> DEFINE box == [frame |-> frame + 1, number |-> number]
           r == Append(trail, box)
<1>1. box \in Point
  BY DEF Point
<1>2. p \in Range(r)
  BY DEF Longer
<1> HIDE DEF box
<1>3. /\ DOMAIN r = 1 .. Len(trail) + 1 /\ r[Len(trail) + 1] = box
      /\ \A k \in 1 .. Len(trail) : r[k] = trail[k]
      /\ DOMAIN trail = 1 .. Len(trail) /\ Len(trail) \in Nat
  BY <1>1
<1> HIDE DEF r
<1>4. PICK k \in DOMAIN r : p = r[k]
  BY <1>2 DEF Range
<1>5. k = Len(trail) + 1 \/ k \in DOMAIN trail
  BY <1>3
<1> QED
  BY <1>3, <1>4, <1>5 DEF Range, box

\* One more frame uses at most MaxDetections of the identities that are left.
LEMMA OneFrameLess ==
  ASSUME NEW frames \in Nat, NEW used \in Nat, used < frames, NEW detections \in Nat,
         NEW last \in Nat, NEW before \in Nat, NEW after \in Nat,
         (frames - used) * detections + before - 1 < last, after <= before + detections
  PROVE  /\ before - 1 + detections < last
         /\ (frames - (used + 1)) * detections + after - 1 < last
<1> DEFINE left == frames - used - 1
<1>1. left \in Nat /\ frames - used = left + 1 /\ frames - (used + 1) = left
  OBVIOUS
<1> HIDE DEF left
<1>2. (left + 1) * detections = left * detections + detections
  BY <1>1
<1>3. left * detections \in Nat
  BY <1>1
<1> DEFINE rest == left * detections
<1> HIDE DEF rest
<1>4. rest \in Nat /\ rest + detections + before - 1 < last
  BY <1>1, <1>2, <1>3 DEF rest
<1>5. before - 1 + detections < last /\ rest + after - 1 < last
  BY <1>4
<1> QED
  BY <1>1, <1>5 DEF rest

\* One frame keeps the invariant.
LEMMA FrameKeepsFollowInv == ASSUME FollowInv, RunFrame PROVE FollowInv'
<1>1. RecordInv /\ RecordInv' /\ TrackInv
  BY FrameKeepsRecordInv DEF FollowInv, RecordInv
<1>2. PICK n \in PreProcess : Process(n)
  BY DEF RunFrame, StagePostProcess
<1>3. frame < MaxFrames /\ frame' = frame + 1
  BY DEF RunFrame, StagePostProcess
<1>4. /\ frame \in Nat /\ MaxFrames \in Nat /\ MaxDetections \in Nat /\ LastId \in Nat
      /\ counter \in Nat /\ counter' \in Nat
  <2>1. frame \in Nat /\ counter \in Ids /\ counter' \in Ids
    BY <1>1, TrackerAssumption DEF RecordInv, TrackInv
  <2>2. \A id \in Ids : id \in Nat
    BY DEF Ids
  <2> QED
    BY <2>1, <2>2, TrackerAssumption
<1>5. (MaxFrames - frame) * MaxDetections + counter - 1 < LastId
  BY DEF FollowInv, Fresh
<1>6. \A id \in active \cup DOMAIN upload : id < counter
  BY DEF FollowInv, Fresh
<1>7. counter - 1 + MaxDetections < LastId
  BY <1>3, <1>4, <1>5, OneFrameLess
<1>8. Follows(n) /\ DOMAIN out' = 1 .. n
  BY <1>1, <1>2, <1>3, <1>6, <1>7, ProcessFollows
<1>9. counter <= counter' /\ counter' <= counter + MaxDetections
  BY <1>8 DEF Follows
<1>10. (MaxFrames - frame') * MaxDetections + counter' - 1 < LastId
  BY <1>3, <1>4, <1>5, <1>9, OneFrameLess
<1>11. PICK m \in Nat : out' \in [1 .. m -> Ids \cup {NoId}] /\ After(upload', m)
  BY <1>1, FrameAfter
<1>12. \A k \in 1 .. m : k \in 1 .. n
  BY <1>8, <1>11
<1>13. After(upload', m) /\ upload \in Records /\ upload' \in Records
  BY <1>1, <1>11 DEF After, RecordInv, Records1
<1>14. ASSUME NEW id \in DOMAIN upload'
       PROVE  /\ id \in Ids
              /\ \/ id \in DOMAIN upload /\ upload'[id].trail = OldTrail(id)
                 \/ \E k \in 1 .. n :
                      /\ out'[k] = id /\ id \in active'
                      /\ upload'[id].trail = Longer(OldTrail(id), k)
                      /\ \E o \in Range(tracks'[id].objects) :
                           o.frame = frame + 1 /\ o.number = k
  <2>1. id \in Ids /\ id # NoId
    BY <1>13, RecordsOf DEF Ids, NoId
  <2>2. CASE \A k \in 1 .. m : out'[k] # id
    <3>1. id \in DOMAIN upload /\ upload'[id] = upload[id]
      BY <1>13, <2>1, <2>2 DEF After
    <3> QED
      BY <2>1, <3>1 DEF OldTrail
  <2>3. CASE \E k \in 1 .. m : out'[k] = id
    <3>1. PICK k \in 1 .. m : out'[k] = id
      BY <2>3
    <3>2. upload'[id].trail = Longer(OldTrail(id), k)
      BY <1>13, <2>1, <3>1 DEF After
    <3>3. k \in 1 .. n
      BY <1>12
    <3>4. /\ id \in active'
          /\ \E o \in Range(tracks'[id].objects) : o.frame = frame + 1 /\ o.number = k
      BY <1>8, <2>1, <3>1, <3>3 DEF Follows
    <3> QED
      BY <2>1, <3>1, <3>2, <3>3, <3>4
  <2> QED
    BY <2>2, <2>3
<1>15. ASSUME NEW id \in active' \cup DOMAIN upload' PROVE id < counter'
  <2>1. id \in Nat
    <3>1. active' \subseteq Ids
      BY <1>1 DEF RecordInv, TrackInv, Whole
    <3> QED
      BY <1>14, <3>1 DEF Ids
  <2>2. id \in active' => id < counter \/ id < counter'
    BY <1>8 DEF Follows
  <2>3. id \in DOMAIN upload => id < counter
    BY <1>6
  <2>4. id \in active' \/ id \in DOMAIN upload
    BY <1>14
  <2> QED
    BY <1>4, <1>9, <2>1, <2>2, <2>3, <2>4
<1>16. ASSUME NEW id \in DOMAIN upload' \cap active', NEW p \in Range(upload'[id].trail)
       PROVE  Known(p, tracks'[id].objects)
  <2>1. OldTrail(id) \in Seq(Point)
    BY <1>13, RecordsOf DEF OldTrail, Record
  <2>2. ASSUME p \in Range(OldTrail(id)) PROVE Known(p, tracks'[id].objects)
    <3>1. id \in DOMAIN upload /\ OldTrail(id) = upload[id].trail
      BY <2>2 DEF OldTrail, Range
    <3>2. id < counter /\ id \in active
      <4>1. id < counter /\ id \in Nat
        BY <1>6, <1>14, <3>1 DEF Ids
      <4>2. (id < counter /\ id \in active) \/ counter <= id
        BY <1>8 DEF Follows
      <4>3. ~ (counter <= id)
        BY <1>4, <4>1
      <4> QED
        BY <4>1, <4>2, <4>3
    <3>3. Known(p, tracks[id].objects)
      BY <2>2, <3>1, <3>2 DEF FollowInv, Followed
    <3>4. p \in Point
      <4> DEFINE trail == OldTrail(id)
      <4>1. PICK k \in DOMAIN trail : p = trail[k]
        BY <2>2 DEF Range
      <4> HIDE DEF trail
      <4>2. trail \in Seq(Point)
        BY <2>1 DEF trail
      <4> QED
        BY <4>1, <4>2
    <3> QED
      BY <1>8, <3>2, <3>3, <3>4 DEF Follows
  <2>3. ASSUME NEW k \in 1 .. n, upload'[id].trail = Longer(OldTrail(id), k),
               \E o \in Range(tracks'[id].objects) : o.frame = frame + 1 /\ o.number = k
        PROVE  Known(p, tracks'[id].objects)
    <3> DEFINE trail == OldTrail(id)
    <3>1. p \in Range(Longer(trail, k)) /\ trail \in Seq(Point) /\ k \in Nat
      BY <2>1, <2>3
    <3> HIDE DEF trail
    <3>2. p \in Range(trail) \/ p = [frame |-> frame + 1, number |-> k]
      BY <1>4, <3>1, LongerRange
    <3>3. CASE p \in Range(trail)
      BY <2>2, <3>3 DEF trail
    <3>4. CASE p = [frame |-> frame + 1, number |-> k]
      BY <2>3, <3>4 DEF Known, Seen, Same
    <3> QED
      BY <3>2, <3>3, <3>4
  <2> QED
    BY <1>14, <2>2, <2>3
<1> QED
  BY <1>1, <1>10, <1>15, <1>16 DEF FollowInv, Fresh, Followed

\* The theorem about the records and the tracks: as long as no identity is given
\* again, each box of a record's trail, from the first frame that its live track
\* still knows of, is an object of that track, however the track was lost, merged
\* and trimmed.
THEOREM RecordsFollow == NeverAgain => (RecordSpec => []RecordsFollowTracks)
<1> SUFFICES ASSUME NeverAgain PROVE RecordSpec => []RecordsFollowTracks
  OBVIOUS
<1>1. RecordInit /\ RecordInv => FollowInv
  <2> SUFFICES ASSUME RecordInit, RecordInv PROVE FollowInv
    OBVIOUS
  <2>1. /\ active = {} /\ DOMAIN upload = {}
        /\ frame = 0 /\ counter = 1
    BY DEF RecordInit, Init
  <2>2. MaxFrames * MaxDetections \in Nat /\ MaxFrames - 0 = MaxFrames
    BY TrackerAssumption
  <2>3. (MaxFrames - frame) * MaxDetections + counter - 1 < LastId
    <3> DEFINE all == MaxFrames * MaxDetections
    <3>1. all < LastId /\ all \in Nat /\ LastId \in Nat
      BY <2>2, TrackerAssumption DEF NeverAgain
    <3>2. (MaxFrames - frame) * MaxDetections = all
      BY <2>1, <2>2
    <3> HIDE DEF all
    <3> QED
      BY <2>1, <3>1, <3>2
  <2> QED
    BY <2>1, <2>3 DEF FollowInv, Fresh, Followed
<1>2. FollowInv /\ [RecordNext]_recordVars => FollowInv'
  <2> SUFFICES ASSUME FollowInv, [RecordNext]_recordVars PROVE FollowInv'
    OBVIOUS
  <2>1. CASE RunFrame
    BY <2>1, FrameKeepsFollowInv
  <2>2. CASE UNCHANGED <<vars, upload>>
    <3>1. RecordInv'
      BY <2>2, StutterKeepsRecordInv DEF FollowInv
    <3>2. Fresh' /\ Followed'
      BY <2>2 DEF vars, FollowInv, Fresh, Followed
    <3> QED
      BY <3>1, <3>2 DEF FollowInv
  <2> QED
    BY <2>1, <2>2 DEF RecordNext, Over, recordVars
<1>3. FollowInv => RecordsFollowTracks
  <2> SUFFICES ASSUME FollowInv, NEW id \in DOMAIN upload \cap active,
                      NEW p \in Range(upload[id].trail),
                      p.frame >= tracks[id].objects[1].frame
               PROVE  \E o \in Range(tracks[id].objects) :
                        o.frame = p.frame /\ o.number = p.number
    BY DEF RecordsFollowTracks
  <2>1. Known(p, tracks[id].objects)
    BY DEF FollowInv, Followed
  <2>2. p.frame \in Nat
    BY FitsEnd DEF FollowInv, RecordInv, Records1
  <2>3. tracks[id].objects[1].frame \in Int
    <3> DEFINE s == tracks[id].objects
    <3>1. s \in Seq(Object) /\ Len(s) >= 1
      BY KeptEnd DEF FollowInv, RecordInv, TrackInv, Whole
    <3> HIDE DEF s
    <3>2. s[1] \in Object
      BY <3>1
    <3> QED
      BY <3>2 DEF Object, s
  <2>4. ~ (p.frame < tracks[id].objects[1].frame)
    BY <2>2, <2>3
  <2> QED
    BY <2>1, <2>4 DEF Known, Seen, Same
<1>4. RecordSpec => []RecordInv
  BY RecordInvHolds
<1> QED
  BY <1>1, <1>2, <1>3, <1>4, PTL DEF RecordSpec
===============================================================================
