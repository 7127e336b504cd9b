----------------------------- MODULE UploadRecord -----------------------------
(* The records of the upload stage, upload_decorator_stage.cc, on what the  *)
(* tracker reports: for every identity that has been reported a JSON object *)
(* with the trail of its boxes, its best shots and its hand packages.  The  *)
(* stage lives as long as the process and erases no record; after a frame   *)
(* it writes every record to its file.  A box is the number of its          *)
(* detection and a time the number of its frame: time_stamp_ is the         *)
(* caller's.  Pictures, features and boxes of shots are the frame that they *)
(* were taken in.                                                           *)
EXTENDS Tracker

CONSTANT Persons  \* what the detector can say of a detection

ASSUME PersonsAssumption ==
  Persons \subseteq
    [prob : Nat \ {0}, observed : BOOLEAN, face : Nat, packages : Nat]

VARIABLES
  upload,   \* upload_struct_
  regions   \* the length of stream_info_->config

recordVars == <<vars, upload, regions>>

RecordInit == Init /\ upload = <<>> /\ regions = 0

\* The regions of kStreamInfo, which every ParseVideoJson appends.
Regions == 1

None == 0

NewRecord ==
  [startTimestamp |-> frame + 1, endTimestamp |-> frame + 1,
   bodyTrailNum |-> 0, trail |-> <<>>, seen |-> <<>>,
   bodyProb |-> 0, selected |-> None, feat |-> None,
   faceProb |-> 0, face |-> None,
   handpackageTrailNum |-> 0, packages |-> <<>>]

\* A slip: every shot is taken for the best.
IsBest(prob, best) == TRUE

IsBetter(prob, best) == prob > best

\* A slip: handpk_count is not read back from the record.
PackagesOfFrame(r, person) ==
  IF person.packages = 0 THEN r
  ELSE [r EXCEPT !.handpackageTrailNum = person.packages,
                 !.packages = Append(@, frame + 1)]

\* The packages of a person.  Each is counted, but what is appended to the
\* lists is appended to the lists of the record: the last package remains.
WithPackages(r, person) ==
  IF person.packages = 0 THEN r
  ELSE [r EXCEPT !.handpackageTrailNum = @ + person.packages,
                 !.packages = Append(@, frame + 1)]

\* feat is emptied in every frame, and filled if the shot is better than all
\* before.  What was seen in the boxes is not kept in the code, only here.
WithBody(r, number, person) ==
  LET better == IsBetter(person.prob, r.bodyProb)
  IN  [r EXCEPT !.endTimestamp = frame + 1,
                !.bodyTrailNum = @ + 1,
                !.trail = Append(@, [frame |-> frame + 1, number |-> number]),
                !.seen = Append(@, person),
                !.bodyProb = IF better THEN person.prob ELSE @,
                !.selected = IF better THEN frame + 1 ELSE @,
                !.feat = IF better THEN frame + 1 ELSE None]

\* face_observeed is asked before the face is compared.
WithFace(r, person) ==
  IF person.observed /\ IsBetter(person.face, r.faceProb)
    THEN [r EXCEPT !.faceProb = person.face, !.face = frame + 1]
    ELSE r

\* UpdataUpLoadJson.  SelectAttrofUploadJson changes nothing: the points it
\* looks for in the regions are none.
UpdataUpLoadJson(records, id, number, person) ==
  LET old == IF id \in DOMAIN records THEN records[id] ELSE NewRecord
      new == WithPackages(WithFace(WithBody(old, number, person), person), person)
  IN  [i \in DOMAIN records \cup {id} |-> IF i = id THEN new ELSE records[i]]

\* A slip: the detections without an identity are not counted.
UploadedDense(persons) ==
  LET after[n \in 0 .. Len(out')] ==
        IF n = 0 THEN upload
        ELSE IF out'[n] = NoId THEN after[n - 1]
        ELSE UpdataUpLoadJson(after[n - 1], out'[n],
                    Cardinality({k \in 1 .. n : out'[k] # NoId}), persons[n])
  IN  after[Len(out')]

\* The loop over the detections that the tracker returns, with the person of
\* the same index for each; those without an identity are passed over.
Uploaded(persons) ==
  LET after[n \in 0 .. Len(out')] ==
        IF n = 0 THEN upload
        ELSE IF out'[n] = NoId THEN after[n - 1]
        ELSE UpdataUpLoadJson(after[n - 1], out'[n], n, persons[n])
  IN  after[Len(out')]

UploadPreProcess == regions' = regions + Regions

UploadPostProcess ==
  \E persons \in [{n \in DOMAIN out' : out'[n] # NoId} -> Persons] :
    upload' = Uploaded(persons)

\* The stages of one frame, one after the other in one thread.
RunFrame == StagePostProcess /\ UploadPreProcess /\ UploadPostProcess

RecordNext == RunFrame \/ (Over /\ UNCHANGED <<upload, regions>>)

RecordSpec == RecordInit /\ [][RecordNext]_recordVars

---------------------------------------------------------------------------
(* Properties.                                                             *)

\* What the record of a live track says was seen of it is what the tracker
\* says: each box of its trail, from the first frame that the track still knows
\* of, is an object of that track, through losses, merging and trimming.  (The
\* record of an identity that was merged into another ends there.)  This holds as
\* long as identities are not given again (NeverAgain of UploadRecordProofs): a
\* record that a later track goes on with may also tell of a stranger.
RecordsFollowTracks ==
  \A id \in DOMAIN upload \cap active :
    \A point \in Range(upload[id].trail) :
      point.frame >= tracks[id].objects[1].frame =>
        \E object \in Range(tracks[id].objects) :
          object.frame = point.frame /\ object.number = point.number

\* The trail of a record is in the order of time, one box a frame, from its start
\* to its end, and what the tracker reported in this frame is at its end; the
\* numbers fit the lists, except that the lists of packages have one entry for
\* all packages of a frame.
TrailsAgree ==
  /\ \A n \in DOMAIN out : out[n] # NoId =>
       /\ out[n] \in DOMAIN upload
       /\ Last(upload[out[n]].trail) = [frame |-> frame, number |-> n]
  /\ \A id \in DOMAIN upload :
       LET r == upload[id]
           times == [i \in DOMAIN r.trail |-> r.trail[i].frame]
       IN  /\ \A i, j \in DOMAIN times : i < j => times[i] < times[j]
           /\ r.bodyTrailNum = Len(r.trail)
           /\ r.startTimestamp = times[1] /\ r.endTimestamp = Last(times)
           /\ \A i, j \in DOMAIN r.packages : i < j => r.packages[i] < r.packages[j]
           /\ Range(r.packages) \subseteq Range(times)
           /\ r.handpackageTrailNum >= Len(r.packages)

\* Score i is the first of the best.
FirstBest(scores, i) ==
  \A j \in DOMAIN scores :
    scores[j] <= scores[i] /\ (j < i => scores[j] < scores[i])

\* What a record shows of a body or a face was taken at the first box of its
\* trail where it was seen best, and there is nothing only if nothing was seen.
IsBestShot(scores, trail, best, shot) ==
  IF \A i \in DOMAIN scores : scores[i] = 0
    THEN best = 0 /\ shot = None
    ELSE \E i \in DOMAIN scores : /\ FirstBest(scores, i)
                                 /\ best = scores[i] /\ shot = trail[i].frame

\* What was seen of the body, and of the face where it was observed, at each box.
Bodies(r) == [i \in DOMAIN r.seen |-> r.seen[i].prob]

Faces(r) ==
  [i \in DOMAIN r.seen |-> IF r.seen[i].observed THEN r.seen[i].face ELSE 0]

\* The shots of a record are the best that were seen of its person and of its
\* face, over all frames and however often the tracker lost it.  The feature is
\* that of the selected shot, until a later frame, though as good, empties it.
BestShots ==
  \A id \in DOMAIN upload :
    LET r == upload[id]
    IN  /\ Len(r.seen) = Len(r.trail)
        /\ r.selected # None
        /\ IsBestShot(Bodies(r), r.trail, r.bodyProb, r.selected)
        /\ IsBestShot(Faces(r), r.trail, r.faceProb, r.face)
        /\ r.feat = IF r.selected = r.endTimestamp THEN r.selected ELSE None
===============================================================================
