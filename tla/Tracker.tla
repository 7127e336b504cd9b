------------------------------- MODULE Tracker -------------------------------
(* The tracker of the process: src/thirdparty/tracker as the stage          *)
(* tracker_decorator_stage.cc drives it, one frame after the other.  The    *)
(* stage and its tracker live as long as the process, and so do the frame   *)
(* index and the identities.  What the geometry and the features decide is  *)
(* left open: which detections are good enough, which track each goes on,   *)
(* how far it has jumped, where a lost track is predicted, which two tracks *)
(* look alike.  A detection is the frame it was made in and its number      *)
(* there.                                                                   *)
EXTENDS Integers, FiniteSets, SequencesExt

CONSTANTS
  MinDuration,    \* min_track_duration: 2 in config_person_mobile.json
  ForgetDelay,    \* forget_delay: 50
  RectifyLength,  \* rectify_length: 5
  MaxObjects,     \* max_num_objects_in_track: 300
  LastId,         \* the identity after which the counter is 1 again: 2^31 - 2
  MaxDetections,  \* the detections of a frame: 30, the length of a detect_res
  MaxFrames       \* bound: frames tracked

\* A frame does not use an identity twice for new tracks.
ASSUME TrackerAssumption ==
  /\ MinDuration \in Nat /\ ForgetDelay \in Nat /\ MaxFrames \in Nat
  /\ RectifyLength \in Nat \ {0} /\ MaxObjects \in Nat \ {0}
  /\ LastId \in Nat \ {0} /\ MaxDetections \in 0 .. LastId

Ids == 1 .. LastId

VARIABLES
  frame,    \* frame_idx_ of the stage: frames tracked so far
  tracks,   \* tracks_
  active,   \* active_track_ids_
  counter,  \* tracks_counter_
  out,      \* the track_id of each accepted detection of the last frame
  stuck     \* MergeTrack does not come to an end

vars == <<frame, tracks, active, counter, out, stuck>>

Object == [frame : 1 .. MaxFrames, number : 1 .. MaxDetections, id : Ids]

Track == [objects : Seq(Object), lost : Nat, length : Nat]

NoId == -1

TypeOK ==
  /\ frame \in 0 .. MaxFrames
  /\ DOMAIN tracks \subseteq Ids /\ Range(tracks) \subseteq Track
  /\ \A id \in DOMAIN tracks : Len(tracks[id].objects) \in 1 .. MaxObjects
  /\ active \subseteq Ids
  /\ counter \in Ids
  /\ out \in UNION {[1 .. n -> Ids \cup {NoId}] : n \in 0 .. MaxDetections}
  /\ stuck \in BOOLEAN

Init ==
  /\ frame = 0
  /\ tracks = <<>>
  /\ active = {}
  /\ counter = 1
  /\ out = <<>>
  /\ stuck = FALSE

---------------------------------------------------------------------------
(* A tracker is tracks_ and active_track_ids_.                             *)

Erased(t, ids) ==
  [tracks |-> Restrict(t.tracks, DOMAIN t.tracks \ ids), active |-> t.active \ ids]

LastObjects(s) == SubSeq(s, Len(s) - MaxObjects + 1, Len(s))

\* A slip that could have been made in the code, as all definitions whose
\* comment begins so; Next uses none of them.  Nothing is trimmed.
TrimmedNever(s) == s

Trimmed(s) == IF Len(s) > MaxObjects THEN LastObjects(s) ELSE s

\* A slip: a matched detection is left in unmatched_detections.
AssignmentsShared(ids, numbers) == UNION {[some -> numbers] : some \in SUBSET ids}

\* PreProcess keeps the detections that are sure and well shaped: how many.
PreProcess == 0 .. MaxDetections

\* SolveAssignmentProblem: whatever the similarities, the best pair first and
\* none with a track or a detection that is taken.
Assignments(ids, numbers) ==
  UNION {{m \in [some -> numbers] : IsInjective(m)} : some \in SUBSET ids}

\* A young track is noise if its detection has jumped.
MayBeNoise(track) == 2 * Len(track.objects) < MinDuration

AppendToTrack(track, id, number) ==
  [objects |-> Trimmed(Append(track.objects, [frame |-> frame + 1, number |-> number, id |-> id])),
   lost |-> 0, length |-> track.length + 1]

\* The detection of a track that is erased as noise starts no other.
Appended(t, matches, noise) ==
  Erased([t EXCEPT !.tracks = [id \in DOMAIN @ |->
                                 IF id \in DOMAIN matches
                                   THEN AppendToTrack(@[id], id, matches[id])
                                   ELSE @[id]]],
         noise)

\* tracks_counter_ when the detection is reached.
NewId(number, numbers) ==
  ((counter - 1 + Cardinality({n \in numbers : n < number})) % LastId) + 1

NewTrack(id, number) ==
  [objects |-> <<[frame |-> frame + 1, number |-> number, id |-> id]>>,
   lost |-> 0, length |-> 1]

\* A slip: tracks_[tracks_counter_] = track_ptr.
AddNewTracksOver(t, numbers) ==
  LET new == {NewId(n, numbers) : n \in numbers}
      NumberOf(id) == CHOOSE n \in numbers : NewId(n, numbers) = id
  IN  [tracks |-> [id \in DOMAIN t.tracks \cup new |->
                     IF id \in new THEN NewTrack(id, NumberOf(id))
                                   ELSE t.tracks[id]],
       active |-> t.active \cup new]

\* AddNewTracks: emplace leaves a track alone that has the identity already.
AddNewTracks(t, numbers) ==
  LET new == {NewId(n, numbers) : n \in numbers} \ DOMAIN t.tracks
      NumberOf(id) == CHOOSE n \in numbers : NewId(n, numbers) = id
  IN  [tracks |-> [id \in DOMAIN t.tracks \cup new |->
                     IF id \in new THEN NewTrack(id, NumberOf(id))
                                   ELSE t.tracks[id]],
       active |-> t.active \cup new]

\* EraseTrackIfBBoxIsOutOfFrame, where the predicted box sticks out of the
\* frame.  It is called a second time if there were tracks to assign to
\* (again): a box cut off at the far border may then have no size left.
OutOfFrame(track, place, again) ==
  \/ place # "inside" /\ track.lost > ForgetDelay \div 3
  \/ place = "outside" /\ again

IsTrackForgotten(track) == track.lost > ForgetDelay

\* A slip: no shorter delay for short tracks.
LostOnlyTooManyFramesAgo(track) == IsTrackForgotten(track)

LostTooManyFramesAgo(track) ==
  \/ IsTrackForgotten(track)
  \/ track.length < 3 /\ track.lost > ForgetDelay \div 3

\* UpdateLostTracks on the tracks without a detection in this frame.
UpdateLostTracks(t, place, again) ==
  LET aged == [id \in DOMAIN t.tracks |->
                 IF id \in DOMAIN place THEN [t.tracks[id] EXCEPT !.lost = @ + 1]
                                        ELSE t.tracks[id]]
      gone == {id \in DOMAIN place : \/ OutOfFrame(aged[id], place[id], again)
                                     \/ LostTooManyFramesAgo(aged[id])}
  IN  Erased([t EXCEPT !.tracks = aged], gone)

\* The prediction from a single box is that box, which is in the frame; that a
\* box is cut is of no account as long as its track has not been lost for long.
Predictions(ids) ==
  {p \in [ids -> {"inside", "cut", "outside"}] :
     \A id \in ids :
       /\ Len(tracks[id].objects) = 1 => p[id] = "inside"
       /\ tracks[id].lost < ForgetDelay \div 3 => p[id] # "cut"}

DropForgottenTracks(t) ==
  Erased(t, {id \in DOMAIN t.tracks : IsTrackForgotten(t.tracks[id])})

---------------------------------------------------------------------------
(* Rectify: a track that has reached its length goes on a lost one.        *)

IsTrackValid(track) == track.length > MinDuration

\* GetClosestLocation answers 0: the walk finds a frame that both tracks have.
Meet(a, b) ==
  LET walk[p \in (1 .. Len(a) + 1) \X (1 .. Len(b) + 1)] ==
        LET i == p[1]
            j == p[2]
        IN  IF i > Len(a) \/ j > Len(b) THEN FALSE
            ELSE IF a[i].frame < b[j].frame THEN walk[<<i + 1, j>>]
            ELSE IF a[i].frame > b[j].frame THEN walk[<<i, j + 1>>]
            ELSE TRUE
  IN  walk[<<1, 1>>]

\* The walk of MergeTrack, as far as it comes: it stays where the frames are
\* equal.
Interleaved(a, b) ==
  LET walk[p \in (1 .. Len(a) + 1) \X (1 .. Len(b) + 1)] ==
        LET i == p[1]
            j == p[2]
        IN  IF i > Len(a) THEN SubSeq(b, j, Len(b))
            ELSE IF j > Len(b) THEN SubSeq(a, i, Len(a))
            ELSE IF a[i].frame < b[j].frame THEN <<a[i]>> \o walk[<<i + 1, j>>]
            ELSE IF a[i].frame > b[j].frame THEN <<b[j]>> \o walk[<<i, j + 1>>]
            ELSE <<>>
  IN  walk[<<1, 1>>]

WalkEnds(a, b) == Len(Interleaved(a, b)) = Len(a) + Len(b)

Relabelled(objects, id) ==
  [i \in DOMAIN objects |-> [objects[i] EXCEPT !.id = id]]

\* A slip: the objects of the second track keep their identity.
MergeTrackUnlabelled(track1, track2) ==
  [objects |-> Trimmed(Interleaved(track1.objects, track2.objects)),
   lost |-> 0, length |-> track1.length + track2.length]

\* A slip: the objects of the second track follow those of the first.
MergeTrackAtEnd(track1, track2) ==
  [objects |-> Trimmed(track1.objects \o
                       Relabelled(track2.objects, track1.objects[1].id)),
   lost |-> 0, length |-> track1.length + track2.length]

\* A slip: the merged track is still lost.
MergeTrackLost(track1, track2) ==
  [objects |-> Trimmed(Interleaved(track1.objects,
                         Relabelled(track2.objects, track1.objects[1].id))),
   lost |-> track1.lost, length |-> track1.length + track2.length]

\* MergeTrack: the objects of the second take the identity of the first.
MergeTrack(track1, track2) ==
  [objects |-> Trimmed(Interleaved(track1.objects,
                         Relabelled(track2.objects, track1.objects[1].id))),
   lost |-> 0, length |-> track1.length + track2.length]

NewIds(t) ==
  {id \in t.active : /\ t.tracks[id].lost = 0
                     /\ t.tracks[id].length = RectifyLength}

LostIds(t) ==
  {id \in t.active : t.tracks[id].lost > 0 /\ IsTrackValid(t.tracks[id])}

\* A slip: the answer 0 of GetClosestLocation is not looked at.
MayAlwaysMerge(track1, track2) == TRUE

\* Two tracks that have a frame in common are two persons.
MayMerge(track1, track2) == ~Meet(track1.objects, track2.objects)

\* The lost tracks that are found, each in one new track.
Mergers(t) ==
  {m \in Assignments(LostIds(t), NewIds(t)) :
     \A id \in DOMAIN m : MayMerge(t.tracks[id], t.tracks[m[id]])}

Rectified(t, merge) ==
  Erased([t EXCEPT !.tracks = [id \in DOMAIN @ |->
                                 IF id \in DOMAIN merge
                                   THEN MergeTrack(@[id], @[merge[id]])
                                   ELSE @[id]]],
         Range(merge))

---------------------------------------------------------------------------
(* TrackedDetections, and run(), which finds the detections again by their *)
(* boxes.                                                                  *)

Reported(t) ==
  {id \in t.active : IsTrackValid(t.tracks[id]) /\ t.tracks[id].lost = 0}

TrackId(t, number) ==
  LET at == {id \in Reported(t) :
               /\ Last(t.tracks[id].objects).frame = frame + 1
               /\ Last(t.tracks[id].objects).number = number}
  IN  IF at = {} THEN NoId
      ELSE Last(t.tracks[CHOOSE id \in at : \A other \in at : id <= other].objects).id

---------------------------------------------------------------------------
(* The stage: one frame after the other, each tracked to the end.          *)

\* The tracker when Process comes to Rectify.
BeforeRectify(n, matches, noise, place) ==
  LET now == [tracks |-> tracks, active |-> active]
      grown == AddNewTracks(Appended(now, matches, noise), (1 .. n) \ Range(matches))
  IN  DropForgottenTracks(UpdateLostTracks(grown, place, active # {} /\ n > 0))

\* Rectify, and what the caller gets.
RectifyAndReport(n, matches, t, merge) ==
  LET done == Rectified(t, merge)
  IN  /\ tracks' = done.tracks
      /\ active' = done.active
      /\ counter' = ((counter - 1 + n - Cardinality(DOMAIN matches)) % LastId) + 1
      /\ out' = [number \in 1 .. n |-> TrackId(done, number)]
      /\ stuck' = \E id \in DOMAIN merge :
                     ~ WalkEnds(t.tracks[id].objects, t.tracks[merge[id]].objects)

\* tracker_inference with the detections 1 .. n; those PreProcess does not keep
\* get NoId and leave no trace.
Process(n) ==
  \E matches \in Assignments(active, 1 .. n) :
  \E noise \in SUBSET {id \in DOMAIN matches : MayBeNoise(tracks[id])} :
  \E place \in Predictions(active \ DOMAIN matches) :
    LET t == BeforeRectify(n, matches, noise, place)
    IN  \E merge \in Mergers(t) : RectifyAndReport(n, matches, t, merge)

StagePostProcess ==
  /\ frame < MaxFrames /\ ~stuck
  /\ frame' = frame + 1
  /\ \E n \in PreProcess : Process(n)

\* The video is over.
Over == frame = MaxFrames /\ UNCHANGED vars

Next == StagePostProcess \/ Over

Spec == Init /\ [][Next]_vars

---------------------------------------------------------------------------
(* What the tracker must guarantee.                                        *)

\* lost tells how long ago a track was last seen, through losses, merging and
\* trimming: so a track that is not lost was seen in this very frame, and what
\* is reported with its identity is its box there.
LostIsAge ==
  /\ active = DOMAIN tracks
  /\ \A id \in active : tracks[id].lost = frame - Last(tracks[id].objects).frame

\* A track is gone when it has been lost for too long, for a third of the time
\* if it is short: AppendToTrack, which asserts that, never meets a later one.
ForgottenInTime ==
  \A id \in active :
    /\ tracks[id].lost <= ForgetDelay
    /\ tracks[id].length < 3 => tracks[id].lost <= ForgetDelay \div 3

\* The objects of a track are in the order of their frames, one a frame, also
\* when two tracks have been merged: the walks of GetClosestLocation and of
\* MergeTrack and the speed in PredictRect3 rest on it.
TracksInOrder ==
  \A id \in active :
    LET objects == tracks[id].objects
    IN  \A i, j \in DOMAIN objects : i < j => objects[i].frame < objects[j].frame

\* MergeTrack, whose walk does not advance over a frame that both tracks have,
\* is never called with two such tracks, even after earlier merging.
MergingEnds == ~stuck

\* A detection is part of one track at most: matching, new tracks and merging
\* never use one twice.
OneTrackPerDetection ==
  \A id, other \in active :
    \A i \in DOMAIN tracks[id].objects, j \in DOMAIN tracks[other].objects :
      (/\ tracks[id].objects[i].frame = tracks[other].objects[j].frame
       /\ tracks[id].objects[i].number = tracks[other].objects[j].number)
      => id = other /\ i = j

\* The track_id that is reported, which is taken from an object, is the identity
\* of the track that has the detection, and no other of the frame has it.
ReportedIdIsTheTracks ==
  \A d \in DOMAIN out : out[d] # NoId =>
    /\ out[d] \in active
    /\ Last(tracks[out[d]].objects).number = d
    /\ \A other \in DOMAIN out : out[other] = out[d] => other = d

\* While a track lives its identity is given to no other, not even when the
\* counter starts again: what was last seen of it is still part of it.  (Only a
\* track erased as noise may leave its identity to a new one in the same frame.)
KeepsIdentity ==
  [][\A id \in DOMAIN tracks \cap DOMAIN tracks' :
       \/ MayBeNoise(tracks[id])
       \/ \E object \in Range(tracks'[id].objects) :
            /\ object.frame = Last(tracks[id].objects).frame
            /\ object.number = Last(tracks[id].objects).number]_vars
===============================================================================
