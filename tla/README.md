# A verification of the video analytics pipeline

This directory holds TLA+ models of the C++ code in `src/` (a library that
decodes a video in one thread and runs neural networks, a tracker and an upload
stage on its frames in another), the TLC runs that check them, and proofs for
the TLA+ proof system. Paths below are relative to the repository.

## 1. Inventory

| Component | State it keeps | Operations | Talks to | What is hard |
|---|---|---|---|---|
| Ring `CircleBuffer<T>` (`src/utils/circlebuffer.h`) | `_tail`, `_head`, per slot `tail`, `head`, `data` | push, pop, size, destructor | any number of threads | lock-free claims, relaxed loads, wrap-around, refusals |
| `ParseVideo` (`src/parse/parse_video.*`) | `frame_list_` (a ring), `stop_`, `be_ready_`, `stream_frames_`, `max_` | parse a file with OpenCV or ffmpeg, `GetParseDate`, getters | a decoder; a consumer in another thread polls its flags | hand-shake by flags, no wait ends by `stop_`, push result ignored, shared pixels |
| `Pipeline` (`src/pipeline/pipeline.*`) | `stages_`, `process_context_`, `is_ready_` | InitPipeline, PushDatatoPipeline, RunPipeline | factories, stages, contexts | objects that outlive it, registration order, dropped results |
| Factories (`stage_register.h`, `device_register.*`) | one stage per name, one engine per name and type, for the whole process | look-up | static initialisers, Pipeline | whatever a stage or an engine remembers |
| `Context` (`abstractengine.*`) | `batches`, `dataflow_`, `out_dataflow_`, shapes, image | TransmitContext | written by a stage, its engine and the stage before | stale parts |
| Amlogic engine | graph, input tensor, `element_sum_` | CreateGraph, RunProcess | the driver | partial failure, accumulated sizes |
| TensorRT engine | none | stubs | – | – |
| Stage yolo (`yolo_decorator_stage.cc`) | none between frames | suppression, filter by score, association of heads, faces and packages with bodies | own context | early returns, results shared by calls, fixed arrays |
| Stages reid, tracker, fcos | tracker: the tracker and its frame index | StagePreProcess, StagePostProcess | own context; tracker also those of yolo and reid | pairing across contexts |
| Stage upload (`upload_decorator_stage.cc`) | a JSON record per identity, the stream configuration | StagePreProcess, UpdataUpLoadJson | own context, that of yolo; files | records that live as long as the process, counters kept beside lists |
| Tracker library (`thirdparty/tracker`, in this tree) | tracks, active ids, lost counts, id counter | Process per frame | tracker stage | a long sequence of frames, forgetting, merging |
| Configuration (`parse_config.cc`, `parse_json.cc`) | lists of configurations | parse | files, protobuf, JSON | lists that grow |
| CNCV interface | none | C entry points, which return at their first statement | – | what follows the returns is dead |

What makes each right: the **ring** gives each slot to one call at a time, keeps
the order, loses and repeats nothing, and refuses only when it must.
**ParseVideo** hands every frame over once, in order and intact, keeps the list
bounded and comes to its end together with its consumer. In a **pipeline** each
stage works on what the stage before has made of the current frame, in the first
pipeline of a process and in any later one; detections, features and tracks
belong together. In the **tracker** identities are unique, tracks grow in time,
lost tracks are forgotten in time. The **detector** stage keeps the best of what
overlaps, matches stably, and makes one person of each body. The **upload**
records agree with the tracks and with their own counters.

## 2. Modules

| Module | Models | Instances |
|---|---|---|
| `CircleBuffer` | the ring, one action per access to shared memory | `MCCircleBuffer`, and inside `ParseVideo` |
| `BoundedFifo` | what the ring promises: a bounded first-in first-out queue | refined by `CircleBuffer` |
| `CircleBufferProofs` | proofs about `CircleBuffer`: slots and storage | – |
| `CircleBufferRefinement` | proofs: size(), refusals, what a pop copies, and that the ring implements `BoundedFifo` | inside `ParseVideoProofs` |
| `RingCapacity` | the constructor's arithmetic in words of a given width | itself |
| `RingCapacityProofs` | proofs about `RingCapacity`, for 4, 8, 16, 32 and 64 bits | – |
| `ParseVideo` | parsing thread, flags and the consuming loops of the tests, composed with `CircleBuffer` by INSTANCE | `MCParseVideo` |
| `ParseVideoProofs` | proofs about `ParseVideo` from those about the ring | – |
| `Pipeline` | pipelines, stages, engines and contexts of one process | `MCPipeline` |
| `PipelineProofs` | proofs about every pipeline of a process, and about the first | – |
| `Detector` | the detector stage on one frame | `MCDetector` |
| `DetectorProofs` | proofs about `Detector` | – |
| `Tracker` | the tracker of the process, frame by frame | inside `UploadRecord` |
| `TrackerProofs` | proofs about `Tracker` | – |
| `UploadRecord` | the records of the upload stage, composed with `Tracker` by EXTENDS | `MCUploadRecord` |
| `UploadRecordProofs` | proofs about `UploadRecord` from those about the tracker | – |

### CircleBuffer

`tail`, `head` are `_tail`, `_head`; `slotTail`, `slotHead`, `slotData` the
fields of the nodes; `pc`, `ticket`, `val` the locals of a call. A call of push
is PushLoad (line 42), PushCheck or PushRefuse (44-45), PushClaim or
PushClaimFails (46-48; the weak exchange may fail without a reason), PushWrite
(50), PushPublish (51); pop has the mirror image and a separate PopDestroy
(66). size() is two loads. With `OrderedLoads = FALSE` the read of the data may
be made before the test of its ticket (PopFetchEarly), which the relaxed load of
line 60 allows on armeabi-v7a. Two things are abstracted: tickets are natural
numbers and the slot is taken modulo the capacity. That masks and overflowing words
do the same is proved (section 4: SlotsInTurnAlways, RangeIsLaps, WordsWillDo).

### ParseVideo

`at` is where each thread is outside the ring; the calls of the ring are the
actions of `Ring!`, interleaved with the other thread load by load. A video is a
record: the routine that parses it, whether it opens, the number of frames its
header reports, how many can be decoded, and whether the decoder then fails.
`pixels` is the one buffer that all queued `cv::Mat` headers refer to.
ParseVideoFromStream and ParseVideoByFFmpeg have one set of actions; where they
differ the action says `FromStream`. The consumer is the loop of the tests
readvideo and video, or that of the test ffmpeg.

### Pipeline

Stages and engines live as long as the process, so `tails` (`tail_stages`),
`sub` (`extra_stage_ptr_`), `built` (`element_sum_`, counted in outputs of the
graph) and `input` (the tensor of the graph) are not reset by NewPipeline. What
goes from stage to stage is a flow: the frame and the person it was made from,
as what it can be read, and whether it comes from a tensor that the driver kept
because it did not take the new one. RegisterStage and RegisterEngine take the
models of a configuration in turn; PushData fills the contexts at position 0;
the stages then run in the order of `stages_`, and each ends with
DeliveryContext (`Deliver`).

What fails, and that the code goes on: CreateGraph, whose result FillStagebyEngine
drops (GraphFails), after which `element_sum_` has not grown, outputs have no size or
that of earlier graphs, and the detector refuses them; `created` remembers it. Copies to
the driver and runs of graphs (`Outcomes`). Where a stage reads or writes what is not
there (Unreadable), StageDies lets the process end or go on. It also lets it end where
reid and upload cut boxes out of the frame (CutsOut): OpenCV throws if a box is empty
or leaves the frame, and nobody catches. Boxes and the sizes of frames are data, so
the model leaves open whether it does.

### Detector

One frame of StagePostProcess, loop by loop. NMSProcess goes through the classes
(Candidates, AllMerged) and in each through the sorted candidates (Select);
FilterBoxByScore is one step. FindAssociationPairs is called for heads and for
faces: MatchOrReturn is its beginning with the early return, TakePair a turn of
its loop, NoMorePairs its end. ComputeAssociate is the rest: MakePersons,
FacePersons, GivePackage. A box is the number of its candidate; which
candidates overlap (`alike`), what a pair costs (`given`) and who is close to a
package are chosen freely, and so is the order in which an unordered_map is gone
through. `nms_boxes`, `cost`, `pairs`, `orphans`, `persons` are the source's
containers. Two peculiarities of the code are transitions: without any head the
early return leaves no orphans, and the bodies of the frame are lost; and the
eleventh package of a person is written past the end of `hand_packages`, after
which nobody knows what happens (`overrun`).

### Tracker

`tracks`, `active`, `counter` are `tracks_`, `active_track_ids_`,
`tracks_counter_`; a track has its `objects`, `lost` and `length`, and `frame`
is the index the stage counts. StagePostProcess is one frame: the whole of
`Process`, written as the functions it calls on the tracker, in their order
(AppendToTrack, AddNewTracks, UpdateLostTracks, DropForgottenTracks, Rectify
with MergeTrack), then the reported identities `out` as `run()` finds them. What
the geometry and the features decide is chosen: how many detections are kept,
which track each goes on (any matching is the greedy result for some
similarities), which jump, where lost tracks are predicted, which pairs are
merged. What the code excludes is excluded: the prediction from one box stays in
the frame, and a box that has no size left is noticed only by the second call of
EraseTrackIfBBoxIsOutOfFrame. The two walks over frame indices, of
GetClosestLocation and of MergeTrack, are modelled step by step, and `stuck`
says that the second does not come to its end. The parameters are those of
config_person_mobile.json: appearance features given, tracks dropped and
rectified. Left out: first_object, the predicted boxes, and what only
GetLostPrediction, all_tracks and drawing use, which the program does not call.

### UploadRecord

RunFrame is a frame of the tracker stage followed by one of the upload stage, as
the pipeline runs them in one thread. `upload` is `upload_struct_`: a record per
identity, which UpdataUpLoadJson makes or goes on with for each detection that
the tracker reports with an identity; no record is ever erased. A point of a
trail is the frame and the number of the detection, a shot the frame it is from;
time_stamp_ is the caller's, and the frame stands for it. `seen` is a history that the
code does not keep: what the detector said of the person at each point of the trail,
by which BestShots tells what the best shot is. A face is compared only where
face_observeed says so (WithFace). UpdataUpLoadJson may also end the process, when it
cuts out a box; that is StageDies of `Pipeline`, and the frames here come through. `regions` is the length
of the list that ParseVideoJson appends to on every frame. SelectAttrofUploadJson
changes nothing, because the box it looks at is always empty; a frame with several
packages of one person leaves only the last in the lists but counts them all
(WithPackages).

## 3. Runs

| Run (cfg) | Bounds | Shows |
|---|---|---|
| `MCCircleBuffer` | 2 pushers, 2 poppers, 2 slots, 5 tickets | the type, safety and refinement properties of the ring |
| `MCCircleBufferReordered` | 2 pushers, 1 popper | storage is constructed and destroyed in turn also with reordered loads, though what a pop copies may be dead (`ParseVideoStale`); the upper bound of size(), which needs a single pusher or popper |
| `RingCapacity` | words of 8 bits, every request | rounding and slots, including the wrap |
| `ParseVideo` | list of 3 in a ring of 4, all videos of up to 6 frames | order, completeness, bounded list, no early use; both threads end, for videos that let the consumer begin |
| `Detector` | 3 bodies, 2 heads, 1 face, 2 packages, 2 scores, 3 costs | suppression, stable matching, one person per body, the loops end |
| `UploadRecord` | 6 frames of up to 2 detections, 3 identities, delay 3, lengths 2 to 3, two kinds of persons | order, identities, ages and ends of tracks, through losing, merging, trimming and the restart of the identities; records that agree with the tracks and with themselves and show the best |
| `Pipeline` | 2 pipelines of 1 to 4 stages, 3 frames, 2 persons | fresh input, paired features, links that stay inside the pipeline, and persons from a first detector with a graph |

Two slots and five tickets let every slot be used in three laps, with every
thread overtaken by a whole lap; two threads a side are enough for every pair of
calls. A list of three in a ring of four has the spare slot that max_ = 10, the
value of the program, has in its ring of 16, and kMaxBufferSize = 20 in its ring
of 32. That slot matters: with a max_ that is a power of two the run finds
EveryFrameQueued violated, because the size that the parsing thread waits for
counts a slot the consumer has taken and not yet released, push refuses, and its
result is ignored. No caller in the repository asks for such a max_. Six frames
are twice the list. Two pipelines are the least in which something can be left
over; with Capacity = 1 a frame of two persons is one too many for a detect_res,
as one of 31 is in the program. Six frames let a track become valid, be lost,
have a gap, be forgotten, and be found again by a younger track whose frames lie
between its own; three identities for two detections a frame make the counter
start again while tracks of the first round live. min_track_duration is 3, not 2
as packaged, because only then young tracks can be noise. With 3 the first
merging is in the last frame; with the packaged 2 in the cfg, which passes as
well (229,389 states), it is a frame earlier and what follows it is seen. Two
kinds of persons are enough for a record to get a better shot, a worse one, one
as good, a first face, and frames with and without packages; ShotsAreTheBest is for
all kinds. Three bodies make a chain of
overlaps in which the middle one decides about the last; two heads compete for
two bodies; a second package is one too many with MaxPackages = 1, as an
eleventh is in the program. Symmetry is used for the ring only, between threads
of one side and between elements, and only for safety properties.

A process may abort or the tests end: both are explicit stuttering actions
(`Gone`, `Over`, `Exit`), so all runs check deadlock.

**Fairness**. In `Detector` the one thread that runs the stage keeps running
(weak fairness of Next). In `ParseVideo` each thread keeps running (weak
fairness of its steps, which the scheduler of the operating system gives), and
`compare_exchange_weak` does not fail spuriously for ever (strong fairness of
the claims, as the loops of the code assume).

### Disagreements found

| Run | What the code does |
|---|---|
| `ParseVideoShort` | a video of at most max_ frames never becomes ready; its consumer waits for ever |
| `ParseVideoAliasing` | a popped frame shows the pixels of a later one |
| `ParseVideoStale` | on armeabi-v7a a pop may return the old content of a slot |
| `PipelineAgain` | the second pipeline of a process hands the raw tensor on as persons |
| `PipelineFeature` | every person gets the descriptor of the first |

PROJECT.json quotes the line of a test or a document that each contradicts. Each
of these runs stops at the first violation.

Four more are in the models as transitions, without a run of their own: the
test ffmpeg takes the end of a sound, short video for a failure (AfterSleep);
readvideo pushes frames of size 0, which the engine reads past their end
(PushData, Unreadable); a graph that is not created is no error to InitPipeline, which
returns true (GraphFails); a trt build aborts on the packaged models.cfg
(RegisterEngine with an engine that is not in Engines).

## 4. Proofs

`CircleBufferProofs` proves, for every set of pushers and poppers, every
capacity and both settings of `OrderedLoads`: TypeCorrect, RingCorrect,
SlotsAreExclusive, ContentCorrect, StorageRespected, DestructorCleansUp. The
assumptions are those of `CircleBuffer`: pushers and poppers are different
threads, the capacity is positive, the two marks are no elements.

SlotExclusive is not inductive: that two pushes never hold one slot depends on
what the slot's tickets say and on how far the counters are apart. `RingInv`
adds that. `SlotsInLap`: the tail of a slot is the ticket of the push that owns
it, less than a lap away from `tail` below and from `head` above, and its head
equals it from publication to release. `PushesInLap` and `PopsInLap`: a call
that has passed its test and still has the current ticket finds its slot so, and
one that has claimed keeps it so. Two claimed tickets with one slot are then
equal (lemma Owner), because different tickets of a slot are a lap apart
(SlotLap). Each step changes the slot of one ticket only; the lemmas named after
the actions show that the slots and calls of other tickets are left alone.

`ContentInv` follows the storage: a slot holds a live element exactly if it is
published and not yet destroyed, or written and not yet published. StorageRespected and
the destructor follow from both invariants. StorageRespected says nothing of when a
pop copies its element: on a build that reorders loads that may be too early. TLC checks both as invariants, too.

`CircleBufferRefinement` continues where these end. `SizeInv` bounds what the two
loads of size() can differ by. `Owned` says of a refused call which ticket the
slot showed it, so that RefusalsAreJustified can point at the call that has the
slot. `Carried` says what a pop that has claimed will return. With `Copied`, that a pop
about to destroy has copied what its slot holds, it gives LifetimesRespected: on either
build StorageLifetimes, and ElementLifetimes where loads are not reordered.
RingImplementsFifo,
for OrderedLoads, maps each step: PushClaim is Enqueue, PopClaim Dequeue,
PopRelease Deliver, PopDestroy and the loads stutter, the destructor is Clear. The
queue of the abstract module is the sequence of elements with tickets from `head`
to `tail`; lemma Window says that no two of them share a slot, and the lemmas
LocalStutter and OwnerStutter that whoever owns a slot can work on it unnoticed.

WordsWillDo closes the gap between the model's tickets, which are natural numbers,
and the program's, which are words that overflow. `InWords` writes each comparison
of a ticket with a counter or with a field of its slot, and the subtraction of
size(), modulo the range of a word, and the theorem says that it comes out as in
natural numbers. Its premise is in the formula: from its load to its test a call is
not overtaken by nearly the whole range of tickets (the range less the capacity). The
capacity must divide the range at least twice. `FreshSlots` is the invariant that is
needed for the -1 of a slot that was never published, which as a word is the largest.

`RingCapacityProofs` proves of the constructor, for words of 4 to 64 bits and every
request, RoundsUpAlways and SlotsInTurnAlways, where the run checks words of 8 bits,
and RangeIsLaps, the premise of WordsWillDo. `RingInv` is the loop's invariant: after
the rounds with shifts 1 to i/2 a place of the mask is set exactly if the request less
one has a bit there or fewer than i places above. After the last round the mask is
all ones up to the highest bit of the request less one (Filled). Below this are
lemmas on numbers and their bits: a number is told by its bits and every choice of
bits is one (BitsTell, BitsExist), a remainder by 2^k keeps the low bits
(RemainderBits), so & with the mask is the remainder (Masked). Powers of two double because
subsets do (Subsets, PowerStep), and induction is over the least number left out
(ByInduction). NextModulo is the overflow: the successor modulo the range, taken
modulo a divisor of it, is the successor modulo the divisor.

`ParseVideoProofs` instantiates `CircleBufferRefinement` with one pusher and one popper.
Lemma UsesRing shows that each step of `ParseVideo` is a step of the ring or
leaves it alone, so all of the ring's invariants hold of the list.
ReadyComesLast follows from the order of the assignments (`OpenedInv`).
ListIsBounded needs `ListInv`: from its call of size() to the claim of its push
the parsing thread knows that the list has room, because only it adds frames and
an old head is never too large. AllFramesAreQueued assumes SpareSlot, that max_
is less than the ring's capacity: the pop in flight then has a slot to itself
and push is never refused (NeverRefused), and `Counted` relates the frames
decoded to the tickets given. FramesArriveInOrder also assumes OrderedLoads; the
run `ParseVideoStale` shows that without it the theorem is false.

NeitherIsLeft is the part of FinishesOnceFilled that does not need fairness: the two
ways in which one thread could wait for the other for ever do not happen. Main
leaves its loop only when stream is `Through`, so the loop that waits for room in
the list has somebody to make it; and if the video has more than max_ frames
(`FillsList`), stream does not end while main waits for ready. The first half follows
from `Signals`, which says where stream is when a flag has its value, and from
UsedIsCounted: main never uses more frames than stream has counted, so a main that
has used all the frames the header reports leaves no frame to push. The second
follows from `Filling`: while main waits, every slot still waits for the ticket of
its own number, no push is refused, whether or not there is a spare slot, and the
frames counted are those in the list, at most max_. For the videos that are not
FillsList the run `ParseVideoShort` shows the second half violated.

VideoTyped completes the ring's type correctness for the rest of the state:
`Flagged` says what the flags of the start hold, `Claimed` which numbers the
threads carry from size() to push and from pop to release.

`DetectorProofs` proves for any scores, costs, gate and numbers of candidates
DetectorCorrect, an invariant of three parts, and from it SuppressionIsSound,
MatchingIsStable, PersonsAreDistinct. `Suppression`: a candidate is marked exactly
if it is kept or overlaps one that is kept, of those select_idx has passed.
`Matching`: an entry of the cost matrix is as given, or is out because its row or
column has a partner that costs no more. `Association`: persons are made of
distinct bodies, heads and faces of what was detected. DetectorTyped rests on
`Ranged`, which follows the lists from the candidates to the persons.

StepsRunOut is what StageEnds rests on: each step of the stage lowers a measure,
the number of phases ahead (`Ahead`) and, within a phase, the candidates not yet
marked, the pairs of the matrix within the gate, or the packages left (`Inside`).
Both are natural numbers, because a frame has finitely many boxes (`FiniteWork`),
so there is no endless run of steps. That a step is taken at all is fairness, and
that one can be is ENABLED; these stay with the run.

`TrackerProofs` proves for all parameters of the tracker, all detections and all
similarities what the run checks of it. TracksAreForgotten: a lost track is gone in
time, so the assertion of AppendToTrack holds, and active_track_ids_ names the
tracks, so no look-up of an active identity throws. Its invariant `ForgetInv` adds
that each track counts in natural numbers. The other theorems (TrackerTyped,
AgesAreRight, OrderIsKept, WalksEnd, DetectionsAreUsedOnce, IdentitiesAreReported,
IdentitiesAreKept) share the invariant `TrackInv`, because none of them is inductive
without the others: two tracks can be merged in order only if their frames are
apart, which GetClosestLocation finds only if both are in order; the age of a
merged track is 0 only if its last object is the young track's, which is of this
frame only if ages were right. `Whole` says of a tracker that every track is `Kept`
(typed, ordered, labelled with its identity, not longer than its length counts) and
that no two tracks share a detection; `Aged` that lost is the age of the last object.
The proof follows Process: a lemma for each function it calls (AppendedWhole,
AddedWhole, UpdatedWhole, RectifiedWhole) says that it keeps a tracker whole and
what it does to the ages. IdentitiesAreKept assumes ShortBeforeLong, rectify_length
< max_num_objects_in_track (5 and 300 in config_person_mobile.json): otherwise the
young track could push everything the lost one had seen out of the merged list.

What the two walks over frame indices compute is proved, too: MeetFinds, that
GetClosestLocation answers 0 exactly if there is a common frame, and
InterleavedMerges, that MergeTrack's walk returns all objects of both tracks in
order if there is none. The walks are recursive functions. The library's induction
theorems cannot be used with the provers at hand, so the module proves what it
needs about sets of numbers: `Induction` for a set that contains 0 and the
successors of its members, and `Recursion`, that a step which looks only at pairs of
smaller rank has a function that satisfies it. WalkInduction is the two together.

`UploadRecordProofs` proves, for all persons as well, TrailsAlwaysAgree,
ShotsAreTheBest and RecordsFollow. `Records1` says of each record that its numbers
fit its lists (`Fits`), that its shots are the best (`Shows`) and that it ends by
the current frame. Lemma ShotKept is the comparison: with one score more the first
best of all scores is the new one if it is better than the best so far, and the old
one otherwise; BestKept applies it to body and face. Whether a record may take a box depends on what the tracker reports: no
identity twice in a frame, so that the box is later than the record's end. This is
`TrackInv`, and `RecordInv` is both. RecordTakes is one detection, UploadedAfter the
loop over the detections (`After` is its invariant), by the same Recursion and
Induction.

RecordsFollow relates the records to the tracks. A track forgets objects only by
trimming, which takes the oldest, so `Known` says of a box of the trail that it is an
object of the track, or that the track is full and begins later. AppendKnows and
MergeKnows show that nothing else is forgotten; the young track of a merger may have
begun before the lost one, but then it pushes out no more of the lost one's objects
than it brings itself (FirstOfMerged). `Followed` is this for all records of live
tracks. A new track must not come upon the record of an old identity: `Fresh` says
that no identity from the counter on has been used (NewIdsAreNew, ProcessFollows).
The theorem therefore assumes `NeverAgain`, that the frames cannot bring more
detections than there are identities: 2^31 - 2 in the program. It is needed: when an
identity is given again its record goes on, and a merger can make the new track begin
before it was given, where the record tells of a stranger. TLC finds this in twelve
frames with four identities, two detections, MinDuration 2, ForgetDelay 3,
RectifyLength 4 and MaxObjects 8. The run `UploadRecord`, with three identities, also
goes through restarts of the counter, but not as far as that.

`PipelineProofs` assumes `Packaged`: every pipeline is made from
`modules/config_file/models.cfg` or from the first models of it, as `MCPipeline`
checks of its instances. For any number of pipelines in the process and any number
of frames and persons it proves PipelineTyped, InputIsFresh and FeaturesPaired, for
engines that fail as they like. FreshInput is not inductive, because the links
between stages outlive the pipeline. `PipelineInv` adds `Chain`: a registered stage
stands at its own place, is linked to the next one, and no stage has ever been
linked to one that is not its neighbour in models.cfg, whichever pipeline did it;
what is left to run is the end of the chain. `Entering` and `Served` carry the frame
along it: the context pushed to, and then the context of the stage that runs next,
hold flows of the frame pushed last, as many as its batches. DeliverKeeps is the
step from one stage to the next that all four kinds of stages share.

LinksLeadInside says where DeliveryContext can end the process: a stage but the last
of its pipeline is linked to its neighbour alone, which has a context, so only the
last stage of a pipeline that is shorter than one before it can have a link that leads
out. DetectorIsRead is about the first pipeline of a process. `FirstInv` says what only
that one has: an engine whose graph was created has counted its outputs once
(`FirstBuilt`), so YoloDerocatestage takes them, and behind the detector there are
persons (`FirstPersons`). A detector whose graph was not created is excepted, because
it hands its output on as it is. The run `PipelineAgain` shows the second pipeline,
where the outputs are counted twice and are not taken.

Every invariant that a run checks on the whole of its state space, and every action
property, is stated by a theorem. Only model-checked is liveness: FinishesOnceFilled
and StageEnds, whose fairness and ENABLED are out of the prover's reach. Their safety
parts are NeitherIsLeft and StepsRunOut.

## 5. Not modelled

- The arithmetic of decoding, boxes, costs and tensors, colour conversion: data,
  not control. Where a decision depends on it the models choose.
- Static initialisation, files, protobuf and JSON parsing.
- The compiler's freedom in the data race on `be_ready_`: the reads are
  separated by calls that the compiler cannot see through.
- What happens after a wild access: StageDies lets the process end or go on, and
  `overrun` ends the frame. Which boxes OpenCV throws on: StageDies lets it throw on
  any.
- Frames of another size in the life of one tracker, which fail an assertion.
- The CNCV interface: its entry points return at their first statement.
- ParseInitJson, which stores nothing, and texts that do not parse: ParseVideoJson
  is given a constant.

Most lines of the repository are not the program's own: a JSON library of 25,000
lines, the OpenCL and OpenVX headers, code generated from protobuf files, and
networks that a converter has written out as C. They hold no control of this
program. The models stand for its own logic, which is what the map names.

## 6. Plan

What would come next, most useful first.

1. RecordsFollowTracks where identities do start again: which records a stranger
   can continue, and for how long.
2. A `Pipeline` whose configurations come in any order, with the links that
   RegisterStage then misses.
3. A tracker that is given frames of another size.
