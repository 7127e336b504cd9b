---------------------------- MODULE ParseVideo ----------------------------
(* Decoding a video in a thread of its own: src/parse/parse_video.{h,cc}   *)
(* and the loops of tests/st/st_test.cc that consume the frames.  The      *)
(* thread "stream" runs ParseVideoFromStream or ParseVideoByFFmpeg, the    *)
(* thread "main" waits for GetReady and then takes frames with             *)
(* GetParseDate.  They share the ring frame_list_, call by call and load   *)
(* by load as in CircleBuffer, and the flags stop_ and be_ready_.          *)
EXTENDS Integers, FiniteSets

CONSTANTS
  BufferSize,     \* the argument of the constructor
  MaxFrames,      \* bound: the length of the longest video
  Videos,         \* the videos a run starts from, see VideosAssumption
  OrderedLoads,   \* as in CircleBuffer
  Raw, Unread     \* as in CircleBuffer

Frames == 1 .. MaxFrames

\* A video and the routine that parses it: it opens or not, its header reports
\* a number of frames, a number of them can be decoded, and the decoder then
\* fails or meets the end.
Video == [routine : {"FromStream", "ByFFmpeg"}, opens : BOOLEAN,
          reported : 0 .. MaxFrames, decodable : 0 .. MaxFrames,
          breaks : BOOLEAN]

ASSUME BufferAssumption == BufferSize \in Nat \ {0}
ASSUME BoundAssumption == MaxFrames \in Nat
ASSUME VideosAssumption == Videos \subseteq Video
ASSUME MarksAssumption ==
  Raw \notin Frames /\ Unread \notin Frames /\ Raw # Unread

kMaxBufferSize == 20

\* max_, from the constructor of ParseVideo.
Limit(size) == IF size > kMaxBufferSize THEN kMaxBufferSize ELSE size
Max == Limit(BufferSize)

\* A slip: the ring is made exactly as large as the list.
RoundUpNot(n) == n

\* The capacity the ring rounds a request up to (see RingCapacity).
RoundUp(n) == CHOOSE c \in {2 ^ i : i \in 0 .. 5} :
                c >= n /\ \A i \in 0 .. 5 : 2 ^ i >= n => c <= 2 ^ i

VARIABLES
  tail, head, slotTail, slotHead, slotData, pc, ticket, val, alive, \* the ring
  video,          \* the input
  created,        \* frame_list_ points to the ring
  stop, ready,    \* stop_, be_ready_
  streamFrames,   \* stream_frames_, Unset before it is assigned
  decoded,        \* frames decoded so far
  pixels,         \* the frame in the buffer that every pushed cv::Mat shares
  total,          \* total_frames
  at,             \* where each thread is, outside the calls of the ring
  failed,         \* the parse routine returns an error
  totalTurn,      \* total_turn
  turns,          \* count_run_turn
  img             \* the frame whose cv::Mat main has popped

ringVars == <<tail, head, slotTail, slotHead, slotData, pc, ticket, val, alive>>
flagVars == <<created, stop, ready, streamFrames, failed>>
mainVars == <<totalTurn, turns, img>>
vars == <<ringVars, flagVars, mainVars, video, decoded, pixels, total, at>>

Unset == -1

FromStream == video.routine = "FromStream"

Ring == INSTANCE CircleBuffer
          WITH Pushers <- {"stream"}, Poppers <- {"main"}, Data <- Frames,
               Capacity <- RoundUp(Max), MaxTickets <- MaxFrames

TypeOK ==
  /\ Ring!TypeOK
  /\ video \in Videos
  /\ {created, stop, ready, failed} \subseteq BOOLEAN
  /\ {streamFrames, totalTurn} \subseteq 0 .. MaxFrames \cup {Unset}
  /\ {decoded, pixels, total, turns} \subseteq 0 .. MaxFrames
  /\ at \in [stream : {"open", "loop", "size", "sizing", "full", "push",
                       "pushing", "stop", "unready", "done"},
             main : {"wait", "waited", "total", "loop", "test", "size",
                     "sizing", "pop", "popping", "use", "join", "done"}]
  /\ img \in Frames \cup {Raw, Unread}

\* A slip: be_ready_ starts as TRUE.
InitReady ==
  /\ Ring!Init
  /\ video \in Videos
  /\ created = FALSE
  /\ stop = FALSE
  /\ ready = TRUE
  /\ streamFrames = Unset
  /\ decoded = 0
  /\ pixels = 0
  /\ total = 0
  /\ at = [stream |-> "open", main |-> "wait"]
  /\ failed = FALSE
  /\ totalTurn = Unset
  /\ turns = 0
  /\ img = Unread

Init ==
  /\ Ring!Init
  /\ video \in Videos
  /\ created = FALSE
  /\ stop = FALSE
  /\ ready = FALSE
  /\ streamFrames = Unset
  /\ decoded = 0
  /\ pixels = 0
  /\ total = 0
  /\ at = [stream |-> "open", main |-> "wait"]
  /\ failed = FALSE
  /\ totalTurn = Unset
  /\ turns = 0
  /\ img = Unread

Stream(from, to) == at.stream = from /\ at' = [at EXCEPT !.stream = to]
Main(from, to) == at.main = from /\ at' = [at EXCEPT !.main = to]

---------------------------------------------------------------------------
(* Actions with a slip that could have been made in the code; they are no  *)
(* part of Next.                                                           *)

\* The decoder is asked again after the last frame, and its result used.
DecodePastEnd ==
  /\ ~stop
  /\ Stream("loop", "size")
  /\ decoded' = decoded + 1
  /\ pixels' = decoded + 1
  /\ UNCHANGED <<ringVars, flagVars, mainVars, video, total>>

\* size() > max_ instead of size() >= max_.
StreamSizedLate ==
  /\ Stream("sizing", IF Ring!SizeResult("stream") > Max THEN "full"
                                                         ELSE "push")
  /\ Ring!SizeReturn("stream")
  /\ UNCHANGED <<flagVars, mainVars, video, decoded, pixels, total>>

\* `if` instead of `while`: after its sleep stream pushes.
ListFullOnce ==
  /\ Stream("full", "push")
  /\ ready' = TRUE
  /\ UNCHANGED <<ringVars, mainVars, created, stop, streamFrames, failed,
                 video, decoded, pixels, total>>

\* stop_ is not set at the end.
SetStopForgotten ==
  /\ Stream("stop", "unready")
  /\ UNCHANGED <<ringVars, mainVars, flagVars, video, decoded, pixels, total>>

---------------------------------------------------------------------------
(* The thread "stream".                                                    *)

\* The file does not open, or has no stream that a decoder can be found for.
OpenFails ==
  /\ ~video.opens
  /\ Stream("open", "stop")
  /\ failed' = TRUE
  /\ UNCHANGED <<ringVars, mainVars, video, created, stop, ready,
                 streamFrames, decoded, pixels, total>>

\* The ring is made and, by ParseVideoFromStream only, stream_frames_ is set.
Open ==
  /\ video.opens
  /\ Stream("open", "loop")
  /\ created' = TRUE
  /\ streamFrames' = IF FromStream THEN video.reported
                                               ELSE streamFrames
  /\ UNCHANGED <<ringVars, mainVars, video, stop, ready, failed,
                 decoded, pixels, total>>

WantsMore == ~stop /\ (FromStream => total < streamFrames)

\* The next frame is decoded into the buffer that the frame before it, and
\* every cv::Mat pushed so far, refers to: neither `capture >> frame` nor
\* cvtColor makes a new buffer for a frame of the same size, and push copies
\* the header of a cv::Mat only.
Decode ==
  /\ WantsMore
  /\ decoded < video.decodable
  /\ Stream("loop", "size")
  /\ decoded' = decoded + 1
  /\ pixels' = decoded + 1
  /\ UNCHANGED <<ringVars, flagVars, mainVars, video, total>>

\* The reported number of frames has been read.
AllRead ==
  /\ ~WantsMore
  /\ Stream("loop", "stop")
  /\ UNCHANGED <<ringVars, flagVars, mainVars, video, decoded, pixels, total>>

\* There is no further frame.  ParseVideoFromStream notices an empty frame,
\* ParseVideoByFFmpeg leaves its loop or returns the error of the decoder.
DecodeFails ==
  /\ WantsMore
  /\ decoded = video.decodable
  /\ Stream("loop", "stop")
  /\ ready' = IF FromStream THEN FALSE ELSE ready
  /\ failed' = (~FromStream /\ video.breaks)
  /\ UNCHANGED <<ringVars, mainVars, video, created, stop, streamFrames,
                 decoded, pixels, total>>

\* frame_list_->size() is called ...
StreamSize ==
  /\ Stream("size", "sizing")
  /\ Ring!SizeLoadHead("stream")
  /\ UNCHANGED <<flagVars, mainVars, video, decoded, pixels, total>>

\* ... and compared with max_.
StreamSized ==
  /\ Stream("sizing", IF Ring!SizeResult("stream") >= Max THEN "full"
                                                          ELSE "push")
  /\ Ring!SizeReturn("stream")
  /\ UNCHANGED <<flagVars, mainVars, video, decoded, pixels, total>>

\* be_ready_ = true; usleep: only a full list lets main begin.
ListFull ==
  /\ Stream("full", "size")
  /\ ready' = TRUE
  /\ UNCHANGED <<ringVars, mainVars, created, stop, streamFrames, failed,
                 video, decoded, pixels, total>>

StreamPush ==
  /\ Stream("push", "pushing")
  /\ Ring!PushLoad("stream", decoded)
  /\ UNCHANGED <<flagVars, mainVars, video, decoded, pixels, total>>

\* push returns; its result is not looked at.
StreamPushed ==
  /\ Stream("pushing", "loop")
  /\ Ring!PushPublish("stream") \/ Ring!PushRefuse("stream")
  /\ total' = total + 1
  /\ UNCHANGED <<flagVars, mainVars, video, decoded, pixels>>

SetStop ==
  /\ Stream("stop", "unready")
  /\ stop' = TRUE
  /\ UNCHANGED <<ringVars, mainVars, created, ready, streamFrames, failed,
                 video, decoded, pixels, total>>

ClearReady ==
  /\ Stream("unready", "done")
  /\ ready' = FALSE
  /\ UNCHANGED <<ringVars, mainVars, created, stop, streamFrames, failed,
                 video, decoded, pixels, total>>

---------------------------------------------------------------------------
(* The thread "main": the test cases readvideo and video consume what      *)
(* ParseVideoFromStream decodes, the test case ffmpeg what                 *)
(* ParseVideoByFFmpeg does.                                                *)

othersUnchanged == UNCHANGED <<flagVars, video, decoded, pixels, total>>

\* while (!GetReady()) sleep(1)
WaitReady ==
  /\ Main("wait", IF ~ready THEN "waited"
                  ELSE IF FromStream THEN "total" ELSE "loop")
  /\ UNCHANGED <<ringVars, mainVars>> /\ othersUnchanged

\* Only the test case ffmpeg looks at stop_ while it waits, and gives up.
AfterSleep ==
  /\ Main("waited", IF ~FromStream /\ stop THEN "join" ELSE "wait")
  /\ UNCHANGED <<ringVars, mainVars>> /\ othersUnchanged

ReadTotal ==
  /\ Main("total", "loop")
  /\ totalTurn' = streamFrames
  /\ UNCHANGED <<ringVars, turns, img>> /\ othersUnchanged

\* The first half of the condition of the consuming loop ...
TestTurns ==
  /\ Main("loop", IF (IF FromStream THEN turns < totalTurn
                                                ELSE ~stop)
                    THEN "test" ELSE "join")
  /\ UNCHANGED <<ringVars, mainVars>> /\ othersUnchanged

\* ... and the second, GetReady().
TestReady ==
  /\ Main("test", IF ready THEN "size" ELSE "join")
  /\ UNCHANGED <<ringVars, mainVars>> /\ othersUnchanged

\* GetParseDate: no pop when size() is 0.
MainSize ==
  /\ Main("size", "sizing")
  /\ Ring!SizeLoadHead("main")
  /\ UNCHANGED mainVars /\ othersUnchanged

MainSized ==
  /\ Main("sizing", IF Ring!SizeResult("main") = 0 THEN "loop" ELSE "pop")
  /\ Ring!SizeReturn("main")
  /\ UNCHANGED mainVars /\ othersUnchanged

MainPop ==
  /\ Main("pop", "popping")
  /\ Ring!PopLoad("main")
  /\ UNCHANGED mainVars /\ othersUnchanged

MainPopRefused ==
  /\ Main("popping", "loop")
  /\ Ring!PopRefuse("main")
  /\ UNCHANGED mainVars /\ othersUnchanged

MainPopped ==
  /\ Main("popping", "use")
  /\ Ring!PopRelease("main")
  /\ img' = val["main"]
  /\ UNCHANGED <<totalTurn, turns>> /\ othersUnchanged

\* imwrite, or PushDatatoPipeline and RunPipeline, read the pixels of img.
UseFrame ==
  /\ Main("use", "loop")
  /\ turns' = turns + 1
  /\ img' = Unread
  /\ UNCHANGED <<ringVars, totalTurn>> /\ othersUnchanged

\* thread_stream.join()
Join ==
  /\ at.stream = "done"
  /\ Main("join", "done")
  /\ UNCHANGED <<ringVars, mainVars>> /\ othersUnchanged

---------------------------------------------------------------------------
\* Inside a call of the ring.
outsideUnchanged ==
  UNCHANGED <<flagVars, mainVars, video, decoded, pixels, total, at>>

StreamClaims == Ring!PushClaim("stream") /\ outsideUnchanged
MainClaims == Ring!PopClaim("main") /\ outsideUnchanged

StreamInRing ==
  \/ StreamClaims
  \/ /\ \/ Ring!PushCheck("stream")
        \/ Ring!PushClaimFails("stream")
        \/ Ring!PushWrite("stream")
     /\ outsideUnchanged

MainInRing ==
  \/ MainClaims
  \/ /\ \/ Ring!PopFetchEarly("main")
        \/ Ring!PopCheck("main")
        \/ Ring!PopClaimFails("main")
        \/ Ring!PopRead("main")
        \/ Ring!PopDestroy("main")
     /\ outsideUnchanged

\* The ParseVideo of the test case goes, and the ring with it.
Release ==
  /\ at = [stream |-> "done", main |-> "done"]
  /\ created
  /\ Ring!Destroy
  /\ outsideUnchanged

\* The test case is over.
Over ==
  /\ at = [stream |-> "done", main |-> "done"]
  /\ created => ~alive
  /\ UNCHANGED vars

StreamStep ==
  \/ OpenFails \/ Open \/ Decode \/ AllRead \/ DecodeFails
  \/ StreamSize \/ StreamSized \/ ListFull \/ StreamPush \/ StreamPushed
  \/ SetStop \/ ClearReady

MainStep ==
  \/ WaitReady \/ AfterSleep \/ ReadTotal \/ TestTurns \/ TestReady
  \/ MainSize \/ MainSized \/ MainPop \/ MainPopRefused \/ MainPopped
  \/ UseFrame \/ Join

Next ==
  \/ StreamStep \/ StreamInRing
  \/ MainStep \/ MainInRing
  \/ Release \/ Over

Spec == Init /\ [][Next]_vars

\* Both threads keep running, and compare_exchange_weak does not fail without
\* a reason for ever.
Fairness ==
  /\ WF_vars(StreamStep \/ StreamInRing)
  /\ WF_vars(MainStep \/ MainInRing)
  /\ SF_vars(StreamClaims)
  /\ SF_vars(MainClaims)

FairSpec == Spec /\ Fairness

---------------------------------------------------------------------------
(* Properties.                                                             *)

\* The n-th frame that main uses is the n-th frame that stream decoded: none
\* is lost, repeated or swapped on the way.
FramesInOrder == at.main = "use" => img = turns + 1

\* Every frame that stream counts is in the list or has been taken from it,
\* although nobody looks at the result of push: between size() and push no
\* slot can still be waiting for the pop that has left it.
EveryFrameQueued == at.stream = "loop" => tail = total

\* The list holds at most max_ frames, which is also the number of frames
\* that main can leave behind when stream ends before it.
ListBounded == tail - head <= Max

\* Main never follows frame_list_, and never reads stream_frames_, before
\* stream has set them.
ReadyIsSafe ==
  at.main \notin {"wait", "waited", "join", "done"} =>
    created /\ (FromStream => streamFrames # Unset)

\* Both threads end.
Finishes == <>(at = [stream |-> "done", main |-> "done"])

\* ... whenever main finds a way out of its first loop: ffmpeg looks at stop_
\* there, the others need a frame more than max_.
FinishesOnceFilled ==
  (FromStream => video.opens /\ video.reported > Max /\ video.decodable > Max)
    => Finishes

\* The pixels that main reads are those of the frame it has popped.
FrameIntact == at.main = "use" => pixels = img
===========================================================================
