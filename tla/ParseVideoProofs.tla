------------------------- MODULE ParseVideoProofs -------------------------
(* Proofs about ParseVideo, for lists of every size and every set of       *)
(* videos.  What CircleBufferProofs and CircleBufferRefinement say of the  *)
(* ring carries over, because a step of ParseVideo is a step of the ring   *)
(* or leaves the ring alone.                                               *)
EXTENDS ParseVideo, SequenceTheorems, TLAPS

P == INSTANCE CircleBufferRefinement
       WITH Pushers <- {"stream"}, Poppers <- {"main"}, Data <- Frames,
            Capacity <- RoundUp(Max), MaxTickets <- MaxFrames

\* max_ is positive, and the ring is at least as large.
LEMMA RoundUpCovers ==
  /\ Max \in Nat \ {0}
  /\ RoundUp(Max) \in Nat \ {0}
  /\ Max <= RoundUp(Max)
BY BufferAssumption DEF RoundUp, Max, Limit, kMaxBufferSize

\* What the ring assumes of its constants holds of the ring of ParseVideo.
LEMMA RingAssumptions ==
  /\ P!ThreadsAssumption
  /\ P!CapacityAssumption
  /\ P!BoundAssumption
  /\ P!DataAssumption
BY RoundUpCovers, MarksAssumption, BoundAssumption
   DEF P!ThreadsAssumption, P!CapacityAssumption, P!BoundAssumption,
       P!DataAssumption

---------------------------------------------------------------------------
(* The state outside the ring.                                             *)

StreamAt == {"open", "loop", "size", "sizing", "full", "push", "pushing",
             "stop", "unready", "done"}
MainAt == {"wait", "waited", "total", "loop", "test", "size", "sizing", "pop",
           "popping", "use", "join", "done"}

\* Where stream has a frame that it has not counted yet.
Working == {"size", "sizing", "full", "push", "pushing"}

\* Stream counts each frame that it decodes.
Outside ==
  /\ video \in Videos
  /\ at \in [stream : StreamAt, main : MainAt]
  /\ streamFrames \in 0 .. MaxFrames \cup {Unset}
  /\ total \in Nat
  /\ turns \in Nat
  /\ decoded \in 0 .. video.decodable
  /\ decoded = IF at.stream \in Working THEN total + 1 ELSE total

\* What main uses has been made: before ready is set, and ready is set only
\* by a stream that has opened its file.
Opened == created /\ (FromStream => streamFrames # Unset)

OpenedInv ==
  /\ at.stream \in Working \cup {"loop"} => Opened
  /\ ready => Opened
  /\ at.main \notin {"wait", "waited", "join", "done"} => Opened

\* Initially nothing is opened and nothing decoded.
LEMMA OutsideInit == Init => Outside /\ OpenedInv
BY VideosAssumption DEF Init, Outside, OpenedInv, Opened, StreamAt, MainAt,
                        Working, Video

\* Outside is inductive.
LEMMA OutsideNext == Outside /\ [Next]_vars => Outside'
<1> SUFFICES ASSUME Outside, [Next]_vars
             PROVE  Outside'
  OBVIOUS
<1> USE DEF Outside, Stream, Main, flagVars, mainVars
<1>0. video.reported \in 0 .. MaxFrames /\ video.decodable \in 0 .. MaxFrames
  BY VideosAssumption DEF Video
<1>1. CASE OpenFails \/ Open
  BY <1>0, <1>1 DEF OpenFails, Open, StreamAt, Working
<1>2. CASE Decode
  BY <1>0, <1>2 DEF Decode, StreamAt, Working
<1>3. CASE AllRead \/ DecodeFails \/ SetStop \/ ClearReady
  BY <1>3 DEF AllRead, DecodeFails, SetStop, ClearReady, StreamAt, Working
<1>4. CASE StreamSize \/ StreamSized \/ ListFull \/ StreamPush
  BY <1>4 DEF StreamSize, StreamSized, ListFull, StreamPush, StreamAt, Working
<1>5. CASE StreamPushed
  BY <1>0, <1>5 DEF StreamPushed, StreamAt, Working
<1>6. CASE MainStep
  <2> USE DEF othersUnchanged, MainAt
  <2>1. CASE WaitReady \/ AfterSleep \/ TestTurns \/ TestReady \/ Join
    BY <2>1 DEF WaitReady, AfterSleep, TestTurns, TestReady, Join
  <2>2. CASE ReadTotal \/ MainSize \/ MainSized \/ MainPop
    BY <2>2 DEF ReadTotal, MainSize, MainSized, MainPop
  <2>3. CASE MainPopRefused \/ MainPopped \/ UseFrame
    BY <2>3 DEF MainPopRefused, MainPopped, UseFrame
  <2> QED
    BY <1>6, <2>1, <2>2, <2>3 DEF MainStep
<1>7. CASE StreamInRing \/ MainInRing \/ Release
  BY <1>7 DEF StreamInRing, MainInRing, StreamClaims, MainClaims, Release,
              outsideUnchanged
<1>8. CASE Over \/ UNCHANGED vars
  BY <1>8 DEF Over, vars
<1> QED
  BY <1>1, <1>2, <1>3, <1>4, <1>5, <1>6, <1>7, <1>8 DEF Next, StreamStep

\* OpenedInv is inductive.
LEMMA OpenedNext == Outside /\ OpenedInv /\ [Next]_vars => OpenedInv'
<1> SUFFICES ASSUME Outside, OpenedInv, [Next]_vars
             PROVE  OpenedInv'
  OBVIOUS
<1> USE DEF OpenedInv, Opened, FromStream, Working, Stream, Main, flagVars,
            mainVars
<1>0. at \in [stream : StreamAt, main : MainAt] /\ video.reported # Unset
  BY VideosAssumption DEF Outside, Video, Unset
<1>1. CASE OpenFails \/ Open
  BY <1>0, <1>1 DEF OpenFails, Open
<1>2. CASE Decode \/ AllRead \/ SetStop \/ ClearReady
  BY <1>0, <1>2 DEF Decode, AllRead, SetStop, ClearReady
<1>8. CASE DecodeFails
  <2>1. UNCHANGED <<video, created, streamFrames>> /\ (ready' => ready)
    BY <1>8 DEF DecodeFails
  <2>2. at'.stream = "stop" /\ at'.main = at.main
    BY <1>0, <1>8 DEF DecodeFails
  <2> QED
    BY <2>1, <2>2
<1>3. CASE StreamSize \/ StreamSized \/ ListFull
  BY <1>0, <1>3 DEF StreamSize, StreamSized, ListFull
<1>4. CASE StreamPush \/ StreamPushed
  BY <1>0, <1>4 DEF StreamPush, StreamPushed
<1>5. CASE MainStep
  <2> USE DEF othersUnchanged
  <2>1. CASE WaitReady \/ AfterSleep \/ TestTurns \/ TestReady \/ Join
    BY <1>0, <2>1 DEF WaitReady, AfterSleep, TestTurns, TestReady, Join
  <2>2. CASE ReadTotal \/ MainSize \/ MainSized \/ MainPop
    BY <1>0, <2>2 DEF ReadTotal, MainSize, MainSized, MainPop
  <2>3. CASE MainPopRefused \/ MainPopped \/ UseFrame
    BY <1>0, <2>3 DEF MainPopRefused, MainPopped, UseFrame
  <2> QED
    BY <1>5, <2>1, <2>2, <2>3 DEF MainStep
<1>6. CASE StreamInRing \/ MainInRing \/ Release
  BY <1>6 DEF StreamInRing, MainInRing, StreamClaims, MainClaims, Release,
              outsideUnchanged
<1>7. CASE Over \/ UNCHANGED vars
  BY <1>7 DEF Over, vars
<1> QED
  BY <1>1, <1>2, <1>3, <1>4, <1>5, <1>6, <1>7, <1>8 DEF Next, StreamStep

\* The consumer never follows a null frame_list_ and never reads an unset
\* stream_frames_, whatever the video and however the threads interleave.
THEOREM ReadyComesLast == Spec => []ReadyIsSafe
<1>1. OpenedInv => ReadyIsSafe
  BY DEF OpenedInv, Opened, ReadyIsSafe
<1> QED
  BY <1>1, OutsideInit, OutsideNext, OpenedNext, PTL DEF Spec

---------------------------------------------------------------------------
(* The ring inside.                                                        *)

\* The ring of ParseVideo is the ring of the proofs.
LEMMA SameRing ==
  /\ Ring!Init => P!Init
  /\ \A d \in Frames : Ring!PushLoad("stream", d) => P!PushLoad("stream", d)
  /\ Ring!PushRefuse("stream") => P!PushRefuse("stream")
  /\ Ring!PushCheck("stream") => P!PushCheck("stream")
  /\ Ring!PushClaim("stream") => P!PushClaim("stream")
  /\ Ring!PushClaimFails("stream") => P!PushClaimFails("stream")
  /\ Ring!PushWrite("stream") => P!PushWrite("stream")
  /\ Ring!PushPublish("stream") => P!PushPublish("stream")
  /\ Ring!PopLoad("main") => P!PopLoad("main")
  /\ Ring!PopFetchEarly("main") => P!PopFetchEarly("main")
  /\ Ring!PopRefuse("main") => P!PopRefuse("main")
  /\ Ring!PopCheck("main") => P!PopCheck("main")
  /\ Ring!PopClaim("main") => P!PopClaim("main")
  /\ Ring!PopClaimFails("main") => P!PopClaimFails("main")
  /\ Ring!PopRead("main") => P!PopRead("main")
  /\ Ring!PopDestroy("main") => P!PopDestroy("main")
  /\ Ring!PopRelease("main") => P!PopRelease("main")
  /\ \A t \in {"stream", "main"} :
       /\ Ring!SizeLoadHead(t) => P!SizeLoadHead(t)
       /\ Ring!SizeReturn(t) => P!SizeReturn(t)
  /\ Ring!Destroy => P!Destroy
<1> USE DEF Ring!Goto, Ring!Return, Ring!ClaimFails, Ring!Begin, Ring!shared,
            Ring!Slot, Ring!Slots, Ring!Threads,
            P!Goto, P!Return, P!ClaimFails, P!Begin, P!shared, P!Slot,
            P!Slots, P!Threads
<1>1. Ring!Init => P!Init
  BY DEF Ring!Init, P!Init
<1>2. /\ \A d \in Frames : Ring!PushLoad("stream", d) => P!PushLoad("stream", d)
      /\ Ring!PushRefuse("stream") => P!PushRefuse("stream")
      /\ Ring!PushCheck("stream") => P!PushCheck("stream")
  BY DEF Ring!PushLoad, P!PushLoad, Ring!PushRefuse, P!PushRefuse,
         Ring!PushCheck, P!PushCheck
<1>3. /\ Ring!PushClaim("stream") => P!PushClaim("stream")
      /\ Ring!PushClaimFails("stream") => P!PushClaimFails("stream")
      /\ Ring!PushWrite("stream") => P!PushWrite("stream")
      /\ Ring!PushPublish("stream") => P!PushPublish("stream")
  BY DEF Ring!PushClaim, P!PushClaim, Ring!PushClaimFails, P!PushClaimFails,
         Ring!PushWrite, P!PushWrite, Ring!PushPublish, P!PushPublish
<1>4. /\ Ring!PopLoad("main") => P!PopLoad("main")
      /\ Ring!PopFetchEarly("main") => P!PopFetchEarly("main")
      /\ Ring!PopRefuse("main") => P!PopRefuse("main")
      /\ Ring!PopCheck("main") => P!PopCheck("main")
  BY DEF Ring!PopLoad, P!PopLoad, Ring!PopFetchEarly, P!PopFetchEarly,
         Ring!PopRefuse, P!PopRefuse, Ring!PopCheck, P!PopCheck
<1>5. /\ Ring!PopClaim("main") => P!PopClaim("main")
      /\ Ring!PopClaimFails("main") => P!PopClaimFails("main")
      /\ Ring!PopRead("main") => P!PopRead("main")
      /\ Ring!PopDestroy("main") => P!PopDestroy("main")
      /\ Ring!PopRelease("main") => P!PopRelease("main")
  BY DEF Ring!PopClaim, P!PopClaim, Ring!PopClaimFails, P!PopClaimFails,
         Ring!PopRead, P!PopRead, Ring!PopDestroy, P!PopDestroy,
         Ring!PopRelease, P!PopRelease
<1>6. \A t \in {"stream", "main"} :
        /\ Ring!SizeLoadHead(t) => P!SizeLoadHead(t)
        /\ Ring!SizeReturn(t) => P!SizeReturn(t)
  BY DEF Ring!SizeLoadHead, P!SizeLoadHead, Ring!SizeReturn, P!SizeReturn
<1>7. Ring!Destroy => P!Destroy
  BY DEF Ring!Destroy, P!Destroy
<1> QED
  BY <1>1, <1>2, <1>3, <1>4, <1>5, <1>6, <1>7

\* Every step takes one step of the ring or leaves the ring alone.
LEMMA RingStep == Outside /\ [Next]_vars => [P!Next]_(P!vars)
<1> SUFFICES ASSUME Outside, [Next]_vars
             PROVE  [P!Next]_(P!vars)
  OBVIOUS
<1> USE DEF P!Next, P!PushStep, P!PopStep, P!SizeStep
<1>0. ("stream" \in P!Threads /\ "main" \in P!Threads)
  BY DEF P!Threads
<1>1. CASE \/ OpenFails \/ Open \/ Decode \/ AllRead \/ DecodeFails
           \/ ListFull \/ SetStop \/ ClearReady
  BY <1>1 DEF OpenFails, Open, Decode, AllRead, DecodeFails, ListFull, SetStop,
              ClearReady, ringVars, P!vars
<1>2. CASE StreamSize \/ StreamSized
  BY <1>0, <1>2, SameRing DEF StreamSize, StreamSized
<1>3. CASE StreamPush
  <2>0. at.stream = "push" /\ video.decodable \in 0 .. MaxFrames
    BY <1>3, VideosAssumption DEF StreamPush, Stream, Outside, Video
  <2>1. decoded \in Frames
    BY <2>0, BoundAssumption DEF Outside, Working, Frames
  <2> QED
    BY <1>3, <2>1, SameRing DEF StreamPush
<1>4. CASE StreamPushed
  BY <1>4, SameRing DEF StreamPushed
<1>5. CASE \/ WaitReady \/ AfterSleep \/ ReadTotal \/ TestTurns \/ TestReady
           \/ UseFrame \/ Join
  BY <1>5 DEF WaitReady, AfterSleep, ReadTotal, TestTurns, TestReady, UseFrame,
              Join, ringVars, P!vars
<1>6. CASE MainSize \/ MainSized
  BY <1>0, <1>6, SameRing DEF MainSize, MainSized
<1>7. CASE MainPop \/ MainPopRefused \/ MainPopped
  BY <1>7, SameRing DEF MainPop, MainPopRefused, MainPopped
<1>8. CASE StreamInRing
  BY <1>8, SameRing DEF StreamInRing, StreamClaims
<1>9. CASE MainInRing
  BY <1>9, SameRing DEF MainInRing, MainClaims
<1>10. CASE Release
  BY <1>10, SameRing DEF Release
<1>11. CASE Over \/ UNCHANGED vars
  BY <1>11 DEF Over, vars, ringVars, P!vars
<1> QED
  BY <1>1, <1>2, <1>3, <1>4, <1>5, <1>6, <1>7, <1>8, <1>9, <1>10, <1>11
     DEF Next, StreamStep, MainStep

\* What is proved of the ring holds of the ring of ParseVideo.
LEMMA UsesRing == Spec => P!Spec
<1>1. Init => P!Init
  BY SameRing DEF Init
<1> QED
  BY <1>1, RingStep, OutsideInit, OutsideNext, PTL DEF Spec, P!Spec

\* The three facts of the ring that the rest uses.
LEMMA RingFacts == Spec => [](P!TypeOK /\ P!RingInv /\ P!ContentInv)
BY UsesRing, RingAssumptions, P!TypeCorrect, P!RingCorrect, P!ContentCorrect,
   PTL

---------------------------------------------------------------------------
(* What is in the list.                                                    *)

\* A thread is in a call of the ring exactly where at says so.
Calls ==
  /\ pc["stream"] \in CASE at.stream = "sizing" -> {"size"}
                        [] at.stream = "pushing" -> P!PushPc
                        [] OTHER -> {"idle"}
  /\ pc["main"] \in CASE at.main = "sizing" -> {"size"}
                      [] at.main = "popping" -> P!PopPc
                      [] OTHER -> {"idle"}

\* From size() to the claim of its push, stream knows that the list has room.
Room ==
  /\ at.stream = "sizing" => ticket["stream"] <= head
  /\ at.stream = "push" => tail < head + Max
  /\ pc["stream"] \in {"pushCheck", "pushClaim"} => tail < head + Max
  /\ tail <= head + Max

\* Main has used what it has popped, but for what it is working on.
Used == head = IF pc["main"] \in P!Taking \/ at.main = "use" THEN turns + 1
                                                           ELSE turns

\* The popper is alone: the ticket it works on is the last one claimed.
Popping == pc["main"] \in P!Taking => ticket["main"] = head - 1

ListInv == Calls /\ Room /\ Used /\ Popping

\* Initially the list is empty and no call is on.
LEMMA ListInit == Init => ListInv
BY RoundUpCovers
   DEF Init, Ring!Init, Ring!Threads, ListInv, Calls, Room, Used, Popping,
       P!Taking

\* Steps of stream.
LEMMA StreamList ==
  ASSUME Outside, P!TypeOK, P!RingInv, ListInv, StreamStep \/ StreamInRing
  PROVE  ListInv'
<1> USE DEF Stream, P!Goto, P!Return, P!ClaimFails, P!Begin, P!shared, Calls,
            Room, Used, Popping, ListInv, P!PushPc, P!PopPc, P!Taking, mainVars
<1>0. /\ at \in [stream : StreamAt, main : MainAt]
      /\ pc \in [{"stream", "main"} ->
                   {"idle", "size"} \cup P!PushPc \cup P!PopPc]
      /\ ticket \in [{"stream", "main"} -> Nat]
      /\ tail \in Nat /\ head \in Nat /\ Max \in Nat
  BY RoundUpCovers DEF Outside, P!TypeOK, P!Threads
<1>1. CASE \/ OpenFails \/ Open \/ Decode \/ AllRead \/ DecodeFails
           \/ ListFull \/ SetStop \/ ClearReady
  BY <1>0, <1>1 DEF OpenFails, Open, Decode, AllRead, DecodeFails, ListFull,
                    SetStop, ClearReady, ringVars
<1>2. CASE StreamSize
  <2>1. P!SizeLoadHead("stream")
    BY <1>2, SameRing DEF StreamSize
  <2> QED
    BY <1>0, <1>2, <2>1 DEF StreamSize, P!SizeLoadHead
<1>3. CASE StreamSized
  <2>1. P!SizeReturn("stream")
    BY <1>3, SameRing DEF StreamSized
  <2> QED
    BY <1>0, <1>3, <2>1 DEF StreamSized, P!SizeReturn, Ring!SizeResult
<1>4. CASE StreamPush
  <2>1. Ring!PushLoad("stream", decoded)
    BY <1>4 DEF StreamPush
  <2> QED
    BY <1>0, <1>4, <2>1
       DEF StreamPush, Ring!PushLoad, Ring!Begin, Ring!Goto, Ring!shared
<1>5. CASE StreamPushed
  <2>1. P!PushPublish("stream") \/ P!PushRefuse("stream")
    BY <1>5, SameRing DEF StreamPushed
  <2> QED
    BY <1>0, <1>5, <2>1 DEF StreamPushed, P!PushPublish, P!PushRefuse
<1>6. CASE StreamInRing
  <2>0. at' = at /\ UNCHANGED mainVars
    BY <1>6 DEF StreamInRing, StreamClaims, outsideUnchanged
  <2>1. \/ P!PushClaim("stream") \/ P!PushCheck("stream")
        \/ P!PushClaimFails("stream") \/ P!PushWrite("stream")
    BY <1>6, SameRing DEF StreamInRing, StreamClaims
  <2>2. CASE P!PushClaim("stream")
    BY <1>0, <2>0, <2>2 DEF P!PushClaim
  <2>3. CASE P!PushCheck("stream") \/ P!PushClaimFails("stream")
    BY <1>0, <2>0, <2>3 DEF P!PushCheck, P!PushClaimFails
  <2>4. CASE P!PushWrite("stream")
    BY <1>0, <2>0, <2>4 DEF P!PushWrite
  <2> QED
    BY <2>1, <2>2, <2>3, <2>4
<1> QED
  BY <1>1, <1>2, <1>3, <1>4, <1>5, <1>6 DEF StreamStep

\* Steps of main.
LEMMA MainList ==
  ASSUME Outside, P!TypeOK, P!RingInv, ListInv, MainStep \/ MainInRing
  PROVE  ListInv'
<1> USE DEF Main, P!Goto, P!Return, P!ClaimFails, P!Begin, P!shared, Calls,
            Room, Used, Popping, ListInv, P!PushPc, P!PopPc, P!Taking, mainVars,
            othersUnchanged
<1>0. /\ at \in [stream : StreamAt, main : MainAt]
      /\ pc \in [{"stream", "main"} ->
                   {"idle", "size"} \cup P!PushPc \cup P!PopPc]
      /\ ticket \in [{"stream", "main"} -> Nat]
      /\ tail \in Nat /\ head \in Nat /\ Max \in Nat /\ turns \in Nat
  BY RoundUpCovers DEF Outside, P!TypeOK, P!Threads
<1>1. CASE \/ WaitReady \/ AfterSleep \/ ReadTotal \/ TestTurns \/ TestReady
           \/ Join
  BY <1>0, <1>1 DEF WaitReady, AfterSleep, ReadTotal, TestTurns, TestReady,
                    Join, ringVars
<1>2. CASE UseFrame
  BY <1>0, <1>2 DEF UseFrame, ringVars
<1>3. CASE MainSize
  <2>1. P!SizeLoadHead("main")
    BY <1>3, SameRing DEF MainSize
  <2> QED
    BY <1>0, <1>3, <2>1 DEF MainSize, P!SizeLoadHead
<1>4. CASE MainSized
  <2>1. P!SizeReturn("main")
    BY <1>4, SameRing DEF MainSized
  <2> QED
    BY <1>0, <1>4, <2>1 DEF MainSized, P!SizeReturn
<1>5. CASE MainPop
  <2>1. P!PopLoad("main")
    BY <1>5, SameRing DEF MainPop
  <2> QED
    BY <1>0, <1>5, <2>1 DEF MainPop, P!PopLoad
<1>6. CASE MainPopRefused
  <2>1. P!PopRefuse("main")
    BY <1>6, SameRing DEF MainPopRefused
  <2> QED
    BY <1>0, <1>6, <2>1 DEF MainPopRefused, P!PopRefuse
<1>7. CASE MainPopped
  <2>1. P!PopRelease("main")
    BY <1>7, SameRing DEF MainPopped
  <2> QED
    BY <1>0, <1>7, <2>1 DEF MainPopped, P!PopRelease
<1>8. CASE MainInRing
  <2>0. at' = at /\ UNCHANGED mainVars
    BY <1>8 DEF MainInRing, MainClaims, outsideUnchanged
  <2>1. \/ P!PopClaim("main") \/ P!PopFetchEarly("main") \/ P!PopCheck("main")
        \/ P!PopClaimFails("main") \/ P!PopRead("main") \/ P!PopDestroy("main")
    BY <1>8, SameRing DEF MainInRing, MainClaims
  <2>2. CASE P!PopClaim("main")
    BY <1>0, <2>0, <2>2 DEF P!PopClaim
  <2>3. CASE \/ P!PopFetchEarly("main") \/ P!PopCheck("main")
             \/ P!PopClaimFails("main")
    BY <1>0, <2>0, <2>3 DEF P!PopFetchEarly, P!PopCheck, P!PopClaimFails
  <2>4. CASE P!PopRead("main") \/ P!PopDestroy("main")
    BY <1>0, <2>0, <2>4 DEF P!PopRead, P!PopDestroy
  <2> QED
    BY <2>1, <2>2, <2>3, <2>4
<1> QED
  BY <1>1, <1>2, <1>3, <1>4, <1>5, <1>6, <1>7, <1>8 DEF MainStep

\* ListInv is inductive.
LEMMA ListNext ==
  Outside /\ P!TypeOK /\ P!RingInv /\ ListInv /\ [Next]_vars => ListInv'
<1> SUFFICES ASSUME Outside, P!TypeOK, P!RingInv, ListInv, [Next]_vars
             PROVE  ListInv'
  OBVIOUS
<1>1. CASE Release \/ Over \/ UNCHANGED vars
  BY <1>1 DEF Release, Ring!Destroy, outsideUnchanged, Over, vars, ringVars,
              mainVars, ListInv, Calls, Room, Used, Popping
<1> QED
  BY <1>1, StreamList, MainList DEF Next

\* The list never holds more than max_ frames, for any max_ and any video.
THEOREM ListIsBounded == Spec => []ListBounded
<1>1. Outside /\ P!TypeOK /\ ListInv => ListBounded
  BY RoundUpCovers DEF ListInv, Room, ListBounded, P!TypeOK
<1> QED
  BY <1>1, OutsideInit, OutsideNext, ListInit, ListNext, RingFacts, PTL DEF Spec

---------------------------------------------------------------------------
(* No frame is lost in the list, if the ring has a slot that max_ does not *)
(* need: max_ is no power of two, as the 10 of the tests is none.          *)

SpareSlot == Max < RoundUp(Max)

\* total_frames counts the tickets that stream has claimed: a push is never
\* refused.  The n-th ticket is claimed for the n-th frame.
Counted ==
  /\ tail = IF pc["stream"] \in P!Claiming THEN total + 1 ELSE total
  /\ pc["stream"] \in P!PushPc => ticket["stream"] = total
  /\ pc["stream"] \in {"pushCheck", "pushClaim"} => val["stream"] = total + 1

\* When stream pushes, the slot of the next ticket is free: main can hold
\* only the slot of the ticket before head.
LEMMA NeverRefused ==
  ASSUME SpareSlot, Outside, P!TypeOK, P!RingInv, P!ContentInv, P!Owned,
         ListInv, Counted, P!PushRefuse("stream")
  PROVE  FALSE
<1> DEFINE C == RoundUp(Max)
<1>0. /\ pc["stream"] = "pushCheck" /\ ticket["stream"] = tail
      /\ tail < head + Max
  BY DEF P!PushRefuse, Counted, ListInv, Room, P!PushPc, P!Claiming
<1>1. \/ tail - head = C
      \/ \E c \in {"main"} : /\ pc[c] \in P!Taking
                             /\ ticket[c] = tail - C
  BY <1>0, RingAssumptions, P!PushRefusalJustified
<1>2. /\ tail \in Nat /\ head \in Nat /\ Max \in Nat /\ C \in Nat /\ Max < C
  BY RoundUpCovers DEF P!TypeOK, SpareSlot
<1> HIDE DEF C
<1>3. pc["main"] \in P!Taking => ticket["main"] = head - 1
  BY DEF ListInv, Popping
<1> QED
  BY <1>0, <1>1, <1>2, <1>3

\* Initially nothing is counted.
LEMMA CountedInit == Init => Counted
BY DEF Init, Ring!Init, Ring!Threads, Counted, P!Claiming, P!PushPc

\* Main does not disturb the call that stream is in.
LEMMA MainLeavesStream ==
  ASSUME Outside, P!TypeOK, MainStep \/ MainInRing
  PROVE  /\ pc'["stream"] = pc["stream"] /\ ticket'["stream"] = ticket["stream"]
         /\ val'["stream"] = val["stream"] /\ UNCHANGED <<tail, total>>
<1>0. /\ pc \in [{"stream", "main"} ->
                   {"idle", "size"} \cup P!PushPc \cup P!PopPc]
      /\ ticket \in [{"stream", "main"} -> Nat]
      /\ val \in [{"stream", "main"} -> P!Values]
  BY DEF P!TypeOK, P!Threads, P!Values
<1> USE DEF P!Goto, P!Return, P!ClaimFails, P!Begin, P!shared
<1> USE DEF othersUnchanged, outsideUnchanged
<1>1. CASE \/ WaitReady \/ AfterSleep \/ ReadTotal \/ TestTurns
           \/ TestReady \/ UseFrame \/ Join
  BY <1>1 DEF WaitReady, AfterSleep, ReadTotal, TestTurns, TestReady,
              UseFrame, Join, ringVars
<1>2. CASE MainSize \/ MainSized
  <2>1. P!SizeLoadHead("main") \/ P!SizeReturn("main")
    BY <1>2, SameRing DEF MainSize, MainSized
  <2> QED
    BY <1>0, <1>2, <2>1 DEF MainSize, MainSized, P!SizeLoadHead,
                            P!SizeReturn
<1>3. CASE MainPop \/ MainPopRefused \/ MainPopped
  <2>1. P!PopLoad("main") \/ P!PopRefuse("main") \/ P!PopRelease("main")
    BY <1>3, SameRing DEF MainPop, MainPopRefused, MainPopped
  <2> QED
    BY <1>0, <1>3, <2>1 DEF MainPop, MainPopRefused, MainPopped, P!PopLoad,
                            P!PopRefuse, P!PopRelease
<1>4. CASE MainInRing
  <2>1. \/ P!PopClaim("main") \/ P!PopFetchEarly("main")
        \/ P!PopCheck("main") \/ P!PopClaimFails("main")
        \/ P!PopRead("main") \/ P!PopDestroy("main")
    BY <1>4, SameRing DEF MainInRing, MainClaims
  <2> QED
    BY <1>0, <1>4, <2>1 DEF MainInRing, MainClaims, P!PopClaim,
                            P!PopFetchEarly, P!PopCheck, P!PopClaimFails,
                            P!PopRead, P!PopDestroy
<1> QED
  BY <1>1, <1>2, <1>3, <1>4 DEF MainStep

\* Counted is preserved by every step that refuses no push.
LEMMA CountedUnlessRefused ==
  ASSUME Outside, P!TypeOK, ListInv, Counted, [Next]_vars,
         ~P!PushRefuse("stream")
  PROVE  Counted'
<1> USE DEF Counted, P!Goto, P!Return, P!ClaimFails, P!Begin, P!shared,
            P!PushPc, P!PopPc, P!Claiming, ListInv, Calls, Stream
<1>0. /\ at \in [stream : StreamAt, main : MainAt]
      /\ pc \in [{"stream", "main"} ->
                   {"idle", "size"} \cup P!PushPc \cup P!PopPc]
      /\ ticket \in [{"stream", "main"} -> Nat]
      /\ tail \in Nat /\ head \in Nat /\ total \in Nat
      /\ val \in [{"stream", "main"} -> P!Values]
  BY DEF Outside, P!TypeOK, P!Threads, P!Values
<1>1. CASE \/ OpenFails \/ Open \/ Decode \/ AllRead \/ DecodeFails
           \/ ListFull \/ SetStop \/ ClearReady
  BY <1>1 DEF OpenFails, Open, Decode, AllRead, DecodeFails, ListFull,
              SetStop, ClearReady, ringVars
<1>2. CASE StreamSize \/ StreamSized
  <2>1. P!SizeLoadHead("stream") \/ P!SizeReturn("stream")
    BY <1>2, SameRing DEF StreamSize, StreamSized
  <2> QED
    BY <1>0, <1>2, <2>1 DEF StreamSize, StreamSized, P!SizeLoadHead,
                            P!SizeReturn
<1>3. CASE StreamPush
  <2>1. Ring!PushLoad("stream", decoded) /\ decoded = total + 1
    BY <1>3 DEF StreamPush, Outside, Working
  <2> QED
    BY <1>0, <1>3, <2>1
       DEF StreamPush, Ring!PushLoad, Ring!Begin, Ring!Goto, Ring!shared
<1>4. CASE StreamPushed
  <2>1. P!PushPublish("stream")
    BY <1>4, SameRing DEF StreamPushed
  <2> QED
    BY <1>0, <1>4, <2>1 DEF StreamPushed, P!PushPublish
<1>5. CASE StreamInRing
  <2>0. UNCHANGED total
    BY <1>5 DEF StreamInRing, StreamClaims, outsideUnchanged
  <2>1. \/ P!PushClaim("stream") \/ P!PushCheck("stream")
        \/ P!PushClaimFails("stream") \/ P!PushWrite("stream")
    BY <1>5, SameRing DEF StreamInRing, StreamClaims
  <2>2. CASE P!PushClaim("stream")
    BY <1>0, <2>0, <2>2 DEF P!PushClaim
  <2>3. CASE P!PushCheck("stream") \/ P!PushClaimFails("stream")
    BY <1>0, <2>0, <2>3 DEF P!PushCheck, P!PushClaimFails
  <2>4. CASE P!PushWrite("stream")
    BY <1>0, <2>0, <2>4 DEF P!PushWrite
  <2> QED
    BY <2>1, <2>2, <2>3, <2>4
<1>6. CASE MainStep \/ MainInRing
  BY <1>6, MainLeavesStream
<1>7. CASE Release \/ Over \/ UNCHANGED vars
  BY <1>7 DEF Release, Ring!Destroy, outsideUnchanged, Over, vars, ringVars
<1> QED
  BY <1>1, <1>2, <1>3, <1>4, <1>5, <1>6, <1>7 DEF Next, StreamStep

\* Counted is inductive, if the ring has a spare slot.
LEMMA CountedNext ==
  ASSUME SpareSlot, Outside, P!TypeOK, P!RingInv, P!ContentInv, P!Owned,
         ListInv, Counted, [Next]_vars
  PROVE  Counted'
BY NeverRefused, CountedUnlessRefused

\* No claimed slot of the list is abandoned.
LEMMA OwnedAlways == Spec => []P!Owned
BY UsesRing, RingFacts, RingAssumptions, P!OwnedInit, P!OwnedNext, PTL
   DEF P!Spec

\* With a spare slot no push is refused, so every frame that stream counts
\* has been put into the list, although nobody looks at the result of push.
THEOREM AllFramesAreQueued ==
  ASSUME SpareSlot
  PROVE  Spec => []EveryFrameQueued
<1>1. Counted /\ ListInv => EveryFrameQueued
  BY DEF Counted, ListInv, Calls, EveryFrameQueued, P!Claiming
<1>2. /\ Outside /\ P!TypeOK /\ P!RingInv /\ P!ContentInv /\ P!Owned
      /\ ListInv /\ Counted /\ [Next]_vars
      => Counted'
  BY CountedNext
<1> QED
  BY <1>1, <1>2, OutsideInit, OutsideNext, ListInit, ListNext, CountedInit,
     OwnedAlways, RingFacts, PTL DEF Spec

---------------------------------------------------------------------------
(* Frames arrive in order.                                                 *)

\* The n-th ticket carries the n-th frame: in the hands of stream, in the
\* list, and in the hands of main.
Order ==
  alive => /\ \A i \in 1 .. tail - head : P!Items[i] = head + i
           /\ P!Holding["main"] \in {Unread, head}

\* Initially there is nothing to order.
LEMMA OrderInit == Init => Order /\ FramesInOrder
BY DEF Init, Ring!Init, Ring!Threads, Order, FramesInOrder,
       P!Holding

\* A step that claims no ticket leaves the list as it is.
LEMMA OrderQuiet ==
  ASSUME OrderedLoads, P!TypeOK, P!RingInv, P!ContentInv, P!Carried,
         P!TypeOK', P!RingInv', [P!Next]_(P!vars), Order,
         UNCHANGED <<tail, head, alive>>
  PROVE  Order'
<1> SUFFICES ASSUME alive, alive'
             PROVE  Order'
  BY DEF Order
<1>1. P!ItemsOK /\ P!ItemsOK'
  BY RingAssumptions, P!ItemsType, P!ItemsTypeNext
<1>2. /\ P!Items \in Seq(P!Values) /\ Len(P!Items) = tail - head
      /\ P!Items' \in Seq(P!Values) /\ Len(P!Items') = tail - head
      /\ tail - head \in Nat
  BY <1>1, RingAssumptions, P!Indexed DEF P!ItemsOK
<1>3. [P!Fifo!Next]_(P!Fifo!vars)
  BY RingAssumptions, P!FifoNext
<1>4. /\ P!Items' = P!Items
      /\ P!Holding'["main"] \in {P!Holding["main"], Unread}
  <2>1. CASE \E d \in Frames : P!Fifo!Enqueue(d)
    <3>1. PICK d \in P!Values : P!Items' = Append(P!Items, d)
      BY <2>1 DEF P!Fifo!Enqueue, P!Values
    <3>2. Len(P!Items') = (tail - head) + 1
      BY <1>2, <3>1, AppendProperties
    <3> QED
      BY <1>2, <3>2
  <2>2. CASE P!Fifo!Dequeue("main")
    <3>1. P!Items # <<>> /\ P!Items' = Tail(P!Items)
      BY <2>2 DEF P!Fifo!Dequeue
    <3>2. Len(P!Items') = (tail - head) - 1
      BY <1>2, <3>1, HeadTailProperties
    <3> QED
      BY <1>2, <3>2
  <2>3. CASE P!Fifo!Deliver("main")
    <3>1. "main" \in DOMAIN P!Holding
      BY DEF P!Holding
    <3> QED
      BY <2>3, <3>1 DEF P!Fifo!Deliver
  <2>4. CASE P!Fifo!Clear
    <3>1. P!Items' = <<>> /\ P!Holding' = P!Holding
      BY <2>4 DEF P!Fifo!Clear
    <3>2. Len(P!Items) = 0
      BY <1>2, <3>1
    <3>3. P!Items = <<>>
      BY <1>2, <3>2
    <3> QED
      BY <3>1, <3>3
  <2>5. CASE UNCHANGED P!Fifo!vars
    BY <2>5 DEF P!Fifo!vars
  <2> QED
    BY <1>3, <2>1, <2>2, <2>3, <2>4, <2>5 DEF P!Fifo!Next
<1>5. \A i \in 1 .. tail - head : P!Items[i] = head + i
  BY DEF Order
<1>6. P!Holding["main"] \in {Unread, head}
  BY DEF Order
<1> QED
  BY <1>4, <1>5, <1>6 DEF Order

\* Stream claims a ticket for the frame with its number.
LEMMA OrderClaimed ==
  ASSUME SpareSlot, Outside, P!TypeOK, P!RingInv, ListInv, Counted,
         P!TypeOK', P!RingInv', Order, alive, P!PushClaim("stream")
  PROVE  Order'
<1>0. /\ tail' = tail + 1 /\ head' = head /\ tail \in Nat /\ head \in Nat
      /\ head <= tail /\ alive' /\ val["stream"] = tail + 1
  BY DEF P!PushClaim, P!TypeOK, P!RingInv, Counted, P!Claiming
<1>1. P!Fifo!Enqueue(val["stream"])
  BY RingAssumptions, P!PushClaimEnqueues
<1>2. P!Items' = Append(P!Items, tail + 1) /\ P!Holding' = P!Holding
  BY <1>0, <1>1 DEF P!Fifo!Enqueue
<1>3. P!ItemsOK /\ P!ItemsOK'
  BY <1>0, RingAssumptions, P!ItemsType, P!ItemsTypeNext
<1>4. /\ P!Items \in Seq(P!Values) /\ Len(P!Items) = tail - head
      /\ tail - head \in Nat
  BY <1>3, RingAssumptions, P!Indexed DEF P!ItemsOK
<1>5. tail + 1 \in P!Values
  <2>1. val["stream"] \in P!Values
    BY DEF P!TypeOK, P!Threads, P!Values
  <2> QED
    BY <1>0, <2>1
<1>6. ASSUME NEW i \in 1 .. tail' - head'
      PROVE  P!Items'[i] = head' + i
  <2>1. CASE i = tail - head + 1
    <3>1. P!Items'[i] = tail + 1
      BY <1>2, <1>4, <1>5, <2>1, AppendProperties
    <3> QED
      BY <1>0, <2>1, <3>1
  <2>2. CASE i # tail - head + 1
    <3>1. i \in 1 .. tail - head
      BY <1>0, <2>2
    <3>2. P!Items'[i] = P!Items[i]
      BY <1>2, <1>4, <1>5, <3>1, AppendProperties
    <3> QED
      BY <1>0, <3>1, <3>2 DEF Order
  <2> QED
    BY <2>1, <2>2
<1> QED
  BY <1>0, <1>2, <1>6 DEF Order

\* Main claims the next ticket and takes the frame with its number.
LEMMA OrderTaken ==
  ASSUME P!TypeOK, P!RingInv, P!TypeOK', P!RingInv', Order, alive,
         P!PopClaim("main")
  PROVE  Order'
<1>0. /\ tail' = tail /\ head' = head + 1 /\ tail \in Nat /\ head \in Nat
      /\ head < tail /\ alive'
  BY RingAssumptions, P!ClaimedPop DEF P!PopClaim, P!TypeOK
<1>1. P!Fifo!Dequeue("main")
  BY RingAssumptions, P!PopClaimDequeues
<1>2. P!ItemsOK
  BY RingAssumptions, P!ItemsType
<1>3. /\ P!Items \in Seq(P!Values) /\ Len(P!Items) = tail - head
      /\ P!Items \in [1 .. tail - head -> P!Values]
      /\ tail - head \in Nat
  BY <1>2, RingAssumptions, P!Indexed DEF P!ItemsOK
<1>4. /\ P!Items # <<>> /\ P!Items' = Tail(P!Items)
      /\ P!Holding'["main"] = Head(P!Items)
  <2>1. "main" \in DOMAIN P!Holding
    BY DEF P!Holding
  <2> QED
    BY <1>1, <2>1 DEF P!Fifo!Dequeue
<1>5. P!Items[1] = head + 1 /\ Head(P!Items) = P!Items[1]
  BY <1>0, <1>3 DEF Order
<1>6. ASSUME NEW i \in 1 .. tail' - head'
      PROVE  P!Items'[i] = head' + i
  <2>1. i \in 1 .. Len(Tail(P!Items)) /\ i + 1 \in 1 .. tail - head
    BY <1>0, <1>3, <1>4, HeadTailProperties
  <2>2. P!Items'[i] = P!Items[i + 1]
    BY <1>3, <1>4, <2>1, HeadTailProperties
  <2>3. P!Items[i + 1] = head + (i + 1)
    BY <2>1 DEF Order
  <2> QED
    BY <1>0, <2>1, <2>2, <2>3
<1> QED
  BY <1>0, <1>4, <1>5, <1>6 DEF Order

\* Order is inductive.
LEMMA OrderNext ==
  ASSUME SpareSlot, OrderedLoads, Outside, ListInv, Counted,
         P!TypeOK, P!RingInv, P!ContentInv, P!Carried, P!TypeOK', P!RingInv',
         [P!Next]_(P!vars), Order
  PROVE  Order'
<1>1. CASE P!PushClaim("stream")
  <2>1. alive
    BY <1>1 DEF P!PushClaim, P!ContentInv, P!Threads
  <2> QED
    BY <1>1, <2>1, OrderClaimed
<1>2. CASE P!PopClaim("main")
  <2>1. alive
    BY <1>2 DEF P!PopClaim, P!ContentInv, P!Threads
  <2> QED
    BY <1>2, <2>1, OrderTaken
<1>3. CASE P!Destroy
  BY <1>3 DEF P!Destroy, Order
<1>4. CASE ~P!PushClaim("stream") /\ ~P!PopClaim("main") /\ ~P!Destroy
  <2> USE DEF P!Begin, P!shared
  <2>1. CASE P!PushStep("stream")
    <3>1. UNCHANGED <<tail, head, alive>>
      BY <1>4, <2>1 DEF P!PushStep, P!PushLoad, P!PushRefuse, P!PushCheck,
                        P!PushClaimFails, P!PushWrite, P!PushPublish
    <3> QED
      BY <3>1, OrderQuiet
  <2>2. CASE P!PopStep("main")
    <3>1. UNCHANGED <<tail, head, alive>>
      BY <1>4, <2>2 DEF P!PopStep, P!PopLoad, P!PopFetchEarly, P!PopRefuse,
                        P!PopCheck, P!PopClaimFails, P!PopRead, P!PopDestroy,
                        P!PopRelease
    <3> QED
      BY <3>1, OrderQuiet
  <2>3. CASE \E t \in P!Threads : P!SizeStep(t)
    <3>1. UNCHANGED <<tail, head, alive>>
      BY <2>3 DEF P!SizeStep, P!SizeLoadHead, P!SizeReturn
    <3> QED
      BY <3>1, OrderQuiet
  <2>4. CASE P!Gone \/ UNCHANGED P!vars
    <3>1. UNCHANGED <<tail, head, alive>>
      BY <2>4 DEF P!Gone, P!vars
    <3> QED
      BY <3>1, OrderQuiet
  <2> QED
    BY <1>4, <2>1, <2>2, <2>3, <2>4 DEF P!Next
<1> QED
  BY <1>1, <1>2, <1>3, <1>4

\* What main holds when its pop returns is the frame it uses next.
LEMMA FramesNext ==
  ASSUME Outside, ListInv, P!TypeOK, P!ContentInv, P!Carried, Order,
         FramesInOrder, [Next]_vars
  PROVE  FramesInOrder'
<1> USE DEF FramesInOrder, Stream, Main, mainVars
<1>0. at \in [stream : StreamAt, main : MainAt]
  BY DEF Outside
<1>1. CASE StreamStep \/ StreamInRing
  <2>1. at'.main = at.main /\ UNCHANGED <<img, turns>>
    <3>1. CASE \/ OpenFails \/ Open \/ Decode \/ AllRead \/ DecodeFails
               \/ ListFull \/ SetStop \/ ClearReady
      BY <1>0, <3>1 DEF OpenFails, Open, Decode, AllRead, DecodeFails,
                        ListFull, SetStop, ClearReady
    <3>2. CASE StreamSize \/ StreamSized \/ StreamPush \/ StreamPushed
      BY <1>0, <3>2 DEF StreamSize, StreamSized, StreamPush, StreamPushed
    <3>3. CASE StreamInRing
      BY <3>3 DEF StreamInRing, StreamClaims, outsideUnchanged
    <3> QED
      BY <1>1, <3>1, <3>2, <3>3 DEF StreamStep
  <2> QED
    BY <2>1
<1>2. CASE MainPopped
  <2>1. P!PopRelease("main")
    BY <1>2, SameRing DEF MainPopped
  <2>2. pc["main"] = "popRelease" /\ alive
    BY <2>1 DEF P!PopRelease, P!ContentInv, P!Threads
  <2>3. P!Holding["main"] = val["main"] /\ val["main"] # Unread
    BY <2>2, MarksAssumption DEF P!Holding, P!Carried
  <2>4. val["main"] = head
    BY <2>2, <2>3 DEF Order
  <2>5. head = turns + 1
    BY <2>2 DEF ListInv, Used, P!Taking
  <2> QED
    BY <1>2, <2>4, <2>5 DEF MainPopped
<1>3. CASE MainStep /\ ~MainPopped
  <2>1. at'.main # "use"
    <3>1. CASE \/ WaitReady \/ AfterSleep \/ ReadTotal \/ TestTurns
               \/ TestReady \/ UseFrame \/ Join
      BY <1>0, <3>1 DEF WaitReady, AfterSleep, ReadTotal, TestTurns, TestReady,
                        UseFrame, Join
    <3>2. CASE MainSize \/ MainSized \/ MainPop \/ MainPopRefused
      BY <1>0, <3>2 DEF MainSize, MainSized, MainPop, MainPopRefused
    <3> QED
      BY <1>3, <3>1, <3>2 DEF MainStep
  <2> QED
    BY <2>1
<1>4. CASE MainInRing \/ Release \/ Over \/ UNCHANGED vars
  BY <1>4 DEF MainInRing, MainClaims, Release, outsideUnchanged, Over, vars
<1> QED
  BY <1>1, <1>2, <1>3, <1>4 DEF Next

\* With a spare slot, and on a machine that does not reorder loads, the n-th
\* frame that main uses is the n-th that stream has decoded: none is lost,
\* repeated or swapped, for any max_, any video and any interleaving.
THEOREM FramesArriveInOrder ==
  ASSUME SpareSlot, OrderedLoads
  PROVE  Spec => []FramesInOrder
<1>1. /\ Outside /\ P!TypeOK /\ P!RingInv /\ P!ContentInv /\ P!Owned
      /\ ListInv /\ Counted /\ [Next]_vars
      => Counted'
  BY CountedNext
<1>2. P!TypeOK /\ P!RingInv /\ P!Carried /\ [P!Next]_(P!vars) => P!Carried'
  BY RingAssumptions, P!CarriedNext
<1>3. /\ Outside /\ ListInv /\ Counted /\ P!TypeOK /\ P!RingInv
      /\ P!ContentInv /\ P!Carried /\ P!TypeOK' /\ P!RingInv'
      /\ [P!Next]_(P!vars) /\ Order
      => Order'
  BY OrderNext
<1>4. /\ Outside /\ ListInv /\ P!TypeOK /\ P!ContentInv /\ P!Carried
      /\ Order /\ FramesInOrder /\ [Next]_vars
      => FramesInOrder'
  BY FramesNext
<1>5. P!Init => P!Carried
  BY RingAssumptions, P!CarriedInit
<1>6. Spec => []P!Carried
  BY <1>2, <1>5, UsesRing, RingFacts, PTL DEF P!Spec
<1>7. Spec => [](Outside /\ ListInv /\ Counted)
  BY <1>1, OutsideInit, OutsideNext, ListInit, ListNext, CountedInit,
     OwnedAlways, RingFacts, PTL DEF Spec
<1> QED
  BY <1>3, <1>4, <1>6, <1>7, OrderInit, RingStep, RingFacts, PTL DEF Spec

---------------------------------------------------------------------------
(* The types of ParseVideo.                                                *)

\* What is flags and what is frames.
Flagged ==
  /\ created \in BOOLEAN /\ stop \in BOOLEAN
  /\ ready \in BOOLEAN /\ failed \in BOOLEAN
  /\ totalTurn \in 0 .. MaxFrames \cup {Unset}
  /\ pixels \in 0 .. MaxFrames
  /\ img \in Frames \cup {Raw, Unread}

\* The list is never ahead of the decoder, refused pushes or not.
Claimed == tail <= IF pc["stream"] \in P!Claiming THEN total + 1 ELSE total

\* Initially all flags are down and nothing is claimed.
LEMMA FlaggedInit == Init => Flagged /\ Claimed
<1> SUFFICES ASSUME Init PROVE Flagged /\ Claimed
  OBVIOUS
<1>1. Flagged
  <2>1. created = FALSE /\ stop = FALSE /\ ready = FALSE /\ failed = FALSE
    BY DEF Init
  <2>2. totalTurn = Unset /\ pixels = 0 /\ img = Unread /\ 0 \in 0 .. MaxFrames
    BY BoundAssumption DEF Init
  <2> QED
    BY <2>1, <2>2, Zenon DEF Flagged
<1>2. tail = 0 /\ total = 0 /\ pc["stream"] = "idle"
  BY DEF Init, Ring!Init, Ring!Threads
<1> QED
  BY <1>1, <1>2 DEF Claimed, P!Claiming

\* The flags of stream and the frame of main keep their types.
LEMMA FlaggedNext ==
  ASSUME Outside, P!TypeOK, Flagged, [Next]_vars
  PROVE  Flagged'
<1> USE DEF Flagged, flagVars, mainVars
<1>0. /\ video.reported \in 0 .. MaxFrames /\ video.decodable \in 0 .. MaxFrames
      /\ video.breaks \in BOOLEAN /\ decoded \in 0 .. video.decodable
      /\ streamFrames \in 0 .. MaxFrames \cup {Unset}
      /\ val["main"] \in Frames \cup {Raw, Unread}
  BY VideosAssumption DEF Outside, Video, P!TypeOK, P!Threads
<1>1. CASE OpenFails \/ Open
  BY <1>1 DEF OpenFails, Open
<1>2. CASE Decode
  BY <1>0, <1>2, BoundAssumption DEF Decode
<1>3. CASE AllRead \/ SetStop \/ ClearReady
  BY <1>3 DEF AllRead, SetStop, ClearReady
<1>4. CASE DecodeFails
  <2>1. /\ ready' \in BOOLEAN /\ failed' \in BOOLEAN
        /\ UNCHANGED <<created, stop, totalTurn, pixels, img>>
    BY <1>0, <1>4 DEF DecodeFails
  <2> QED
    BY <2>1
<1>5. CASE StreamSize \/ StreamSized \/ ListFull \/ StreamPush \/ StreamPushed
  BY <1>5 DEF StreamSize, StreamSized, ListFull, StreamPush, StreamPushed
<1>6. CASE MainStep
  <2> USE DEF othersUnchanged
  <2>1. CASE WaitReady \/ AfterSleep \/ TestTurns \/ TestReady \/ Join
    BY <2>1 DEF WaitReady, AfterSleep, TestTurns, TestReady, Join
  <2>2. CASE ReadTotal \/ MainSize \/ MainSized \/ MainPop
    BY <1>0, <2>2 DEF ReadTotal, MainSize, MainSized, MainPop
  <2>3. CASE MainPopRefused \/ MainPopped \/ UseFrame
    BY <1>0, <2>3 DEF MainPopRefused, MainPopped, UseFrame
  <2> QED
    BY <1>6, <2>1, <2>2, <2>3 DEF MainStep
<1>7. CASE StreamInRing \/ MainInRing \/ Release
  BY <1>7 DEF StreamInRing, MainInRing, StreamClaims, MainClaims, Release,
              outsideUnchanged
<1>8. CASE Over \/ UNCHANGED vars
  BY <1>8 DEF Over, vars
<1> QED
  BY <1>1, <1>2, <1>3, <1>4, <1>5, <1>6, <1>7, <1>8 DEF Next, StreamStep

\* A push claims one ticket at most, and stream counts it in any case.
LEMMA ClaimedNext ==
  ASSUME Outside, P!TypeOK, ListInv, Claimed, [Next]_vars
  PROVE  Claimed'
<1> USE DEF Claimed, P!Goto, P!Return, P!ClaimFails, P!Begin, P!shared,
            P!PushPc, P!PopPc, P!Claiming, ListInv, Calls, Stream
<1>0. /\ at \in [stream : StreamAt, main : MainAt]
      /\ pc \in [{"stream", "main"} ->
                   {"idle", "size"} \cup P!PushPc \cup P!PopPc]
      /\ ticket \in [{"stream", "main"} -> Nat]
      /\ tail \in Nat /\ head \in Nat /\ total \in Nat
  BY DEF Outside, P!TypeOK, P!Threads
<1>1. CASE \/ OpenFails \/ Open \/ Decode \/ AllRead \/ DecodeFails
           \/ ListFull \/ SetStop \/ ClearReady
  BY <1>1 DEF OpenFails, Open, Decode, AllRead, DecodeFails, ListFull,
              SetStop, ClearReady, ringVars
<1>2. CASE StreamSize \/ StreamSized
  <2>1. P!SizeLoadHead("stream") \/ P!SizeReturn("stream")
    BY <1>2, SameRing DEF StreamSize, StreamSized
  <2> QED
    BY <1>0, <1>2, <2>1 DEF StreamSize, StreamSized, P!SizeLoadHead,
                            P!SizeReturn
<1>3. CASE StreamPush
  <2>1. Ring!PushLoad("stream", decoded)
    BY <1>3 DEF StreamPush
  <2> QED
    BY <1>0, <1>3, <2>1
       DEF StreamPush, Ring!PushLoad, Ring!Begin, Ring!Goto, Ring!shared
<1>4. CASE StreamPushed
  <2>1. P!PushPublish("stream") \/ P!PushRefuse("stream")
    BY <1>4, SameRing DEF StreamPushed
  <2> QED
    BY <1>0, <1>4, <2>1 DEF StreamPushed, P!PushPublish, P!PushRefuse
<1>5. CASE StreamInRing
  <2>0. UNCHANGED total
    BY <1>5 DEF StreamInRing, StreamClaims, outsideUnchanged
  <2>1. \/ P!PushClaim("stream") \/ P!PushCheck("stream")
        \/ P!PushClaimFails("stream") \/ P!PushWrite("stream")
    BY <1>5, SameRing DEF StreamInRing, StreamClaims
  <2>2. CASE P!PushClaim("stream")
    BY <1>0, <2>0, <2>2 DEF P!PushClaim
  <2>3. CASE P!PushCheck("stream") \/ P!PushClaimFails("stream")
    BY <1>0, <2>0, <2>3 DEF P!PushCheck, P!PushClaimFails
  <2>4. CASE P!PushWrite("stream")
    BY <1>0, <2>0, <2>4 DEF P!PushWrite
  <2> QED
    BY <2>1, <2>2, <2>3, <2>4
<1>6. CASE MainStep \/ MainInRing
  BY <1>6, MainLeavesStream
<1>7. CASE Release \/ Over \/ UNCHANGED vars
  BY <1>7 DEF Release, Ring!Destroy, outsideUnchanged, Over, vars, ringVars
<1> QED
  BY <1>1, <1>2, <1>3, <1>4, <1>5, <1>6, <1>7 DEF Next, StreamStep

\* The theorem about the types of ParseVideo, for every BufferSize: also that
\* main never uses more frames than a video has, whether pushes are refused or not.
THEOREM VideoTyped == Spec => []TypeOK
<1>1. ASSUME Outside, P!TypeOK, P!RingInv, ListInv, Flagged, Claimed
      PROVE  TypeOK
  <2> USE <1>1
  <2>1. Ring!TypeOK
    BY DEF Ring!TypeOK, P!TypeOK, Ring!Slots, P!Slots, Ring!Threads, P!Threads,
           Ring!PushPc, P!PushPc, Ring!PopPc, P!PopPc
  <2>2. /\ video.decodable \in 0 .. MaxFrames /\ decoded \in 0 .. video.decodable
        /\ total \in Nat /\ turns \in Nat /\ tail \in Nat /\ head \in Nat
        /\ MaxFrames \in Nat
    BY VideosAssumption, BoundAssumption DEF Outside, Video, P!TypeOK
  <2>3. tail <= decoded
    <3>1. CASE pc["stream"] \in P!Claiming
      <4>1. at.stream = "pushing"
        BY <3>1 DEF ListInv, Calls, P!Claiming
      <4> QED
        BY <2>2, <3>1, <4>1 DEF Claimed, Outside, Working
    <3>2. CASE pc["stream"] \notin P!Claiming
      BY <2>2, <3>2 DEF Claimed, Outside
    <3> QED
      BY <3>1, <3>2
  <2>4. total <= decoded
    BY <2>2 DEF Outside
  <2>5. turns <= head /\ head <= tail
    BY <2>2 DEF ListInv, Used, P!RingInv
  <2>6. {decoded, pixels, total, turns} \subseteq 0 .. MaxFrames
    BY <2>2, <2>3, <2>4, <2>5 DEF Flagged
  <2> QED
    BY <2>1, <2>6 DEF TypeOK, Outside, Flagged, StreamAt, MainAt
<1> QED
  BY <1>1, FlaggedInit, FlaggedNext, ClaimedNext, OutsideInit, OutsideNext, ListInit,
     ListNext, RingFacts, PTL DEF Spec
---------------------------------------------------------------------------
(* Neither thread leaves the other behind.                                 *)

Waiting == {"wait", "waited"}
Left == {"join", "done"}
Ended == {"stop", "unready", "done"}

\* Stream has no further frame to hand over.
Through ==
  \/ at.stream \in Ended
  \/ at.stream = "loop" /\ ~WantsMore

\* The video has more than max_ frames, and its header says so.
FillsList ==
  FromStream /\ video.opens /\ video.reported > Max /\ video.decodable > Max

\* Main leaves its loop only when stream needs no room in the list any more,
\* and stream does not end while main waits for a list that will be full.
NobodyLeft ==
  /\ at.main \in Left => Through
  /\ FillsList /\ at.stream \in Ended => at.main \notin Waiting

\* What the flags say of the stream that sets them.
Signals ==
  /\ stop => at.stream \in {"unready", "done"}
  /\ at.stream = "open" => ~ready /\ at.main \in Waiting
  /\ at.main \notin Waiting \cup Left => ready \/ at.stream \in Ended
  /\ FromStream => /\ at.stream \in Working => total < streamFrames
                   /\ at.stream \in Working \cup {"loop"} =>
                        streamFrames = video.reported
                   /\ at.main \notin Waiting \cup {"total"} =>
                        totalTurn = streamFrames

\* While main waits nothing has been popped and no push refused.
Filling == at.main \in Waiting => head = 0 /\ Counted

Meeting == Signals /\ Filling /\ NobodyLeft

\* Initially both are at their beginning.
LEMMA MeetingInit == Init => Meeting
<1> SUFFICES ASSUME Init PROVE Meeting
  OBVIOUS
<1>1. /\ at.stream = "open" /\ at.main = "wait"
      /\ stop = FALSE /\ ready = FALSE /\ head = 0
  BY DEF Init, Ring!Init
<1>2. Signals
  BY <1>1 DEF Signals, Waiting, Left, Ended, Working
<1>3. Filling
  BY <1>1, CountedInit DEF Filling
<1>4. NobodyLeft
  BY <1>1 DEF NobodyLeft, Waiting, Left, Ended
<1> QED
  BY <1>2, <1>3, <1>4 DEF Meeting

\* What a step of main, in the ring or outside, leaves alone.
LEMMA MainOutside ==
  ASSUME Outside, MainStep \/ MainInRing
  PROVE  /\ UNCHANGED <<flagVars, video, total, decoded>>
         /\ at'.stream = at.stream
<1> USE DEF Outside, Main, othersUnchanged
<1>1. CASE WaitReady \/ AfterSleep \/ TestTurns \/ TestReady \/ Join
  BY <1>1 DEF WaitReady, AfterSleep, TestTurns, TestReady, Join
<1>2. CASE ReadTotal \/ MainSize \/ MainSized \/ MainPop
  BY <1>2 DEF ReadTotal, MainSize, MainSized, MainPop
<1>3. CASE MainPopRefused \/ MainPopped \/ UseFrame
  BY <1>3 DEF MainPopRefused, MainPopped, UseFrame
<1>4. CASE MainInRing
  BY <1>4 DEF MainInRing, MainClaims, outsideUnchanged
<1> QED
  BY <1>1, <1>2, <1>3, <1>4 DEF MainStep

\* What a step of stream leaves alone.
LEMMA StreamOutside ==
  ASSUME Outside, StreamStep \/ StreamInRing
  PROVE  UNCHANGED <<mainVars, video>> /\ at'.main = at.main
<1> USE DEF Outside, Stream
<1>1. CASE OpenFails \/ Open \/ Decode \/ AllRead \/ DecodeFails
  BY <1>1 DEF OpenFails, Open, Decode, AllRead, DecodeFails
<1>2. CASE StreamSize \/ StreamSized \/ ListFull \/ StreamPush \/ StreamPushed
  BY <1>2 DEF StreamSize, StreamSized, ListFull, StreamPush, StreamPushed
<1>3. CASE SetStop \/ ClearReady
  BY <1>3 DEF SetStop, ClearReady
<1>4. CASE StreamInRing
  BY <1>4 DEF StreamInRing, StreamClaims, outsideUnchanged
<1> QED
  BY <1>1, <1>2, <1>3, <1>4 DEF StreamStep

\* Main never uses more frames than stream has counted.
LEMMA UsedIsCounted ==
  ASSUME Outside, P!TypeOK, P!RingInv, ListInv, Claimed
  PROVE  turns <= total
<1>0. /\ tail \in Nat /\ head \in Nat /\ total \in Nat /\ turns \in Nat
      /\ ticket["stream"] \in Nat
  BY DEF Outside, P!TypeOK, P!Threads
<1>1. turns <= head
  BY <1>0 DEF ListInv, Used
<1>2. CASE pc["stream"] \in P!Claiming
  <2>1. head <= ticket["stream"] /\ ticket["stream"] < tail
    BY <1>2 DEF P!RingInv, P!PushesInLap
  <2> QED
    BY <1>0, <1>1, <1>2, <2>1 DEF Claimed
<1>3. CASE pc["stream"] \notin P!Claiming
  BY <1>0, <1>1, <1>3 DEF Claimed, P!RingInv
<1> QED
  BY <1>2, <1>3

\* Signals is preserved by stream: it sets ready and stop where Signals says.
LEMMA SignalsOfStream ==
  ASSUME Outside, Signals, StreamStep \/ StreamInRing
  PROVE  Signals'
<1> USE DEF Signals, Stream, FromStream, flagVars, Working, Ended
<1>0. /\ at \in [stream : StreamAt, main : MainAt]
      /\ UNCHANGED <<totalTurn, video>> /\ at'.main = at.main
      /\ total \in Nat /\ streamFrames \in 0 .. MaxFrames \cup {Unset}
  BY StreamOutside DEF Outside, mainVars
<1> USE DEF Waiting, Left
<1>1. CASE OpenFails \/ Open
  BY <1>0, <1>1 DEF OpenFails, Open
<1>2. CASE Decode
  BY <1>0, <1>2 DEF Decode, WantsMore
<1>3. CASE AllRead \/ SetStop \/ ClearReady
  BY <1>0, <1>3 DEF AllRead, SetStop, ClearReady
<1>4. CASE DecodeFails
  <2>1. /\ UNCHANGED <<stop, streamFrames, total>>
        /\ at.stream = "loop" /\ at'.stream = "stop"
    BY <1>0, <1>4 DEF DecodeFails
  <2> QED
    BY <1>0, <2>1
<1>5. CASE StreamSize \/ StreamSized \/ ListFull \/ StreamPush
  BY <1>0, <1>5 DEF StreamSize, StreamSized, ListFull, StreamPush
<1>6. CASE StreamPushed
  BY <1>0, <1>6 DEF StreamPushed
<1>7. CASE StreamInRing
  <2>1. UNCHANGED <<flagVars, total, at>>
    BY <1>7 DEF StreamInRing, StreamClaims, outsideUnchanged
  <2> QED
    BY <1>0, <2>1
<1> QED
  BY <1>1, <1>2, <1>3, <1>4, <1>5, <1>6, <1>7 DEF StreamStep

\* Signals is preserved by main: it goes on only when it has seen ready, and
\* reads total_turn when stream_frames_ will not change any more.
LEMMA SignalsOfMain ==
  ASSUME Outside, Signals, MainStep \/ MainInRing
  PROVE  Signals'
<1> USE DEF Signals, Main, FromStream, flagVars, Waiting, Left, Ended
<1>0. /\ at \in [stream : StreamAt, main : MainAt]
      /\ UNCHANGED <<flagVars, video, total>> /\ at'.stream = at.stream
  BY MainOutside DEF Outside
<1>1. CASE WaitReady \/ AfterSleep
  BY <1>0, <1>1 DEF WaitReady, AfterSleep, mainVars
<1>2. CASE ReadTotal
  BY <1>0, <1>2 DEF ReadTotal
<1>3. CASE TestTurns \/ TestReady \/ Join
  BY <1>0, <1>3 DEF TestTurns, TestReady, Join, mainVars
<1>4. CASE MainSize \/ MainSized \/ MainPop \/ MainPopRefused
  BY <1>0, <1>4 DEF MainSize, MainSized, MainPop, MainPopRefused, mainVars
<1>5. CASE MainPopped \/ UseFrame
  BY <1>0, <1>5 DEF MainPopped, UseFrame
<1>6. CASE MainInRing
  BY <1>6 DEF MainInRing, MainClaims, outsideUnchanged, mainVars
<1> QED
  BY <1>1, <1>2, <1>3, <1>4, <1>5, <1>6 DEF MainStep

\* While nothing has been popped each slot still waits for the ticket of its
\* own number, so no push is refused before the list is full.
LEMMA FillingNeverRefused ==
  ASSUME P!TypeOK, P!RingInv, ListInv, Filling, at.main \in Waiting,
         P!PushRefuse("stream")
  PROVE  FALSE
<1> DEFINE C == RoundUp(Max)
<1>0. /\ head = 0 /\ pc["stream"] = "pushCheck" /\ ticket["stream"] = tail
      /\ tail < head + Max
      /\ slotTail[P!Slot(tail)] # tail
  BY DEF Filling, P!PushRefuse, Counted, ListInv, Room, P!PushPc, P!Claiming
<1>1. /\ tail \in Nat /\ C \in Nat \ {0} /\ Max \in Nat /\ Max <= C
      /\ tail < Max
  BY <1>0, RoundUpCovers DEF P!TypeOK
<1>2. P!Slot(tail) = tail % C
  BY DEF P!Slot
<1>3. tail \in P!Slots /\ slotTail \in [P!Slots -> Nat]
  BY <1>0, <1>1 DEF P!Slots, P!TypeOK
<1>4. slotTail[tail] % C = tail /\ slotTail[tail] < head + C
  BY <1>3 DEF P!RingInv, P!SlotsInLap, P!Slot
<1> HIDE DEF C
<1>5. tail % C = tail
  BY <1>0, <1>1
<1>6. slotTail[tail] \in Nat /\ slotTail[tail] < C
  BY <1>0, <1>1, <1>3, <1>4
<1>7. slotTail[tail] % C = slotTail[tail]
  BY <1>1, <1>6
<1> QED
  BY <1>0, <1>2, <1>4, <1>5, <1>7

\* Main never comes back to where it waits.
LEMMA WaitsBefore ==
  ASSUME Outside, [Next]_vars, at'.main \in Waiting
  PROVE  at.main \in Waiting
<1>0. at \in [stream : StreamAt, main : MainAt]
  BY DEF Outside
<1> USE DEF Waiting, Main
<1>1. CASE StreamStep \/ StreamInRing
  BY <1>1, StreamOutside
<1>2. CASE MainStep
  <2>1. CASE \/ WaitReady \/ AfterSleep \/ ReadTotal \/ TestTurns
             \/ TestReady \/ Join \/ UseFrame
    BY <1>0, <2>1 DEF WaitReady, AfterSleep, ReadTotal, TestTurns,
                      TestReady, Join, UseFrame
  <2>2. CASE MainSize \/ MainSized \/ MainPop \/ MainPopRefused \/ MainPopped
    BY <1>0, <2>2 DEF MainSize, MainSized, MainPop, MainPopRefused,
                      MainPopped
  <2> QED
    BY <1>2, <2>1, <2>2 DEF MainStep
<1>3. CASE MainInRing \/ Release \/ Over \/ UNCHANGED vars
  BY <1>3 DEF MainInRing, MainClaims, Release, outsideUnchanged, Over, vars
<1> QED
  BY <1>1, <1>2, <1>3 DEF Next

\* Filling is inductive.
LEMMA FillingNext ==
  ASSUME Outside, P!TypeOK, P!RingInv, ListInv, Filling, [Next]_vars
  PROVE  Filling'
<1> SUFFICES ASSUME at'.main \in Waiting
             PROVE  head' = 0 /\ Counted'
  BY DEF Filling
<1>0. at \in [stream : StreamAt, main : MainAt]
  BY DEF Outside
<1>1. at.main \in Waiting
  BY WaitsBefore
<1>2. Counted /\ head = 0 /\ ~P!PushRefuse("stream")
  BY <1>1, FillingNeverRefused DEF Filling
<1>3. Counted'
  BY <1>2, CountedUnlessRefused
<1>4. ~P!PopClaim("main")
  BY <1>1 DEF P!PopClaim, ListInv, Calls, Waiting
<1>5. [P!Next]_(P!vars)
  BY RingStep
<1>6. head' = head
  BY <1>4, <1>5 DEF P!Next, P!PushStep, P!PushLoad, P!PushRefuse, P!PushCheck,
       P!PushClaim, P!PushClaimFails, P!PushWrite, P!PushPublish, P!PopStep,
       P!PopLoad, P!PopFetchEarly, P!PopRefuse, P!PopCheck, P!PopClaimFails,
       P!PopRead, P!PopDestroy, P!PopRelease, P!SizeStep, P!SizeLoadHead,
       P!SizeReturn, P!Destroy, P!Gone, P!vars, P!shared, P!Begin
<1> QED
  BY <1>2, <1>3, <1>6
\* Once stream is through it stays so.
LEMMA ThroughStays ==
  ASSUME Outside, Through, [Next]_vars
  PROVE  Through'
<1> USE DEF Through, WantsMore, Ended, FromStream, flagVars
<1>0. at \in [stream : StreamAt, main : MainAt]
  BY DEF Outside
<1>1. CASE StreamStep
  <2> USE DEF Stream
  <2>1. CASE OpenFails \/ Open \/ Decode \/ DecodeFails
    BY <1>0, <2>1 DEF OpenFails, Open, Decode, DecodeFails
  <2>2. CASE AllRead \/ SetStop \/ ClearReady
    BY <1>0, <2>2 DEF AllRead, SetStop, ClearReady
  <2>3. CASE StreamSize \/ StreamSized \/ ListFull \/ StreamPush \/ StreamPushed
    BY <1>0, <2>3 DEF StreamSize, StreamSized, ListFull, StreamPush,
                      StreamPushed
  <2> QED
    BY <1>1, <2>1, <2>2, <2>3 DEF StreamStep
<1>2. CASE StreamInRing \/ Release
  <2>1. UNCHANGED <<flagVars, video, total, at>>
    BY <1>2 DEF StreamInRing, StreamClaims, Release, outsideUnchanged
  <2> QED
    BY <2>1
<1>3. CASE MainStep \/ MainInRing
  <2>1. UNCHANGED <<flagVars, video, total>> /\ at'.stream = at.stream
    BY <1>3, MainOutside
  <2> QED
    BY <2>1
<1>4. CASE Over \/ UNCHANGED vars
  BY <1>4 DEF Over, vars
<1> QED
  BY <1>1, <1>2, <1>3, <1>4 DEF Next

\* Main leaves its loop only when stream is through: because it has used all
\* the frames that the header reports, or because a flag told it so.
LEMMA LeavesWhenThrough ==
  ASSUME Outside, P!TypeOK, P!RingInv, ListInv, Claimed, Signals,
         at.main \notin Left, at'.main \in Left, [Next]_vars
  PROVE  Through
<1> USE DEF Left
<1>0. /\ at \in [stream : StreamAt, main : MainAt]
      /\ total \in Nat /\ turns \in Nat
      /\ streamFrames \in 0 .. MaxFrames \cup {Unset}
  BY DEF Outside
<1>1. MainStep
  <2>1. CASE StreamStep \/ StreamInRing
    BY <2>1, StreamOutside
  <2>2. CASE MainInRing \/ Release \/ Over \/ UNCHANGED vars
    BY <2>2 DEF MainInRing, MainClaims, Release, outsideUnchanged, Over, vars
  <2> QED
    BY <2>1, <2>2 DEF Next
<1>2. CASE AfterSleep
  <2>1. stop
    BY <1>0, <1>2 DEF AfterSleep, Main
  <2> QED
    BY <2>1 DEF Signals, Through, Ended
<1>3. CASE TestTurns
  <2>1. /\ at.main = "loop"
        /\ ~(IF FromStream THEN turns < totalTurn ELSE ~stop)
    BY <1>0, <1>3 DEF TestTurns, Main
  <2>2. CASE ~FromStream
    BY <2>1, <2>2 DEF Signals, Through, Ended
  <2>3. CASE FromStream
    <3>1. totalTurn = streamFrames
      BY <2>1, <2>3 DEF Signals, Waiting
    <3>2. ~(total < streamFrames)
      <4>1. turns <= total /\ ~(turns < streamFrames)
        BY <2>1, <2>3, <3>1, UsedIsCounted
      <4> QED
        BY <1>0, <4>1, BoundAssumption DEF Unset
    <3>3. at.stream \notin Working /\ at.stream # "open"
      BY <2>1, <2>3, <3>2 DEF Signals, Waiting
    <3>4. at.stream \in Ended \cup {"loop"}
      BY <1>0, <3>3 DEF StreamAt, Working, Ended
    <3> QED
      BY <2>3, <3>2, <3>4 DEF Through, WantsMore
  <2> QED
    BY <2>2, <2>3
<1>4. CASE TestReady
  <2>1. at.main = "test" /\ ~ready
    BY <1>0, <1>4 DEF TestReady, Main
  <2> QED
    BY <2>1 DEF Signals, Through, Waiting
<1>5. CASE WaitReady \/ ReadTotal \/ UseFrame \/ Join
  BY <1>0, <1>5 DEF WaitReady, ReadTotal, UseFrame, Join, Main
<1>6. CASE MainSize \/ MainSized \/ MainPop \/ MainPopRefused \/ MainPopped
  BY <1>0, <1>6 DEF MainSize, MainSized, MainPop, MainPopRefused, MainPopped,
                    Main
<1> QED
  BY <1>1, <1>2, <1>3, <1>4, <1>5, <1>6 DEF MainStep

\* Stream does not end while main waits for a list that will be full: it has
\* counted no more than max_ frames, and the video has more.
LEMMA StaysWhileFilling ==
  ASSUME Outside, P!TypeOK, ListInv, Signals, Filling, NobodyLeft, FillsList,
         at'.main \in Waiting, [Next]_vars
  PROVE  at'.stream \notin Ended
<1>0. /\ at \in [stream : StreamAt, main : MainAt]
      /\ total \in Nat /\ tail \in Nat /\ head \in Nat /\ Max \in Nat
      /\ video.reported \in Nat /\ video.decodable \in Nat
  BY RoundUpCovers, VideosAssumption DEF Outside, P!TypeOK, Video
<1>1. CASE at.main \in Waiting
  <2>1. at.stream \notin Ended
    BY <1>1 DEF NobodyLeft
  <2>2. total <= Max
    BY <1>0, <1>1 DEF Filling, Counted, ListInv, Room
  <2>3. CASE StreamStep
    <3> USE DEF Stream, Ended
    <3>1. CASE AllRead
      <4>1. at.stream = "loop" /\ ~WantsMore
        BY <3>1 DEF AllRead
      <4>2. ~stop /\ streamFrames = video.reported
        BY <4>1 DEF Signals, FillsList
      <4> QED
        BY <1>0, <2>2, <4>1, <4>2 DEF WantsMore, FillsList
    <3>2. CASE DecodeFails
      <4>1. at.stream = "loop" /\ decoded = video.decodable
        BY <3>2 DEF DecodeFails
      <4>2. decoded = total
        BY <4>1 DEF Outside, Working
      <4> QED
        BY <1>0, <2>2, <4>1, <4>2 DEF FillsList
    <3>3. CASE OpenFails
      BY <3>3 DEF OpenFails, FillsList
    <3>4. CASE SetStop \/ ClearReady
      BY <2>1, <3>4 DEF SetStop, ClearReady
    <3>5. CASE Open \/ Decode \/ StreamSize \/ StreamSized
      BY <1>0, <3>5 DEF Open, Decode, StreamSize, StreamSized
    <3>6. CASE ListFull \/ StreamPush \/ StreamPushed
      BY <1>0, <3>6 DEF ListFull, StreamPush, StreamPushed
    <3> QED
      BY <2>3, <3>1, <3>2, <3>3, <3>4, <3>5, <3>6 DEF StreamStep
  <2>4. CASE MainStep \/ MainInRing
    BY <2>1, <2>4, MainOutside
  <2>5. CASE StreamInRing \/ Release \/ Over \/ UNCHANGED vars
    BY <2>1, <2>5 DEF StreamInRing, StreamClaims, Release, outsideUnchanged,
                      Over, vars
  <2> QED
    BY <2>3, <2>4, <2>5 DEF Next
<1>2. CASE at.main \notin Waiting
  BY <1>2, WaitsBefore
<1> QED
  BY <1>1, <1>2

\* The video of a run does not change.
LEMMA VideoStays ==
  ASSUME Outside, [Next]_vars
  PROVE  video' = video
<1>1. CASE StreamStep \/ StreamInRing
  BY <1>1, StreamOutside
<1>2. CASE MainStep \/ MainInRing
  BY <1>2, MainOutside
<1>3. CASE Release \/ Over \/ UNCHANGED vars
  BY <1>3 DEF Release, outsideUnchanged, Over, vars
<1> QED
  BY <1>1, <1>2, <1>3 DEF Next

\* NobodyLeft is preserved, given what supports it.
LEMMA NobodyLeftNext ==
  ASSUME Outside, P!TypeOK, P!RingInv, ListInv, Claimed, Signals, Filling,
         NobodyLeft, [Next]_vars
  PROVE  NobodyLeft'
<1>1. ASSUME at'.main \in Left
      PROVE  Through'
  <2>1. Through
    <3>1. CASE at.main \in Left
      BY <3>1 DEF NobodyLeft
    <3>2. CASE at.main \notin Left
      BY <1>1, <3>2, LeavesWhenThrough
    <3> QED
      BY <3>1, <3>2
  <2> QED
    BY <2>1, ThroughStays
<1>2. ASSUME FillsList', at'.stream \in Ended
      PROVE  at'.main \notin Waiting
  <2>1. FillsList
    <3>1. video' = video
      BY VideoStays
    <3> QED
      BY <1>2, <3>1 DEF FillsList, FromStream
  <2> QED
    BY <1>2, <2>1, StaysWhileFilling
<1> QED
  BY <1>1, <1>2 DEF NobodyLeft, Ended, Waiting, Left

\* For every video, every max_ and every interleaving: main does not leave
\* its loop while stream still needs room in the list, so the loop of stream
\* that waits for room always has somebody to make it; and when the video has
\* more than max_ frames, stream does not end before main has seen ready.
\* These are the two ways in which a thread could be left behind for ever.
THEOREM NeitherIsLeft == Spec => []NobodyLeft
<1>1. /\ Outside /\ P!TypeOK /\ P!RingInv /\ ListInv /\ Claimed /\ Meeting
      /\ [Next]_vars
      => Meeting'
  <2> SUFFICES ASSUME Outside, P!TypeOK, P!RingInv, ListInv, Claimed, Meeting,
                      [Next]_vars
               PROVE  Meeting'
    OBVIOUS
  <2>0. Signals /\ Filling /\ NobodyLeft
    BY DEF Meeting
  <2>1. Signals'
    <3>1. CASE StreamStep \/ StreamInRing
      BY <2>0, <3>1, SignalsOfStream
    <3>2. CASE MainStep \/ MainInRing
      BY <2>0, <3>2, SignalsOfMain
    <3>3. CASE Release \/ Over \/ UNCHANGED vars
      <4>1. UNCHANGED <<flagVars, mainVars, video, total, at>>
        BY <3>3 DEF Release, outsideUnchanged, Over, vars
      <4> QED
        BY <2>0, <4>1 DEF Signals, flagVars, mainVars, FromStream
    <3> QED
      BY <3>1, <3>2, <3>3 DEF Next
  <2>2. Filling' /\ NobodyLeft'
    BY <2>0, FillingNext, NobodyLeftNext
  <2> QED
    BY <2>1, <2>2 DEF Meeting
<1>2. Meeting => NobodyLeft
  BY DEF Meeting
<1> QED
  BY <1>1, <1>2, MeetingInit, FlaggedInit, ClaimedNext, OutsideInit,
     OutsideNext, ListInit, ListNext, RingFacts, PTL DEF Spec
===========================================================================
