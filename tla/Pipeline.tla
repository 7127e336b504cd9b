------------------------------ MODULE Pipeline ------------------------------
(* The pipelines of one process: src/pipeline/pipeline.cc with the stages   *)
(* and engines it drives, and the factories that outlive every pipeline.    *)
(* A test program makes one pipeline after the other from a list of model   *)
(* configurations, pushes a frame and runs the stages on it, again and      *)
(* again.  Stages and engines are objects of the process, not of the        *)
(* pipeline, so what they remember is carried from one pipeline to the next.*)
(* An image, a tensor or a struct in transit is abstracted to a flow: which *)
(* frame and which person it was made from, as what it can be read, and     *)
(* whether it was made from a tensor that was not meant.                    *)
EXTENDS Integers, FiniteSets, SequencesExt

CONSTANTS
  Configs,        \* the lists of model configurations pipelines are made from
  Decorators,     \* the names registered with REG_Stage
  Engines,        \* the <<name, type>> registered with REG_DeviceEngine
  Capacity,       \* the detections a detect_res holds: 30 in the code
  MaxPipelines,   \* bound: pipelines made in the process
  MaxFrames,      \* bound: frames pushed in the process
  MaxPersons      \* bound: persons in a frame

\* ModelConfig: name, the engine type or "Stage", position in the pipeline.
Model(names) == [name : names, type : {"nb", "trt", "Stage"}, position : Nat]

\* InitPipeline indexes stages_ with the positions, PushDatatoPipeline indexes
\* input_data with the stages at position 0: one there, none past the end.
ASSUME ConfigsAssumption ==
  \A c \in Configs :
    /\ c \in Seq(Model(STRING)) /\ c # <<>>
    /\ \A i \in DOMAIN c : c[i].position < Len(c)
    /\ Cardinality({i \in DOMAIN c : c[i].position = 0}) = 1
    /\ IsInjective([i \in DOMAIN c |-> c[i].name])

ASSUME BoundsAssumption ==
  /\ Capacity \in Nat
  /\ MaxPipelines \in Nat /\ MaxFrames \in Nat /\ MaxPersons \in Nat

Names == Decorators \cup {e[1] : e \in Engines}
None == "none"

VARIABLES
  \* of the process
  tails,       \* tail_stages of each stage
  sub,         \* extra_stage_ptr_: the type of the engine a stage wraps
  created,     \* whether the last CreateGraph of each engine came through
  built,       \* element_sum_, in outputs of the engine's own graph
  input,       \* the input tensor of each engine's graph
  pipelines,   \* how many pipelines have been made
  frame,       \* how many frames have been pushed
  phase,       \* what the process does
  \* of the pipeline that is in use
  cfg,         \* the model configurations it is made from
  registered,  \* how many of them are registered
  stages,      \* stages_
  ctx,         \* process_context_, the contexts in it
  todo         \* the stages RunPipeline still has to run on the frame

processVars == <<tails, sub, created, built, input, pipelines>>
runVars == <<tails, sub, created, built, pipelines, frame, phase>>
pipelineVars == <<cfg, registered, stages>>
vars == <<processVars, frame, phase, pipelineVars, ctx, todo>>

Flow == [frame : 0 .. MaxFrames, of : 0 .. MaxPersons,
         kind : {"image", "nothing", "tensor", "person", "crop", "feature",
                 "tracks", "blank", "empty", "garbage"},
         kept : BOOLEAN]

\* What of a device::Context the stages depend on.
Context == [batches : Nat, dataflow : Seq(Flow), out : Seq(Flow)]

Blank == [frame |-> 0, of |-> 0, kind |-> "blank", kept |-> FALSE]

\* The frame as a whole, pushed or tracked.
Whole(f, what) == [Blank EXCEPT !.frame = f, !.kind = what]

\* CreateContexts resizes dataflow_ to the inputs of an engine, one each.
NewContext(type) ==
  [batches |-> 0, out |-> <<>>,
   dataflow |-> IF type = "Stage" THEN <<>> ELSE <<Blank>>]

TypeOK ==
  /\ tails \in [Names -> Seq(Names)]
  /\ sub \in [Names -> {"nb", "trt", None}]
  /\ created \in [Names -> BOOLEAN]
  /\ built \in [Names -> Nat]
  /\ input \in [Names -> Flow]
  /\ pipelines \in 0 .. MaxPipelines
  /\ frame \in 0 .. MaxFrames
  /\ phase \in {"none", "registering", "idle", "pushed", "running", "aborted"}
  /\ cfg \in Configs \cup {<<>>}
  /\ registered \in 0 .. Len(cfg)
  /\ stages \in Seq(Seq(Names)) /\ Len(stages) = Len(cfg)
  /\ DOMAIN ctx \subseteq Names /\ Range(ctx) \subseteq Context
  /\ todo \in Seq(Names)

Init ==
  /\ tails = [n \in Names |-> <<>>]
  /\ sub = [n \in Names |-> None]
  /\ created = [n \in Names |-> FALSE]
  /\ built = [n \in Names |-> 0]
  /\ input = [n \in Names |-> Blank]
  /\ pipelines = 0
  /\ frame = 0
  /\ phase = "none"
  /\ cfg = <<>>
  /\ registered = 0
  /\ stages = <<>>
  /\ ctx = <<>>
  /\ todo = <<>>

---------------------------------------------------------------------------
(* Actions with a slip that could have been made in the code; they are no  *)
(* part of Next.                                                           *)

\* The context of a stage without engine is not entered in process_context_.
RegisterStageUnlisted(m) ==
  /\ phase = "registering"
  /\ m = cfg[registered + 1] /\ m.type = "Stage"
  /\ registered' = registered + 1
  /\ stages' = [stages EXCEPT ![m.position + 1] = Append(@, m.name)]
  /\ tails' = [n \in Names |->
                 IF m.position > 0 /\ Contains(stages[m.position], n)
                   THEN Append(tails[n], m.name) ELSE tails[n]]
  /\ UNCHANGED <<sub, created, built, input, pipelines, frame, phase, cfg,
                 ctx, todo>>

\* The stages of the model's own position are told of the model.
LinkSelf(m, s) ==
  [n \in Names |-> IF Contains(s[m.position + 1], n)
                     THEN Append(tails[n], m.name) ELSE tails[n]]

\* PushDatatoPipeline leaves the number of batches as the last frame left it.
EnteredKeepingBatches(c, what) ==
  [c EXCEPT !.batches = IF @ = 0 THEN 1 ELSE @,
            !.dataflow = <<Whole(frame + 1, what)>>]

\* TransmitContext forgets the number of batches.
TransmittedNoBatches(from, to) == [to EXCEPT !.dataflow = from.out]

\* The persons are numbered from what was found, not from one.
PersonsFrom(n, f) ==
  [i \in 1 .. n |-> [f EXCEPT !.of = n + i, !.kind = "person"]]

---------------------------------------------------------------------------
(* InitPipeline: the models of a configuration are registered in turn.     *)

\* std::make_shared<Pipeline>(), and InitPipeline resizes stages_.
NewPipeline(c) ==
  /\ phase \in {"none", "idle"}
  /\ pipelines < MaxPipelines
  /\ pipelines' = pipelines + 1
  /\ phase' = "registering"
  /\ cfg' = c
  /\ registered' = 0
  /\ stages' = [p \in DOMAIN c |-> <<>>]
  /\ ctx' = <<>>
  /\ UNCHANGED <<tails, sub, created, built, input, frame, todo>>

\* LOG(FATAL), an uncaught exception or a wild access ends the process.
Abort ==
  /\ phase' = "aborted"
  /\ UNCHANGED <<processVars, pipelineVars, frame, ctx, todo>>

Place(m) == [stages EXCEPT ![m.position + 1] = Append(@, m.name)]

\* ConnectTailStage on the stages that are already at the position before.
Link(m, s) ==
  [n \in Names |-> IF m.position > 0 /\ Contains(s[m.position], n)
                     THEN Append(tails[n], m.name) ELSE tails[n]]

\* The stage gets a context of its own; one stage per name.
Enter(m) == [n \in DOMAIN ctx \cup {m.name} |->
               IF n \in DOMAIN ctx THEN ctx[n] ELSE NewContext(m.type)]

\* RegisterStage.  AddProcess(nullptr) returns before it changes anything: a
\* stage that has wrapped an engine in an earlier pipeline keeps it.
RegisterStage(m) ==
  /\ phase = "registering"
  /\ m = cfg[registered + 1] /\ m.type = "Stage"
  /\ IF m.name \notin Decorators THEN Abort
     ELSE /\ registered' = registered + 1
          /\ stages' = Place(m)
          /\ tails' = Link(m, stages')
          /\ ctx' = Enter(m)
          /\ UNCHANGED <<sub, created, built, input, pipelines, frame, phase,
                         cfg, todo>>

\* CreateGraph.  The engine of the factory adds the size of its outputs to
\* element_sum_ each time.
GraphCreated(n) ==
  /\ created' = [created EXCEPT ![n] = TRUE]
  /\ built' = [built EXCEPT ![n] = @ + 1]
  /\ input' = [input EXCEPT ![n] = Blank]

\* Without a binary path the graph of an earlier pipeline stays; one that cannot
\* be verified or gets no buffers has taken its place.
GraphFails(n) ==
  /\ created' = [created EXCEPT ![n] = FALSE]
  /\ input' \in {input, [input EXCEPT ![n] = Blank]}
  /\ UNCHANGED built

\* RegisterEngine, with the constructor of DeviceStage and FillStagebyEngine,
\* which ignores what CreateGraph says.  A TensorRT engine is a stub.  An engine
\* that no registered stage decorates is a stage by itself, new for each
\* pipeline.
RegisterEngine(m) ==
  /\ phase = "registering"
  /\ m = cfg[registered + 1] /\ m.type # "Stage"
  /\ IF <<m.name, m.type>> \notin Engines THEN Abort
     ELSE /\ registered' = registered + 1
          /\ stages' = Place(m)
          /\ tails' = LET linked == Link(m, stages')
                      IN  IF m.name \in Decorators THEN linked
                          ELSE [linked EXCEPT ![m.name] = <<>>]
          /\ sub' = [sub EXCEPT ![m.name] = m.type]
          /\ IF m.type = "nb" THEN GraphCreated(m.name) \/ GraphFails(m.name)
                              ELSE UNCHANGED <<created, built, input>>
          /\ ctx' = Enter(m)
          /\ UNCHANGED <<pipelines, frame, phase, cfg, todo>>

\* is_ready_ is set: here, and whenever the phase is idle again.
InitDone ==
  /\ phase = "registering"
  /\ registered = Len(cfg)
  /\ phase' = "idle"
  /\ UNCHANGED <<processVars, pipelineVars, frame, ctx, todo>>

---------------------------------------------------------------------------
(* PushDatatoPipeline and RunPipeline.                                     *)

Entered(c, what) ==
  [c EXCEPT !.batches = 1,
            !.dataflow = <<Whole(frame + 1, what)>>]

\* The caller says how many bytes there are: with size 0 nothing is copied.
PushData(what) ==
  /\ phase = "idle" /\ frame < MaxFrames
  /\ frame' = frame + 1
  /\ phase' = "pushed"
  /\ ctx' = [n \in DOMAIN ctx |-> IF Contains(stages[1], n)
                                   THEN Entered(ctx[n], what) ELSE ctx[n]]
  /\ UNCHANGED <<processVars, pipelineVars, todo>>

RunPipeline ==
  /\ phase = "pushed"
  /\ phase' = "running"
  /\ todo' = FlattenSeq(stages)
  /\ UNCHANGED <<processVars, pipelineVars, frame, ctx>>

Running(n) == phase = "running" /\ todo # <<>> /\ Head(todo) = n

\* Context::TransmitContext
Transmitted(from, to) ==
  [to EXCEPT !.batches = from.batches, !.dataflow = from.out]

\* Stage n has left its context as c; DeliveryContext passes it on to the
\* tail stages, each of which must have a context in this pipeline.
Deliver(n, c) ==
  IF ToSet(tails[n]) \subseteq DOMAIN ctx
    THEN /\ ctx' = [t \in DOMAIN ctx |->
                      IF t = n THEN c
                      ELSE IF Contains(tails[n], t) THEN Transmitted(c, ctx[t])
                      ELSE ctx[t]]
         /\ todo' = Tail(todo)
         /\ UNCHANGED <<runVars, pipelineVars>>
    ELSE /\ phase' = "aborted"
         /\ UNCHANGED <<tails, sub, created, built, pipelines, frame,
                        pipelineVars, ctx, todo>>

\* What a graph makes of its input tensor.
Inferred(f) ==
  [f EXCEPT !.kind = CASE @ = "image" -> "tensor"
                       [] @ = "crop"  -> "feature"
                       [] OTHER       -> "garbage"]

\* The outputs have the size counted by CreateGraph: none before the first.
Sized(n, f) == IF built[n] = 0 THEN [f EXCEPT !.kind = "empty"] ELSE f

\* What RunProcess of the engine of stage n leaves: the outputs in context c,
\* and the input tensor of the graph.  The graph runs once per batch, but
\* PreProcess feeds dataflow_[0] to each run.  When the driver fails to copy it
\* (up to the first copy that succeeds, here) the run goes on with the tensor
\* of before; when a run fails, that output and those after it stay zero.
\* Both errors are dropped.  A graph that was not created may fail or run.
Outcome(n, c, done, copied) ==
  [out |-> [i \in 1 .. c.batches |-> Sized(n,
             IF i > done THEN [Blank EXCEPT !.frame = frame]
             ELSE Inferred(IF i < copied THEN [input[n] EXCEPT !.kept = TRUE]
                                         ELSE c.dataflow[1]))],
   tensor |-> IF copied <= c.batches /\ copied <= done + 1
                THEN c.dataflow[1] ELSE input[n]]

\* A stage without such an engine leaves the outputs of before.
Outcomes(n, c) ==
  IF sub[n] # "nb" THEN {[out |-> c.out, tensor |-> input[n]]}
  ELSE {Outcome(n, c, done, copied) :
          done \in 0 .. c.batches, copied \in 1 .. c.batches + 1}

\* YoloDerocatestage takes one output of the size its graph has.
Accepted(out) == Len(out) = 1 /\ built["yolo"] = 1

Persons(n, f) ==
  [i \in 1 .. n |-> [f EXCEPT !.of = i, !.kind = "person"]]

\* How many persons are detected: none in an output of zeros.
Found(f) == IF f.kind = "blank" THEN {0} ELSE 0 .. MaxPersons

RunDetector ==
  /\ Running("yolo")
  /\ \E r \in Outcomes("yolo", ctx["yolo"]) :
       /\ input' = [input EXCEPT !["yolo"] = r.tensor]
       /\ IF Accepted(r.out)
            THEN \E n \in Found(r.out[1]) :
                   Deliver("yolo", [ctx["yolo"] EXCEPT
                                      !.batches = n,
                                      !.out = Persons(n, r.out[1])])
            ELSE Deliver("yolo", [ctx["yolo"] EXCEPT !.out = r.out])

\* ReidDerocatestage::StagePreProcess cuts the persons out of the image, if
\* their boxes are in it (StageDies).
Crop(f) == [f EXCEPT !.kind = IF @ = "person" THEN "crop" ELSE "garbage"]

RunReid ==
  /\ Running("reid")
  /\ LET c == [ctx["reid"] EXCEPT
                 !.dataflow = [i \in DOMAIN @ |-> Crop(@[i])]]
     IN  \E r \in Outcomes("reid", c) :
           /\ input' = [input EXCEPT !["reid"] = r.tensor]
           /\ Deliver("reid", [c EXCEPT !.out = r.out])

\* TrackerDerocatestage pairs what yolo and reid have left in their contexts
\* and hands it to the tracker.
RunTracker ==
  /\ Running("tracker")
  /\ UNCHANGED input
  /\ Deliver("tracker",
       IF {"yolo", "reid"} \subseteq DOMAIN ctx
         THEN [ctx["tracker"] EXCEPT
                 !.out = <<Whole(frame, "tracks")>>]
         ELSE ctx["tracker"])

\* The stages upload and fcos leave their contexts to the engine, if any.
RunPlain(n) ==
  /\ n \notin {"yolo", "reid", "tracker"}
  /\ Running(n)
  /\ \E r \in Outcomes(n, ctx[n]) :
       /\ input' = [input EXCEPT ![n] = r.tensor]
       /\ Deliver(n, [ctx[n] EXCEPT !.out = r.out])

\* More persons than a detect_res has room for.
Crowded == "yolo" \in DOMAIN ctx /\ Len(ctx["yolo"].out) > Capacity

\* A frame that was pushed with size 0.
Nothing == \E c \in Range(ctx) : \E f \in Range(c.dataflow) : f.kind = "nothing"

\* Stage n reads or writes what is not there, or as a struct what is another.
Unreadable(n) ==
  \/ /\ sub[n] = "nb" /\ ctx[n].batches > 0
     /\ ~created[n] \/ ctx[n].dataflow[1].kind = "nothing"
  \/ /\ n = "reid"
     /\ \E f \in Range(ctx["reid"].dataflow) : f.kind # "person"
  \/ /\ n = "tracker"
     /\ {"yolo", "reid"} \subseteq DOMAIN ctx
     /\ \/ \E f \in Range(ctx["yolo"].out) : f.kind # "person"
        \/ Len(ctx["yolo"].out) > Len(ctx["reid"].out)
        \/ Crowded \/ Nothing
  \/ /\ n = "upload"
     /\ \/ ctx["upload"].dataflow = <<>>
        \/ ctx["upload"].dataflow[1].kind # "tracks"
        \/ /\ "yolo" \in DOMAIN ctx
           /\ \E f \in Range(ctx["yolo"].out) : f.kind # "person"

\* Stages reid and upload cut boxes out of the frame.  OpenCV throws where one is
\* empty or leaves the frame, whose size is the caller's, and nobody catches.
\* Whether the boxes are such is left open.
CutsOut(n) ==
  \/ n = "reid" /\ ctx["reid"].dataflow # <<>>
  \/ n = "upload" /\ "yolo" \in DOMAIN ctx /\ ctx["yolo"].out # <<>>

\* The process may end there, or go on, after a wild access with garbage.
StageDies(n) ==
  /\ Running(n)
  /\ Unreadable(n) \/ CutsOut(n)
  /\ Abort

RunDone ==
  /\ phase = "running" /\ todo = <<>>
  /\ phase' = "idle"
  /\ UNCHANGED <<processVars, pipelineVars, frame, ctx, todo>>

\* The test program ends.
Exit == phase \in {"idle", "aborted"} /\ UNCHANGED vars

Next ==
  \/ \E c \in Configs : NewPipeline(c)
  \/ /\ registered < Len(cfg)
     /\ \/ RegisterStage(cfg[registered + 1])
        \/ RegisterEngine(cfg[registered + 1])
  \/ InitDone
  \/ \E what \in {"image", "nothing"} : PushData(what)
  \/ RunPipeline
  \/ RunDetector
  \/ RunReid
  \/ RunTracker
  \/ \E n \in Names : RunPlain(n) \/ StageDies(n)
  \/ RunDone
  \/ Exit

Spec == Init /\ [][Next]_vars

---------------------------------------------------------------------------
(* The configuration file that is shipped.                                 *)

\* The stages of modules/config_file/models.cfg, in their order.
Order == <<"yolo", "reid", "tracker", "upload">>

\* Every pipeline is made from models.cfg or from its first models.
Packaged ==
  \A c \in Configs :
    /\ Len(c) <= 4
    /\ \A i \in 1 .. Len(c) :
         /\ c[i].name = Order[i]
         /\ c[i].position = i - 1
         /\ c[i].type = IF i <= 2 THEN "nb" ELSE "Stage"

---------------------------------------------------------------------------
(* Properties.                                                             *)

\* The stages at the position before the one where n is.
Upstream(n) ==
  {u \in DOMAIN ctx : \E p \in DOMAIN stages :
      p + 1 \in DOMAIN stages /\ Contains(stages[p], u)
                              /\ Contains(stages[p + 1], n)}

\* When a stage starts, its input is what the stage before it has made of
\* the frame pushed last, or the zeros of a run that failed: links and contexts
\* left by earlier pipelines and outputs left by earlier frames never get
\* there, except in what was made of a tensor that the driver has kept.
FreshInput ==
  \A n \in Names : Running(n) =>
    /\ \A u \in Upstream(n) : ctx[n].dataflow = ctx[u].out
    /\ \A f \in Range(ctx[n].dataflow) : f.kept \/ f.frame = frame

\* The tracker stage reads a feature for each detection of yolo, from another
\* context, without looking how many there are: there always is one.
FeaturePerDetection ==
  Running("tracker") /\ {"yolo", "reid"} \subseteq DOMAIN ctx =>
    Len(ctx["reid"].out) = Len(ctx["yolo"].out)

\* The stages after the detector read every output of it as a PersonInfo, and
\* each is one, if its graph has been created: it never passes its tensor on.
DetectionsArePersons ==
  phase = "running" /\ "yolo" \in DOMAIN ctx /\ ~Contains(todo, "yolo")
  /\ created["yolo"] =>
    \A f \in Range(ctx["yolo"].out) : f.kind = "person"

\* In the first pipeline of a process a detector whose graph has been created
\* takes its tensor for sure, in every frame and whatever the driver does.
FirstDetectsPersons == pipelines = 1 => DetectionsArePersons

\* Stages keep the links of all pipelines, and DeliveryContext ends the process
\* at a link to a stage this pipeline lacks.  While a pipeline runs, only its last
\* stage can have such a link, left by a longer pipeline before it.
LinksStayInside ==
  phase = "running" =>
    \A n \in DOMAIN ctx :
      \/ ToSet(tails[n]) \subseteq DOMAIN ctx
      \/ pipelines > 1 /\ n = Last(cfg).name

\* The descriptor a detection is compared by is made from that detection.
OwnFeature ==
  Running("tracker") /\ {"yolo", "reid"} \subseteq DOMAIN ctx =>
    \A i \in DOMAIN ctx["reid"].out :
      ctx["reid"].out[i].kind = "feature" => ctx["reid"].out[i].of = i
===========================================================================
