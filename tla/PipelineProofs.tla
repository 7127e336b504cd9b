--------------------------- MODULE PipelineProofs ---------------------------
(* Proofs about Pipeline, for models.cfg and its beginnings on the device   *)
(* build, and for any number of pipelines, frames and persons.              *)
EXTENDS Pipeline, SequenceTheorems, TLAPS

\* The position of the stage that runs next.
At == Len(cfg) - Len(todo) + 1

\* The stages that are registered stand one after the other.
Placed ==
  /\ phase \in {"registering", "idle", "pushed", "running"} => cfg # <<>>
  /\ phase \in {"idle", "pushed", "running"} => registered = Len(cfg)
  /\ \A p \in 1 .. Len(cfg) :
       stages[p] = IF p <= registered THEN <<Order[p]>> ELSE <<>>
  /\ DOMAIN ctx = {Order[i] : i \in 1 .. registered}

\* Each is linked to the next one, and no stage was ever linked to another.
Linked ==
  /\ \A i \in 1 .. registered - 1 : Contains(tails[Order[i]], Order[i + 1])
  /\ \A n \in Names, t \in Names :
       Contains(tails[n], t) => \E i \in 1 .. 3 : n = Order[i] /\ t = Order[i + 1]

\* The first two have an engine, the others none.
Wrapped ==
  /\ \A i \in 1 .. registered : i <= 2 => sub[Order[i]] = "nb"
  /\ \A n \in Names : n \notin {"yolo", "reid"} => sub[n] = None

\* What is left to run is the end of the pipeline.
Remaining ==
  phase = "running" =>
    /\ Len(todo) <= Len(cfg)
    /\ \A i \in 1 .. Len(todo) : todo[i] = Order[Len(cfg) - Len(todo) + i]

Chain == Placed /\ Linked /\ Wrapped /\ Remaining

\* A flow that was made from the frame pushed last.
Good(f) == f.kept \/ f.frame = frame

\* The frame that has been pushed is in the context of the detector.
Entering ==
  phase = "pushed" =>
    /\ ctx["yolo"].batches = 1
    /\ Len(ctx["yolo"].dataflow) = 1
    /\ Good(ctx["yolo"].dataflow[1])

\* The stage at i has the output of the stage before it.
ServedAt(i) ==
  /\ \A k \in 1 .. Len(ctx[Order[i]].dataflow) : Good(ctx[Order[i]].dataflow[k])
  /\ i > 1 => ctx[Order[i]].dataflow = ctx[Order[i - 1]].out
  /\ i <= 2 => ctx[Order[i]].batches = Len(ctx[Order[i]].dataflow)
  /\ i = 1 => ctx[Order[i]].batches = 1
  /\ i = 3 => Len(ctx["reid"].out) = Len(ctx["yolo"].out)
  /\ i = 4 => Len(ctx[Order[i]].dataflow) > 0

\* The stage that runs next is served.
Served == phase = "running" /\ todo # <<>> => ServedAt(At)

PipelineInv == TypeOK /\ Chain /\ Entering /\ Served

---------------------------------------------------------------------------
(* Facts about the configurations.                                         *)

\* The stages of models.cfg by their place.
LEMMA OrderIs ==
  /\ Order[1] = "yolo" /\ Order[2] = "reid"
  /\ Order[3] = "tracker" /\ Order[4] = "upload"
BY DEF Order

\* No stage has two places.
LEMMA OrderDistinct ==
  ASSUME NEW i \in 1 .. 4, NEW j \in 1 .. 4, Order[i] = Order[j]
  PROVE  i = j
<1>1. i \in {1, 2, 3, 4} /\ j \in {1, 2, 3, 4}
  OBVIOUS
<1> QED
  BY <1>1, OrderIs

\* What the models of a configuration are.
LEMMA Configured ==
  ASSUME Packaged, NEW c \in Configs
  PROVE  /\ c \in Seq(Model(STRING))
         /\ Len(c) \in 1 .. 4 /\ DOMAIN c = 1 .. Len(c)
         /\ \A i \in 1 .. Len(c) :
              /\ c[i].name = Order[i]
              /\ c[i].position = i - 1
              /\ c[i].type = IF i <= 2 THEN "nb" ELSE "Stage"
<1>1. c \in Seq(Model(STRING)) /\ c # <<>>
  BY ConfigsAssumption
<1>2. Len(c) \in Nat /\ Len(c) # 0 /\ DOMAIN c = 1 .. Len(c)
  BY <1>1, EmptySeq, LenProperties
<1> QED
  BY <1>1, <1>2 DEF Packaged

\* Adding one element leaves the others alone.
LEMMA ExtendedBy ==
  ASSUME NEW S, NEW s \in Seq(S), NEW t \in Seq(S), NEW i \in Nat \ {0},
         Len(s) = i - 1, Len(t) = 1
  PROVE  /\ s \o t \in Seq(S) /\ Len(s \o t) = i
         /\ \A j \in 1 .. i - 1 : (s \o t)[j] = s[j]
         /\ (s \o t)[i] = t[1]
<1> DEFINE u == s \o t
<1>1. /\ u \in Seq(S)
      /\ Len(u) = Len(s) + Len(t)
      /\ \A j \in 1 .. Len(s) + Len(t) : u[j] = IF j <= Len(s) THEN s[j] ELSE t[j - Len(s)]
  BY ConcatProperties
<1> HIDE DEF u
<1>2. \A j \in 1 .. i : u[j] = IF j <= i - 1 THEN s[j] ELSE t[j - (i - 1)]
  BY <1>1
<1>3. u[i] = t[i - (i - 1)]
  BY <1>2
<1>4. i - (i - 1) = 1
  OBVIOUS
<1>5. u[i] = t[1]
  BY <1>3, <1>4
<1> QED
  BY <1>1, <1>2, <1>5 DEF u

\* RunPipeline goes through the stages in their order.
LEMMA Flattened ==
  ASSUME NEW n \in 1 .. 4, NEW seqs \in Seq(Seq(Names)), Len(seqs) = n,
         \A p \in 1 .. n : seqs[p] = <<Order[p]>>
  PROVE  /\ FlattenSeq(seqs) \in Seq(Names)
         /\ Len(FlattenSeq(seqs)) = n
         /\ \A i \in 1 .. n : FlattenSeq(seqs)[i] = Order[i]
<1> DEFINE
      Step(f) == [i \in 1 .. Len(seqs) |-> IF i = 1 THEN seqs[i] ELSE f[i - 1] \o seqs[i]]
      flat == CHOOSE f : f = Step(f)
      g == [i \in 1 .. n |-> [j \in 1 .. i |-> Order[j]]]
<1>1. \A i \in 1 .. n : Order[i] \in Names
  <2> TAKE i \in 1 .. n
  <2>1. seqs[i] \in Seq(Names)
    BY ElementOfSeq
  <2>2. <<Order[i]>> \in Seq(Names) /\ Len(<<Order[i]>>) = 1
    BY <2>1
  <2>3. <<Order[i]>>[1] \in Names
    BY <2>2, ElementOfSeq
  <2> QED
    BY <2>3
<1>2. \A i \in 1 .. n : g[i] \in Seq(Names) /\ Len(g[i]) = i
  BY <1>1
<1>3. \A i \in 1 .. n : \A j \in 1 .. i : g[i][j] = Order[j]
  OBVIOUS
<1>4. \A i \in 2 .. n : g[i] = g[i - 1] \o <<Order[i]>>
  <2> TAKE i \in 2 .. n
  <2> DEFINE a == g[i - 1]
             b == <<Order[i]>>
  <2>1. a \in Seq(Names) /\ Len(a) = i - 1
    <3>1. i - 1 \in 1 .. n
      OBVIOUS
    <3> HIDE DEF g
    <3> QED
      BY <1>2, <3>1
  <2>2. b \in Seq(Names) /\ Len(b) = 1 /\ b[1] = Order[i]
    BY <1>1
  <2>3. \A j \in 1 .. i - 1 : a[j] = Order[j]
    BY <1>3
  <2>4. g[i] \in Seq(Names) /\ Len(g[i]) = i /\ \A j \in 1 .. i : g[i][j] = Order[j]
    BY <1>2, <1>3
  <2> HIDE DEF a, b, g
  <2>5. /\ a \o b \in Seq(Names)
        /\ Len(a \o b) = i
        /\ \A j \in 1 .. i - 1 : (a \o b)[j] = a[j]
        /\ (a \o b)[i] = b[1]
    BY <2>1, <2>2, ExtendedBy
  <2>6. \A j \in 1 .. i : (a \o b)[j] = g[i][j]
    BY <2>2, <2>3, <2>4, <2>5
  <2>7. g[i] = a \o b
    BY <2>4, <2>5, <2>6, SeqEqual
  <2> QED
    BY <2>7 DEF a, b
<1>5. g = Step(g)
  <2>1. g[1] = <<Order[1]>>
    <3>1. g[1] = [j \in 1 .. 1 |-> Order[j]]
      OBVIOUS
    <3> QED
      BY <3>1
  <2>2. g = [i \in 1 .. n |-> g[i]]
    OBVIOUS
  <2> DEFINE h == Step(g)
  <2> HIDE DEF g
  <2>3. h = [i \in 1 .. n |-> h[i]]
    OBVIOUS
  <2>4. \A i \in 1 .. n : h[i] = IF i = 1 THEN seqs[i] ELSE g[i - 1] \o seqs[i]
    OBVIOUS
  <2> HIDE DEF h
  <2>5. ASSUME NEW i \in 1 .. n PROVE g[i] = h[i]
    <3>1. CASE i = 1
      BY <2>1, <2>4, <3>1
    <3>2. CASE i \in 2 .. n
      <4>1. seqs[i] = <<Order[i]>>
        OBVIOUS
      <4>2. h[i] = g[i - 1] \o seqs[i]
        <5>1. h[i] = IF i = 1 THEN seqs[i] ELSE g[i - 1] \o seqs[i]
          BY <2>4
        <5>2. i # 1
          BY <3>2
        <5> QED
          BY <5>1, <5>2, Zenon
      <4>3. g[i] = g[i - 1] \o <<Order[i]>>
        BY <1>4, <3>2, Zenon
      <4> QED
        BY <4>1, <4>2, <4>3, Zenon
    <3> QED
      BY <3>1, <3>2
  <2> QED
    BY <2>2, <2>3, <2>5, Zenon DEF h
<1>6. flat = Step(flat)
  <2> HIDE DEF g
  <2> QED
    BY <1>5
<1>7. flat[1] = g[1]
  <2> HIDE DEF flat, g
  <2>1. 1 \in 1 .. Len(seqs)
    OBVIOUS
  <2>2. flat[1] = seqs[1]
    BY <1>6, <2>1
  <2>3. g[1] = seqs[1]
    BY <1>5, <2>1
  <2> QED
    BY <2>2, <2>3
<1> HIDE DEF flat, g
<1>8. ASSUME NEW i \in 2 .. n, flat[i - 1] = g[i - 1]
      PROVE  flat[i] = g[i]
  <2>1. i \in 1 .. Len(seqs) /\ i # 1
    OBVIOUS
  <2>2. flat[i] = flat[i - 1] \o seqs[i]
    BY <1>6, <2>1
  <2>3. g[i] = g[i - 1] \o seqs[i]
    BY <1>5, <2>1
  <2> QED
    BY <1>8, <2>2, <2>3, Zenon
<1>9. n >= 2 => flat[2] = g[2]
  <2>1. 2 - 1 = 1 /\ (n >= 2 => 2 \in 2 .. n)
    OBVIOUS
  <2> QED
    BY <1>7, <1>8, <2>1, Zenon
<1>10. n >= 3 => flat[3] = g[3]
  <2>1. 3 - 1 = 2 /\ (n >= 3 => 3 \in 2 .. n /\ n >= 2)
    OBVIOUS
  <2> QED
    BY <1>8, <1>9, <2>1, Zenon
<1>11. n >= 4 => flat[4] = g[4]
  <2>1. 4 - 1 = 3 /\ (n >= 4 => 4 \in 2 .. n /\ n >= 3)
    OBVIOUS
  <2> QED
    BY <1>8, <1>10, <2>1, Zenon
<1>13. flat[n] = g[n]
  <2>1. n \in {1, 2, 3, 4}
    OBVIOUS
  <2> QED
    BY <1>7, <1>9, <1>10, <1>11, <2>1
<1>14. FlattenSeq(seqs) = flat[n]
  BY DEF FlattenSeq, flat
<1> QED
  BY <1>2, <1>3, <1>13, <1>14

---------------------------------------------------------------------------
(* InitPipeline.                                                           *)

\* Initially there is no pipeline.
LEMMA PipelineInit == Init => PipelineInv
<1> SUFFICES ASSUME Init PROVE PipelineInv
  OBVIOUS
<1>1. Blank \in Flow
  BY BoundsAssumption DEF Blank, Flow
<1>2. <<>> \in Seq(Names) /\ <<>> \in Seq(Seq(Names)) /\ Len(<<>>) = 0
  BY EmptySeq
<1>3. TypeOK
  BY <1>1, <1>2, BoundsAssumption DEF Init, TypeOK, Range
<1>4. Placed /\ Linked /\ Wrapped /\ Remaining
  BY <1>2 DEF Init, Placed, Linked, Wrapped, Remaining, Contains
<1> QED
  BY <1>3, <1>4 DEF Init, PipelineInv, Chain, Entering, Served

\* A new pipeline has no stages yet; the links and the engines of the last one
\* remain.
LEMMA NewPipelineKeeps ==
  ASSUME Packaged, PipelineInv, NEW c \in Configs, NewPipeline(c)
  PROVE  PipelineInv'
<1>1. /\ c \in Seq(Model(STRING)) /\ Len(c) \in 1 .. 4 /\ DOMAIN c = 1 .. Len(c)
  BY Configured
<1>2. stages' \in Seq(Seq(Names)) /\ Len(stages') = Len(c)
      /\ \A p \in 1 .. Len(c) : stages'[p] = <<>>
  BY <1>1 DEF NewPipeline
<1>3. TypeOK'
  BY <1>1, <1>2, BoundsAssumption DEF PipelineInv, TypeOK, NewPipeline, Range
<1>4. Placed'
  BY <1>1, <1>2 DEF NewPipeline, Placed
<1>5. Linked' /\ Wrapped' /\ Remaining'
  BY DEF PipelineInv, Chain, NewPipeline, Linked, Wrapped, Remaining
<1> QED
  BY <1>3, <1>4, <1>5 DEF PipelineInv, Chain, Entering, Served, NewPipeline

\* A process that ends leaves everything alone.
LEMMA AbortKeeps ==
  ASSUME PipelineInv, Abort
  PROVE  PipelineInv'
<1> USE DEF Abort, processVars, pipelineVars
<1>1. TypeOK'
  BY DEF PipelineInv, TypeOK
<1>2. Placed' /\ Linked' /\ Wrapped' /\ Remaining'
  BY DEF PipelineInv, Chain, Placed, Linked, Wrapped, Remaining
<1>3. Entering' /\ Served'
  BY DEF Entering, Served
<1> QED
  BY <1>1, <1>2, <1>3 DEF PipelineInv, Chain

\* The stage goes to its place.
LEMMA PlaceIs ==
  ASSUME Packaged, PipelineInv, registered < Len(cfg), cfg \in Configs,
         Order[registered + 1] \in Names
  PROVE  LET s == Place(cfg[registered + 1])
         IN  /\ s \in Seq(Seq(Names)) /\ Len(s) = Len(cfg)
             /\ \A p \in 1 .. Len(cfg) :
                  s[p] = IF p <= registered + 1 THEN <<Order[p]>> ELSE <<>>
<1> DEFINE r == registered + 1
           s == Place(cfg[r])
<1>1. /\ stages \in Seq(Seq(Names)) /\ Len(stages) = Len(cfg) /\ DOMAIN stages = 1 .. Len(cfg)
      /\ r \in 1 .. Len(cfg) /\ Len(cfg) \in 1 .. 4 /\ registered \in Nat
      /\ \A p \in 1 .. Len(cfg) :
           stages[p] = IF p <= registered THEN <<Order[p]>> ELSE <<>>
  <2>1. Len(cfg) \in 1 .. 4 /\ registered \in 0 .. Len(cfg)
    BY Configured DEF PipelineInv, TypeOK
  <2>2. stages \in Seq(Seq(Names)) /\ Len(stages) = Len(cfg)
    BY DEF PipelineInv, TypeOK
  <2>3. \A p \in 1 .. Len(cfg) :
          stages[p] = IF p <= registered THEN <<Order[p]>> ELSE <<>>
    BY DEF PipelineInv, Chain, Placed
  <2> QED
    BY <2>1, <2>2, <2>3
<1>2. cfg[r].name = Order[r] /\ cfg[r].position + 1 = r
  <2>1. \A i \in 1 .. Len(cfg) : cfg[i].name = Order[i] /\ cfg[i].position = i - 1
    BY Configured
  <2>2. cfg[r].name = Order[r] /\ cfg[r].position = r - 1
    <3> HIDE DEF r
    <3> QED
      BY <1>1, <2>1
  <2>3. r \in Nat
    BY <1>1
  <2> QED
    BY <2>2, <2>3
<1>3. s = [stages EXCEPT ![r] = <<Order[r]>>]
  <2>1. stages[r] = <<>>
    BY <1>1
  <2>2. Append(stages[r], Order[r]) = <<Order[r]>>
    BY <2>1
  <2> QED
    BY <1>2, <2>2 DEF Place
<1>4. s \in Seq(Seq(Names)) /\ Len(s) = Len(cfg)
  BY <1>1, <1>3
<1> QED
  BY <1>1, <1>3, <1>4

\* The stage before it is told of the new one, and no other.
LEMMA LinkIs ==
  ASSUME Packaged, PipelineInv, registered < Len(cfg), cfg \in Configs,
         Order[registered + 1] \in Names
  PROVE  LET l == Link(cfg[registered + 1], Place(cfg[registered + 1]))
         IN  /\ l \in [Names -> Seq(Names)]
             /\ \A n, t \in Names :
                  Contains(l[n], t) <=>
                    \/ Contains(tails[n], t)
                    \/ registered > 0 /\ n = Order[registered] /\ t = Order[registered + 1]
<1> DEFINE r == registered + 1
           s == Place(cfg[r])
           l == Link(cfg[r], s)
<1>1. /\ r \in 1 .. Len(cfg) /\ registered \in Nat /\ Len(cfg) \in Nat
      /\ tails \in [Names -> Seq(Names)]
  BY Configured DEF PipelineInv, TypeOK
<1>2. cfg[r].name = Order[r] /\ cfg[r].position = registered
  BY <1>1, Configured
<1>3. registered > 0 => s[registered] = <<Order[registered]>>
  <2>1. \A p \in 1 .. Len(cfg) : s[p] = IF p <= r THEN <<Order[p]>> ELSE <<>>
    BY PlaceIs
  <2>2. registered > 0 => registered \in 1 .. Len(cfg) /\ registered <= r
    BY <1>1
  <2> HIDE DEF s
  <2> QED
    BY <2>1, <2>2, Zenon
<1>4. \A n : registered > 0 => (Contains(s[registered], n) <=> n = Order[registered])
  <2> HIDE DEF s
  <2> DEFINE q == s[registered]
  <2>1. ASSUME registered > 0, NEW n PROVE Contains(q, n) <=> n = Order[registered]
    <3>1. q = <<Order[registered]>>
      BY <1>3, <2>1
    <3>2. Len(q) = 1 /\ q[1] = Order[registered]
      BY <3>1
    <3> HIDE DEF q
    <3> QED
      BY <3>2 DEF Contains
  <2> QED
    BY <2>1
<1>5. l = [n \in Names |-> IF registered > 0 /\ n = Order[registered]
                             THEN Append(tails[n], Order[r]) ELSE tails[n]]
  <2> HIDE DEF s
  <2> QED
    BY <1>1, <1>2, <1>4 DEF Link
<1>6. \A q \in Seq(Names) : /\ Append(q, Order[r]) \in Seq(Names)
                            /\ \A t : Contains(Append(q, Order[r]), t)
                                        <=> Contains(q, t) \/ t = Order[r]
  <2> TAKE q \in Seq(Names)
  <2> DEFINE a == Append(q, Order[r])
  <2>1. /\ a \in Seq(Names) /\ Len(a) = Len(q) + 1 /\ Len(q) \in Nat
        /\ \A k \in 1 .. Len(q) : a[k] = q[k]
        /\ a[Len(q) + 1] = Order[r]
    BY AppendProperties, LenProperties
  <2> HIDE DEF a
  <2>2. \A t : Contains(a, t) <=> Contains(q, t) \/ t = Order[r]
    BY <2>1 DEF Contains
  <2> QED
    BY <2>1, <2>2 DEF a
<1> HIDE DEF s, l
<1>7. l \in [Names -> Seq(Names)]
  BY <1>1, <1>5, <1>6
<1>8. ASSUME NEW n \in Names, NEW t \in Names
      PROVE  Contains(l[n], t) <=>
               \/ Contains(tails[n], t)
               \/ registered > 0 /\ n = Order[registered] /\ t = Order[r]
  <2>1. CASE registered > 0 /\ n = Order[registered]
    <3>1. l[n] = Append(tails[n], Order[r]) /\ tails[n] \in Seq(Names)
      BY <1>1, <1>5, <2>1
    <3> QED
      BY <1>6, <2>1, <3>1
  <2>2. CASE ~ (registered > 0 /\ n = Order[registered])
    <3>1. l[n] = tails[n]
      BY <1>5, <2>2
    <3> QED
      BY <2>2, <3>1
  <2> QED
    BY <2>1, <2>2
<1> QED
  BY <1>7, <1>8 DEF s, l

\* The next model is one of four.
LEMMA NextModel ==
  ASSUME Packaged, PipelineInv, registered < Len(cfg), cfg \in Configs
  PROVE  /\ Len(cfg) \in 1 .. 4 /\ DOMAIN cfg = 1 .. Len(cfg)
         /\ registered \in 0 .. 3 /\ registered + 1 \in 1 .. Len(cfg)
         /\ cfg[registered + 1].name = Order[registered + 1]
         /\ cfg[registered + 1].type = IF registered < 2 THEN "nb" ELSE "Stage"
<1>1. Len(cfg) \in 1 .. 4 /\ DOMAIN cfg = 1 .. Len(cfg)
  BY Configured
<1>2. registered \in 0 .. Len(cfg)
  BY DEF PipelineInv, TypeOK
<1> DEFINE n == Len(cfg)
<1> HIDE DEF n
<1>3. registered \in 0 .. 3 /\ registered + 1 \in 1 .. Len(cfg)
  <2>1. n \in 1 .. 4 /\ registered \in 0 .. n /\ registered < n
    BY <1>1, <1>2 DEF n
  <2>2. registered \in 0 .. 3 /\ registered + 1 \in 1 .. n
    BY <2>1
  <2> QED
    BY <2>2 DEF n
<1>4. registered + 1 <= 2 <=> registered < 2
  BY <1>3
<1> QED
  BY <1>1, <1>3, <1>4, Configured

\* What RegisterStage and RegisterEngine have in common keeps the invariant.
LEMMA RegisteredKeeps ==
  ASSUME Packaged, PipelineInv, phase = "registering", registered < Len(cfg),
         NEW m, m = cfg[registered + 1], Order[registered + 1] \in Names,
         registered' = registered + 1,
         stages' = Place(m), ctx' = Enter(m),
         tails' \in [Names -> Seq(Names)],
         \A n, t \in Names :
           Contains(tails'[n], t) => Contains(Link(m, Place(m))[n], t),
         \A n \in Names \ {Order[registered + 1]} : tails'[n] = Link(m, Place(m))[n],
         sub' \in [Names -> {"nb", "trt", None}],
         \A n \in Names \ {Order[registered + 1]} : sub'[n] = sub[n],
         sub'[Order[registered + 1]] = IF registered < 2 THEN "nb" ELSE None,
         created' \in [Names -> BOOLEAN],
         built' \in [Names -> Nat], input' \in [Names -> Flow],
         UNCHANGED <<pipelines, frame, phase, cfg, todo>>
  PROVE  PipelineInv'
<1> DEFINE r == registered + 1
           l == Link(m, Place(m))
<1>1. cfg \in Configs
  BY DEF PipelineInv, TypeOK
<1>2. Len(cfg) \in 1 .. 4 /\ DOMAIN cfg = 1 .. Len(cfg)
      /\ registered \in 0 .. 3 /\ r \in 1 .. Len(cfg)
  BY <1>1, NextModel
<1>3. m.name = Order[r]
  BY <1>1, NextModel
<1>4. /\ stages' \in Seq(Seq(Names)) /\ Len(stages') = Len(cfg)
      /\ \A p \in 1 .. Len(cfg) : stages'[p] = IF p <= r THEN <<Order[p]>> ELSE <<>>
  BY <1>1, PlaceIs
<1>5. NewContext(m.type) \in Context
  <2>1. Blank \in Flow
    BY BoundsAssumption DEF Blank, Flow
  <2>2. <<>> \in Seq(Flow) /\ <<Blank>> \in Seq(Flow)
    BY <2>1, EmptySeq
  <2> QED
    BY <2>2 DEF NewContext, Context
<1>6. /\ DOMAIN ctx' = DOMAIN ctx \cup {Order[r]}
      /\ \A n \in DOMAIN ctx' : ctx'[n] \in Context
  BY <1>3, <1>5 DEF PipelineInv, TypeOK, Enter, Range
<1>7. TypeOK'
  <2>1. Range(ctx') \subseteq Context /\ DOMAIN ctx' \subseteq Names
    BY <1>6 DEF PipelineInv, TypeOK, Range
  <2>2. registered' \in 0 .. Len(cfg)
    BY <1>2
  <2> QED
    BY <1>4, <2>1, <2>2 DEF PipelineInv, TypeOK
<1>8. DOMAIN ctx = {Order[i] : i \in 1 .. registered}
  BY DEF PipelineInv, Chain, Placed
<1>9. Placed'
  <2>1. 1 .. r = 1 .. registered \cup {r}
    BY <1>2
  <2>2. {Order[i] : i \in 1 .. r} = {Order[i] : i \in 1 .. registered} \cup {Order[r]}
    BY <2>1
  <2>3. DOMAIN ctx' = {Order[i] : i \in 1 .. r}
    BY <1>6, <1>8, <2>2
  <2>4. cfg # <<>>
    BY DEF PipelineInv, Chain, Placed
  <2> QED
    BY <1>4, <2>3, <2>4 DEF Placed
<1>10. \A i \in 1 .. registered : Order[i] \in Names /\ Order[i] # Order[r]
  <2> TAKE i \in 1 .. registered
  <2>1. Order[i] \in Names
    BY <1>8 DEF PipelineInv, TypeOK
  <2>2. i \in 1 .. 4 /\ r \in 1 .. 4 /\ i # r
    BY <1>2
  <2> QED
    BY <2>1, <2>2, OrderDistinct
<1>11. \A n, t \in Names :
         Contains(l[n], t) <=>
           \/ Contains(tails[n], t)
           \/ registered > 0 /\ n = Order[registered] /\ t = Order[r]
  BY <1>1, LinkIs
<1>12. Linked'
  <2> HIDE DEF l
  <2>1. ASSUME NEW i \in 1 .. registered
        PROVE  Contains(tails'[Order[i]], Order[i + 1])
    <3>1. Order[i] \in Names /\ Order[i + 1] \in Names /\ tails'[Order[i]] = l[Order[i]]
      <4>1. i + 1 \in 1 .. registered \/ i + 1 = r
        BY <1>2
      <4> QED
        BY <1>10, <4>1 DEF l
    <3>2. CASE i = registered
      BY <1>2, <1>11, <3>1, <3>2
    <3>3. CASE i \in 1 .. registered - 1
      <4>1. Contains(tails[Order[i]], Order[i + 1])
        BY <3>3 DEF PipelineInv, Chain, Linked
      <4> QED
        BY <1>11, <3>1, <4>1
    <3> QED
      BY <1>2, <3>2, <3>3
  <2>2. ASSUME NEW n \in Names, NEW t \in Names, Contains(tails'[n], t)
        PROVE  \E i \in 1 .. 3 : n = Order[i] /\ t = Order[i + 1]
    <3>1. Contains(l[n], t)
      BY <2>2 DEF l
    <3>2. CASE Contains(tails[n], t)
      BY <3>2 DEF PipelineInv, Chain, Linked
    <3>3. CASE registered > 0 /\ n = Order[registered] /\ t = Order[r]
      <4>1. registered \in 1 .. 3
        BY <1>2, <3>3
      <4> QED
        BY <3>3, <4>1
    <3> QED
      BY <1>11, <3>1, <3>2, <3>3
  <2>3. registered' - 1 = registered
    BY <1>2
  <2> QED
    BY <2>1, <2>2, <2>3 DEF Linked
<1>13. Wrapped'
  <2>1. ASSUME NEW i \in 1 .. r, i <= 2
        PROVE  sub'[Order[i]] = "nb"
    <3>1. CASE i = r
      BY <1>2, <2>1, <3>1
    <3>2. CASE i \in 1 .. registered
      BY <1>10, <2>1, <3>2 DEF PipelineInv, Chain, Wrapped
    <3> QED
      BY <1>2, <3>1, <3>2
  <2>2. ASSUME NEW n \in Names, n \notin {"yolo", "reid"}
        PROVE  sub'[n] = None
    <3>1. CASE n = Order[r]
      <4>1. r \notin {1, 2}
        BY <2>2, <3>1, OrderIs
      <4> QED
        BY <1>2, <3>1, <4>1
    <3>2. CASE n # Order[r]
      BY <2>2, <3>2 DEF PipelineInv, Chain, Wrapped
    <3> QED
      BY <3>1, <3>2
  <2> QED
    BY <2>1, <2>2 DEF Wrapped
<1> QED
  BY <1>7, <1>9, <1>12, <1>13
     DEF PipelineInv, Chain, Remaining, Entering, Served

\* A stage without an engine: it is the tracker or upload.
LEMMA RegisterStageKeeps ==
  ASSUME Packaged, PipelineInv, registered < Len(cfg),
         RegisterStage(cfg[registered + 1])
  PROVE  PipelineInv'
<1> DEFINE r == registered + 1
           m == cfg[r]
<1>1. cfg \in Configs
  BY DEF PipelineInv, TypeOK, RegisterStage
<1>2. /\ Len(cfg) \in 1 .. 4 /\ registered \in 0 .. 3 /\ r \in 1 .. Len(cfg)
      /\ m.name = Order[r] /\ (m.type = IF registered < 2 THEN "nb" ELSE "Stage")
  BY <1>1, NextModel
<1>3. m.type = "Stage" /\ phase = "registering"
  BY DEF RegisterStage
<1>4. registered >= 2
  BY <1>2, <1>3
<1> HIDE DEF m
<1>5. CASE m.name \notin Decorators
  BY <1>5, AbortKeeps DEF RegisterStage, m
<1>6. CASE m.name \in Decorators
  <2>1. Order[r] \in Names
    BY <1>2, <1>6 DEF Names
  <2>2. Link(m, Place(m)) \in [Names -> Seq(Names)]
    BY <1>1, <2>1, LinkIs DEF m
  <2>3. /\ registered' = r /\ stages' = Place(m) /\ ctx' = Enter(m)
        /\ tails' = Link(m, Place(m))
        /\ UNCHANGED <<sub, created, built, input, pipelines, frame, phase, cfg, todo>>
    BY <1>6 DEF RegisterStage, m
  <2>4. Order[r] \notin {"yolo", "reid"}
    <3>1. r \in {3, 4}
      BY <1>2, <1>4
    <3> QED
      BY <3>1, OrderIs
  <2>5. sub[Order[r]] = None
    BY <2>1, <2>4 DEF PipelineInv, Chain, Wrapped
  <2>6. /\ sub \in [Names -> {"nb", "trt", None}]
        /\ created \in [Names -> BOOLEAN]
        /\ built \in [Names -> Nat] /\ input \in [Names -> Flow]
    BY DEF PipelineInv, TypeOK
  <2> QED
    BY <1>2, <1>3, <1>4, <2>1, <2>2, <2>3, <2>5, <2>6, RegisteredKeeps DEF m
<1> QED
  BY <1>5, <1>6

\* A stage with an engine: it is the detector or reid.
LEMMA RegisterEngineKeeps ==
  ASSUME Packaged, PipelineInv, registered < Len(cfg),
         RegisterEngine(cfg[registered + 1])
  PROVE  PipelineInv'
<1> DEFINE r == registered + 1
           m == cfg[r]
           l == Link(m, Place(m))
<1>1. cfg \in Configs
  BY DEF PipelineInv, TypeOK, RegisterEngine
<1>2. /\ Len(cfg) \in 1 .. 4 /\ registered \in 0 .. 3 /\ r \in 1 .. Len(cfg)
      /\ m.name = Order[r] /\ (m.type = IF registered < 2 THEN "nb" ELSE "Stage")
  BY <1>1, NextModel
<1>3. m.type # "Stage" /\ phase = "registering"
  BY DEF RegisterEngine
<1>4. registered < 2 /\ m.type = "nb"
  BY <1>2, <1>3
<1> HIDE DEF m
<1>5. CASE <<m.name, m.type>> \notin Engines
  BY <1>5, AbortKeeps DEF RegisterEngine, m
<1>6. CASE <<m.name, m.type>> \in Engines
  <2>1. Order[r] \in Names
    <3>1. <<m.name, m.type>>[1] = m.name
      OBVIOUS
    <3> QED
      BY <1>2, <1>6, <3>1 DEF Names
  <2>2. l \in [Names -> Seq(Names)]
    BY <1>1, <2>1, LinkIs DEF m
  <2>3. /\ registered' = r /\ stages' = Place(m) /\ ctx' = Enter(m)
        /\ tails' = IF m.name \in Decorators THEN l ELSE [l EXCEPT ![m.name] = <<>>]
        /\ sub' = [sub EXCEPT ![m.name] = m.type]
        /\ GraphCreated(m.name) \/ GraphFails(m.name)
        /\ UNCHANGED <<pipelines, frame, phase, cfg, todo>>
    BY <1>4, <1>6 DEF RegisterEngine, m
  <2> HIDE DEF l
  <2>4. /\ tails' \in [Names -> Seq(Names)]
        /\ \A n \in Names \ {Order[r]} : tails'[n] = l[n]
        /\ \A n, t \in Names : Contains(tails'[n], t) => Contains(l[n], t)
    <3>1. CASE m.name \in Decorators
      BY <2>2, <2>3, <3>1
    <3>2. CASE m.name \notin Decorators
      <4>1. tails' = [l EXCEPT ![Order[r]] = <<>>]
        BY <1>2, <2>3, <3>2
      <4>2. \A t : ~ Contains(<<>>, t)
        BY DEF Contains
      <4>3. <<>> \in Seq(Names)
        OBVIOUS
      <4> QED
        BY <2>1, <2>2, <4>1, <4>2, <4>3
    <3> QED
      BY <3>1, <3>2
  <2>5. /\ sub' \in [Names -> {"nb", "trt", None}]
        /\ \A n \in Names \ {Order[r]} : sub'[n] = sub[n]
        /\ sub'[Order[r]] = "nb"
    BY <1>2, <1>4, <2>1, <2>3 DEF PipelineInv, TypeOK
  <2>6. /\ created' \in [Names -> BOOLEAN]
        /\ built' \in [Names -> Nat]
    <3>1. created \in [Names -> BOOLEAN] /\ built \in [Names -> Nat]
      BY DEF PipelineInv, TypeOK
    <3>2. CASE GraphCreated(m.name)
      <4>1. /\ created' = [created EXCEPT ![m.name] = TRUE]
            /\ built' = [built EXCEPT ![m.name] = built[m.name] + 1]
        BY <3>2 DEF GraphCreated
      <4>2. created' \in [Names -> BOOLEAN]
        BY <3>1, <4>1, Zenon
      <4>3. m.name \in Names /\ built[m.name] + 1 \in Nat
        BY <1>2, <2>1, <3>1
      <4>4. built' \in [Names -> Nat]
        BY <3>1, <4>1, <4>3, Zenon
      <4> QED
        BY <4>2, <4>4
    <3>3. CASE GraphFails(m.name)
      <4>1. created' = [created EXCEPT ![m.name] = FALSE] /\ built' = built
        BY <3>3 DEF GraphFails
      <4>2. created' \in [Names -> BOOLEAN]
        BY <3>1, <4>1, Zenon
      <4> QED
        BY <3>1, <4>1, <4>2
    <3> QED
      BY <2>3, <3>2, <3>3
  <2>7. input' \in [Names -> Flow]
    <3>1. Blank \in Flow
      BY BoundsAssumption DEF Blank, Flow
    <3>2. input' = input \/ input' = [input EXCEPT ![Order[r]] = Blank]
      BY <1>2, <2>3 DEF GraphCreated, GraphFails
    <3> QED
      BY <3>1, <3>2 DEF PipelineInv, TypeOK
  <2> QED
    BY <1>2, <1>3, <1>4, <2>1, <2>3, <2>4, <2>5, <2>6, <2>7, RegisteredKeeps
       DEF m, l
<1> QED
  BY <1>5, <1>6

\* All models are registered: the pipeline is ready.
LEMMA InitDoneKeeps ==
  ASSUME PipelineInv, InitDone
  PROVE  PipelineInv'
<1> USE DEF InitDone, processVars, pipelineVars
<1>1. TypeOK'
  BY DEF PipelineInv, TypeOK
<1>2. Placed' /\ Linked' /\ Wrapped' /\ Remaining'
  BY DEF PipelineInv, Chain, Placed, Linked, Wrapped, Remaining
<1>3. Entering' /\ Served'
  BY DEF Entering, Served
<1> QED
  BY <1>1, <1>2, <1>3 DEF PipelineInv, Chain

---------------------------------------------------------------------------
(* PushDatatoPipeline and RunPipeline.                                     *)

\* Where the process is when a pipeline is ready.
LEMMA Ready ==
  ASSUME Packaged, PipelineInv, phase \in {"idle", "pushed", "running"}
  PROVE  /\ cfg \in Configs /\ Len(cfg) \in 1 .. 4 /\ registered = Len(cfg)
         /\ stages \in Seq(Seq(Names)) /\ Len(stages) = Len(cfg)
         /\ \A p \in 1 .. Len(cfg) : stages[p] = <<Order[p]>>
         /\ DOMAIN ctx = {Order[p] : p \in 1 .. Len(cfg)}
         /\ \A p \in 1 .. Len(cfg) : Order[p] \in Names /\ ctx[Order[p]] \in Context
<1>1. cfg \in Configs /\ registered = Len(cfg)
  BY DEF PipelineInv, Chain, Placed, TypeOK
<1>2. Len(cfg) \in 1 .. 4
  BY <1>1, Configured
<1>3. stages \in Seq(Seq(Names)) /\ Len(stages) = Len(cfg)
  BY DEF PipelineInv, TypeOK
<1>4. \A p \in 1 .. Len(cfg) : stages[p] = <<Order[p]>>
  <2>1. \A p \in 1 .. Len(cfg) :
          stages[p] = IF p <= Len(cfg) THEN <<Order[p]>> ELSE <<>>
    BY <1>1 DEF PipelineInv, Chain, Placed
  <2>2. \A p \in 1 .. Len(cfg) : p <= Len(cfg)
    BY <1>2
  <2> QED
    BY <2>1, <2>2
<1>5. DOMAIN ctx = {Order[p] : p \in 1 .. Len(cfg)}
  BY <1>1 DEF PipelineInv, Chain, Placed
<1>6. \A p \in 1 .. Len(cfg) : Order[p] \in Names /\ ctx[Order[p]] \in Context
  BY <1>5 DEF PipelineInv, TypeOK, Range
<1> QED
  BY <1>1, <1>2, <1>3, <1>4, <1>5, <1>6

\* A flow for the frame as a whole.
LEMMA WholeIs ==
  ASSUME NEW g \in 0 .. MaxFrames, NEW what \in {"image", "nothing", "tracks"}
  PROVE  Whole(g, what) \in Flow /\ Whole(g, what).frame = g
<1>1. Blank \in Flow
  BY BoundsAssumption DEF Blank, Flow
<1> QED
  BY <1>1 DEF Whole, Flow

\* A context with another input.
LEMMA EnteredIs ==
  ASSUME NEW c \in Context, NEW d \in Seq(Flow), NEW b \in Nat
  PROVE  LET e == [c EXCEPT !.batches = b, !.dataflow = d]
         IN  e \in Context /\ e.batches = b /\ e.dataflow = d /\ e.out = c.out
BY DEF Context

\* The frame enters the first context.
LEMMA PushDataKeeps ==
  ASSUME Packaged, PipelineInv, NEW what \in {"image", "nothing"}, PushData(what)
  PROVE  PipelineInv'
<1> DEFINE f == Whole(frame + 1, what)
<1>1. phase = "idle" /\ frame' \in 0 .. MaxFrames /\ frame' = frame + 1
  BY BoundsAssumption DEF PushData, PipelineInv, TypeOK
<1>2. f \in Flow /\ f.frame = frame'
  BY <1>1, WholeIs
<1> HIDE DEF f
<1>3. /\ \A c \in Context : Entered(c, what) \in Context
      /\ \A c \in Context : /\ Entered(c, what).batches = 1
                            /\ Entered(c, what).dataflow = <<f>>
  <2>1. <<f>> \in Seq(Flow)
    BY <1>2
  <2> DEFINE d == <<f>>
  <2>2. \A c : Entered(c, what) = [c EXCEPT !.batches = 1, !.dataflow = d]
    BY DEF Entered, f
  <2>3. d \in Seq(Flow) /\ 1 \in Nat
    BY <2>1
  <2> HIDE DEF d
  <2> SUFFICES ASSUME NEW c \in Context
               PROVE  /\ Entered(c, what) \in Context
                      /\ Entered(c, what).batches = 1
                      /\ Entered(c, what).dataflow = d
    BY DEF d
  <2> DEFINE e == [c EXCEPT !.batches = 1, !.dataflow = d]
  <2>4. e \in Context /\ e.batches = 1 /\ e.dataflow = d
    BY <2>3 DEF Context
  <2>5. Entered(c, what) = e
    BY <2>2
  <2> HIDE DEF e
  <2> QED
    BY <2>4, <2>5
<1>4. DOMAIN ctx' = DOMAIN ctx /\ \A n \in DOMAIN ctx' : ctx'[n] \in Context
  BY <1>3 DEF PushData, PipelineInv, TypeOK, Range
<1>5. TypeOK'
  <2>1. Range(ctx') \subseteq Context
    BY <1>4 DEF Range
  <2> QED
    BY <1>1, <1>4, <2>1 DEF PushData, PipelineInv, TypeOK, processVars, pipelineVars
<1>6. Placed' /\ Linked' /\ Wrapped' /\ Remaining'
  BY <1>1, <1>4 DEF PushData, PipelineInv, Chain, Placed, Linked, Wrapped, Remaining,
                    processVars, pipelineVars
<1>7. Entering'
  <2>1. "yolo" \in DOMAIN ctx /\ ctx["yolo"] \in Context
    BY <1>1, Ready, OrderIs
  <2>2. Contains(stages[1], "yolo")
    <3> DEFINE s == stages[1]
    <3>1. s = <<"yolo">>
      BY <1>1, Ready, OrderIs
    <3>2. Len(s) = 1 /\ s[1] = "yolo"
      BY <3>1
    <3> HIDE DEF s
    <3>3. Contains(s, "yolo")
      BY <3>2 DEF Contains
    <3> QED
      BY <3>3 DEF s
  <2>3. ctx'["yolo"].batches = 1 /\ ctx'["yolo"].dataflow = <<f>>
    BY <1>3, <2>1, <2>2 DEF PushData
  <2> QED
    BY <1>2, <2>3 DEF Entering, Good
<1> QED
  BY <1>5, <1>6, <1>7 DEF PipelineInv, Chain, PushData, Served

\* The first stage gets the frame that was pushed.
LEMMA RunPipelineKeeps ==
  ASSUME Packaged, PipelineInv, RunPipeline
  PROVE  PipelineInv'
<1>1. phase = "pushed" /\ Len(cfg) \in 1 .. 4
  BY Ready DEF RunPipeline
<1>2. /\ todo' \in Seq(Names) /\ Len(todo') = Len(cfg)
      /\ \A i \in 1 .. Len(cfg) : todo'[i] = Order[i]
  BY <1>1, Ready, Flattened DEF RunPipeline
<1>3. TypeOK'
  BY <1>2 DEF PipelineInv, TypeOK, RunPipeline, processVars, pipelineVars
<1>4. Placed' /\ Linked' /\ Wrapped'
  BY <1>1 DEF RunPipeline, PipelineInv, Chain, Placed, Linked, Wrapped,
              processVars, pipelineVars
<1>5. Remaining' /\ cfg' = cfg
  <2>1. cfg' = cfg
    BY DEF RunPipeline, pipelineVars
  <2>2. \A i \in 1 .. Len(cfg) : Len(cfg) - Len(cfg) + i = i
    BY <1>1
  <2> QED
    BY <1>1, <1>2, <2>1, <2>2 DEF Remaining
<1>6. Served'
  <2>1. At' = 1
    BY <1>1, <1>2, <1>5 DEF At
  <2>2. ctx'["yolo"] = ctx["yolo"] /\ frame' = frame
    BY DEF RunPipeline
  <2>3. /\ ctx["yolo"].batches = 1 /\ Len(ctx["yolo"].dataflow) = 1
        /\ Good(ctx["yolo"].dataflow[1])
    BY <1>1 DEF PipelineInv, Entering
  <2>4. Order[1] = "yolo"
    BY OrderIs
  <2>5. ServedAt(1)'
    <3> DEFINE c == ctx["yolo"]
    <3>1. \A k \in 1 .. Len(c.dataflow) : c.dataflow[k].kept \/ c.dataflow[k].frame = frame'
      BY <2>2, <2>3 DEF Good
    <3>2. ctx'[Order[1]] = c /\ ctx' = ctx
      BY <2>4 DEF RunPipeline
    <3>3. c.batches = 1 /\ c.batches = Len(c.dataflow)
      BY <2>3
    <3> HIDE DEF c
    <3>4. \A k \in 1 .. Len(ctx'[Order[1]].dataflow) :
            ctx'[Order[1]].dataflow[k].kept \/ ctx'[Order[1]].dataflow[k].frame = frame'
      BY <3>1, <3>2
    <3>5. ctx'[Order[1]].batches = Len(ctx'[Order[1]].dataflow) /\ ctx'[Order[1]].batches = 1
      BY <3>2, <3>3
    <3>6. ~(1 > 1) /\ ~(1 = 3) /\ ~(1 = 4)
      OBVIOUS
    <3> QED
      BY <3>4, <3>5, <3>6 DEF ServedAt, Good
  <2> QED
    BY <2>1, <2>5 DEF Served
<1>7. Entering'
  BY DEF RunPipeline, Entering
<1> QED
  BY <1>3, <1>4, <1>5, <1>6, <1>7 DEF PipelineInv, Chain

\* The pipeline is ready for the next frame.
LEMMA RunDoneKeeps ==
  ASSUME PipelineInv, RunDone
  PROVE  PipelineInv'
<1> USE DEF RunDone, processVars, pipelineVars
<1>1. TypeOK'
  BY DEF PipelineInv, TypeOK
<1>2. Placed' /\ Linked' /\ Wrapped' /\ Remaining'
  BY DEF PipelineInv, Chain, Placed, Linked, Wrapped, Remaining
<1>3. Entering' /\ Served'
  BY DEF Entering, Served
<1> QED
  BY <1>1, <1>2, <1>3 DEF PipelineInv, Chain

\* When stage i of the order runs.
LEMMA RunningAt ==
  ASSUME Packaged, PipelineInv, NEW n, Running(n)
  PROVE  /\ phase = "running" /\ At \in 1 .. Len(cfg) /\ n = Order[At]
         /\ Len(cfg) \in 1 .. 4 /\ Len(todo) \in Nat \ {0}
         /\ Tail(todo) \in Seq(Names) /\ Len(Tail(todo)) = Len(todo) - 1
         /\ \A i \in 1 .. Len(todo) - 1 : Tail(todo)[i] = todo[i + 1]
<1>1. phase = "running" /\ todo # <<>> /\ Head(todo) = n /\ todo \in Seq(Names)
  BY DEF Running, PipelineInv, TypeOK
<1>2. Len(cfg) \in 1 .. 4
  BY <1>1, Ready
<1>3. /\ Len(todo) \in Nat \ {0} /\ todo[1] = n
      /\ Tail(todo) \in Seq(Names) /\ Len(Tail(todo)) = Len(todo) - 1
      /\ \A i \in 1 .. Len(todo) - 1 : Tail(todo)[i] = todo[i + 1]
  BY <1>1
<1>4. Len(todo) <= Len(cfg) /\ \A i \in 1 .. Len(todo) : todo[i] = Order[Len(cfg) - Len(todo) + i]
  BY <1>1 DEF PipelineInv, Chain, Remaining
<1> DEFINE l == Len(cfg)
           t == Len(todo)
<1> HIDE DEF l, t
<1>5. todo[1] = Order[l - t + 1]
  BY <1>3, <1>4 DEF l, t
<1>6. l - t + 1 \in 1 .. l
  BY <1>2, <1>3, <1>4 DEF l, t
<1> QED
  BY <1>1, <1>2, <1>3, <1>5, <1>6 DEF At, l, t

\* What a context gets from the stage before it.
LEMMA TransmittedIs ==
  ASSUME NEW c \in Context, NEW d \in Context
  PROVE  /\ Transmitted(c, d) \in Context
         /\ Transmitted(c, d).batches = c.batches
         /\ Transmitted(c, d).dataflow = c.out
         /\ Transmitted(c, d).out = d.out
BY DEF Context, Transmitted

\* The stage at i leaves its context as c, and the next one is served, if c is
\* as it must be.
LEMMA DeliverKeeps ==
  ASSUME Packaged, PipelineInv, NEW i \in 1 .. 4, Running(Order[i]),
         NEW c \in Context, Deliver(Order[i], c), input' \in [Names -> Flow],
         i < 4 => \A k \in 1 .. Len(c.out) : Good(c.out[k]),
         i = 1 => c.batches = Len(c.out),
         i = 2 => Len(c.out) = Len(ctx["yolo"].out),
         i = 3 => Len(c.out) > 0
  PROVE  PipelineInv'
<1>1. /\ phase = "running" /\ Len(cfg) \in 1 .. 4
      /\ i = At /\ i \in 1 .. Len(cfg) /\ Len(todo) \in Nat \ {0}
      /\ Tail(todo) \in Seq(Names) /\ Len(Tail(todo)) = Len(todo) - 1
      /\ \A k \in 1 .. Len(todo) - 1 : Tail(todo)[k] = todo[k + 1]
  <2>1. /\ At \in 1 .. Len(cfg) /\ Order[i] = Order[At] /\ Len(cfg) \in 1 .. 4
    BY RunningAt
  <2>2. At \in 1 .. 4
    <3> DEFINE n == Len(cfg)
    <3>1. n \in 1 .. 4 /\ At \in 1 .. n
      BY <2>1
    <3> HIDE DEF n
    <3> QED
      BY <3>1
  <2>3. i = At
    BY <2>1, <2>2, OrderDistinct
  <2> QED
    BY <2>1, <2>3, RunningAt
<1>2. /\ cfg \in Configs /\ registered = Len(cfg)
      /\ DOMAIN ctx = {Order[p] : p \in 1 .. Len(cfg)}
      /\ \A p \in 1 .. Len(cfg) : Order[p] \in Names /\ ctx[Order[p]] \in Context
  BY <1>1, Ready
<1>3. CASE ~ (ToSet(tails[Order[i]]) \subseteq DOMAIN ctx)
  <2> USE <1>3 DEF Deliver, pipelineVars
  <2>1. TypeOK'
    BY DEF PipelineInv, TypeOK
  <2>2. Placed' /\ Linked' /\ Wrapped' /\ Remaining'
    BY DEF PipelineInv, Chain, Placed, Linked, Wrapped, Remaining
  <2>3. Entering' /\ Served'
    BY DEF Entering, Served
  <2> QED
    BY <2>1, <2>2, <2>3 DEF PipelineInv, Chain
<1>4. CASE ToSet(tails[Order[i]]) \subseteq DOMAIN ctx
  <2>1. /\ ctx' = [t \in DOMAIN ctx |->
                     IF t = Order[i] THEN c
                     ELSE IF Contains(tails[Order[i]], t) THEN Transmitted(c, ctx[t])
                     ELSE ctx[t]]
        /\ todo' = Tail(todo)
        /\ UNCHANGED <<tails, sub, created, built, pipelines, frame, phase, cfg,
                       registered, stages>>
    BY <1>4 DEF Deliver, runVars, pipelineVars
  <2>2. DOMAIN ctx' = DOMAIN ctx /\ \A n \in DOMAIN ctx' : ctx'[n] \in Context
    <3>1. ASSUME NEW n \in DOMAIN ctx PROVE ctx'[n] \in Context
      <4>1. ctx[n] \in Context
        BY <1>2
      <4> QED
        BY <2>1, <4>1, TransmittedIs
    <3> QED
      BY <2>1, <3>1
  <2>3. TypeOK'
    <3>1. Range(ctx') \subseteq Context /\ DOMAIN ctx' \subseteq Names
      BY <2>2 DEF Range, PipelineInv, TypeOK
    <3> QED
      BY <1>1, <2>1, <3>1 DEF PipelineInv, TypeOK
  <2>4. Placed' /\ Linked' /\ Wrapped'
    BY <2>1, <2>2 DEF PipelineInv, Chain, Placed, Linked, Wrapped
  <2> DEFINE l == Len(cfg)
             t == Len(todo)
  <2>5. l \in 1 .. 4 /\ t \in Nat \ {0} /\ i = l - t + 1 /\ i \in 1 .. l
        /\ Len(todo') = t - 1 /\ Len(cfg') = l
    BY <1>1, <2>1 DEF At
  <2>6. Remaining'
    <3>1. t <= l /\ \A k \in 1 .. t : todo[k] = Order[l - t + k]
      BY <1>1 DEF PipelineInv, Chain, Remaining
    <3>2. \A k \in 1 .. t - 1 : todo'[k] = todo[k + 1]
      BY <1>1, <2>1
    <3> HIDE DEF l, t
    <3>3. ASSUME NEW k \in 1 .. t - 1
          PROVE  todo'[k] = Order[l - (t - 1) + k]
      <4>1. k + 1 \in 1 .. t /\ l - t + (k + 1) = l - (t - 1) + k
        BY <2>5
      <4>2. todo[k + 1] = Order[l - t + (k + 1)]
        BY <3>1, <4>1
      <4> QED
        BY <3>2, <4>1, <4>2
    <3> QED
      BY <2>5, <3>1, <3>3 DEF Remaining
  <2>7. Entering'
    BY <1>1, <2>1 DEF Entering
  <2>8. ASSUME todo' # <<>>
        PROVE  ServedAt(At)'
    <3>1. t - 1 # 0
      <4>1. todo' \in Seq(Names)
        BY <1>1, <2>1
      <4> QED
        BY <2>5, <2>8, <4>1, EmptySeq
    <3>2. At' = i + 1 /\ i + 1 \in 1 .. l
      <4>1. At' = l - (t - 1) + 1
        BY <2>5 DEF At
      <4> HIDE DEF l, t
      <4>2. t - 1 \in Nat \ {0} /\ l \in Nat /\ t \in Nat
        BY <2>5, <3>1
      <4>3. l - (t - 1) + 1 = (l - t + 1) + 1 /\ l - t + 1 < l
        BY <4>2
      <4>4. i = l - t + 1 /\ i \in Nat
        BY <2>5
      <4>5. At' = i + 1
        BY <4>1, <4>3, <4>4
      <4>6. i + 1 \in 1 .. l
        BY <4>2, <4>3, <4>4
      <4> QED
        BY <4>5, <4>6
    <3>3. Order[i] \in DOMAIN ctx /\ Order[i + 1] \in DOMAIN ctx
          /\ Order[i] # Order[i + 1]
      <4>1. i + 1 \in 1 .. 4 /\ i # i + 1 /\ i \in 1 .. 4
        <5> HIDE DEF l
        <5> QED
          BY <2>5, <3>2
      <4> QED
        BY <1>1, <1>2, <3>2, <4>1, OrderDistinct
    <3>4. Contains(tails[Order[i]], Order[i + 1])
      <4>1. i \in 1 .. registered - 1
        BY <1>2, <2>5, <3>2
      <4> QED
        BY <4>1 DEF PipelineInv, Chain, Linked
    <3>5. /\ ctx'[Order[i]] = c
          /\ ctx'[Order[i + 1]] = Transmitted(c, ctx[Order[i + 1]])
      BY <2>1, <3>3, <3>4
    <3>6. /\ ctx'[Order[i + 1]].batches = c.batches
          /\ ctx'[Order[i + 1]].dataflow = c.out
      BY <1>2, <3>2, <3>5, TransmittedIs
    <3>7. i = 2 => /\ ctx'["reid"].out = c.out
                   /\ ctx'["yolo"] = ctx["yolo"]
      <4> SUFFICES ASSUME i = 2
                   PROVE  ctx'["reid"] = c /\ ctx'["yolo"] = ctx["yolo"]
        OBVIOUS
      <4>1. Order[i] = "reid" /\ Order[1] = "yolo" /\ "yolo" \in DOMAIN ctx
        BY <1>1, <1>2, OrderIs
      <4>2. "yolo" \in Names /\ "reid" \in Names
        BY <1>2, <3>3, <4>1 DEF PipelineInv, TypeOK
      <4>3. ~ Contains(tails["reid"], "yolo")
        <5> SUFFICES ASSUME Contains(tails["reid"], "yolo") PROVE FALSE
          OBVIOUS
        <5>1. PICK k \in 1 .. 3 : "reid" = Order[k] /\ "yolo" = Order[k + 1]
          BY <4>2 DEF PipelineInv, Chain, Linked
        <5>2. k \in {1, 2, 3}
          OBVIOUS
        <5> QED
          BY <5>1, <5>2, OrderIs
      <4> QED
        BY <2>1, <3>5, <4>1, <4>3
    <3> DEFINE d == ctx'[Order[i + 1]]
    <3>8. \A k \in 1 .. Len(d.dataflow) : d.dataflow[k].kept \/ d.dataflow[k].frame = frame'
      <4>1. i < 4
        <5> HIDE DEF l
        <5> QED
          BY <2>5, <3>2
      <4> QED
        BY <2>1, <3>6, <4>1 DEF Good
    <3>9. d.dataflow = ctx'[Order[i + 1 - 1]].out
      <4>1. i + 1 - 1 = i
        OBVIOUS
      <4> QED
        BY <3>5, <3>6, <4>1
    <3>10. i + 1 <= 2 => d.batches = Len(d.dataflow)
      BY <3>6
    <3>11. i + 1 = 3 => Len(ctx'["reid"].out) = Len(ctx'["yolo"].out)
      BY <3>7
    <3>12. i + 1 = 4 => Len(d.dataflow) > 0
      BY <3>6
    <3>13. i + 1 # 1
      OBVIOUS
    <3>14. ServedAt(i + 1)'
      BY <3>8, <3>9, <3>10, <3>11, <3>12, <3>13 DEF ServedAt, Good
    <3> QED
      BY <3>2, <3>14 DEF ServedAt
  <2> QED
    BY <2>3, <2>4, <2>6, <2>7, <2>8 DEF PipelineInv, Chain, Served
<1> QED
  BY <1>3, <1>4

---------------------------------------------------------------------------
(* The stages.                                                             *)

\* A flow made from another one is from the same frame.
LEMMA MadeFrom ==
  ASSUME NEW f \in Flow, NEW p \in 0 .. MaxPersons,
         NEW what \in {"tensor", "feature", "crop", "person", "garbage"}
  PROVE  /\ [f EXCEPT !.kind = what] \in Flow
         /\ [f EXCEPT !.kind = what].frame = f.frame
         /\ [f EXCEPT !.kind = what].kept = f.kept
         /\ [f EXCEPT !.of = p, !.kind = what] \in Flow
         /\ [f EXCEPT !.of = p, !.kind = what].frame = f.frame
         /\ [f EXCEPT !.of = p, !.kind = what].kept = f.kept
         /\ [f EXCEPT !.kept = TRUE] \in Flow
         /\ [f EXCEPT !.kept = TRUE].kept
BY DEF Flow

\* What a graph makes is good if its input is.
LEMMA InferredIs ==
  ASSUME NEW f \in Flow
  PROVE  /\ Inferred(f) \in Flow
         /\ Good(f) => Good(Inferred(f))
<1>1. PICK what \in {"tensor", "feature", "garbage"} : Inferred(f) = [f EXCEPT !.kind = what]
  BY DEF Inferred
<1> DEFINE g == [f EXCEPT !.kind = what]
<1>2. g \in Flow /\ g.frame = f.frame /\ g.kept = f.kept
  BY DEF Flow
<1> HIDE DEF g
<1>3. Good(f) => Good(g)
  BY <1>2, Zenon DEF Good
<1> QED
  BY <1>1, <1>2, <1>3 DEF g

\* An output without bytes is as good as the one it stands for.
LEMMA SizedIs ==
  ASSUME NEW f \in Flow, NEW n
  PROVE  /\ Sized(n, f) \in Flow
         /\ Good(f) => Good(Sized(n, f))
<1>1. CASE built[n] = 0
  <2> DEFINE g == [f EXCEPT !.kind = "empty"]
  <2>1. g \in Flow /\ g.frame = f.frame /\ g.kept = f.kept
    BY DEF Flow
  <2>2. Sized(n, f) = g
    BY <1>1 DEF Sized
  <2> HIDE DEF g
  <2>3. Good(f) => Good(g)
    BY <2>1, Zenon DEF Good
  <2> QED
    BY <2>1, <2>2, <2>3
<1>2. CASE built[n] # 0
  BY <1>2 DEF Sized
<1> QED
  BY <1>1, <1>2

\* An engine leaves one good output per batch, whatever fails.
LEMMA OutcomesAre ==
  ASSUME PipelineInv, NEW n \in Names, sub[n] = "nb", NEW c \in Context,
         c.batches = Len(c.dataflow),
         \A k \in 1 .. Len(c.dataflow) : Good(c.dataflow[k]),
         NEW r \in Outcomes(n, c)
  PROVE  /\ r.tensor \in Flow
         /\ r.out \in Seq(Flow)
         /\ Len(r.out) = c.batches
         /\ \A k \in 1 .. Len(r.out) : Good(r.out[k])
<1>1. /\ input[n] \in Flow /\ frame \in 0 .. MaxFrames
      /\ c.batches \in Nat /\ c.dataflow \in Seq(Flow)
  BY DEF PipelineInv, TypeOK, Context
<1>2. PICK done \in 0 .. c.batches, copied \in 1 .. c.batches + 1 :
        r = Outcome(n, c, done, copied)
  BY DEF Outcomes
<1>3. c.batches > 0 => c.dataflow[1] \in Flow /\ Good(c.dataflow[1])
  BY <1>1
<1>4. [Blank EXCEPT !.frame = frame] \in Flow /\ Good([Blank EXCEPT !.frame = frame])
  <2>1. Blank \in Flow
    BY BoundsAssumption DEF Blank, Flow
  <2> QED
    BY <1>1, <2>1 DEF Flow, Good
<1>5. [input[n] EXCEPT !.kept = TRUE] \in Flow /\ Good([input[n] EXCEPT !.kept = TRUE])
  <2> DEFINE g == [input[n] EXCEPT !.kept = TRUE]
  <2>1. 0 \in 0 .. MaxPersons
    BY BoundsAssumption
  <2>2. g \in Flow /\ g.kept
    BY <1>1, <2>1, MadeFrom
  <2> HIDE DEF g
  <2>3. Good(g)
    BY <2>2, Zenon DEF Good
  <2> QED
    BY <2>2, <2>3 DEF g
<1> DEFINE zero == [Blank EXCEPT !.frame = frame]
           old == [input[n] EXCEPT !.kept = TRUE]
           new == c.dataflow[1]
           raw(i) == IF i > done THEN zero
                     ELSE Inferred(IF i < copied THEN old ELSE new)
           e(i) == Sized(n, raw(i))
           b == c.batches
           out == [i \in 1 .. b |-> e(i)]
<1>6. r.out = out /\ r.tensor = IF copied <= b /\ copied <= done + 1 THEN new ELSE input[n]
  BY <1>2 DEF Outcome
<1>7. r.tensor \in Flow
  BY <1>1, <1>2, <1>3, <1>6
<1>8. ASSUME NEW i \in 1 .. b PROVE e(i) \in Flow /\ Good(e(i))
  <2> HIDE DEF zero, old, new
  <2>1. b > 0
    BY <1>1
  <2>2. Inferred(old) \in Flow /\ Good(Inferred(old))
    BY <1>5, InferredIs DEF old
  <2>3. Inferred(new) \in Flow /\ Good(Inferred(new))
    BY <1>3, <2>1, InferredIs DEF new
  <2>4. raw(i) \in Flow /\ Good(raw(i))
    BY <1>4, <2>2, <2>3 DEF zero
  <2> HIDE DEF raw
  <2> QED
    BY <2>4, SizedIs
<1>9. b \in Nat
  BY <1>1
<1> HIDE DEF e, b
<1>10. out \in Seq(Flow) /\ Len(out) = b /\ \A i \in 1 .. b : out[i] = e(i)
  BY <1>8, <1>9
<1> QED
  BY <1>6, <1>7, <1>8, <1>10 DEF b

\* A context with another output.
LEMMA OutIs ==
  ASSUME NEW c \in Context, NEW o \in Seq(Flow), NEW b \in Nat
  PROVE  /\ [c EXCEPT !.out = o] \in Context
         /\ [c EXCEPT !.out = o].out = o
         /\ [c EXCEPT !.out = o].batches = c.batches
         /\ [c EXCEPT !.out = o].dataflow = c.dataflow
         /\ [c EXCEPT !.batches = b, !.out = o] \in Context
         /\ [c EXCEPT !.batches = b, !.out = o].out = o
         /\ [c EXCEPT !.batches = b, !.out = o].batches = b
BY DEF Context

\* The persons that are detected in one output.
LEMMA PersonsAre ==
  ASSUME NEW n \in 0 .. MaxPersons, NEW f \in Flow, Good(f)
  PROVE  /\ Persons(n, f) \in Seq(Flow)
         /\ Len(Persons(n, f)) = n
         /\ \A i \in 1 .. n : Good(Persons(n, f)[i]) /\ Persons(n, f)[i].kind = "person"
<1> DEFINE e(i) == [f EXCEPT !.of = i, !.kind = "person"]
<1>1. n \in Nat
  BY BoundsAssumption
<1>2. ASSUME NEW i \in 1 .. n
      PROVE  e(i) \in Flow /\ Good(e(i)) /\ e(i).kind = "person"
  <2>1. i \in 0 .. MaxPersons
    BY BoundsAssumption
  <2>2. e(i) \in Flow /\ e(i).frame = f.frame /\ e(i).kept = f.kept
    BY <2>1, MadeFrom
  <2>3. e(i).kind = "person"
    BY DEF Flow
  <2> QED
    BY <2>2, <2>3 DEF Good
<1>3. Persons(n, f) = [i \in 1 .. n |-> e(i)]
  BY DEF Persons
<1> HIDE DEF e
<1> QED
  BY <1>1, <1>2, <1>3

\* What the stage that runs finds.
LEMMA Running1 ==
  ASSUME Packaged, PipelineInv, NEW i \in 1 .. 4, Running(Order[i])
  PROVE  /\ phase = "running" /\ registered = Len(cfg) /\ Len(cfg) \in 1 .. 4
         /\ i \in 1 .. Len(cfg) /\ At = i
         /\ Order[i] \in Names /\ ctx[Order[i]] \in Context
         /\ ServedAt(i)
         /\ i <= 2 => sub[Order[i]] = "nb"
<1>1. /\ At \in 1 .. Len(cfg) /\ Order[i] = Order[At] /\ Len(cfg) \in 1 .. 4
      /\ phase = "running" /\ Len(todo) \in Nat \ {0}
  BY RunningAt
<1>2. At \in 1 .. 4
  <2> DEFINE n == Len(cfg)
  <2>1. n \in 1 .. 4 /\ At \in 1 .. n
    BY <1>1
  <2> HIDE DEF n
  <2> QED
    BY <2>1
<1>3. At = i
  BY <1>1, <1>2, OrderDistinct
<1>4. registered = Len(cfg) /\ Order[i] \in Names /\ ctx[Order[i]] \in Context
  BY <1>1, <1>3, Ready
<1>5. ServedAt(i)
  <2>1. todo # <<>>
    BY DEF Running
  <2> QED
    BY <1>1, <1>3, <2>1 DEF PipelineInv, Served
<1>6. i <= 2 => sub[Order[i]] = "nb"
  BY <1>1, <1>3, <1>4 DEF PipelineInv, Chain, Wrapped
<1> QED
  BY <1>1, <1>3, <1>4, <1>5, <1>6

\* The detector makes persons of its output, or hands it on.
LEMMA RunDetectorKeeps ==
  ASSUME Packaged, PipelineInv, RunDetector
  PROVE  PipelineInv'
<1> DEFINE c == ctx["yolo"]
<1>1. Running(Order[1]) /\ Order[1] = "yolo"
  BY OrderIs DEF RunDetector
<1>2. /\ "yolo" \in Names /\ c \in Context /\ ServedAt(1) /\ sub["yolo"] = "nb"
  BY <1>1, Running1
<1>3. /\ c.batches = Len(c.dataflow) /\ c.batches = 1
      /\ \A k \in 1 .. Len(c.dataflow) : Good(c.dataflow[k])
  BY <1>1, <1>2 DEF ServedAt
<1> HIDE DEF c
<1>4. PICK r \in Outcomes("yolo", c) :
        /\ input' = [input EXCEPT !["yolo"] = r.tensor]
        /\ IF Accepted(r.out)
             THEN \E n \in Found(r.out[1]) :
                    Deliver("yolo", [c EXCEPT !.batches = n, !.out = Persons(n, r.out[1])])
             ELSE Deliver("yolo", [c EXCEPT !.out = r.out])
  BY DEF RunDetector, c
<1>5. /\ r.tensor \in Flow /\ r.out \in Seq(Flow) /\ Len(r.out) = 1
      /\ \A k \in 1 .. Len(r.out) : Good(r.out[k])
  BY <1>2, <1>3, OutcomesAre
<1>6. input' \in [Names -> Flow]
  BY <1>2, <1>4, <1>5 DEF PipelineInv, TypeOK
<1>7. CASE Accepted(r.out)
  <2>1. r.out[1] \in Flow /\ Good(r.out[1])
    BY <1>5
  <2>2. PICK n \in Found(r.out[1]) :
          Deliver("yolo", [c EXCEPT !.batches = n, !.out = Persons(n, r.out[1])])
    BY <1>4, <1>7
  <2>3. n \in 0 .. MaxPersons /\ n \in Nat
    BY BoundsAssumption DEF Found
  <2> DEFINE o == Persons(n, r.out[1])
             d == [c EXCEPT !.batches = n, !.out = o]
  <2>4. o \in Seq(Flow) /\ Len(o) = n /\ \A k \in 1 .. n : Good(o[k])
    BY <2>1, <2>3, PersonsAre
  <2> HIDE DEF o
  <2>5. d \in Context /\ d.out = o /\ d.batches = n
    BY <1>2, <2>3, <2>4 DEF Context
  <2>6. Deliver(Order[1], d)
    BY <1>1, <2>2 DEF o
  <2> HIDE DEF d
  <2> QED
    BY <1>1, <1>6, <2>4, <2>5, <2>6, DeliverKeeps
<1>8. CASE ~ Accepted(r.out)
  <2> DEFINE d == [c EXCEPT !.out = r.out]
  <2>1. d \in Context /\ d.out = r.out /\ d.batches = 1
    BY <1>2, <1>3, <1>5, OutIs
  <2>2. Deliver(Order[1], d)
    BY <1>1, <1>4, <1>8
  <2> HIDE DEF d
  <2>3. d.batches = Len(d.out) /\ \A k \in 1 .. Len(d.out) : Good(d.out[k])
    BY <1>5, <2>1
  <2>4. 1 \in 1 .. 4 /\ 1 # 2 /\ 1 # 3
    OBVIOUS
  <2> QED
    BY <1>1, <1>6, <2>1, <2>2, <2>3, <2>4, DeliverKeeps
<1> QED
  BY <1>7, <1>8

\* Reid cuts out what it is given; a crop is from the frame of its person.
LEMMA RunReidKeeps ==
  ASSUME Packaged, PipelineInv, RunReid
  PROVE  PipelineInv'
<1> DEFINE old == ctx["reid"]
           crops == [i \in DOMAIN old.dataflow |-> Crop(old.dataflow[i])]
           c == [old EXCEPT !.dataflow = crops]
<1>1. Running(Order[2]) /\ Order[2] = "reid" /\ Order[1] = "yolo"
  BY OrderIs DEF RunReid
<1>2. "reid" \in Names /\ old \in Context /\ ServedAt(2) /\ sub["reid"] = "nb"
  BY <1>1, Running1
<1>3. /\ old.batches = Len(old.dataflow)
      /\ \A k \in 1 .. Len(old.dataflow) : Good(old.dataflow[k])
      /\ old.dataflow = ctx["yolo"].out
  <2>1. 2 - 1 = 1 /\ 2 > 1 /\ 2 <= 2
    OBVIOUS
  <2> QED
    BY <1>1, <1>2, <2>1 DEF ServedAt
<1> HIDE DEF old
<1>4. /\ crops \in Seq(Flow) /\ Len(crops) = Len(old.dataflow)
      /\ \A k \in 1 .. Len(crops) : Good(crops[k])
  <2> DEFINE s == old.dataflow
             n == Len(s)
  <2>1. s \in Seq(Flow) /\ n \in Nat /\ DOMAIN s = 1 .. n
    BY <1>2 DEF Context
  <2> HIDE DEF s
  <2>2. ASSUME NEW k \in 1 .. n
        PROVE  Crop(s[k]) \in Flow /\ Good(Crop(s[k]))
    <3>1. s[k] \in Flow /\ Good(s[k])
      BY <1>3, <2>1 DEF s
    <3>2. PICK what \in {"crop", "garbage"} : Crop(s[k]) = [s[k] EXCEPT !.kind = what]
      BY DEF Crop
    <3> DEFINE f == s[k]
               g == [f EXCEPT !.kind = what]
    <3>3. 0 \in 0 .. MaxPersons
      BY BoundsAssumption
    <3>4. g \in Flow /\ g.frame = f.frame /\ g.kept = f.kept
      BY <3>1, <3>3, MadeFrom
    <3> HIDE DEF f, g
    <3>5. Good(f) => Good(g)
      BY <3>4, Zenon DEF Good
    <3> QED
      BY <3>1, <3>2, <3>4, <3>5 DEF f, g
  <2>3. crops = [i \in 1 .. n |-> Crop(s[i])]
    BY <2>1 DEF s
  <2> HIDE DEF crops, n
  <2>4. crops \in Seq(Flow) /\ Len(crops) = n /\ \A k \in 1 .. n : crops[k] = Crop(s[k])
    BY <2>1, <2>2, <2>3
  <2> QED
    BY <2>2, <2>4 DEF n, s
<1> HIDE DEF crops
<1>5. /\ c \in Context /\ c.dataflow = crops /\ c.batches = old.batches
      /\ c.out = old.out
  BY <1>2, <1>4 DEF Context
<1>6. PICK r \in Outcomes("reid", c) :
        /\ input' = [input EXCEPT !["reid"] = r.tensor]
        /\ Deliver("reid", [c EXCEPT !.out = r.out])
  BY DEF RunReid, crops, old
<1> HIDE DEF c
<1>7. /\ r.tensor \in Flow /\ r.out \in Seq(Flow) /\ Len(r.out) = c.batches
      /\ \A k \in 1 .. Len(r.out) : Good(r.out[k])
  BY <1>2, <1>3, <1>4, <1>5, OutcomesAre
<1>8. input' \in [Names -> Flow]
  BY <1>2, <1>6, <1>7 DEF PipelineInv, TypeOK
<1> DEFINE d == [c EXCEPT !.out = r.out]
<1>9. d \in Context /\ d.out = r.out
  <2>1. 0 \in Nat
    OBVIOUS
  <2> QED
    BY <1>5, <1>7, <2>1, OutIs
<1>10. Deliver(Order[2], d)
  BY <1>1, <1>6
<1> HIDE DEF d
<1>11. Len(d.out) = Len(ctx["yolo"].out)
  BY <1>3, <1>5, <1>7, <1>9
<1> QED
  BY <1>1, <1>7, <1>8, <1>9, <1>10, <1>11, DeliverKeeps

\* The tracker leaves one output for the frame.
LEMMA RunTrackerKeeps ==
  ASSUME Packaged, PipelineInv, RunTracker
  PROVE  PipelineInv'
<1>1. /\ Running(Order[3]) /\ Order[3] = "tracker"
      /\ Order[1] = "yolo" /\ Order[2] = "reid"
  BY OrderIs DEF RunTracker
<1>2. /\ 3 \in 1 .. Len(cfg) /\ ctx["tracker"] \in Context
      /\ phase = "running" /\ Len(cfg) \in 1 .. 4
  BY <1>1, Running1
<1>3. {"yolo", "reid"} \subseteq DOMAIN ctx
  <2>1. 1 \in 1 .. Len(cfg) /\ 2 \in 1 .. Len(cfg)
    <3> DEFINE n == Len(cfg)
    <3>1. 3 \in 1 .. n /\ n \in 1 .. 4
      BY <1>2
    <3> HIDE DEF n
    <3>2. 1 \in 1 .. n /\ 2 \in 1 .. n
      BY <3>1
    <3> QED
      BY <3>2 DEF n
  <2>2. DOMAIN ctx = {Order[p] : p \in 1 .. Len(cfg)}
    BY <1>2, Ready
  <2> QED
    BY <1>1, <2>1, <2>2
<1> DEFINE f == Whole(frame, "tracks")
           o == <<f>>
           d == [ctx["tracker"] EXCEPT !.out = o]
<1>4. f \in Flow /\ Good(f)
  <2>1. frame \in 0 .. MaxFrames
    BY DEF PipelineInv, TypeOK
  <2>2. f \in Flow /\ f.frame = frame
    BY <2>1, WholeIs
  <2> HIDE DEF f
  <2> QED
    BY <2>2 DEF Good
<1>5. Deliver(Order[3], d)
  BY <1>1, <1>3 DEF RunTracker
<1> HIDE DEF f
<1>6. o \in Seq(Flow) /\ Len(o) = 1 /\ \A k \in 1 .. Len(o) : Good(o[k])
  <2>1. o \in Seq(Flow) /\ Len(o) = 1 /\ o[1] = f
    BY <1>4
  <2> HIDE DEF o
  <2> QED
    BY <1>4, <2>1
<1> HIDE DEF o
<1>7. d \in Context /\ d.out = o
  <2>1. 0 \in Nat
    OBVIOUS
  <2> QED
    BY <1>2, <1>6, <2>1, OutIs
<1>8. input' \in [Names -> Flow]
  BY DEF RunTracker, PipelineInv, TypeOK
<1> HIDE DEF d
<1>9. Len(d.out) > 0 /\ \A k \in 1 .. Len(d.out) : Good(d.out[k])
  <2> DEFINE x == d.out
  <2>1. x = o
    BY <1>7
  <2> HIDE DEF x
  <2>2. Len(x) = 1
    BY <1>6, <2>1
  <2>3. \A k \in 1 .. Len(x) : Good(x[k])
    BY <1>6, <2>1, Zenon
  <2> QED
    BY <2>2, <2>3 DEF x
<1>10. 3 \in 1 .. 4 /\ 3 # 1 /\ 3 # 2
  OBVIOUS
<1> QED
  BY <1>1, <1>5, <1>7, <1>8, <1>9, <1>10, DeliverKeeps

\* Upload has no engine: its context stays as it is.
LEMMA RunPlainKeeps ==
  ASSUME Packaged, PipelineInv, NEW n \in Names, RunPlain(n)
  PROVE  PipelineInv'
<1>1. n \notin {"yolo", "reid", "tracker"} /\ Running(n)
  BY DEF RunPlain
<1>2. n = Order[4]
  <2>1. At \in 1 .. Len(cfg) /\ n = Order[At] /\ Len(cfg) \in 1 .. 4
    BY <1>1, RunningAt
  <2>2. At \in {1, 2, 3, 4}
    <3> DEFINE l == Len(cfg)
    <3>1. At \in 1 .. l /\ l \in 1 .. 4
      BY <2>1
    <3> HIDE DEF l
    <3> QED
      BY <3>1
  <2> QED
    BY <1>1, <2>1, <2>2, OrderIs
<1>3. ctx[n] \in Context
  BY <1>1, <1>2, Running1
<1>4. sub[n] = None
  BY <1>1 DEF PipelineInv, Chain, Wrapped
<1>5. PICK r \in Outcomes(n, ctx[n]) :
        /\ input' = [input EXCEPT ![n] = r.tensor]
        /\ Deliver(n, [ctx[n] EXCEPT !.out = r.out])
  BY DEF RunPlain
<1>6. r = [out |-> ctx[n].out, tensor |-> input[n]]
  BY <1>4, <1>5 DEF Outcomes, None
<1>7. ctx[n].out \in Seq(Flow) /\ input \in [Names -> Flow]
  BY <1>3 DEF Context, PipelineInv, TypeOK
<1>8. input' \in [Names -> Flow]
  BY <1>5, <1>6, <1>7
<1> DEFINE d == [ctx[n] EXCEPT !.out = r.out]
<1>9. d \in Context
  <2>1. 0 \in Nat /\ r.out \in Seq(Flow)
    BY <1>6, <1>7
  <2> QED
    BY <1>3, <2>1, OutIs
<1>10. Deliver(Order[4], d) /\ Running(Order[4])
  BY <1>1, <1>2, <1>5
<1> HIDE DEF d
<1> QED
  BY <1>8, <1>9, <1>10, DeliverKeeps

\* Every step of the process keeps the invariant.
LEMMA PipelineNext ==
  ASSUME Packaged, PipelineInv, [Next]_vars
  PROVE  PipelineInv'
<1>1. CASE \E c \in Configs : NewPipeline(c)
  BY <1>1, NewPipelineKeeps
<1>2. CASE /\ registered < Len(cfg)
           /\ RegisterStage(cfg[registered + 1]) \/ RegisterEngine(cfg[registered + 1])
  BY <1>2, RegisterStageKeeps, RegisterEngineKeeps
<1>3. CASE InitDone
  BY <1>3, InitDoneKeeps
<1>4. CASE \E what \in {"image", "nothing"} : PushData(what)
  BY <1>4, PushDataKeeps
<1>5. CASE RunPipeline \/ RunDetector \/ RunReid \/ RunTracker
  BY <1>5, RunPipelineKeeps, RunDetectorKeeps, RunReidKeeps, RunTrackerKeeps
<1>6. CASE \E n \in Names : RunPlain(n) \/ StageDies(n)
  BY <1>6, RunPlainKeeps, AbortKeeps DEF StageDies
<1>7. CASE RunDone
  BY <1>7, RunDoneKeeps
<1>8. CASE Exit \/ UNCHANGED vars
  <2> USE <1>8 DEF Exit, vars, processVars, pipelineVars
  <2>1. TypeOK'
    BY DEF PipelineInv, TypeOK
  <2>2. Placed' /\ Linked' /\ Wrapped' /\ Remaining'
    BY DEF PipelineInv, Chain, Placed, Linked, Wrapped, Remaining
  <2>3. Entering' /\ Served'
    BY DEF PipelineInv, Entering, Served, ServedAt, Good, At
  <2> QED
    BY <2>1, <2>2, <2>3 DEF PipelineInv, Chain
<1> QED
  BY <1>1, <1>2, <1>3, <1>4, <1>5, <1>6, <1>7, <1>8 DEF Next

---------------------------------------------------------------------------
(* The theorems.                                                           *)

\* The invariant gives a running stage the output of the one before it.
LEMMA FreshFromInv ==
  ASSUME Packaged, PipelineInv
  PROVE  FreshInput
<1> SUFFICES ASSUME NEW n \in Names, Running(n)
             PROVE  /\ \A u \in Upstream(n) : ctx[n].dataflow = ctx[u].out
                    /\ \A f \in Range(ctx[n].dataflow) : f.kept \/ f.frame = frame
  BY DEF FreshInput
<1> DEFINE l == Len(cfg)
           i == At
<1>1. phase = "running" /\ i \in 1 .. l /\ n = Order[i] /\ l \in 1 .. 4
  BY RunningAt
<1>2. /\ stages \in Seq(Seq(Names)) /\ Len(stages) = l
      /\ \A p \in 1 .. l : stages[p] = <<Order[p]>>
  BY <1>1, Ready
<1>3. ServedAt(i)
  BY <1>1 DEF PipelineInv, Served, Running
<1>4. ctx[n] \in Context
  BY <1>1, Ready
<1> HIDE DEF l, i
<1>5. i \in 1 .. 4
  BY <1>1
<1>6. ASSUME NEW u \in Upstream(n)
      PROVE  ctx[n].dataflow = ctx[u].out
  <2>1. PICK p \in DOMAIN stages : /\ p + 1 \in DOMAIN stages
                                   /\ Contains(stages[p], u)
                                   /\ Contains(stages[p + 1], n)
    BY <1>6 DEF Upstream
  <2>2. p \in 1 .. l /\ p + 1 \in 1 .. l /\ l \in 1 .. 4
    BY <1>1, <1>2, <2>1
  <2>3. stages[p] = <<Order[p]>> /\ stages[p + 1] = <<Order[p + 1]>>
    BY <1>2, <2>2
  <2>4. u = Order[p] /\ n = Order[p + 1]
    BY <2>1, <2>3 DEF Contains
  <2>5. p + 1 \in 1 .. 4
    BY <2>2
  <2>6. p + 1 = i
    BY <1>1, <1>5, <2>4, <2>5, OrderDistinct
  <2>7. p = i - 1 /\ i > 1
    BY <2>2, <2>6, <1>5
  <2> QED
    BY <1>1, <1>3, <2>4, <2>7 DEF ServedAt
<1>7. ASSUME NEW f \in Range(ctx[n].dataflow)
      PROVE  f.kept \/ f.frame = frame
  <2> DEFINE s == ctx[n].dataflow
  <2>1. s \in Seq(Flow) /\ DOMAIN s = 1 .. Len(s)
    BY <1>4 DEF Context
  <2>2. \A k \in 1 .. Len(s) : Good(s[k])
    BY <1>1, <1>3 DEF ServedAt
  <2> HIDE DEF s
  <2>3. PICK k \in DOMAIN s : f = s[k]
    BY <1>7 DEF Range, s
  <2> QED
    BY <2>1, <2>2, <2>3 DEF Good
<1> QED
  BY <1>6, <1>7

\* When the tracker runs, its place in the order is the third.
LEMMA FeatureFromInv ==
  ASSUME Packaged, PipelineInv
  PROVE  FeaturePerDetection
<1> SUFFICES ASSUME Running("tracker")
             PROVE  Len(ctx["reid"].out) = Len(ctx["yolo"].out)
  BY DEF FeaturePerDetection
<1>1. Running(Order[3]) /\ 3 \in 1 .. 4
  BY OrderIs
<1>2. ServedAt(3)
  BY <1>1, Running1
<1> QED
  BY <1>2 DEF ServedAt

\* The invariant holds of every process that makes its pipelines from
\* models.cfg or its first models: what RegisterStage, RegisterEngine and
\* ConnectTailStage have linked is one chain in every pipeline, although the
\* links of the process outlive it.
THEOREM PipelinesAreChains == Packaged => (Spec => []PipelineInv)
<1> SUFFICES ASSUME Packaged PROVE Spec => []PipelineInv
  OBVIOUS
<1>1. PipelineInv /\ [Next]_vars => PipelineInv'
  BY PipelineNext
<1> QED
  BY <1>1, PipelineInit, PTL DEF Spec

\* InitPipeline, PushDatatoPipeline and RunPipeline keep the state of the
\* process in its types.
THEOREM PipelineTyped == Packaged => (Spec => []TypeOK)
<1>1. PipelineInv => TypeOK
  BY DEF PipelineInv
<1> QED
  BY <1>1, PipelinesAreChains, PTL

\* DeliveryContext gives every stage of every pipeline of the process what the
\* stage before it has made of the frame pushed last.
THEOREM InputIsFresh == Packaged => (Spec => []FreshInput)
<1> SUFFICES ASSUME Packaged PROVE Spec => []FreshInput
  OBVIOUS
<1>1. PipelineInv => FreshInput
  BY FreshFromInv
<1> QED
  BY <1>1, PipelinesAreChains, PTL

\* TrackerDerocatestage indexes the features of reid with the detections of
\* yolo, and there is one for each, whatever the engines did.
THEOREM FeaturesPaired == Packaged => (Spec => []FeaturePerDetection)
<1> SUFFICES ASSUME Packaged PROVE Spec => []FeaturePerDetection
  OBVIOUS
<1>1. PipelineInv => FeaturePerDetection
  BY FeatureFromInv
<1> QED
  BY <1>1, PipelinesAreChains, PTL
---------------------------------------------------------------------------
(* The first pipeline of a process, made from models.cfg or its beginnings: *)
(* it has no links, outputs or sizes of earlier pipelines to trip over.     *)

\* Before the first pipeline nothing is registered.
FirstIsNew == pipelines = 0 => registered = 0 /\ cfg = <<>>

\* The detector's engine has built one graph, if it came through.
FirstBuilt ==
  pipelines <= 1 /\ "yolo" \in Names =>
    /\ built["yolo"] = IF created["yolo"] THEN 1 ELSE 0
    /\ registered = 0 => ~ created["yolo"]

\* No link leads out of the pipeline.
FirstLinks ==
  pipelines <= 1 => \A n \in Names : ToSet(tails[n]) \subseteq DOMAIN ctx

\* After a detector with a graph its outputs are persons.
FirstPersons ==
  pipelines <= 1 /\ phase = "running" /\ At > 1 /\ created["yolo"] =>
    \A k \in 1 .. Len(ctx["yolo"].out) : ctx["yolo"].out[k].kind = "person"

FirstInv == PipelineInv /\ FirstIsNew /\ FirstBuilt /\ FirstLinks /\ FirstPersons

\* A step that leaves the pipeline alone and does not run it.
LEMMA FirstIdles ==
  ASSUME Packaged, FirstInv, PipelineInv', UNCHANGED <<processVars, pipelineVars>>,
         DOMAIN ctx' = DOMAIN ctx, phase' = "running" => At' = 1
  PROVE  FirstInv'
<1> USE DEF processVars, pipelineVars
<1>1. FirstIsNew' /\ FirstBuilt' /\ FirstLinks'
  BY DEF FirstInv, FirstIsNew, FirstBuilt, FirstLinks
<1>2. FirstPersons'
  BY DEF FirstPersons
<1> QED
  BY <1>1, <1>2 DEF FirstInv

\* A new pipeline starts with what the process has, nothing if it is the first.
LEMMA FirstStarts ==
  ASSUME Packaged, FirstInv, PipelineInv', NEW c \in Configs, NewPipeline(c)
  PROVE  FirstInv'
<1>1. pipelines \in Nat /\ pipelines' = pipelines + 1 /\ phase' = "registering"
  BY BoundsAssumption DEF FirstInv, PipelineInv, TypeOK, NewPipeline
<1>2. FirstIsNew' /\ FirstPersons'
  BY <1>1 DEF FirstIsNew, FirstPersons
<1>3. ASSUME pipelines' <= 1
      PROVE  /\ pipelines = 0 /\ registered = 0 /\ registered' = 0
             /\ created' = created /\ built' = built /\ tails' = tails
  BY <1>1, <1>3 DEF FirstInv, FirstIsNew, NewPipeline
<1>4. FirstBuilt'
  BY <1>3 DEF FirstInv, FirstBuilt
<1>5. FirstLinks'
  <2> SUFFICES ASSUME pipelines' <= 1 PROVE \A n \in Names : ToSet(tails'[n]) \subseteq DOMAIN ctx'
    BY DEF FirstLinks
  <2>1. DOMAIN ctx = {}
    BY <1>3 DEF FirstInv, PipelineInv, Chain, Placed
  <2> QED
    BY <1>3, <2>1 DEF FirstInv, FirstLinks
<1> QED
  BY <1>2, <1>4, <1>5 DEF FirstInv

\* What a model that is registered leaves of the links and of the engine.
LEMMA FirstRegisters ==
  ASSUME Packaged, FirstInv, PipelineInv', registered < Len(cfg),
         phase = "registering",
         NEW m, m = cfg[registered + 1], Order[registered + 1] \in Names,
         registered' = registered + 1, ctx' = Enter(m),
         \A n \in Names : \/ tails'[n] = <<>>
                          \/ tails'[n] = tails[n]
                          \/ tails'[n] = Append(tails[n], m.name),
         "yolo" \in Names =>
           IF registered = 0
             THEN built'["yolo"] = built["yolo"] + IF created'["yolo"] THEN 1 ELSE 0
             ELSE built'["yolo"] = built["yolo"] /\ created'["yolo"] = created["yolo"],
         UNCHANGED <<pipelines, phase, cfg>>
  PROVE  FirstInv'
<1>1. registered \in 0 .. 3 /\ cfg \in Configs /\ m.name = Order[registered + 1]
  <2>1. cfg \in Configs
    BY DEF FirstInv, PipelineInv, Chain, Placed, TypeOK
  <2> QED
    BY <2>1, NextModel DEF FirstInv
<1>2. FirstIsNew'
  <2>1. Len(cfg) # 0
    BY <1>1
  <2>2. cfg # <<>>
    BY <2>1
  <2> QED
    BY <2>2 DEF FirstInv, FirstIsNew
<1>3. FirstBuilt'
  <2> SUFFICES ASSUME pipelines <= 1, "yolo" \in Names
               PROVE  built'["yolo"] = IF created'["yolo"] THEN 1 ELSE 0
    BY <1>1 DEF FirstBuilt
  <2>1. built["yolo"] = IF created["yolo"] THEN 1 ELSE 0
    BY DEF FirstInv, FirstBuilt
  <2>2. CASE registered = 0
    <3>1. built["yolo"] = 0
      BY <2>1, <2>2 DEF FirstInv, FirstBuilt
    <3> QED
      BY <2>2, <3>1
  <2>3. CASE registered # 0
    BY <2>1, <2>3
  <2> QED
    BY <2>2, <2>3
<1>4. FirstLinks'
  <2> SUFFICES ASSUME pipelines <= 1, NEW n \in Names
               PROVE  ToSet(tails'[n]) \subseteq DOMAIN ctx'
    BY DEF FirstLinks
  <2>1. DOMAIN ctx' = DOMAIN ctx \cup {m.name}
    BY DEF Enter
  <2>2. tails[n] \in Seq(Names) /\ ToSet(tails[n]) \subseteq DOMAIN ctx
    BY DEF FirstInv, PipelineInv, TypeOK, FirstLinks
  <2>3. m.name \in Names
    BY <1>1
  <2> DEFINE s == tails[n]
             a == Append(s, m.name)
  <2>4. ToSet(<<>>) = {}
    BY DEF ToSet
  <2>5. ToSet(a) \subseteq ToSet(s) \cup {m.name}
    <3>1. /\ DOMAIN a = 1 .. Len(s) + 1 /\ DOMAIN s = 1 .. Len(s) /\ Len(s) \in Nat
          /\ \A k \in 1 .. Len(s) : a[k] = s[k]
          /\ a[Len(s) + 1] = m.name
      BY <2>2, <2>3
    <3> HIDE DEF a, s
    <3> QED
      BY <3>1 DEF ToSet
  <2> QED
    BY <2>1, <2>2, <2>4, <2>5
<1>5. FirstPersons'
  BY DEF FirstPersons
<1> QED
  BY <1>2, <1>3, <1>4, <1>5 DEF FirstInv

\* RegisterStage links and enters a stage.
LEMMA FirstRegistersStage ==
  ASSUME Packaged, FirstInv, PipelineInv', registered < Len(cfg),
         RegisterStage(cfg[registered + 1]), phase' # "aborted"
  PROVE  FirstInv'
<1> DEFINE m == cfg[registered + 1]
<1>1. cfg \in Configs /\ PipelineInv
  <2>1. PipelineInv /\ phase = "registering"
    BY DEF FirstInv, RegisterStage
  <2> QED
    BY <2>1 DEF PipelineInv, TypeOK, Chain, Placed
<1>2. /\ registered \in 0 .. 3 /\ registered + 1 \in DOMAIN cfg
      /\ m.name = Order[registered + 1]
      /\ (m.type = IF registered < 2 THEN "nb" ELSE "Stage")
  BY <1>1, NextModel
<1>3. m.type = "Stage" /\ phase = "registering"
  BY DEF RegisterStage
<1>4. m.name \in Decorators
  BY DEF RegisterStage, Abort
<1> HIDE DEF m
<1>5. /\ registered' = registered + 1 /\ ctx' = Enter(m)
      /\ tails' = Link(m, stages')
      /\ UNCHANGED <<created, built, pipelines, phase, cfg>>
  BY <1>4 DEF RegisterStage, m
<1>6. \A n \in Names : tails'[n] = tails[n] \/ tails'[n] = Append(tails[n], m.name)
  BY <1>5 DEF Link
<1>7. registered # 0
  BY <1>2, <1>3
<1>8. Order[registered + 1] \in Names
  BY <1>2, <1>4 DEF Names
<1> QED
  BY <1>3, <1>5, <1>6, <1>7, <1>8, FirstRegisters DEF m

\* RegisterEngine also has the engine build its graph.
LEMMA FirstRegistersEngine ==
  ASSUME Packaged, FirstInv, PipelineInv', registered < Len(cfg),
         RegisterEngine(cfg[registered + 1]), phase' # "aborted"
  PROVE  FirstInv'
<1> DEFINE m == cfg[registered + 1]
<1>1. cfg \in Configs /\ PipelineInv
  <2>1. PipelineInv /\ phase = "registering"
    BY DEF FirstInv, RegisterEngine
  <2> QED
    BY <2>1 DEF PipelineInv, TypeOK, Chain, Placed
<1>2. /\ registered \in 0 .. 3 /\ registered + 1 \in DOMAIN cfg
      /\ m.name = Order[registered + 1]
      /\ (m.type = IF registered < 2 THEN "nb" ELSE "Stage")
  BY <1>1, NextModel
<1>3. m.type # "Stage" /\ phase = "registering"
  BY DEF RegisterEngine
<1>4. <<m.name, m.type>> \in Engines /\ m.type = "nb" /\ registered < 2
  BY <1>2, <1>3 DEF RegisterEngine, Abort
<1> HIDE DEF m
<1>5. Order[registered + 1] \in Names
  <2>1. <<m.name, m.type>>[1] = m.name
    OBVIOUS
  <2> QED
    BY <1>2, <1>4, <2>1 DEF Names
<1>6. /\ registered' = registered + 1 /\ ctx' = Enter(m)
      /\ tails' = IF m.name \in Decorators THEN Link(m, stages')
                  ELSE [Link(m, stages') EXCEPT ![m.name] = <<>>]
      /\ GraphCreated(m.name) \/ GraphFails(m.name)
      /\ UNCHANGED <<pipelines, phase, cfg>>
  BY <1>4 DEF RegisterEngine, m
<1>7. \A n \in Names : \/ tails'[n] = <<>>
                       \/ tails'[n] = tails[n]
                       \/ tails'[n] = Append(tails[n], m.name)
  BY <1>6 DEF Link
<1>8. "yolo" \in Names =>
        IF registered = 0
          THEN built'["yolo"] = built["yolo"] + IF created'["yolo"] THEN 1 ELSE 0
          ELSE built'["yolo"] = built["yolo"] /\ created'["yolo"] = created["yolo"]
  <2>1. m.name = "yolo" <=> registered = 0
    <3>1. registered \in {0, 1}
      BY <1>2, <1>4
    <3> QED
      BY <1>2, <3>1, OrderIs
  <2>2. built \in [Names -> Nat] /\ created \in [Names -> BOOLEAN]
    BY <1>1 DEF PipelineInv, TypeOK
  <2>3. CASE GraphCreated(m.name)
    BY <2>1, <2>2, <2>3 DEF GraphCreated
  <2>4. CASE GraphFails(m.name)
    <3>1. built' = built /\ created' = [created EXCEPT ![m.name] = FALSE]
      BY <2>4 DEF GraphFails
    <3>2. CASE m.name = "yolo"
      <4>1. "yolo" \in Names => ~ created'["yolo"]
        BY <2>2, <3>1, <3>2, Zenon
      <4>2. "yolo" \in Names => built'["yolo"] = built["yolo"] + 0
        BY <2>2, <3>1
      <4> QED
        BY <2>1, <3>2, <4>1, <4>2
    <3>3. CASE m.name # "yolo"
      BY <2>1, <2>2, <3>1, <3>3
    <3> QED
      BY <3>2, <3>3
  <2> QED
    BY <1>6, <2>3, <2>4
<1> QED
  BY <1>3, <1>5, <1>6, <1>7, <1>8, FirstRegisters DEF m

\* Every stage that runs hands its context on.
LEMMA FirstDelivers ==
  ASSUME Packaged, FirstInv, PipelineInv', NEW n, Running(n), NEW c,
         Deliver(n, c), pipelines <= 1,
         n = "yolo" /\ created["yolo"] =>
           \A k \in 1 .. Len(c.out) : c.out[k].kind = "person"
  PROVE  FirstInv'
<1>1. /\ phase = "running" /\ At \in 1 .. Len(cfg) /\ n = Order[At] /\ Len(cfg) \in 1 .. 4
      /\ Len(todo) \in Nat \ {0} /\ Len(Tail(todo)) = Len(todo) - 1
  BY RunningAt DEF FirstInv
<1>2. /\ DOMAIN ctx = {Order[p] : p \in 1 .. Len(cfg)} /\ n \in Names
      /\ \A p \in 1 .. Len(cfg) : Order[p] \in Names /\ ctx[Order[p]] \in Context
  BY <1>1, Ready DEF FirstInv
<1>3. ToSet(tails[n]) \subseteq DOMAIN ctx
  BY <1>2 DEF FirstInv, FirstLinks
<1>4. /\ ctx' = [t \in DOMAIN ctx |->
                   IF t = n THEN c
                   ELSE IF Contains(tails[n], t) THEN Transmitted(c, ctx[t])
                   ELSE ctx[t]]
      /\ todo' = Tail(todo)
      /\ UNCHANGED <<tails, sub, created, built, pipelines, frame, phase, cfg,
                     registered, stages>>
  BY <1>3 DEF Deliver, runVars, pipelineVars
<1>5. FirstIsNew' /\ FirstBuilt' /\ FirstLinks'
  BY <1>4 DEF FirstInv, FirstIsNew, FirstBuilt, FirstLinks
<1>6. FirstPersons'
  <2> DEFINE y == ctx["yolo"]
  <2>1. "yolo" \in DOMAIN ctx /\ y \in Context
    <3>1. 1 \in 1 .. Len(cfg)
      BY <1>1
    <3> QED
      BY <1>2, <3>1, OrderIs
  <2>2. CASE n = "yolo"
    <3>1. ctx'["yolo"] = c
      BY <1>4, <2>1, <2>2
    <3> QED
      BY <1>4, <2>2, <3>1 DEF FirstPersons
  <2>3. CASE n # "yolo"
    <3>1. At # 1
      BY <1>1, <2>3, OrderIs
    <3>2. At > 1
      BY <1>1, <3>1
    <3>3. created["yolo"] => \A k \in 1 .. Len(y.out) : y.out[k].kind = "person"
      BY <1>1, <3>2 DEF FirstInv, FirstPersons
    <3> HIDE DEF y
    <3>4. ctx'["yolo"].out = y.out
      <4>1. Transmitted(c, y).out = y.out
        BY <2>1 DEF Transmitted, Context
      <4> QED
        BY <1>4, <2>1, <2>3, <4>1 DEF y
    <3> DEFINE o == ctx'["yolo"].out
    <3>5. created["yolo"] => \A k \in 1 .. Len(o) : o[k].kind = "person"
      BY <3>3, <3>4
    <3> QED
      BY <1>4, <3>5 DEF FirstPersons
  <2> QED
    BY <2>2, <2>3
<1> QED
  BY <1>5, <1>6 DEF FirstInv

\* The tensor of the first graph of the detector has the size that is taken;
\* without a graph nothing is said of it.
LEMMA FirstRunsDetector ==
  ASSUME Packaged, FirstInv, PipelineInv', RunDetector, pipelines <= 1
  PROVE  FirstInv'
<1> DEFINE c == ctx["yolo"]
<1>1. Running(Order[1]) /\ Order[1] = "yolo"
  BY OrderIs DEF RunDetector
<1>2. /\ PipelineInv /\ "yolo" \in Names /\ c \in Context /\ ServedAt(1)
      /\ sub["yolo"] = "nb" /\ registered = Len(cfg) /\ Len(cfg) \in 1 .. 4
  BY <1>1, Running1 DEF FirstInv
<1>3. /\ c.batches = Len(c.dataflow) /\ c.batches = 1
      /\ \A k \in 1 .. Len(c.dataflow) : Good(c.dataflow[k])
  BY <1>1, <1>2 DEF ServedAt
<1> HIDE DEF c
<1>5. PICK r \in Outcomes("yolo", c) :
        IF Accepted(r.out)
          THEN \E n \in Found(r.out[1]) :
                 Deliver("yolo", [c EXCEPT !.batches = n, !.out = Persons(n, r.out[1])])
          ELSE Deliver("yolo", [c EXCEPT !.out = r.out])
  BY DEF RunDetector, c
<1>6. /\ r.out \in Seq(Flow) /\ Len(r.out) = 1
      /\ \A k \in 1 .. Len(r.out) : Good(r.out[k])
  BY <1>2, <1>3, OutcomesAre
<1>7. CASE ~ created["yolo"]
  <2>1. \E d : Deliver("yolo", d)
    BY <1>5
  <2> QED
    BY <1>1, <1>7, <2>1, FirstDelivers
<1>8. CASE created["yolo"]
  <2>1. built["yolo"] = 1
    BY <1>2, <1>8 DEF FirstInv, FirstBuilt
  <2>2. PICK n \in Found(r.out[1]) :
          Deliver("yolo", [c EXCEPT !.batches = n, !.out = Persons(n, r.out[1])])
    BY <1>5, <1>6, <2>1 DEF Accepted
  <2>3. n \in 0 .. MaxPersons /\ n \in Nat
    BY BoundsAssumption DEF Found
  <2> DEFINE o == Persons(n, r.out[1])
             d == [c EXCEPT !.batches = n, !.out = o]
  <2>4. o \in Seq(Flow) /\ Len(o) = n /\ \A k \in 1 .. n : o[k].kind = "person"
    BY <1>6, <2>3, PersonsAre
  <2> HIDE DEF o
  <2>5. d.out = o
    BY <1>2 DEF Context
  <2>6. Deliver("yolo", d) /\ Running("yolo")
    BY <1>1, <2>2 DEF o
  <2> HIDE DEF d
  <2> DEFINE x == d.out
  <2>7. x = o
    BY <2>5
  <2> HIDE DEF x
  <2>8. \A k \in 1 .. Len(x) : x[k].kind = "person"
    BY <2>4, <2>7
  <2>9. \A k \in 1 .. Len(d.out) : d.out[k].kind = "person"
    BY <2>8 DEF x
  <2> QED
    BY <2>6, <2>9, FirstDelivers
<1> QED
  BY <1>7, <1>8

\* The other stages leave what the detector has found.
LEMMA FirstRunsStage ==
  ASSUME Packaged, FirstInv, PipelineInv', pipelines <= 1,
         RunReid \/ RunTracker \/ \E n \in Names : RunPlain(n)
  PROVE  FirstInv'
<1>1. PICK n \in Names \ {"yolo"} : \E c : Running(n) /\ Deliver(n, c)
  <2>1. CASE RunReid
    <3>1. \E c : Running("reid") /\ Deliver("reid", c)
      BY <2>1 DEF RunReid
    <3>2. "reid" \in Names
      BY <3>1, RunningAt, Ready DEF FirstInv
    <3> QED
      BY <3>1, <3>2
  <2>2. CASE RunTracker
    <3>1. \E c : Running("tracker") /\ Deliver("tracker", c)
      BY <2>2 DEF RunTracker
    <3>2. "tracker" \in Names
      BY <3>1, RunningAt, Ready DEF FirstInv
    <3> QED
      BY <3>1, <3>2
  <2>3. CASE \E n \in Names : RunPlain(n)
    BY <2>3 DEF RunPlain
  <2> QED
    BY <2>1, <2>2, <2>3
<1> QED
  BY <1>1, FirstDelivers

\* The invariant has persons in every output of the detector.
LEMMA PersonsFromInv ==
  ASSUME Packaged, FirstInv
  PROVE  FirstDetectsPersons
<1> SUFFICES ASSUME pipelines = 1, phase = "running", "yolo" \in DOMAIN ctx,
                    ~ Contains(todo, "yolo"), created["yolo"],
                    NEW f \in Range(ctx["yolo"].out)
             PROVE  f.kind = "person"
  BY DEF FirstDetectsPersons, DetectionsArePersons
<1> DEFINE l == Len(cfg)
           t == Len(todo)
<1>1. l \in 1 .. 4 /\ todo \in Seq(Names) /\ t \in Nat
  <2>1. PipelineInv /\ phase \in {"idle", "pushed", "running"}
    BY DEF FirstInv
  <2>2. todo \in Seq(Names)
    BY <2>1 DEF PipelineInv, TypeOK
  <2> QED
    BY <2>1, <2>2, Ready
<1>2. t <= l /\ \A i \in 1 .. t : todo[i] = Order[l - t + i]
  BY DEF FirstInv, PipelineInv, Chain, Remaining
<1>3. \A i \in 1 .. t : todo[i] # "yolo"
  BY <1>1 DEF Contains
<1> HIDE DEF l, t
<1>4. t # l
  <2> SUFFICES ASSUME t = l PROVE FALSE
    OBVIOUS
  <2>1. 1 \in 1 .. t /\ l - t + 1 = 1
    BY <1>1
  <2>2. todo[1] = Order[1]
    BY <1>2, <2>1
  <2> QED
    BY <1>3, <2>1, <2>2, OrderIs
<1>5. At > 1
  <2>1. l - t + 1 > 1
    BY <1>1, <1>2, <1>4
  <2> QED
    BY <2>1 DEF At, l, t
<1> DEFINE o == ctx["yolo"].out
<1>6. o \in Seq(Flow) /\ DOMAIN o = 1 .. Len(o)
  BY DEF FirstInv, PipelineInv, TypeOK, Range, Context
<1>7. \A k \in 1 .. Len(o) : o[k].kind = "person"
  BY <1>5 DEF FirstInv, FirstPersons
<1> HIDE DEF o
<1>8. PICK k \in DOMAIN o : f = o[k]
  BY DEF Range, o
<1> QED
  BY <1>6, <1>7, <1>8

\* A link leads to the next stage of the order, and only that of the last stage
\* of a later pipeline leads out.
LEMMA LinksFromInv ==
  ASSUME Packaged, FirstInv
  PROVE  LinksStayInside
<1> SUFFICES ASSUME phase = "running", NEW n \in DOMAIN ctx
             PROVE  \/ ToSet(tails[n]) \subseteq DOMAIN ctx
                    \/ pipelines > 1 /\ n = Last(cfg).name
  BY DEF LinksStayInside
<1> DEFINE l == Len(cfg)
<1>1. /\ cfg \in Configs /\ l \in 1 .. 4 /\ PipelineInv
      /\ DOMAIN ctx = {Order[p] : p \in 1 .. l}
  BY Ready DEF FirstInv
<1>2. n \in Names /\ tails[n] \in Seq(Names) /\ pipelines \in Nat
  BY <1>1, BoundsAssumption DEF PipelineInv, TypeOK
<1>3. Last(cfg).name = Order[l]
  BY <1>1, Configured DEF Last
<1> HIDE DEF l
<1>4. PICK p \in 1 .. l : n = Order[p]
  BY <1>1
<1>5. CASE pipelines <= 1
  BY <1>2, <1>5 DEF FirstInv, FirstLinks
<1>6. CASE p = l /\ pipelines > 1
  BY <1>3, <1>4, <1>6
<1>7. CASE p # l
  <2> SUFFICES ASSUME NEW t \in ToSet(tails[n]) PROVE t \in DOMAIN ctx
    OBVIOUS
  <2>1. t \in Names /\ Contains(tails[n], t)
    BY <1>2 DEF ToSet, Contains
  <2>2. PICK k \in 1 .. 3 : n = Order[k] /\ t = Order[k + 1]
    BY <1>1, <1>2, <2>1 DEF PipelineInv, Chain, Linked
  <2>3. p \in 1 .. 4 /\ k \in 1 .. 4
    BY <1>1
  <2>4. p = k
    BY <1>4, <2>2, <2>3, OrderDistinct
  <2>5. k + 1 \in 1 .. l
    BY <1>1, <1>7, <2>4
  <2> QED
    BY <1>1, <2>2, <2>5
<1> QED
  BY <1>2, <1>5, <1>6, <1>7

\* In the second and later pipelines the invariant says nothing.
LEMMA FirstIsOver ==
  ASSUME PipelineInv, PipelineInv', pipelines' > 1
  PROVE  FirstIsNew' /\ FirstBuilt' /\ FirstLinks' /\ FirstPersons'
<1>1. pipelines' # 0 /\ ~ pipelines' <= 1
  BY BoundsAssumption DEF PipelineInv, TypeOK
<1> QED
  BY <1>1 DEF FirstIsNew, FirstBuilt, FirstLinks, FirstPersons

\* The number of pipelines does not go down.
LEMMA PipelinesGrow ==
  ASSUME PipelineInv, Next
  PROVE  pipelines' >= pipelines
<1>1. pipelines \in Nat
  BY BoundsAssumption DEF PipelineInv, TypeOK
<1>2. CASE \E c \in Configs : NewPipeline(c)
  BY <1>1, <1>2 DEF NewPipeline
<1>3. CASE \E n, c : Deliver(n, c)
  BY <1>1, <1>3 DEF Deliver, runVars
<1>4. CASE UNCHANGED pipelines
  BY <1>1, <1>4
<1>5. RunDetector \/ RunReid \/ RunTracker \/ (\E n \in Names : RunPlain(n))
        => \E n, c : Deliver(n, c)
  BY DEF RunDetector, RunReid, RunTracker, RunPlain
<1>6. RegisterStage(cfg[registered + 1]) \/ RegisterEngine(cfg[registered + 1])
        => UNCHANGED pipelines
  BY DEF RegisterStage, RegisterEngine, Abort, processVars
<1>7. InitDone \/ (\E what \in {"image", "nothing"} : PushData(what)) \/ RunPipeline
        \/ (\E n \in Names : StageDies(n)) \/ RunDone \/ Exit
        => UNCHANGED pipelines
  BY DEF InitDone, PushData, RunPipeline, StageDies, RunDone, Exit, Abort, vars,
         processVars
<1> QED
  BY <1>2, <1>3, <1>4, <1>5, <1>6, <1>7 DEF Next

\* Every step of the process keeps it.
LEMMA FirstNext ==
  ASSUME Packaged, FirstInv, [Next]_vars
  PROVE  FirstInv'
<1>1. PipelineInv /\ PipelineInv'
  BY PipelineNext DEF FirstInv
<1>2. CASE UNCHANGED vars
  <2> USE <1>2 DEF vars, processVars, pipelineVars
  <2>1. FirstIsNew' /\ FirstBuilt' /\ FirstLinks'
    BY DEF FirstInv, FirstIsNew, FirstBuilt, FirstLinks
  <2>2. FirstPersons'
    BY DEF FirstInv, FirstPersons, At
  <2> QED
    BY <1>1, <2>1, <2>2 DEF FirstInv
<1>3. CASE Next /\ pipelines > 1
  <2>1. pipelines' > 1
    <3>1. pipelines \in Nat /\ pipelines' \in Nat
      BY <1>1, BoundsAssumption DEF PipelineInv, TypeOK
    <3> QED
      BY <1>1, <1>3, <3>1, PipelinesGrow
  <2> QED
    BY <1>1, <2>1, FirstIsOver DEF FirstInv
<1>4. CASE Next /\ pipelines <= 1
  <2>1. CASE \E c \in Configs : NewPipeline(c)
    BY <1>1, <2>1, FirstStarts
  <2>2. CASE /\ registered < Len(cfg)
             /\ RegisterStage(cfg[registered + 1]) \/ RegisterEngine(cfg[registered + 1])
    <3>1. CASE phase' # "aborted"
      BY <1>1, <2>2, <3>1, FirstRegistersStage, FirstRegistersEngine
    <3>2. CASE phase' = "aborted"
      <4>1. Abort
        BY <2>2, <3>2 DEF RegisterStage, RegisterEngine
      <4> QED
        BY <1>1, <3>2, <4>1, FirstIdles DEF Abort
    <3> QED
      BY <3>1, <3>2
  <2>3. CASE InitDone \/ RunDone \/ \E what \in {"image", "nothing"} : PushData(what)
    <3>1. /\ phase' # "running" /\ UNCHANGED <<processVars, pipelineVars>>
          /\ DOMAIN ctx' = DOMAIN ctx
      BY <2>3 DEF InitDone, RunDone, PushData
    <3> QED
      BY <1>1, <3>1, FirstIdles
  <2>4. CASE RunPipeline
    <3>1. /\ phase' = "running" /\ UNCHANGED <<processVars, pipelineVars, ctx>>
          /\ phase = "pushed" /\ todo' = FlattenSeq(stages)
      BY <2>4 DEF RunPipeline
    <3>2. Len(cfg) \in 1 .. 4 /\ Len(todo') = Len(cfg) /\ cfg' = cfg
      BY <1>1, <3>1, Ready, Flattened DEF pipelineVars
    <3>3. At' = 1
      BY <3>2 DEF At
    <3> QED
      BY <1>1, <3>1, <3>3, FirstIdles
  <2>5. CASE RunDetector
    BY <1>1, <1>4, <2>5, FirstRunsDetector
  <2>6. CASE RunReid \/ RunTracker \/ \E n \in Names : RunPlain(n)
    BY <1>1, <1>4, <2>6, FirstRunsStage
  <2>7. CASE \E n \in Names : StageDies(n)
    <3>1. Abort
      BY <2>7 DEF StageDies
    <3> QED
      BY <1>1, <3>1, FirstIdles DEF Abort
  <2>8. CASE Exit
    BY <1>2, <2>8 DEF Exit
  <2> QED
    BY <1>4, <2>1, <2>2, <2>3, <2>4, <2>5, <2>6, <2>7, <2>8 DEF Next
<1>5. pipelines > 1 \/ pipelines <= 1
  BY <1>1, BoundsAssumption DEF PipelineInv, TypeOK
<1> QED
  BY <1>2, <1>3, <1>4, <1>5

\* The invariant of the first pipeline holds.
LEMMA FirstHolds == Packaged => (Spec => []FirstInv)
<1> SUFFICES ASSUME Packaged PROVE Spec => []FirstInv
  OBVIOUS
<1>1. Init => FirstInv
  <2> SUFFICES ASSUME Init PROVE FirstInv
    OBVIOUS
  <2>1. PipelineInv
    BY PipelineInit
  <2>2. ToSet(<<>>) = {}
    BY DEF ToSet
  <2> QED
    BY <2>1, <2>2 DEF Init, FirstInv, FirstIsNew, FirstBuilt, FirstLinks,
                      FirstPersons
<1>2. FirstInv /\ [Next]_vars => FirstInv'
  BY FirstNext
<1> QED
  BY <1>1, <1>2, PTL DEF Spec

\* In the first pipeline of a process YoloDerocatestage takes the tensor of an
\* engine that CreateGraph has given a graph, every time: what the stages after it
\* read as persons are persons.
THEOREM DetectorIsRead == Packaged => (Spec => []FirstDetectsPersons)
<1> SUFFICES ASSUME Packaged PROVE Spec => []FirstDetectsPersons
  OBVIOUS
<1>1. FirstInv => FirstDetectsPersons
  BY PersonsFromInv
<1> QED
  BY <1>1, FirstHolds, PTL

\* ConnectTailStage links across the pipelines of a process, and yet no stage but
\* the last of a later pipeline makes DeliveryContext look for a context that the
\* running pipeline has not.
THEOREM LinksLeadInside == Packaged => (Spec => []LinksStayInside)
<1> SUFFICES ASSUME Packaged PROVE Spec => []LinksStayInside
  OBVIOUS
<1>1. FirstInv => LinksStayInside
  BY LinksFromInv
<1> QED
  BY <1>1, FirstHolds, PTL
=============================================================================
