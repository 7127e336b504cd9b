---------------------- MODULE CircleBufferRefinement ----------------------
(* More proofs about CircleBuffer, for every set of threads and every      *)
(* capacity: what size() may return, when a call may be refused, that the  *)
(* ring implements the queue of BoundedFifo, and that tickets can be words *)
(* of size_t.                                                              *)
EXTENDS CircleBufferProofs, SequenceTheorems

---------------------------------------------------------------------------
(* The window of the tickets in use.                                       *)

\* The slot of the oldest ticket is not ahead of it, so at most Capacity
\* tickets are claimed by a push and not yet by a pop.
LEMMA Window ==
  ASSUME TypeOK, RingInv
  PROVE  /\ tail <= head + Capacity
         /\ slotTail[Slot(head)] <= head
<1> PICK s \in Slots : s = Slot(head)
  BY SlotDivision DEF TypeOK
<1> DEFINE m == slotTail[s]
<1>1. /\ m \in Nat /\ head \in Nat /\ tail \in Nat /\ Capacity \in Nat
      /\ Slot(m) = Slot(head)
      /\ tail - Capacity <= m
      /\ m < head + Capacity
  BY CapacityAssumption DEF TypeOK, RingInv, SlotsInLap
<1> HIDE DEF m
<1>2. ~(head < m)
  BY <1>1, SlotLap
<1>3. m <= head /\ tail <= head + Capacity
  BY <1>1, <1>2
<1> QED
  BY <1>3 DEF m

---------------------------------------------------------------------------
(* size().                                                                 *)

\* The head that a call of size() has loaded is not ahead of _head; the
\* only pusher has pushed nothing since, the only popper has popped nothing.
SizeInv ==
  \A t \in Threads : pc[t] = "size" =>
    /\ ticket[t] <= head
    /\ Pushers = {t} => tail <= ticket[t] + Capacity
    /\ Poppers = {t} => ticket[t] = head

\* Initially no call of size() is in progress.
LEMMA SizeInit == Init => SizeInv
BY DEF Init, SizeInv

\* SizeInv is inductive.
LEMMA SizeNext ==
  TypeOK /\ RingInv /\ SizeInv /\ [Next]_vars => SizeInv'
<1> SUFFICES ASSUME TypeOK, RingInv, SizeInv, [Next]_vars
             PROVE  SizeInv'
  OBVIOUS
<1> USE DEF Goto, Return, ClaimFails, Begin, shared
<1>1. ASSUME NEW p \in Pushers, PushStep(p)
      PROVE  SizeInv'
  <2> p \in Threads /\ pc[p] # "size" /\ pc'[p] # "size"
    BY <1>1 DEF Threads, TypeOK, PushStep, PushLoad, PushRefuse, PushCheck,
                PushClaim, PushClaimFails, PushWrite, PushPublish
  <2>1. CASE PushClaim(p)
    BY <2>1 DEF PushClaim, SizeInv, TypeOK
  <2>2. CASE ~PushClaim(p)
    <3>1. UNCHANGED <<tail, head>>
      BY <1>1, <2>2 DEF PushStep, PushLoad, PushRefuse, PushCheck,
                        PushClaimFails, PushWrite, PushPublish
    <3>2. ASSUME NEW t \in Threads, t # p
          PROVE  pc'[t] = pc[t] /\ ticket'[t] = ticket[t]
      BY <1>1, <3>2 DEF TypeOK, PushStep, PushLoad, PushRefuse, PushCheck,
                        PushClaim, PushClaimFails, PushWrite, PushPublish
    <3> QED
      BY <3>1, <3>2 DEF SizeInv
  <2> QED
    BY <2>1, <2>2
<1>2. ASSUME NEW c \in Poppers, PopStep(c)
      PROVE  SizeInv'
  <2> c \in Threads /\ pc[c] # "size" /\ pc'[c] # "size"
    BY <1>2 DEF Threads, TypeOK, PopStep, PopLoad, PopFetchEarly, PopRefuse,
                PopCheck, PopClaim, PopClaimFails, PopRead, PopDestroy,
                PopRelease
  <2>1. CASE PopClaim(c)
    BY <2>1 DEF PopClaim, SizeInv, TypeOK
  <2>2. CASE ~PopClaim(c)
    <3>1. UNCHANGED <<tail, head>>
      BY <1>2, <2>2 DEF PopStep, PopLoad, PopFetchEarly, PopRefuse, PopCheck,
                        PopClaimFails, PopRead, PopDestroy, PopRelease
    <3>2. ASSUME NEW t \in Threads, t # c
          PROVE  pc'[t] = pc[t] /\ ticket'[t] = ticket[t]
      BY <1>2, <3>2 DEF TypeOK, PopStep, PopLoad, PopFetchEarly, PopRefuse,
                        PopCheck, PopClaim, PopClaimFails, PopRead,
                        PopDestroy, PopRelease
    <3> QED
      BY <3>1, <3>2 DEF SizeInv
  <2> QED
    BY <2>1, <2>2
<1>3. ASSUME NEW t \in Threads, SizeStep(t)
      PROVE  SizeInv'
  <2>1. CASE SizeLoadHead(t)
    BY <2>1, Window DEF SizeLoadHead, SizeInv, TypeOK
  <2>2. CASE SizeReturn(t)
    BY <2>2 DEF SizeReturn, SizeInv, TypeOK
  <2> QED
    BY <1>3, <2>1, <2>2 DEF SizeStep
<1>4. CASE Destroy \/ Gone \/ UNCHANGED vars
  BY <1>4 DEF Destroy, Gone, vars, SizeInv
<1> QED
  BY <1>1, <1>2, <1>3, <1>4 DEF Next

\* size() never wraps below zero, and never exceeds the capacity for the only
\* pusher or the only popper, whatever happens between its two loads.
THEOREM SizesAreInRange == Spec => []SizeInRange
<1>1. ASSUME TypeOK, RingInv, SizeInv
      PROVE  SizeInRange
  <2> SUFFICES ASSUME NEW t \in Threads, pc[t] = "size"
               PROVE  /\ tail - ticket[t] >= 0
                      /\ Pushers = {t} \/ Poppers = {t} =>
                           tail - ticket[t] <= Capacity
    BY DEF SizeInRange, SizeResult
  <2>1. /\ tail \in Nat /\ head \in Nat /\ ticket[t] \in Nat
        /\ Capacity \in Nat /\ head <= tail /\ tail <= head + Capacity
    BY <1>1, Window, CapacityAssumption DEF TypeOK, RingInv
  <2> QED
    BY <1>1, <2>1 DEF SizeInv
<1> QED
  BY <1>1, SizeInit, SizeNext, TypeCorrect, RingCorrect, PTL DEF Spec

---------------------------------------------------------------------------
(* Refusals.                                                               *)

\* A slot whose ticket is claimed and not published is in the hands of the
\* push that claimed it: no claimed slot is ever abandoned.
Owned ==
  \A s \in Slots :
    slotTail[s] < tail /\ slotHead[s] # slotTail[s] =>
      \E p \in Pushers : pc[p] \in Claiming /\ ticket[p] = slotTail[s]

\* Initially no ticket is claimed.
LEMMA OwnedInit == Init => Owned
BY CapacityAssumption DEF Init, Owned, Slots

\* Steps that leave the ring alone and take no push from its claimed slot.
LEMMA OwnedQuiet ==
  ASSUME TypeOK, Owned, UNCHANGED <<tail, slotTail, slotHead>>,
         \A p \in Pushers : pc[p] \in Claiming =>
                              pc'[p] \in Claiming /\ ticket'[p] = ticket[p]
  PROVE  Owned'
BY DEF Owned

\* Owned is inductive.
LEMMA OwnedNext ==
  TypeOK /\ RingInv /\ Owned /\ [Next]_vars => Owned'
<1> SUFFICES ASSUME TypeOK, RingInv, Owned, [Next]_vars
             PROVE  Owned'
  OBVIOUS
<1> USE DEF Goto, Return, ClaimFails, Begin, shared
<1>1. ASSUME NEW p \in Pushers, PushStep(p)
      PROVE  Owned'
  <2>0. p \in Threads /\ Pushers \subseteq Threads
    BY DEF Threads
  <2>1. CASE \/ \E d \in Data : PushLoad(p, d)
             \/ PushRefuse(p)
             \/ PushCheck(p)
             \/ PushClaimFails(p)
             \/ PushWrite(p)
    <3>1. UNCHANGED <<tail, slotTail, slotHead>>
      BY <2>1 DEF PushLoad, PushRefuse, PushCheck, PushClaimFails, PushWrite
    <3>2. ASSUME NEW q \in Pushers, pc[q] \in Claiming
          PROVE  pc'[q] \in Claiming /\ ticket'[q] = ticket[q]
      BY <2>0, <2>1, <3>2 DEF PushLoad, PushRefuse, PushCheck, PushClaimFails,
                              PushWrite, TypeOK, Claiming
    <3> QED
      BY <3>1, <3>2, OwnedQuiet
  <2>2. CASE PushClaim(p)
    <3>1. pc'[p] \in Claiming /\ ticket'[p] = tail
      BY <2>0, <2>2 DEF PushClaim, TypeOK, Claiming
    <3>2. ASSUME NEW q \in Pushers, pc[q] \in Claiming
          PROVE  pc'[q] \in Claiming /\ ticket'[q] = ticket[q]
      BY <2>0, <2>2, <3>2 DEF PushClaim, TypeOK, Claiming
    <3>3. ASSUME NEW s \in Slots, slotTail[s] < tail + 1
          PROVE  slotTail[s] < tail \/ slotTail[s] = tail
      BY <3>3 DEF TypeOK
    <3> QED
      BY <2>2, <3>1, <3>2, <3>3 DEF PushClaim, Owned
  <2>3. CASE PushPublish(p)
    <3>0. PICK s \in Slots : s = Slot(ticket[p])
      BY <2>0, SlotDivision DEF TypeOK
    <3>1. slotTail[s] = ticket[p]
      BY <2>3, <3>0 DEF PushPublish, RingInv, PushesInLap, Claiming
    <3>2. slotHead'[s] = slotTail'[s]
      BY <2>3, <3>0, <3>1 DEF PushPublish, TypeOK
    <3>3. ASSUME NEW r \in Slots, r # s
          PROVE  slotHead'[r] = slotHead[r] /\ slotTail[r] # ticket[p]
      BY <2>0, <2>3, <3>0, <3>3 DEF PushPublish, TypeOK, RingInv, SlotsInLap
    <3>4. ASSUME NEW q \in Pushers, q # p
          PROVE  pc'[q] = pc[q] /\ ticket'[q] = ticket[q]
      BY <2>0, <2>3, <3>4 DEF PushPublish, TypeOK
    <3> QED
      BY <2>3, <3>2, <3>3, <3>4 DEF PushPublish, Owned
  <2> QED
    BY <1>1, <2>1, <2>2, <2>3 DEF PushStep
<1>2. ASSUME NEW c \in Poppers, PopStep(c)
      PROVE  Owned'
  <2>0. c \in Threads
    BY DEF Threads
  <2>1. ASSUME NEW p \in Pushers
        PROVE  pc'[p] = pc[p] /\ ticket'[p] = ticket[p]
    BY <1>2, <2>0, ThreadsAssumption
       DEF TypeOK, Threads, PopStep, PopLoad, PopFetchEarly, PopRefuse,
           PopCheck, PopClaim, PopClaimFails, PopRead, PopDestroy, PopRelease
  <2>2. CASE PopRelease(c)
    <3>0. PICK s \in Slots : s = Slot(ticket[c])
      BY <2>0, SlotDivision DEF TypeOK
    <3>1. slotTail[s] = ticket[c]
      BY <2>2, <3>0 DEF PopRelease, RingInv, PopsInLap, Taking
    <3>2. slotTail'[s] = ticket[c] + Capacity /\ tail' = tail
      BY <2>2, <3>0 DEF PopRelease, TypeOK
    <3>3. ~(slotTail'[s] < tail)
      BY <2>0, <3>1, <3>2, CapacityAssumption
         DEF RingInv, SlotsInLap, TypeOK
    <3>4. ASSUME NEW r \in Slots, r # s
          PROVE  slotTail'[r] = slotTail[r] /\ slotHead'[r] = slotHead[r]
      BY <2>2, <3>0, <3>4 DEF PopRelease, TypeOK
    <3> QED
      BY <2>1, <3>2, <3>3, <3>4 DEF Owned
  <2>3. CASE ~PopRelease(c)
    <3>1. UNCHANGED <<tail, slotTail, slotHead>>
      BY <1>2, <2>3 DEF PopStep, PopLoad, PopFetchEarly, PopRefuse, PopCheck,
                        PopClaim, PopClaimFails, PopRead, PopDestroy
    <3> QED
      BY <2>1, <3>1, OwnedQuiet
  <2> QED
    BY <2>2, <2>3
<1>3. ASSUME NEW t \in Threads, SizeStep(t)
      PROVE  Owned'
  <2>1. UNCHANGED <<tail, slotTail, slotHead>>
    BY <1>3 DEF SizeStep, SizeLoadHead, SizeReturn
  <2>2. ASSUME NEW p \in Pushers, pc[p] \in Claiming
        PROVE  pc'[p] \in Claiming /\ ticket'[p] = ticket[p]
    BY <1>3, <2>2 DEF SizeStep, SizeLoadHead, SizeReturn, TypeOK, Claiming,
                      Threads
  <2> QED
    BY <2>1, <2>2, OwnedQuiet
<1>4. CASE Destroy \/ Gone \/ UNCHANGED vars
  BY <1>4, OwnedQuiet DEF Destroy, Gone, vars
<1> QED
  BY <1>1, <1>2, <1>3, <1>4 DEF Next

\* A push on the current ticket is refused only by a full ring, or by one pop
\* in the middle of the slot.
LEMMA PushRefusalJustified ==
  ASSUME TypeOK, RingInv, ContentInv, Owned,
         NEW p \in Pushers, PushRefuse(p), ticket[p] = tail
  PROVE  \/ tail - head = Capacity
         \/ \E c \in Poppers : /\ pc[c] \in Taking
                               /\ ticket[c] = tail - Capacity
<1> PICK s \in Slots : s = Slot(tail)
  BY SlotDivision DEF TypeOK
<1> DEFINE m == slotTail[s]
<1>0. /\ m \in Nat /\ head \in Nat /\ tail \in Nat
      /\ Capacity \in Nat \ {0}
      /\ head <= tail /\ tail <= head + Capacity
  BY Window, CapacityAssumption DEF TypeOK, RingInv
<1>1. /\ m # tail
      /\ Slot(m) = Slot(tail)
      /\ tail - Capacity <= m /\ m < head + Capacity
  BY DEF PushRefuse, RingInv, SlotsInLap
<1>2. alive
  BY DEF PushRefuse, ContentInv, Threads
<1> HIDE DEF m
<1>3. m = tail - Capacity
  <2>1. ~(tail < m)
    BY <1>0, <1>1, SlotLap
  <2>2. m < tail => m + Capacity <= tail
    BY <1>0, <1>1, SlotLap
  <2> QED
    BY <1>0, <1>1, <2>1, <2>2
<1>4. CASE slotHead[s] = m
  <2>1. \/ head <= m
        \/ \E c \in Poppers : pc[c] \in Taking /\ ticket[c] = m
    BY <1>2, <1>4 DEF ContentInv, m
  <2> QED
    BY <1>0, <1>3, <2>1
<1>5. CASE slotHead[s] # m
  <2>1. PICK q \in Pushers : pc[q] \in Claiming /\ ticket[q] = m
    BY <1>0, <1>3, <1>5 DEF Owned, m
  <2>2. head <= m
    BY <2>1 DEF RingInv, PushesInLap
  <2> QED
    BY <1>0, <1>3, <2>2
<1> QED
  BY <1>4, <1>5

\* A pop on the current ticket is refused only by an empty ring, or by the
\* push of that ticket that has not published yet.
LEMMA PopRefusalJustified ==
  ASSUME TypeOK, RingInv, Owned,
         NEW c \in Poppers, PopRefuse(c), ticket[c] = head
  PROVE  \/ head = tail
         \/ \E p \in Pushers : pc[p] \in Claiming /\ ticket[p] = head
<1> SUFFICES ASSUME head # tail
             PROVE  \E p \in Pushers : pc[p] \in Claiming /\ ticket[p] = head
  OBVIOUS
<1> PICK s \in Slots : s = Slot(head)
  BY SlotDivision DEF TypeOK
<1> DEFINE m == slotTail[s]
<1>0. /\ m \in Nat /\ head \in Nat /\ tail \in Nat
      /\ Capacity \in Nat \ {0} /\ head < tail
  BY CapacityAssumption DEF TypeOK, RingInv
<1>1. /\ Slot(m) = Slot(head) /\ tail - Capacity <= m /\ m <= head
      /\ slotHead[s] # head
  BY Window DEF PopRefuse, RingInv, SlotsInLap
<1>2. m = head
  BY <1>0, <1>1, SlotLap
<1> QED
  BY <1>0, <1>1, <1>2 DEF Owned, m

\* The step that RefusalsJustified allows.
Justified ==
  /\ \A p \in Pushers :
       PushRefuse(p) /\ ticket[p] = tail =>
         \/ tail - head = Capacity
         \/ \E c \in Poppers : /\ pc[c] \in Taking
                               /\ ticket[c] = tail - Capacity
  /\ \A c \in Poppers :
       PopRefuse(c) /\ ticket[c] = head =>
         \/ head = tail
         \/ \E p \in Pushers : pc[p] \in Claiming /\ ticket[p] = head

\* No call is refused without a reason.
THEOREM RefusalsAreJustified == Spec => RefusalsJustified
<1>1. TypeOK /\ RingInv /\ ContentInv /\ Owned => Justified
  BY PushRefusalJustified, PopRefusalJustified DEF Justified
<1>2. [][Justified]_vars => RefusalsJustified
  BY DEF Justified, RefusalsJustified
<1>3. Spec => [][Justified]_vars
  BY <1>1, OwnedInit, OwnedNext, TypeCorrect, RingCorrect, ContentCorrect, PTL
     DEF Spec
<1> QED
  BY <1>2, <1>3
---------------------------------------------------------------------------
(* The ring implements the queue (x86: loads are not reordered).           *)

\* What the calls carry: a push publishes what it has written, and a pop has
\* nothing in hand before it reads its slot and something until it returns.
Carried ==
  /\ \A p \in Pushers :
       pc[p] = "pushPublish" => slotData[Slot(ticket[p])] = val[p]
  /\ \A c \in Poppers :
       IF pc[c] \in {"popDestroy", "popRelease"}
         THEN val[c] \in Data \cup {Raw}
         ELSE val[c] = Unread

\* Initially no call carries anything.
LEMMA CarriedInit == Init => Carried
BY DEF Init, Carried, Threads

\* Steps that change no slot: t alone changes what it carries.
LEMMA CarriedLocal ==
  ASSUME TypeOK, Carried, UNCHANGED slotData, NEW t \in Threads,
         \A u \in Threads \ {t} : /\ pc'[u] = pc[u]
                                  /\ ticket'[u] = ticket[u]
                                  /\ val'[u] = val[u],
         pc'[t] # "pushPublish",
         t \in Poppers => IF pc'[t] \in {"popDestroy", "popRelease"}
                            THEN val'[t] \in Data \cup {Raw}
                            ELSE val'[t] = Unread
  PROVE  Carried'
BY DEF Carried, Threads

\* Carried is inductive.
LEMMA CarriedNext ==
  ASSUME OrderedLoads, TypeOK, RingInv, Carried, [Next]_vars
  PROVE  Carried'
<1> USE DEF Goto, Return, ClaimFails, Begin, shared
<1>0. Pushers \subseteq Threads /\ Poppers \subseteq Threads
  BY DEF Threads
<1>1. ASSUME NEW p \in Pushers, PushStep(p)
      PROVE  Carried'
  <2>0. p \in Threads /\ p \notin Poppers
    BY ThreadsAssumption DEF Threads
  <2>1. CASE PushWrite(p)
    <3>0. /\ Slot(ticket[p]) \in Slots
          /\ pc[p] \in Claiming /\ pc'[p] = "pushPublish"
      BY <2>0, <2>1, SlotDivision DEF PushWrite, TypeOK, Claiming
    <3>1. slotData'[Slot(ticket'[p])] = val'[p]
      BY <2>1, <3>0 DEF PushWrite, TypeOK
    <3>2. ASSUME NEW q \in Pushers, q # p, pc'[q] = "pushPublish"
          PROVE  slotData'[Slot(ticket'[q])] = val'[q]
      <4>1. pc[q] = "pushPublish"
        BY <1>0, <2>0, <2>1, <3>2 DEF PushWrite, TypeOK
      <4>2. Slot(ticket[q]) # Slot(ticket[p])
        BY <1>0, <2>0, <3>0, <3>2, <4>1 DEF RingInv, SlotExclusive, Claiming
      <4>3. Slot(ticket[q]) \in Slots
        BY <1>0, SlotDivision DEF TypeOK
      <4> QED
        BY <2>1, <4>1, <4>2, <4>3 DEF PushWrite, Carried, TypeOK
    <3>3. ASSUME NEW c \in Poppers
          PROVE  pc'[c] = pc[c] /\ val'[c] = val[c]
      BY <1>0, <2>0, <2>1 DEF PushWrite, TypeOK
    <3> QED
      BY <3>1, <3>2, <3>3 DEF Carried
  <2>2. CASE ~PushWrite(p)
    <3>1. UNCHANGED slotData /\ pc'[p] # "pushPublish"
      BY <1>1, <2>0, <2>2
         DEF TypeOK, PushStep, PushLoad, PushRefuse, PushCheck, PushClaim,
             PushClaimFails, PushPublish
    <3>2. ASSUME NEW u \in Threads \ {p}
          PROVE  pc'[u] = pc[u] /\ ticket'[u] = ticket[u] /\ val'[u] = val[u]
      BY <1>1, <2>0, <2>2
         DEF TypeOK, PushStep, PushLoad, PushRefuse, PushCheck, PushClaim,
             PushClaimFails, PushPublish
    <3> QED
      BY <2>0, <3>1, <3>2, CarriedLocal
  <2> QED
    BY <2>1, <2>2
<1>2. ASSUME NEW c \in Poppers, PopStep(c)
      PROVE  Carried'
  <2>0. c \in Threads /\ c \notin Pushers /\ Slot(ticket[c]) \in Slots
    BY ThreadsAssumption, SlotDivision DEF Threads, TypeOK
  <2>1. CASE PopDestroy(c)
    <3>1. ASSUME NEW p \in Pushers, pc'[p] = "pushPublish"
          PROVE  slotData'[Slot(ticket'[p])] = val'[p]
      <4>1. pc[p] = "pushPublish" /\ pc[c] = "popDestroy" /\ p # c
        BY <1>0, <2>0, <2>1, <3>1 DEF PopDestroy, TypeOK
      <4>2. Slot(ticket[p]) # Slot(ticket[c])
        BY <1>0, <2>0, <4>1 DEF RingInv, SlotExclusive, Claiming, Taking
      <4>3. Slot(ticket[p]) \in Slots
        BY <1>0, SlotDivision DEF TypeOK
      <4> QED
        BY <2>1, <4>1, <4>2, <4>3 DEF PopDestroy, Carried, TypeOK
    <3>2. ASSUME NEW d \in Poppers
          PROVE  /\ val'[d] = val[d]
                 /\ pc'[d] \in {"popDestroy", "popRelease"} <=>
                    pc[d] \in {"popDestroy", "popRelease"}
      BY <1>0, <2>0, <2>1 DEF PopDestroy, TypeOK
    <3> QED
      BY <3>1, <3>2 DEF Carried
  <2>2. CASE ~PopDestroy(c)
    <3>1. UNCHANGED slotData /\ pc'[c] # "pushPublish"
      BY <1>2, <2>0, <2>2
         DEF TypeOK, PopStep, PopLoad, PopFetchEarly, PopRefuse, PopCheck,
             PopClaim, PopClaimFails, PopRead, PopRelease
    <3>2. ASSUME NEW u \in Threads \ {c}
          PROVE  pc'[u] = pc[u] /\ ticket'[u] = ticket[u] /\ val'[u] = val[u]
      BY <1>2, <2>0, <2>2
         DEF TypeOK, PopStep, PopLoad, PopFetchEarly, PopRefuse, PopCheck,
             PopClaim, PopClaimFails, PopRead, PopRelease
    <3>3. IF pc[c] \in {"popDestroy", "popRelease"}
            THEN val[c] \in Data \cup {Raw}
            ELSE val[c] = Unread
      BY DEF Carried
    <3>4. IF pc'[c] \in {"popDestroy", "popRelease"}
            THEN val'[c] \in Data \cup {Raw}
            ELSE val'[c] = Unread
      <4>1. CASE PopRead(c)
        BY <2>0, <3>3, <4>1 DEF PopRead, TypeOK
      <4>2. CASE ~PopRead(c)
        BY <1>2, <2>0, <2>2, <3>3, <4>2
           DEF TypeOK, PopStep, PopLoad, PopFetchEarly, PopRefuse, PopCheck,
               PopClaim, PopClaimFails, PopRelease
      <4> QED
        BY <4>1, <4>2
    <3> QED
      BY <2>0, <3>1, <3>2, <3>4, CarriedLocal
  <2> QED
    BY <2>1, <2>2
<1>3. ASSUME NEW t \in Threads, SizeStep(t)
      PROVE  Carried'
  <2>1. UNCHANGED slotData /\ pc'[t] \in {"idle", "size"}
    BY <1>3 DEF SizeStep, SizeLoadHead, SizeReturn, TypeOK
  <2>2. ASSUME NEW u \in Threads \ {t}
        PROVE  pc'[u] = pc[u] /\ ticket'[u] = ticket[u] /\ val'[u] = val[u]
    BY <1>3 DEF SizeStep, SizeLoadHead, SizeReturn, TypeOK
  <2>3. t \in Poppers => val'[t] = Unread
    BY <1>3 DEF SizeStep, SizeLoadHead, SizeReturn, TypeOK, Carried
  <2> QED
    BY <2>1, <2>2, <2>3, CarriedLocal
<1>4. CASE Destroy
  BY <1>0, <1>4 DEF Destroy, Carried
<1>5. CASE Gone \/ UNCHANGED vars
  BY <1>5 DEF Gone, vars, Carried
<1> QED
  BY <1>1, <1>2, <1>3, <1>4, <1>5 DEF Next

---------------------------------------------------------------------------
(* What a pop copies (x86).                                                *)

\* A pop that has copied its element has not destroyed it yet.
Copied ==
  \A c \in Poppers :
    pc[c] = "popDestroy" => val[c] = slotData[Slot(ticket[c])]

\* Initially nothing is copied.
LEMMA CopiedInit == Init => Copied
BY DEF Init, Copied, Threads

\* Steps that put no call at its copy and touch no slot that has been copied.
LEMMA CopiedKept ==
  ASSUME TypeOK, Copied,
         \A c \in Poppers : pc'[c] = "popDestroy" =>
           /\ pc[c] = "popDestroy"
           /\ val'[c] = val[c] /\ ticket'[c] = ticket[c]
           /\ slotData'[Slot(ticket[c])] = slotData[Slot(ticket[c])]
  PROVE  Copied'
BY DEF Copied

\* Copied is inductive.
LEMMA CopiedNext ==
  ASSUME TypeOK, RingInv, Carried, Copied, [Next]_vars
  PROVE  Copied'
<1> USE DEF Goto, Return, ClaimFails, Begin, shared
<1>0. Pushers \subseteq Threads /\ Poppers \subseteq Threads
  BY DEF Threads
<1>1. ASSUME NEW p \in Pushers, PushStep(p)
      PROVE  Copied'
  <2>0. p \in Threads /\ p \notin Poppers
    BY ThreadsAssumption DEF Threads
  <2>1. ASSUME NEW c \in Poppers
        PROVE  pc'[c] = pc[c] /\ ticket'[c] = ticket[c] /\ val'[c] = val[c]
    BY <1>0, <1>1, <2>0
       DEF TypeOK, PushStep, PushLoad, PushRefuse, PushCheck, PushClaim,
           PushClaimFails, PushWrite, PushPublish
  <2>2. CASE PushWrite(p)
    <3>1. ASSUME NEW c \in Poppers, pc[c] = "popDestroy"
          PROVE  slotData'[Slot(ticket[c])] = slotData[Slot(ticket[c])]
      <4>1. pc[p] = "pushWrite" /\ c \in Threads /\ p # c
        BY <1>0, <2>0, <2>2 DEF PushWrite
      <4>2. Slot(ticket[c]) # Slot(ticket[p])
        BY <2>0, <3>1, <4>1 DEF RingInv, SlotExclusive, Claiming, Taking
      <4>3. Slot(ticket[c]) \in Slots
        BY <1>0, SlotDivision DEF TypeOK
      <4> QED
        BY <2>2, <4>2, <4>3 DEF PushWrite, TypeOK
    <3> QED
      BY <2>1, <3>1, CopiedKept
  <2>3. CASE ~PushWrite(p)
    <3>1. UNCHANGED slotData
      BY <1>1, <2>3
         DEF PushStep, PushLoad, PushRefuse, PushCheck, PushClaim,
             PushClaimFails, PushPublish
    <3> QED
      BY <2>1, <3>1, CopiedKept
  <2> QED
    BY <2>2, <2>3
<1>2. ASSUME NEW c \in Poppers, PopStep(c)
      PROVE  Copied'
  <2>0. c \in Threads /\ Slot(ticket[c]) \in Slots
    BY SlotDivision DEF Threads, TypeOK
  <2>1. ASSUME NEW d \in Poppers, d # c
        PROVE  pc'[d] = pc[d] /\ ticket'[d] = ticket[d] /\ val'[d] = val[d]
    BY <1>0, <1>2, <2>0, <2>1
       DEF TypeOK, PopStep, PopLoad, PopFetchEarly, PopRefuse, PopCheck,
           PopClaim, PopClaimFails, PopRead, PopDestroy, PopRelease
  <2>2. CASE PopRead(c)
    <3>1. val[c] = Unread /\ UNCHANGED <<slotData, ticket>>
      BY <2>2 DEF PopRead, Carried
    <3>2. val'[c] = slotData[Slot(ticket[c])]
      BY <2>0, <2>2, <3>1 DEF PopRead, TypeOK
    <3> QED
      BY <2>1, <3>1, <3>2 DEF Copied
  <2>3. CASE PopDestroy(c)
    <3>1. pc[c] = "popDestroy" /\ pc'[c] # "popDestroy"
      BY <2>0, <2>3 DEF PopDestroy, TypeOK
    <3>2. ASSUME NEW d \in Poppers, d # c, pc[d] = "popDestroy"
          PROVE  slotData'[Slot(ticket[d])] = slotData[Slot(ticket[d])]
      <4>1. Slot(ticket[d]) # Slot(ticket[c]) /\ d \in Threads
        BY <1>0, <2>0, <3>1, <3>2 DEF RingInv, SlotExclusive, Taking
      <4>2. Slot(ticket[d]) \in Slots
        BY <4>1, SlotDivision DEF TypeOK
      <4> QED
        BY <2>3, <4>1, <4>2 DEF PopDestroy, TypeOK
    <3> QED
      BY <2>1, <3>1, <3>2, CopiedKept
  <2>4. CASE ~PopRead(c) /\ ~PopDestroy(c)
    <3>1. UNCHANGED slotData /\ pc'[c] # "popDestroy"
      BY <1>2, <2>0, <2>4
         DEF TypeOK, PopStep, PopLoad, PopFetchEarly, PopRefuse, PopCheck,
             PopClaim, PopClaimFails, PopRelease
    <3> QED
      BY <2>1, <3>1, CopiedKept
  <2> QED
    BY <2>2, <2>3, <2>4
<1>3. ASSUME NEW t \in Threads, SizeStep(t)
      PROVE  Copied'
  <2>1. UNCHANGED slotData /\ pc'[t] \in {"idle", "size"}
    BY <1>3 DEF SizeStep, SizeLoadHead, SizeReturn, TypeOK
  <2>2. ASSUME NEW u \in Threads \ {t}
        PROVE  pc'[u] = pc[u] /\ ticket'[u] = ticket[u] /\ val'[u] = val[u]
    BY <1>3 DEF SizeStep, SizeLoadHead, SizeReturn, TypeOK
  <2> QED
    BY <1>0, <2>1, <2>2, CopiedKept
<1>4. CASE Destroy
  BY <1>0, <1>4, CopiedKept DEF Destroy
<1>5. CASE Gone \/ UNCHANGED vars
  BY <1>5, CopiedKept DEF Gone, vars
<1> QED
  BY <1>1, <1>2, <1>3, <1>4, <1>5 DEF Next

\* Either build constructs on raw storage and destroys each element once; with
\* ordered loads a pop also returns the live element, the one it destroys.
THEOREM LifetimesRespected ==
  /\ Spec => []StorageLifetimes
  /\ OrderedLoads => (Spec => []ElementLifetimes)
<1>1. ASSUME OrderedLoads
      PROVE  Spec => []ElementLifetimes
  <2>1. Carried /\ TypeOK /\ RingInv /\ [Next]_vars => Carried'
    BY <1>1, CarriedNext
  <2>2. Copied /\ Carried /\ TypeOK /\ RingInv /\ [Next]_vars => Copied'
    BY CopiedNext
  <2>3. StorageLifetimes /\ Copied => ElementLifetimes
    BY DEF ElementLifetimes, Copied
  <2> QED
    BY <2>1, <2>2, <2>3, CarriedInit, CopiedInit, StorageRespected, TypeCorrect,
       RingCorrect, PTL DEF Spec
<1> QED
  BY <1>1, StorageRespected

---------------------------------------------------------------------------
(* The queued elements.                                                    *)

\* The push that has claimed a ticket carries its element.
LEMMA ElementOfWriter ==
  ASSUME SlotExclusive, NEW p \in Pushers, pc[p] \in Claiming
  PROVE  Element(ticket[p]) = val[p]
<1> DEFINE writers == {q \in Pushers : /\ pc[q] \in Claiming
                                       /\ ticket[q] = ticket[p]}
<1>1. \A q \in writers : q = p
  BY DEF SlotExclusive, Threads
<1>2. p \in writers
  OBVIOUS
<1>3. writers = {p}
  BY <1>1, <1>2
<1>4. (CHOOSE q \in writers : TRUE) = p
  BY <1>1, <1>2
<1> QED
  BY <1>2, <1>4 DEF Element

\* The same after a step.
LEMMA ElementOfNewWriter ==
  ASSUME SlotExclusive', NEW p \in Pushers, NEW n,
         pc'[p] \in Claiming, ticket'[p] = n
  PROVE  Element(n)' = val'[p]
<1> DEFINE writers == {q \in Pushers : /\ pc'[q] \in Claiming
                                       /\ ticket'[q] = n}
<1>1. \A q \in writers : q = p
  BY DEF SlotExclusive, Threads, Claiming
<1>2. p \in writers
  OBVIOUS
<1>3. (CHOOSE q \in writers : TRUE) = p
  BY <1>1, <1>2
<1> QED
  BY <1>2, <1>3 DEF Element, Claiming

\* An element stays what it is while the same push works on it, or while its
\* slot is left alone.
LEMMA ElementSame ==
  ASSUME NEW n,
         \A p \in Pushers : (pc'[p] \in Claiming /\ ticket'[p] = n) <=>
                            (pc[p] \in Claiming /\ ticket[p] = n),
         \A p \in Pushers : pc[p] \in Claiming /\ ticket[p] = n =>
                              val'[p] = val[p],
         (\A p \in Pushers : ~(pc[p] \in Claiming /\ ticket[p] = n)) =>
           slotData'[Slot(n)] = slotData[Slot(n)]
  PROVE  Element(n)' = Element(n)
<1> DEFINE writers == {p \in Pushers : pc[p] \in Claiming /\ ticket[p] = n}
           later == {p \in Pushers : pc'[p] \in Claiming /\ ticket'[p] = n}
<1>1. later = writers
  OBVIOUS
<1>2. CASE writers = {}
  <2>1. slotData'[Slot(n)] = slotData[Slot(n)]
    BY <1>2
  <2>2. Element(n) = slotData[Slot(n)]
    BY <1>2 DEF Element
  <2>3. Element(n)' = slotData'[Slot(n)]
    BY <1>1, <1>2 DEF Element, Claiming, Slot
  <2> QED
    BY <2>1, <2>2, <2>3
<1>3. CASE writers # {}
  <2> DEFINE w == CHOOSE p \in writers : TRUE
  <2>1. w \in writers
    BY <1>3
  <2>2. val'[w] = val[w]
    BY <2>1
  <2>3. Element(n) = val[w]
    BY <1>3 DEF Element
  <2>4. Element(n)' = val'[CHOOSE p \in later : TRUE]
    BY <1>1, <1>3 DEF Element, Claiming
  <2> QED
    BY <1>1, <2>2, <2>3, <2>4
<1> QED
  BY <1>2, <1>3

\* The queue stays what it is while the counters and its elements do.
LEMMA ItemsSame ==
  ASSUME TypeOK, alive, alive', UNCHANGED <<tail, head>>,
         \A n \in Nat : head <= n /\ n < tail => Element(n)' = Element(n)
  PROVE  Items' = Items
<1>1. ASSUME NEW i \in 1 .. tail - head
      PROVE  Element(head + i - 1)' = Element(head + i - 1)
  <2>1. PICK n \in Nat : n = head + i - 1 /\ head <= n /\ n < tail
    BY DEF TypeOK
  <2>2. Element(n)' = Element(n)
    BY <2>1
  <2> QED
    BY <2>1, <2>2 DEF Element
<1> QED
  BY <1>1 DEF Items

\* A popper in the middle of its pop has its element, and no other has one.
LEMMA HoldingSame ==
  ASSUME \A c \in Poppers :
           \/ /\ pc[c] = "popRead" /\ pc'[c] = "popRead"
              /\ slotData'[Slot(ticket'[c])] = slotData[Slot(ticket[c])]
           \/ /\ pc[c] = "popRead" /\ pc'[c] = "popDestroy"
              /\ val'[c] = slotData[Slot(ticket[c])]
           \/ /\ pc[c] \in {"popDestroy", "popRelease"}
              /\ pc'[c] \in {"popDestroy", "popRelease"}
              /\ val'[c] = val[c]
           \/ /\ pc[c] \notin {"popRead", "popDestroy", "popRelease"}
              /\ pc'[c] \notin {"popRead", "popDestroy", "popRelease"}
  PROVE  Holding' = Holding
BY DEF Holding
---------------------------------------------------------------------------
(* Every step of the ring is a step of the queue, or none.                 *)

\* What the queue may contain, and that it is a sequence of tail - head of
\* them.
Values == Data \cup {Raw, Unread}

ItemsOK ==
  /\ tail - head \in Nat
  /\ Items \in [1 .. tail - head -> Values]
  /\ \A n \in head .. tail - 1 : Items[n - head + 1] = Element(n)

\* The queue has the type it should have while the ring exists.
LEMMA ItemsType == TypeOK /\ RingInv /\ alive => ItemsOK
<1> SUFFICES ASSUME TypeOK, RingInv, alive
             PROVE  ItemsOK
  OBVIOUS
<1>1. ASSUME NEW n \in Nat
      PROVE  Element(n) \in Values
  <2> DEFINE writers == {p \in Pushers : pc[p] \in Claiming /\ ticket[p] = n}
  <2>1. Slot(n) \in Slots
    BY SlotDivision
  <2>2. writers # {} => (CHOOSE p \in writers : TRUE) \in Threads
    BY DEF Threads
  <2> QED
    BY <2>1, <2>2 DEF Element, TypeOK, Values
<1>2. tail - head \in Nat
  BY DEF TypeOK, RingInv
<1>3. \A i \in 1 .. tail - head : Element(head + i - 1) \in Values
  BY <1>1 DEF TypeOK
<1>4. Items = [i \in 1 .. tail - head |-> Element(head + i - 1)]
  BY DEF Items
<1>5. ASSUME NEW n \in head .. tail - 1
      PROVE  Items[n - head + 1] = Element(n)
  <2>1. PICK i \in 1 .. tail - head : i = n - head + 1 /\ head + i - 1 = n
    BY DEF TypeOK
  <2>2. Items[i] = Element(head + i - 1)
    BY <1>4
  <2> QED
    BY <2>1, <2>2
<1> QED
  BY <1>2, <1>3, <1>4, <1>5 DEF ItemsOK

\* The same after a step.
LEMMA ItemsTypeNext == TypeOK' /\ RingInv' /\ alive' => ItemsOK'
BY ItemsType, PTL

\* A function on 1 .. n is a sequence of length n.
LEMMA Indexed ==
  ASSUME NEW S, NEW n \in Nat, NEW f \in [1 .. n -> S]
  PROVE  f \in Seq(S) /\ Len(f) = n
OBVIOUS

\* One element more at the end.
LEMMA IndexedAppend ==
  ASSUME NEW S, NEW n \in Nat, NEW f \in [1 .. n -> S],
         NEW g \in [1 .. n + 1 -> S], \A i \in 1 .. n : g[i] = f[i]
  PROVE  g = Append(f, g[n + 1])
<1>1. f \in Seq(S) /\ Len(f) = n
  BY Indexed
<1>2. g[n + 1] \in S
  OBVIOUS
<1>3. /\ Append(f, g[n + 1]) \in Seq(S)
      /\ Len(Append(f, g[n + 1])) = n + 1
      /\ \A i \in 1 .. n : Append(f, g[n + 1])[i] = f[i]
      /\ Append(f, g[n + 1])[n + 1] = g[n + 1]
  BY <1>1, <1>2, AppendProperties
<1>4. g \in Seq(S) /\ Len(g) = n + 1
  BY Indexed
<1>5. ASSUME NEW i \in 1 .. Len(g)
      PROVE  g[i] = Append(f, g[n + 1])[i]
  BY <1>3, <1>4
<1> QED
  BY <1>3, <1>4, <1>5, SeqEqual

\* One element less at the beginning.
LEMMA IndexedTail ==
  ASSUME NEW S, NEW n \in Nat, n > 0, NEW f \in [1 .. n -> S],
         NEW g \in [1 .. n - 1 -> S], \A i \in 1 .. n - 1 : g[i] = f[i + 1]
  PROVE  g = Tail(f) /\ Head(f) = f[1] /\ f # <<>>
<1>1. f \in Seq(S) /\ Len(f) = n
  BY Indexed
<1>2. f # <<>> /\ Head(f) = f[1]
  BY <1>1
<1>3. /\ Tail(f) \in Seq(S) /\ Len(Tail(f)) = n - 1
      /\ \A i \in 1 .. n - 1 : Tail(f)[i] = f[i + 1]
  BY <1>1, <1>2, HeadTailProperties
<1>4. g \in Seq(S) /\ Len(g) = n - 1
  BY Indexed
<1>5. ASSUME NEW i \in 1 .. Len(g)
      PROVE  g[i] = Tail(f)[i]
  BY <1>3, <1>4
<1> QED
  BY <1>2, <1>3, <1>4, <1>5, SeqEqual

\* Steps of a call that owns no slot and claims none leave the queue alone.
LEMMA LocalStutter ==
  ASSUME TypeOK, RingInv, alive, alive', UNCHANGED shared, NEW t \in Threads,
         \A u \in Threads \ {t} : /\ pc'[u] = pc[u]
                                  /\ ticket'[u] = ticket[u]
                                  /\ val'[u] = val[u],
         pc[t] \notin Claiming \cup Taking,
         pc'[t] \notin Claiming \cup Taking
  PROVE  UNCHANGED <<Items, Holding>>
<1> USE DEF shared
<1>1. ASSUME NEW n \in Nat
      PROVE  Element(n)' = Element(n)
  BY ElementSame DEF Threads
<1>2. Items' = Items
  BY <1>1, ItemsSame
<1>3. Holding' = Holding
  BY HoldingSame DEF Threads, Taking
<1> QED
  BY <1>2, <1>3

\* Steps of a call that owns a slot, and goes on owning it, leave the queue
\* alone if they touch no other slot and no queued element.
LEMMA OwnerStutter ==
  ASSUME TypeOK, RingInv, alive, alive',
         UNCHANGED <<tail, head, ticket>>, NEW t \in Threads,
         \A u \in Threads \ {t} : pc'[u] = pc[u] /\ val'[u] = val[u],
         \A s \in Slots \ {Slot(ticket[t])} : slotData'[s] = slotData[s],
         \/ pc[t] \in Claiming /\ pc'[t] \in Claiming /\ val'[t] = val[t]
         \/ /\ pc[t] = "popRead" /\ pc'[t] = "popDestroy"
            /\ val'[t] = slotData[Slot(ticket[t])]
         \/ /\ pc[t] = "popDestroy" /\ pc'[t] = "popRelease"
            /\ val'[t] = val[t]
  PROVE  UNCHANGED <<Items, Holding>>
<1>0. /\ Pushers \subseteq Threads /\ Poppers \subseteq Threads
      /\ pc[t] \in Claiming \cup Taking
      /\ ticket[t] \in Nat /\ tail \in Nat /\ head \in Nat
  BY DEF Threads, Claiming, Taking, TypeOK
<1>1. /\ ticket[t] < tail /\ tail - Capacity <= ticket[t]
      /\ Slot(ticket[t]) \in Slots
  BY <1>0, Owner, SlotDivision DEF RingInv, SlotsInLap
<1>2. ASSUME NEW n \in Nat, head <= n, n < tail
      PROVE  Element(n)' = Element(n)
  <2>1. ASSUME NEW p \in Pushers
        PROVE  pc'[p] \in Claiming <=> pc[p] \in Claiming
    BY <1>0, ThreadsAssumption DEF Claiming, TypeOK, PushPc
  <2>2. ASSUME NEW p \in Pushers, pc[p] \in Claiming
        PROVE  val'[p] = val[p]
    BY <1>0, <2>2 DEF Claiming
  <2>3. ASSUME \A p \in Pushers : ~(pc[p] \in Claiming /\ ticket[p] = n)
        PROVE  Slot(n) # Slot(ticket[t])
    <3>1. n # ticket[t]
      <4>1. CASE pc[t] \in Claiming
        BY <2>3, <4>1 DEF TypeOK, Claiming, PushPc
      <4>2. CASE pc[t] \in Taking
        BY <1>0, <1>2, <4>2, Owner DEF Claiming, Taking
      <4> QED
        BY <1>0, <4>1, <4>2
    <3>2. ~(n + Capacity <= ticket[t]) /\ ~(ticket[t] + Capacity <= n)
      <4>1. tail <= head + Capacity
        BY Window
      <4> QED
        BY <1>0, <1>1, <1>2, <4>1, CapacityAssumption
    <3> QED
      BY <1>0, <3>1, <3>2, SlotLap
  <2>4. Slot(n) \in Slots
    BY SlotDivision
  <2> QED
    BY <2>1, <2>2, <2>3, <2>4, ElementSame
<1>3. Items' = Items
  BY <1>2, ItemsSame
<1>4. ASSUME NEW c \in Poppers, c # t, pc[c] = "popRead"
      PROVE  slotData'[Slot(ticket[c])] = slotData[Slot(ticket[c])]
  <2>1. Slot(ticket[c]) # Slot(ticket[t])
    BY <1>0, <1>4 DEF RingInv, SlotExclusive, Taking
  <2>2. Slot(ticket[c]) \in Slots
    BY <1>0, SlotDivision DEF TypeOK
  <2> QED
    BY <2>1, <2>2
<1>5. Holding' = Holding
  BY <1>0, <1>4, HoldingSame DEF Claiming, Taking
<1> QED
  BY <1>3, <1>5

\* The claim of a push puts its element at the end of the queue.
LEMMA PushClaimEnqueues ==
  ASSUME TypeOK, RingInv, TypeOK', RingInv', alive,
         NEW p \in Pushers, PushClaim(p)
  PROVE  Fifo!Enqueue(val[p])
<1> USE DEF PushClaim, Goto
<1>0. /\ p \in Threads /\ Pushers \subseteq Threads /\ alive'
      /\ tail' = tail + 1 /\ head' = head
      /\ tail \in Nat /\ head \in Nat /\ head <= tail
      /\ ticket' = ticket /\ val' = val /\ slotData' = slotData
  BY DEF Threads, TypeOK, RingInv
<1>1. ItemsOK /\ ItemsOK'
  BY <1>0, ItemsType, ItemsTypeNext
<1>2. tail - head < Capacity
  <2>1. PICK s \in Slots : s = Slot(tail)
    BY <1>0, SlotDivision
  <2>2. slotTail[s] = tail /\ slotTail[s] < head + Capacity
    BY <2>1 DEF RingInv, PushesInLap, SlotsInLap
  <2> QED
    BY <1>0, <2>2, CapacityAssumption
<1>3. ASSUME NEW n \in Nat, n < tail
      PROVE  Element(n)' = Element(n)
  <2>1. ASSUME NEW q \in Pushers
        PROVE  (pc'[q] \in Claiming /\ ticket'[q] = n) <=>
               (pc[q] \in Claiming /\ ticket[q] = n)
    BY <1>0, <1>3 DEF TypeOK
  <2> QED
    BY <1>0, <2>1, ElementSame
<1>4. ASSUME NEW m \in Nat, m = tail
      PROVE  Element(m)' = val[p]
  BY <1>0, <1>4, ElementOfNewWriter DEF RingInv, TypeOK, Claiming
<1>5. Items' = Append(Items, val[p])
  <2> DEFINE n == tail - head
  <2>1. /\ n \in Nat /\ Items \in [1 .. n -> Values]
        /\ Items' \in [1 .. n + 1 -> Values]
    BY <1>0, <1>1 DEF ItemsOK
  <2>2. ASSUME NEW i \in 1 .. n
        PROVE  Items'[i] = Items[i]
    <3>0. PICK m \in Nat : m = head + i - 1
      BY <1>0
    <3>1. /\ m \in head .. tail - 1 /\ i = m - head + 1
          /\ m \in head' .. tail' - 1 /\ i = m - head' + 1
      BY <1>0, <3>0
    <3>2. Items[i] = Element(m)
      BY <1>1, <3>1 DEF ItemsOK
    <3>3. Items'[i] = Element(m)'
      BY <1>1, <3>1 DEF ItemsOK
    <3> QED
      BY <1>0, <1>3, <3>1, <3>2, <3>3
  <2>3. Items'[n + 1] = val[p]
    <3>0. PICK m \in head' .. tail' - 1 : m = tail /\ n + 1 = m - head' + 1
      BY <1>0
    <3>1. Items'[n + 1] = Element(m)'
      BY <1>1, <3>0 DEF ItemsOK
    <3> QED
      BY <1>0, <1>4, <3>0, <3>1
  <2> HIDE DEF n
  <2> QED
    BY <2>1, <2>2, <2>3, IndexedAppend
<1>6. Len(Items) < Capacity
  BY <1>1, <1>2, Indexed DEF ItemsOK
<1>7. Holding' = Holding
  BY <1>0, HoldingSame, ThreadsAssumption DEF TypeOK, Threads
<1> QED
  BY <1>5, <1>6, <1>7 DEF Fifo!Enqueue

\* The claim of a pop takes the oldest element out of the queue.
LEMMA PopClaimDequeues ==
  ASSUME TypeOK, RingInv, TypeOK', RingInv', alive,
         NEW c \in Poppers, PopClaim(c)
  PROVE  Fifo!Dequeue(c)
<1> USE DEF PopClaim, Goto
<1>0. /\ c \in Threads /\ Poppers \subseteq Threads /\ alive'
      /\ tail' = tail /\ head' = head + 1
      /\ tail \in Nat /\ head \in Nat /\ head < tail
      /\ ticket' = ticket /\ val' = val /\ slotData' = slotData
  BY ClaimedPop DEF Threads, TypeOK
<1>1. ItemsOK /\ ItemsOK'
  BY <1>0, ItemsType, ItemsTypeNext
<1>2. ASSUME NEW n \in Nat
      PROVE  Element(n)' = Element(n)
  <2>1. ASSUME NEW q \in Pushers
        PROVE  (pc'[q] \in Claiming /\ ticket'[q] = n) <=>
               (pc[q] \in Claiming /\ ticket[q] = n)
    BY <1>0, ThreadsAssumption DEF TypeOK, Threads
  <2> QED
    BY <1>0, <2>1, ElementSame
<1>3. Element(head) = slotData[Slot(head)]
  <2>1. ASSUME NEW q \in Pushers, pc[q] \in Claiming
        PROVE  ticket[q] # head
    <3>1. slotHead[Slot(head)] = head
      BY ClaimedPop
    <3> QED
      BY <2>1, <3>1 DEF RingInv, PushesInLap
  <2> QED
    BY <2>1 DEF Element
<1>4. Items' = Tail(Items) /\ Head(Items) = Element(head) /\ Items # <<>>
  <2> DEFINE n == tail - head
  <2>1. /\ n \in Nat /\ n > 0 /\ Items \in [1 .. n -> Values]
        /\ Items' \in [1 .. n - 1 -> Values]
    BY <1>0, <1>1 DEF ItemsOK
  <2>2. ASSUME NEW i \in 1 .. n - 1
        PROVE  Items'[i] = Items[i + 1]
    <3>0. PICK m \in Nat : m = head + i
      BY <1>0
    <3>1. /\ m \in head' .. tail' - 1 /\ i = m - head' + 1
          /\ m \in head .. tail - 1 /\ i + 1 = m - head + 1
      BY <1>0, <3>0
    <3>2. Items[i + 1] = Element(m)
      BY <1>1, <3>1 DEF ItemsOK
    <3>3. Items'[i] = Element(m)'
      BY <1>1, <3>1 DEF ItemsOK
    <3> QED
      BY <1>0, <1>2, <3>1, <3>2, <3>3
  <2>3. Items[1] = Element(head)
    <3>1. head \in head .. tail - 1 /\ head - head + 1 = 1
      BY <1>0
    <3> QED
      BY <1>1, <3>1 DEF ItemsOK
  <2> HIDE DEF n
  <2> QED
    BY <2>1, <2>2, <2>3, IndexedTail
<1>5. Holding[c] = Unread
  BY DEF Holding
<1>6. Holding' = [Holding EXCEPT ![c] = slotData[Slot(head)]]
  <2>1. Holding'[c] = slotData[Slot(head)]
    BY <1>0 DEF Holding, TypeOK
  <2>2. ASSUME NEW d \in Poppers, d # c
        PROVE  Holding'[d] = Holding[d]
    BY <1>0, <2>2 DEF Holding, TypeOK
  <2>3. Holding \in [Poppers -> {Holding[d] : d \in Poppers}]
    BY DEF Holding
  <2>4. Holding' = [d \in Poppers |-> Holding'[d]]
    BY DEF Holding
  <2> QED
    BY <2>1, <2>2, <2>3, <2>4
<1> QED
  BY <1>3, <1>4, <1>5, <1>6 DEF Fifo!Dequeue

\* The publication of a push leaves the queue alone: its element is the one
\* it has written.
LEMMA PushPublishStutter ==
  ASSUME TypeOK, RingInv, Carried, alive, NEW p \in Pushers, PushPublish(p)
  PROVE  UNCHANGED <<Items, Holding>>
<1> USE DEF PushPublish, Goto, Return
<1>0. /\ Pushers \subseteq Threads /\ Poppers \subseteq Threads /\ p \in Threads
      /\ p \notin Poppers /\ pc[p] \in Claiming /\ pc'[p] \notin Claiming
      /\ ticket[p] \in Nat
  BY ThreadsAssumption DEF Threads, TypeOK, Claiming
<1>1. ASSUME NEW q \in Pushers, q # p
      PROVE  pc'[q] = pc[q] /\ ticket'[q] = ticket[q] /\ val'[q] = val[q]
  BY <1>0, <1>1 DEF TypeOK
<1>2. ASSUME NEW n \in Nat
      PROVE  Element(n)' = Element(n)
  <2>1. CASE n = ticket[p]
    <3>1. Element(n) = val[p]
      BY <1>0, <2>1, ElementOfWriter DEF RingInv
    <3>2. \A q \in Pushers : ~(pc'[q] \in Claiming /\ ticket'[q] = n)
      BY <1>0, <1>1, <2>1 DEF RingInv, SlotExclusive
    <3>3. Element(n)' = slotData[Slot(n)]
      BY <3>2 DEF Element, Claiming, Slot
    <3> QED
      BY <2>1, <3>1, <3>3 DEF Carried
  <2>2. CASE n # ticket[p]
    BY <1>0, <1>1, <2>2, ElementSame
  <2> QED
    BY <2>1, <2>2
<1>3. Items' = Items
  BY <1>2, ItemsSame
<1>4. Holding' = Holding
  <2>1. ASSUME NEW c \in Poppers
        PROVE  pc'[c] = pc[c] /\ ticket'[c] = ticket[c] /\ val'[c] = val[c]
    BY <1>0 DEF TypeOK
  <2> QED
    BY <2>1 DEF Holding
<1> QED
  BY <1>3, <1>4

\* The release of a pop delivers the element it holds.
LEMMA PopReleaseDelivers ==
  ASSUME TypeOK, Carried, alive, NEW c \in Poppers, PopRelease(c)
  PROVE  Fifo!Deliver(c)
<1> USE DEF PopRelease, Goto, Return
<1>0. c \in Threads /\ Poppers \subseteq Threads /\ c \notin Pushers
  BY ThreadsAssumption DEF Threads
<1>1. ASSUME NEW n \in Nat
      PROVE  Element(n)' = Element(n)
  <2>1. ASSUME NEW p \in Pushers
        PROVE  pc'[p] = pc[p] /\ ticket'[p] = ticket[p] /\ val'[p] = val[p]
    BY <1>0 DEF TypeOK, Threads
  <2> QED
    BY <2>1, ElementSame
<1>2. Items' = Items
  BY <1>1, ItemsSame
<1>3. Holding[c] = val[c] /\ val[c] # Unread
  BY DataAssumption DEF Holding, Carried
<1>4. Holding' = [Holding EXCEPT ![c] = Unread]
  <2>1. Holding'[c] = Unread
    BY <1>0 DEF Holding, TypeOK
  <2>2. ASSUME NEW d \in Poppers, d # c
        PROVE  Holding'[d] = Holding[d]
    BY <1>0, <2>2 DEF Holding, TypeOK
  <2>3. Holding \in [Poppers -> {Holding[d] : d \in Poppers}]
    BY DEF Holding
  <2>4. Holding' = [d \in Poppers |-> Holding'[d]]
    BY DEF Holding
  <2> QED
    BY <2>1, <2>2, <2>3, <2>4
<1> QED
  BY <1>2, <1>3, <1>4 DEF Fifo!Deliver

\* Initially the queue is empty and nobody holds anything.
LEMMA FifoInit == Init => Fifo!Init
BY DEF Init, Fifo!Init, Items, Holding, Threads

\* The destructor empties the queue.
LEMMA DestroyClears ==
  ASSUME TypeOK, Destroy
  PROVE  Fifo!Clear
<1>1. \A c \in Poppers : Holding[c] = Unread /\ Holding'[c] = Unread
  BY DEF Destroy, Holding, Threads
<1>2. Items' = <<>>
  BY DEF Destroy, Items
<1>3. Holding' = Holding
  BY DEF Destroy, Holding, Threads
<1> QED
  BY <1>1, <1>2, <1>3 DEF Fifo!Clear

\* Every step maps to a step of the queue or to none.
LEMMA FifoNext ==
  ASSUME OrderedLoads, TypeOK, RingInv, ContentInv, Carried, [Next]_vars,
         TypeOK', RingInv'
  PROVE  [Fifo!Next]_(Fifo!vars)
<1> USE DEF Goto, Return, ClaimFails, Begin, shared
<1>1. ASSUME NEW p \in Pushers, PushStep(p)
      PROVE  [Fifo!Next]_(Fifo!vars)
  <2>0. p \in Threads /\ alive /\ alive'
    BY <1>1 DEF Threads, ContentInv, PushStep, PushLoad, PushRefuse, PushCheck,
                PushClaim, PushClaimFails, PushWrite, PushPublish
  <2>1. CASE \/ \E d \in Data : PushLoad(p, d)
             \/ PushRefuse(p)
             \/ PushCheck(p)
             \/ PushClaimFails(p)
    <3>1. UNCHANGED shared
      BY <2>1 DEF PushLoad, PushRefuse, PushCheck, PushClaimFails
    <3>2. ASSUME NEW u \in Threads \ {p}
          PROVE  pc'[u] = pc[u] /\ ticket'[u] = ticket[u] /\ val'[u] = val[u]
      BY <2>1 DEF PushLoad, PushRefuse, PushCheck, PushClaimFails, TypeOK
    <3>3. /\ pc[p] \notin Claiming \cup Taking
          /\ pc'[p] \notin Claiming \cup Taking
      BY <2>0, <2>1 DEF PushLoad, PushRefuse, PushCheck, PushClaimFails,
                        TypeOK, Claiming, Taking
    <3>4. UNCHANGED <<Items, Holding>>
      BY <2>0, <3>1, <3>2, <3>3, LocalStutter
    <3> QED
      BY <3>4 DEF Fifo!vars
  <2>2. CASE PushClaim(p)
    <3>1. val[p] \in Data
      BY <2>0, <2>2 DEF PushClaim, TypeOK, PushPc
    <3>2. Fifo!Enqueue(val[p])
      BY <2>0, <2>2, PushClaimEnqueues
    <3> QED
      BY <3>1, <3>2 DEF Fifo!Next
  <2>3. CASE PushWrite(p)
    <3>1. /\ \A u \in Threads \ {p} : pc'[u] = pc[u] /\ val'[u] = val[u]
          /\ \A s \in Slots \ {Slot(ticket[p])} : slotData'[s] = slotData[s]
          /\ pc[p] \in Claiming /\ pc'[p] \in Claiming /\ val'[p] = val[p]
          /\ UNCHANGED <<tail, head, ticket>>
      BY <2>0, <2>3 DEF PushWrite, TypeOK, Claiming
    <3>2. UNCHANGED <<Items, Holding>>
      BY <2>0, <3>1, OwnerStutter
    <3> QED
      BY <3>2 DEF Fifo!vars
  <2>4. CASE PushPublish(p)
    BY <2>0, <2>4, PushPublishStutter DEF Fifo!vars
  <2> QED
    BY <1>1, <2>1, <2>2, <2>3, <2>4 DEF PushStep
<1>2. ASSUME NEW c \in Poppers, PopStep(c)
      PROVE  [Fifo!Next]_(Fifo!vars)
  <2>0. c \in Threads /\ alive /\ alive' /\ ~PopFetchEarly(c)
    BY <1>2 DEF Threads, ContentInv, PopStep, PopLoad, PopFetchEarly,
                PopRefuse, PopCheck, PopClaim, PopClaimFails, PopRead,
                PopDestroy, PopRelease
  <2>1. CASE PopLoad(c) \/ PopRefuse(c) \/ PopCheck(c) \/ PopClaimFails(c)
    <3>1. UNCHANGED shared
      BY <2>1 DEF PopLoad, PopRefuse, PopCheck, PopClaimFails
    <3>2. ASSUME NEW u \in Threads \ {c}
          PROVE  pc'[u] = pc[u] /\ ticket'[u] = ticket[u] /\ val'[u] = val[u]
      BY <2>1 DEF PopLoad, PopRefuse, PopCheck, PopClaimFails, TypeOK
    <3>3. /\ pc[c] \notin Claiming \cup Taking
          /\ pc'[c] \notin Claiming \cup Taking
      BY <2>0, <2>1 DEF PopLoad, PopRefuse, PopCheck, PopClaimFails, TypeOK,
                        Claiming, Taking
    <3>4. UNCHANGED <<Items, Holding>>
      BY <2>0, <3>1, <3>2, <3>3, LocalStutter
    <3> QED
      BY <3>4 DEF Fifo!vars
  <2>2. CASE PopClaim(c)
    BY <2>0, <2>2, PopClaimDequeues DEF Fifo!Next
  <2>3. CASE PopRead(c) \/ PopDestroy(c)
    <3>1. /\ \A u \in Threads \ {c} : pc'[u] = pc[u] /\ val'[u] = val[u]
          /\ \A s \in Slots \ {Slot(ticket[c])} : slotData'[s] = slotData[s]
          /\ UNCHANGED <<tail, head, ticket>>
      BY <2>0, <2>3 DEF PopRead, PopDestroy, TypeOK
    <3>2. \/ /\ pc[c] = "popRead" /\ pc'[c] = "popDestroy"
             /\ val'[c] = slotData[Slot(ticket[c])]
          \/ /\ pc[c] = "popDestroy" /\ pc'[c] = "popRelease"
             /\ val'[c] = val[c]
      BY <2>0, <2>3 DEF PopRead, PopDestroy, TypeOK, Carried
    <3>3. UNCHANGED <<Items, Holding>>
      BY <2>0, <3>1, <3>2, OwnerStutter
    <3> QED
      BY <3>3 DEF Fifo!vars
  <2>4. CASE PopRelease(c)
    BY <2>0, <2>4, PopReleaseDelivers DEF Fifo!Next
  <2> QED
    BY <1>2, <2>0, <2>1, <2>2, <2>3, <2>4 DEF PopStep
<1>3. ASSUME NEW t \in Threads, SizeStep(t)
      PROVE  [Fifo!Next]_(Fifo!vars)
  <2>1. alive /\ alive' /\ UNCHANGED shared
    BY <1>3 DEF ContentInv, SizeStep, SizeLoadHead, SizeReturn
  <2>2. ASSUME NEW u \in Threads \ {t}
        PROVE  pc'[u] = pc[u] /\ ticket'[u] = ticket[u] /\ val'[u] = val[u]
    BY <1>3 DEF SizeStep, SizeLoadHead, SizeReturn, TypeOK
  <2>3. /\ pc[t] \notin Claiming \cup Taking
        /\ pc'[t] \notin Claiming \cup Taking
    BY <1>3 DEF SizeStep, SizeLoadHead, SizeReturn, TypeOK, Claiming, Taking
  <2>4. UNCHANGED <<Items, Holding>>
    BY <2>1, <2>2, <2>3, LocalStutter
  <2> QED
    BY <2>4 DEF Fifo!vars
<1>4. CASE Destroy
  BY <1>4, DestroyClears DEF Fifo!Next
<1>5. CASE Gone \/ UNCHANGED vars
  <2>1. UNCHANGED vars
    BY <1>5 DEF Gone
  <2>2. Items' = Items
    <3>1. ASSUME NEW n \in Nat
          PROVE  Element(n)' = Element(n)
      BY <2>1, ElementSame DEF vars
    <3>2. CASE alive
      BY <2>1, <3>1, <3>2, ItemsSame DEF vars
    <3>3. CASE ~alive
      BY <2>1, <3>3 DEF vars, Items
    <3> QED
      BY <3>2, <3>3
  <2>3. Holding' = Holding
    BY <2>1 DEF vars, Holding
  <2> QED
    BY <2>2, <2>3 DEF Fifo!vars
<1> QED
  BY <1>1, <1>2, <1>3, <1>4, <1>5 DEF Next

\* On a machine that does not reorder loads, the ring is a bounded first-in
\* first-out queue, for any number of threads and of slots: no element is
\* lost, duplicated, invented or reordered.
THEOREM RingImplementsFifo ==
  ASSUME OrderedLoads
  PROVE  Spec => ImplementsFifo
<1>1. TypeOK /\ RingInv /\ Carried /\ [Next]_vars => Carried'
  BY CarriedNext
<1>2. TypeOK /\ RingInv /\ ContentInv /\ Carried /\ [Next]_vars
        /\ TypeOK' /\ RingInv' => [Fifo!Next]_(Fifo!vars)
  BY FifoNext
<1>3. Spec => [](TypeOK /\ RingInv /\ ContentInv)
  BY TypeCorrect, RingCorrect, ContentCorrect, PTL
<1> QED
  BY <1>1, <1>2, <1>3, CarriedInit, FifoInit, PTL
     DEF Spec, ImplementsFifo, Fifo!Spec

---------------------------------------------------------------------------
(* Words.  CircleBuffer counts tickets in Nat; the code counts them in      *)
(* words of size_t, whose range is a multiple of the capacity: at least two *)
(* laps, by RangeIsLaps of RingCapacityProofs.                              *)

\* What has not been published yet has not been popped, and a slot that has
\* never been published waits for its own first ticket.
FreshSlots ==
  \A s \in Slots :
    /\ slotHead[s] # slotTail[s] => head <= slotTail[s]
    /\ slotHead[s] = -1 => slotTail[s] = s

\* Initially every slot waits for its own number.
LEMMA FreshInit == Init => FreshSlots
BY CapacityAssumption DEF Init, FreshSlots, Slots

\* FreshSlots is inductive, given RingInv.
LEMMA FreshNext ==
  TypeOK /\ RingInv /\ FreshSlots /\ [Next]_vars => FreshSlots'
<1> SUFFICES ASSUME TypeOK, RingInv, FreshSlots, [Next]_vars
             PROVE  FreshSlots'
  OBVIOUS
<1> USE DEF shared
<1>1. ASSUME UNCHANGED <<head, slotTail, slotHead>>
      PROVE  FreshSlots'
  BY <1>1 DEF FreshSlots
<1>2. ASSUME NEW p \in Pushers, PushPublish(p)
      PROVE  FreshSlots'
  <2> DEFINE n == ticket[p]
             s == Slot(n)
  <2>1. n \in Nat /\ s \in Slots /\ slotTail[s] = n
    BY <1>2, SlotDivision DEF Threads, TypeOK, RingInv, PushesInLap, Claiming, PushPublish
  <2>2. head' = head /\ slotTail' = slotTail /\ slotHead' = [slotHead EXCEPT ![s] = n]
    BY <1>2 DEF PushPublish
  <2> HIDE DEF n, s
  <2> QED
    BY <2>1, <2>2 DEF FreshSlots, TypeOK
<1>3. ASSUME NEW c \in Poppers, PopClaim(c)
      PROVE  FreshSlots'
  <2>1. /\ slotHead[Slot(head)] = head /\ slotTail[Slot(head)] = head
        /\ head' = head + 1 /\ UNCHANGED <<slotTail, slotHead>>
    BY <1>3, ClaimedPop DEF PopClaim
  <2>2. ASSUME NEW s \in Slots, slotHead[s] # slotTail[s]
        PROVE  head + 1 <= slotTail[s]
    <3>1. slotTail[s] # head
      BY <2>1, <2>2 DEF RingInv, SlotsInLap
    <3> QED
      BY <2>2, <3>1 DEF FreshSlots, TypeOK
  <2> QED
    BY <2>1, <2>2 DEF FreshSlots
<1>4. ASSUME NEW c \in Poppers, PopRelease(c)
      PROVE  FreshSlots'
  <2> DEFINE n == ticket[c]
             s == Slot(n)
  <2>1. /\ n \in Nat /\ s \in Slots /\ slotTail[s] = n /\ slotHead[s] = n
        /\ tail - Capacity <= n /\ head <= tail
    BY <1>4, SlotDivision DEF Threads, TypeOK, RingInv, PopsInLap, SlotsInLap, Taking, PopRelease
  <2>2. /\ head' = head /\ slotHead' = slotHead
        /\ slotTail' = [slotTail EXCEPT ![s] = n + Capacity]
    BY <1>4 DEF PopRelease
  <2> HIDE DEF n, s
  <2>3. head <= n + Capacity
    BY <2>1, CapacityAssumption DEF TypeOK
  <2> QED
    BY <2>1, <2>2, <2>3 DEF FreshSlots, TypeOK
<1>5. CASE \E p \in Pushers : PushStep(p)
  BY <1>1, <1>2, <1>5
     DEF PushStep, PushLoad, PushRefuse, PushCheck, PushClaim, PushClaimFails, PushWrite
<1>6. CASE \E c \in Poppers : PopStep(c)
  BY <1>1, <1>3, <1>4, <1>6
     DEF PopStep, PopLoad, PopFetchEarly, PopRefuse, PopCheck, PopClaimFails, PopRead, PopDestroy
<1>7. CASE \E t \in Threads : SizeStep(t)
  BY <1>1, <1>7 DEF SizeStep, SizeLoadHead, SizeReturn
<1>8. CASE Destroy \/ Gone \/ UNCHANGED vars
  BY <1>1, <1>8 DEF Destroy, Gone, vars
<1> QED
  BY <1>5, <1>6, <1>7, <1>8 DEF Next

\* Numbers less than the range apart are the same if their words are.
LEMMA SameWord ==
  ASSUME NEW M \in Nat \ {0}, NEW a \in Int, NEW b \in Int, a - b < M, b - a < M
  PROVE  a % M = b % M <=> a = b
<1> SUFFICES ASSUME a % M = b % M PROVE a = b
  OBVIOUS
<1> DEFINE p == a \div M
           q == b \div M
           r == a % M
<1>1. p \in Int /\ q \in Int /\ r \in Int /\ a = (M * p) + r /\ b = (M * q) + r
  OBVIOUS
<1> HIDE DEF p, q, r
<1>2. ASSUME NEW k \in Int, k >= 1 PROVE M * k >= M
  BY <1>2
<1>3. a - b = M * (p - q) /\ b - a = M * (q - p)
  BY <1>1
<1>4. p - q \in Int /\ q - p \in Int /\ ~(p - q >= 1) /\ ~(q - p >= 1)
  BY <1>1, <1>2, <1>3
<1>5. p = q
  BY <1>1, <1>4
<1> QED
  BY <1>1, <1>5

\* The difference of two words is the difference of the numbers.
LEMMA WordDifference ==
  ASSUME NEW M \in Nat \ {0}, NEW a \in Nat, NEW b \in Nat, b <= a, a - b < M
  PROVE  ((a % M) - (b % M)) % M = a - b
<1> DEFINE p == a \div M
           q == b \div M
           r == a % M
           t == b % M
           d == r - t
<1>1. /\ p \in Int /\ q \in Int /\ r \in 0 .. M - 1 /\ t \in 0 .. M - 1
      /\ a = (M * p) + r /\ b = (M * q) + t
  OBVIOUS
<1> HIDE DEF p, q, r, t
<1>2. d \in Int /\ a - b = (M * (p - q)) + d /\ a - b \in 0 .. M - 1
  BY <1>1
<1>3. d = (M * (q - p)) + (a - b)
  <2>1. M * (q - p) = -(M * (p - q))
    BY <1>1
  <2> QED
    BY <1>1, <1>2, <2>1
<1> DEFINE e == a - b
           k == q - p
<1>4. k \in Int /\ e \in 0 .. M - 1 /\ d = (M * k) + e
  BY <1>1, <1>2, <1>3
<1> HIDE DEF d, e, k
<1>5. d % M = e
  BY <1>4
<1> QED
  BY <1>5 DEF d, e, r, t

\* A word has the slot of the number, if the range is so many whole laps.
LEMMA SlotOfWord ==
  ASSUME NEW n \in Nat, NEW laps \in Nat \ {0}
  PROVE  Slot(n % (Capacity * laps)) = Slot(n)
<1> DEFINE M == Capacity * laps
           w == n % M
           q == n \div M
           s == w \div Capacity
           t == w % Capacity
<1>1. M \in Nat \ {0} /\ Capacity \in Nat \ {0}
  BY CapacityAssumption
<1>2. q \in Nat /\ w \in Nat /\ n = (M * q) + w
  <2> HIDE DEF M
  <2> QED
    BY <1>1
<1>3. M * q = Capacity * (laps * q) /\ laps * q \in Nat
  <2> HIDE DEF q
  <2> QED
    BY <1>1, <1>2
<1> HIDE DEF w, q, M
<1>4. s \in Nat /\ t \in 0 .. Capacity - 1 /\ w = (Capacity * s) + t
  BY <1>1, <1>2
<1> HIDE DEF s, t
<1> DEFINE v == (laps * q) + s
<1>5. v \in Nat /\ n = (Capacity * v) + t
  <2>1. Capacity * v = Capacity * (laps * q) + Capacity * s
    BY <1>1, <1>3, <1>4
  <2> QED
    BY <1>1, <1>2, <1>3, <1>4, <2>1
<1> HIDE DEF v
<1>6. n % Capacity = t
  BY <1>1, <1>4, <1>5
<1> QED
  BY <1>6 DEF Slot, t, w, M

\* Each test of a call finds in words what it would find in numbers, and size()
\* computes the same, unless the call is overtaken by nearly the whole range of
\* a word between its load and its test.
InWords(M) ==
  \A t \in Threads :
    LET n == ticket[t]
        s == Slot(n)
    IN  /\ Slot(n % M) = s
        /\ tail - n + Capacity <= M =>
             /\ pc[t] = "pushCheck" => (slotTail[s] % M = n % M <=> slotTail[s] = n)
             /\ pc[t] = "pushClaim" => (tail % M = n % M <=> tail = n)
             /\ pc[t] = "popCheck"  => (slotHead[s] % M = n % M <=> slotHead[s] = n)
             /\ pc[t] = "popClaim"  => (head % M = n % M <=> head = n)
             /\ pc[t] = "size" => ((tail % M) - (n % M)) % M = SizeResult(t)

\* For a ring of any capacity and a size_t whose range is two laps or more.
THEOREM WordsWillDo ==
  ASSUME NEW CONSTANT laps \in Nat, laps >= 2
  PROVE  Spec => []InWords(Capacity * laps)
<1> DEFINE M == Capacity * laps
<1>1. M \in Nat \ {0} /\ M > Capacity /\ Capacity \in Nat \ {0}
  <2>1. Capacity * laps = Capacity * (laps - 2) + Capacity + Capacity
    BY CapacityAssumption
  <2>2. Capacity * (laps - 2) \in Nat
    BY CapacityAssumption
  <2> QED
    BY <2>1, <2>2, CapacityAssumption
<1>2. ASSUME TypeOK, RingInv, FreshSlots, SizeInRange
      PROVE  InWords(M)
  <2> SUFFICES ASSUME NEW t \in Threads
               PROVE  InWords(M)!(t)
    BY DEF InWords
  <2> DEFINE n == ticket[t]
             s == Slot(n)
  <2>1. /\ n \in Nat /\ s \in Slots /\ tail \in Nat /\ head \in Nat /\ head <= tail
        /\ slotTail[s] \in Nat /\ slotHead[s] \in Int
    BY <1>2, SlotDivision DEF TypeOK, RingInv
  <2>2. /\ tail - Capacity <= slotTail[s] /\ slotTail[s] < head + Capacity
        /\ slotHead[s] \in {slotTail[s], slotTail[s] - Capacity, -1}
    BY <1>2, <2>1 DEF RingInv, SlotsInLap
  <2>3. /\ slotHead[s] # slotTail[s] => head <= slotTail[s]
        /\ slotHead[s] = -1 => slotTail[s] = s
    BY <1>2, <2>1 DEF FreshSlots
  <2>4. /\ pc[t] \in {"pushCheck", "pushClaim"} => n <= tail
        /\ pc[t] \in {"popCheck", "popClaim"} => n <= head
    BY <1>2 DEF RingInv, PushesInLap, PopsInLap, TypeOK, PushPc, PopPc
  <2>5. pc[t] = "size" => SizeResult(t) = tail - n /\ tail - n >= 0
    BY <1>2 DEF SizeInRange, SizeResult
  <2>6. Slot(n % M) = s
    BY <2>1, SlotOfWord
  <2> HIDE DEF M
  <2>7. ASSUME tail - n + Capacity <= M, pc[t] = "pushCheck"
        PROVE  slotTail[s] % M = n % M <=> slotTail[s] = n
    <3>1. slotTail[s] - n < M /\ n - slotTail[s] < M
      BY <1>1, <2>1, <2>2, <2>4, <2>7
    <3> QED
      BY <1>1, <2>1, <3>1, SameWord
  <2>8. ASSUME tail - n + Capacity <= M, pc[t] = "pushClaim"
        PROVE  tail % M = n % M <=> tail = n
    <3>1. tail - n < M /\ n - tail < M
      BY <1>1, <2>1, <2>4, <2>8
    <3> QED
      BY <1>1, <2>1, <3>1, SameWord
  <2>9. ASSUME tail - n + Capacity <= M, pc[t] = "popCheck"
        PROVE  slotHead[s] % M = n % M <=> slotHead[s] = n
    <3>1. slotHead[s] - n < M
      BY <1>1, <2>1, <2>2, <2>9
    <3>2. n - slotHead[s] < M
      <4>1. s <= Capacity - 1
        BY <1>1, <2>1 DEF Slots
      <4>2. n <= head
        BY <2>4, <2>9
      <4> QED
        BY <1>1, <2>1, <2>2, <2>3, <4>1, <4>2
    <3> QED
      BY <1>1, <2>1, <3>1, <3>2, SameWord
  <2>10. ASSUME tail - n + Capacity <= M, pc[t] = "popClaim"
         PROVE  head % M = n % M <=> head = n
    <3>1. head - n < M /\ n - head < M
      BY <1>1, <2>1, <2>4, <2>10
    <3> QED
      BY <1>1, <2>1, <3>1, SameWord
  <2>11. ASSUME tail - n + Capacity <= M, pc[t] = "size"
         PROVE  ((tail % M) - (n % M)) % M = SizeResult(t)
    <3>1. n <= tail /\ tail - n < M
      BY <1>1, <2>1, <2>5, <2>11
    <3> QED
      BY <1>1, <2>1, <2>5, <2>11, <3>1, WordDifference
  <2> QED
    BY <2>6, <2>7, <2>8, <2>9, <2>10, <2>11
<1> QED
  BY <1>2, FreshInit, FreshNext, TypeCorrect, RingCorrect, SizesAreInRange, PTL DEF Spec
===========================================================================
