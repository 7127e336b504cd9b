------------------------ MODULE CircleBufferProofs ------------------------
(* Proofs about CircleBuffer, for every set of threads, every capacity and *)
(* both builds.                                                            *)
EXTENDS CircleBuffer, TLAPS

---------------------------------------------------------------------------
(* Tickets and slots.                                                      *)

\* A ticket is some number of laps plus its slot.
LEMMA SlotDivision ==
  ASSUME NEW n \in Nat
  PROVE  /\ Slot(n) \in Slots
         /\ \E q \in Nat : n = (Capacity * q) + Slot(n)
<1>1. n \div Capacity \in Nat
  BY CapacityAssumption
<1>2. n = (Capacity * (n \div Capacity)) + (n % Capacity)
  BY CapacityAssumption
<1>3. n % Capacity \in 0 .. Capacity - 1
  BY CapacityAssumption
<1> QED
  BY <1>1, <1>2, <1>3 DEF Slot, Slots

\* The ticket of the next lap has the same slot.
LEMMA SlotNextLap ==
  ASSUME NEW n \in Nat
  PROVE  Slot(n + Capacity) = Slot(n)
<1> DEFINE next == n + Capacity
           s == Slot(n)
<1>1. PICK q \in Nat : n = (Capacity * q) + s
  BY SlotDivision
<1>2. s \in 0 .. Capacity - 1
  BY SlotDivision DEF Slots
<1>3. next \in Nat /\ next = (Capacity * (q + 1)) + s
  BY <1>1, <1>2, CapacityAssumption
<1> HIDE DEF next, s
<1>4. next % Capacity = s
  BY <1>2, <1>3, CapacityAssumption
<1> QED
  BY <1>4 DEF next, s, Slot

\* Two tickets of one slot are equal or at least a lap apart.
LEMMA SlotLap ==
  ASSUME NEW m \in Nat, NEW n \in Nat, Slot(m) = Slot(n), m < n
  PROVE  m + Capacity <= n
<1>1. PICK q \in Nat : m = (Capacity * q) + Slot(m)
  BY SlotDivision
<1>2. PICK r \in Nat : n = (Capacity * r) + Slot(n)
  BY SlotDivision
<1>3. Slot(m) \in Int /\ Capacity \in Nat
  BY SlotDivision, CapacityAssumption DEF Slots
<1>4. n - m = Capacity * (r - q)
  BY <1>1, <1>2, <1>3
<1>5. ASSUME NEW k \in Nat, k >= 1
      PROVE  Capacity * k >= Capacity
  BY <1>5, CapacityAssumption
<1>6. r - q >= 1
  <2>1. CASE r = q
    BY <2>1, <1>1, <1>2
  <2>2. CASE r < q
    <3>1. Capacity * (q - r) >= Capacity
      BY <2>2, <1>5
    <3>2. Capacity * (q - r) = m - n
      BY <1>4, <1>3
    <3> QED
      BY <3>1, <3>2, <1>3
  <2> QED
    BY <2>1, <2>2
<1>7. Capacity * (r - q) >= Capacity
  BY <1>5, <1>6
<1> QED
  BY <1>4, <1>7, <1>3

---------------------------------------------------------------------------
(* Types.                                                                  *)

\* Initially the types are right.
LEMMA TypeInit == Init => TypeOK
BY CapacityAssumption
   DEF Init, TypeOK, Slots, PushPc, PopPc, Threads

\* TypeOK is inductive.
LEMMA TypeNext == TypeOK /\ [Next]_vars => TypeOK'
<1> SUFFICES ASSUME TypeOK, [Next]_vars
             PROVE  TypeOK'
  OBVIOUS
<1> USE DEF TypeOK, Goto, Return, ClaimFails, Begin, PushPc, PopPc, shared
<1>1. ASSUME NEW p \in Pushers, PushStep(p)
      PROVE  TypeOK'
  <2> p \in Threads /\ Slot(ticket[p]) \in Slots
    BY SlotDivision DEF Threads
  <2>1. CASE \E d \in Data : PushLoad(p, d)
    BY <2>1 DEF PushLoad
  <2>2. CASE PushRefuse(p)
    BY <2>2 DEF PushRefuse
  <2>3. CASE PushCheck(p)
    BY <2>3 DEF PushCheck
  <2>4. CASE PushClaim(p)
    BY <2>4 DEF PushClaim
  <2>5. CASE PushClaimFails(p)
    BY <2>5 DEF PushClaimFails
  <2>6. CASE PushWrite(p)
    BY <2>6 DEF PushWrite
  <2>7. CASE PushPublish(p)
    BY <2>7 DEF PushPublish
  <2> QED
    BY <1>1, <2>1, <2>2, <2>3, <2>4, <2>5, <2>6, <2>7 DEF PushStep
<1>2. ASSUME NEW c \in Poppers, PopStep(c)
      PROVE  TypeOK'
  <2> c \in Threads /\ Slot(ticket[c]) \in Slots
    BY SlotDivision DEF Threads
  <2>1. CASE PopLoad(c)
    BY <2>1 DEF PopLoad
  <2>2. CASE PopFetchEarly(c)
    BY <2>2 DEF PopFetchEarly
  <2>3. CASE PopRefuse(c)
    BY <2>3 DEF PopRefuse
  <2>4. CASE PopCheck(c)
    BY <2>4 DEF PopCheck
  <2>5. CASE PopClaim(c)
    BY <2>5 DEF PopClaim
  <2>6. CASE PopClaimFails(c)
    BY <2>6 DEF PopClaimFails
  <2>7. CASE PopRead(c)
    BY <2>7 DEF PopRead
  <2>8. CASE PopDestroy(c)
    BY <2>8 DEF PopDestroy
  <2>9. CASE PopRelease(c)
    BY <2>9, CapacityAssumption DEF PopRelease
  <2> QED
    BY <1>2, <2>1, <2>2, <2>3, <2>4, <2>5, <2>6, <2>7, <2>8, <2>9 DEF PopStep
<1>3. ASSUME NEW t \in Threads, SizeStep(t)
      PROVE  TypeOK'
  BY <1>3 DEF SizeStep, SizeLoadHead, SizeReturn
<1>4. CASE Destroy
  BY <1>4 DEF Destroy
<1>5. CASE Gone \/ UNCHANGED vars
  BY <1>5 DEF Gone, vars
<1> QED
  BY <1>1, <1>2, <1>3, <1>4, <1>5 DEF Next

\* Every variable keeps its type, whatever the interleaving.
THEOREM TypeCorrect == Spec => []TypeOK
BY TypeInit, TypeNext, PTL DEF Spec

---------------------------------------------------------------------------
(* Exclusive slots.                                                        *)

\* Initially every slot waits for its own first ticket and no call is on.
LEMMA RingInit == Init => RingInv
<1> SUFFICES ASSUME Init
             PROVE  RingInv
  OBVIOUS
<1>1. SlotsInLap
  <2> SUFFICES ASSUME NEW s \in Slots
               PROVE  Slot(s) = s
    BY CapacityAssumption DEF Init, SlotsInLap, Slots
  <2> QED
    BY CapacityAssumption DEF Slot, Slots
<1> QED
  BY <1>1 DEF Init, RingInv, PushesInLap, PopsInLap, SlotExclusive,
              Claiming, Taking, Threads

\* A call that uses a slot uses the slot of its ticket, in its own role.
LEMMA Owner ==
  ASSUME TypeOK, RingInv, NEW u \in Threads, pc[u] \in Claiming \cup Taking
  PROVE  /\ ticket[u] < tail
         /\ slotTail[Slot(ticket[u])] = ticket[u]
         /\ \/ /\ u \in Pushers
               /\ pc[u] \in Claiming
               /\ slotHead[Slot(ticket[u])] # ticket[u]
            \/ /\ u \in Poppers
               /\ pc[u] \in Taking
               /\ slotHead[Slot(ticket[u])] = ticket[u]
               /\ ticket[u] < head
<1>1. CASE pc[u] \in Claiming
  <2>1. u \in Pushers
    BY <1>1 DEF TypeOK, Claiming, PushPc
  <2> QED
    BY <1>1, <2>1 DEF RingInv, PushesInLap
<1>2. CASE pc[u] \in Taking
  <2>1. u \in Poppers
    BY <1>2 DEF TypeOK, Taking, PopPc
  <2> QED
    BY <1>2, <2>1 DEF RingInv, PopsInLap, TypeOK
<1> QED
  BY <1>1, <1>2

\* The slot of the ticket a pop claims holds the push of that very ticket.
LEMMA ClaimedPop ==
  ASSUME TypeOK, RingInv, NEW c \in Poppers, PopClaim(c)
  PROVE  /\ slotTail[Slot(head)] = head
         /\ slotHead[Slot(head)] = head
         /\ head < tail
<1> DEFINE s == Slot(head)
<1>1. s \in Slots /\ slotHead[s] = head
  BY SlotDivision DEF PopClaim, RingInv, PopsInLap, TypeOK
<1>2. slotTail[s] # head + Capacity /\ head \in Nat /\ slotTail[s] \in Nat
  BY <1>1, CapacityAssumption DEF RingInv, SlotsInLap, TypeOK
<1>3. slotTail[s] = head
  BY <1>1, <1>2, CapacityAssumption DEF RingInv, SlotsInLap
<1> QED
  BY <1>1, <1>3 DEF RingInv, SlotsInLap

\* Steps that leave the ring alone and claim nothing.
LEMMA LocalStep ==
  ASSUME TypeOK, RingInv, NEW t \in Threads,
         UNCHANGED shared,
         \A u \in Threads \ {t} : pc'[u] = pc[u] /\ ticket'[u] = ticket[u],
         \/ pc'[t] \in {"idle", "size"}
         \/ pc'[t] = "pushCheck" /\ ticket'[t] <= tail
         \/ pc'[t] = "popCheck" /\ ticket'[t] <= head
         \/ /\ pc'[t] = "pushClaim" /\ ticket'[t] <= tail
            /\ slotTail[Slot(ticket'[t])] = ticket'[t]
         \/ /\ pc'[t] = "popClaim" /\ ticket'[t] <= head
            /\ slotHead[Slot(ticket'[t])] = ticket'[t]
  PROVE  RingInv'
<1> USE DEF RingInv, shared
<1>1. SlotsInLap'
  BY DEF SlotsInLap
<1>2. PushesInLap'
  BY DEF PushesInLap, Claiming, Threads
<1>3. PopsInLap'
  BY DEF PopsInLap, Taking, Threads
<1>4. SlotExclusive'
  BY DEF SlotExclusive, Claiming, Taking
<1> QED
  BY <1>1, <1>2, <1>3, <1>4

\* A push claims the next ticket, whose slot is free.
LEMMA PushClaimStep ==
  ASSUME TypeOK, RingInv, NEW p \in Pushers, PushClaim(p)
  PROVE  RingInv'
<1> DEFINE s == Slot(tail)
<1> USE DEF PushClaim, Goto
<1>0. p \in Threads /\ s \in Slots /\ tail' = tail + 1
  BY SlotDivision DEF Threads, TypeOK
<1>1. slotTail[s] = tail /\ slotHead[s] # tail
  BY <1>0 DEF RingInv, PushesInLap, SlotsInLap, TypeOK
<1>2. (head <= tail)'
  BY DEF RingInv, TypeOK
<1>3. SlotsInLap'
  <2> SUFFICES ASSUME NEW r \in Slots
               PROVE  tail + 1 - Capacity <= slotTail[r]
    BY <1>0, CapacityAssumption DEF RingInv, SlotsInLap, TypeOK
  <2>1. CASE slotTail[r] = tail - Capacity
    <3>1. Slot(tail) = Slot(slotTail[r])
      BY <2>1, SlotNextLap, CapacityAssumption DEF TypeOK
    <3>2. r = s
      BY <3>1 DEF RingInv, SlotsInLap
    <3> QED
      BY <3>2, <1>1, CapacityAssumption DEF TypeOK
  <2>2. CASE slotTail[r] # tail - Capacity
    BY <2>2, CapacityAssumption DEF RingInv, SlotsInLap, TypeOK
  <2> QED
    BY <2>1, <2>2
<1>4. PushesInLap'
  <2> SUFFICES ASSUME NEW q \in Pushers
               PROVE  PushesInLap!(q)'
    BY DEF PushesInLap
  <2> QED
    BY <1>0, <1>1 DEF RingInv, PushesInLap, Claiming, TypeOK, Threads
<1>5. PopsInLap'
  BY <1>0, ThreadsAssumption DEF RingInv, PopsInLap, Taking, TypeOK, Threads
<1>6. SlotExclusive'
  <2>1. \A u \in Threads : pc[u] \in Claiming \cup Taking =>
                             Slot(ticket[u]) # s
    BY <1>1, Owner DEF TypeOK
  <2> QED
    BY <2>1, <1>0 DEF RingInv, SlotExclusive, Claiming, Taking, TypeOK
<1> QED
  BY <1>2, <1>3, <1>4, <1>5, <1>6 DEF RingInv

\* A push publishes the slot it has filled.
LEMMA PushPublishStep ==
  ASSUME TypeOK, RingInv, NEW p \in Pushers, PushPublish(p)
  PROVE  RingInv'
<1> DEFINE n == ticket[p]
           s == Slot(n)
<1> USE DEF PushPublish, Goto, Return
<1>0. /\ p \in Threads /\ pc[p] \in Claiming
      /\ n \in Nat /\ s \in Slots /\ slotTail[s] = n /\ slotHead[s] # n
      /\ n < tail
  BY SlotDivision DEF Threads, TypeOK, RingInv, PushesInLap, Claiming
<1>1. (head <= tail)'
  BY DEF RingInv
<1>2. SlotsInLap'
  BY <1>0 DEF RingInv, SlotsInLap, TypeOK
<1>3. PushesInLap'
  <2> SUFFICES ASSUME NEW q \in Pushers, q # p, pc[q] \in Claiming
               PROVE  Slot(ticket[q]) # s
    BY <1>0 DEF RingInv, PushesInLap, Claiming, TypeOK, Threads
  <2> QED
    BY <1>0 DEF RingInv, SlotExclusive, Threads
<1>4. PopsInLap'
  <2> SUFFICES ASSUME NEW c \in Poppers,
                      \/ pc[c] = "popClaim" /\ ticket[c] = head
                      \/ pc[c] \in Taking,
                      Slot(ticket[c]) = s
               PROVE  FALSE
    BY <1>0, ThreadsAssumption
       DEF RingInv, PopsInLap, Taking, TypeOK, Threads
  <2>1. CASE pc[c] \in Taking
    BY <2>1, <1>0, ThreadsAssumption DEF RingInv, SlotExclusive, Threads
  <2>2. CASE pc[c] = "popClaim" /\ ticket[c] = head
    <3>1. slotHead[s] = head
      BY <2>2 DEF RingInv, PopsInLap
    <3>2. slotTail[s] # head + Capacity
      BY <1>0, CapacityAssumption DEF RingInv, SlotsInLap, TypeOK
    <3>3. slotTail[s] = head
      BY <3>1, <3>2, <1>0, CapacityAssumption DEF RingInv, SlotsInLap, TypeOK
    <3> QED
      BY <3>1, <3>3, <1>0
  <2> QED
    BY <2>1, <2>2
<1>5. SlotExclusive'
  BY <1>0 DEF RingInv, SlotExclusive, Claiming, Taking, TypeOK
<1> QED
  BY <1>1, <1>2, <1>3, <1>4, <1>5 DEF RingInv

\* A pop claims the oldest ticket, whose slot is published.
LEMMA PopClaimStep ==
  ASSUME TypeOK, RingInv, NEW c \in Poppers, PopClaim(c)
  PROVE  RingInv'
<1> DEFINE s == Slot(head)
<1> USE DEF PopClaim, Goto
<1>0. c \in Threads /\ s \in Slots /\ head' = head + 1
  BY SlotDivision DEF Threads, TypeOK
<1>1. slotTail[s] = head /\ slotHead[s] = head /\ head < tail
  BY ClaimedPop
<1>2. (head <= tail)'
  BY <1>1 DEF TypeOK
<1>3. SlotsInLap'
  BY <1>0, CapacityAssumption DEF RingInv, SlotsInLap, TypeOK
<1>4. PushesInLap'
  <2> SUFFICES ASSUME NEW p \in Pushers
               PROVE  /\ pc'[p] = pc[p]
                      /\ pc[p] \in Claiming => head + 1 <= ticket[p]
    BY <1>0 DEF RingInv, PushesInLap, TypeOK, Threads
  <2>1. pc'[p] = pc[p]
    BY ThreadsAssumption DEF TypeOK, Threads
  <2>2. ASSUME pc[p] \in Claiming
        PROVE  head + 1 <= ticket[p]
    <3>1. head <= ticket[p] /\ slotHead[Slot(ticket[p])] # ticket[p]
      BY <2>2 DEF RingInv, PushesInLap
    <3> QED
      BY <3>1, <1>1 DEF TypeOK, Threads
  <2> QED
    BY <2>1, <2>2
<1>5. PopsInLap'
  BY <1>0, <1>1 DEF RingInv, PopsInLap, Taking, TypeOK, Threads
<1>6. SlotExclusive'
  <2>1. \A u \in Threads : pc[u] \in Claiming \cup Taking =>
                             Slot(ticket[u]) # s
    BY <1>1, Owner DEF TypeOK
  <2> QED
    BY <2>1, <1>0 DEF RingInv, SlotExclusive, Claiming, Taking, TypeOK
<1> QED
  BY <1>2, <1>3, <1>4, <1>5, <1>6 DEF RingInv

\* A pop hands its slot to the push of the next lap.
LEMMA PopReleaseStep ==
  ASSUME TypeOK, RingInv, NEW c \in Poppers, PopRelease(c)
  PROVE  RingInv'
<1> DEFINE n == ticket[c]
           s == Slot(n)
<1> USE DEF PopRelease, Goto, Return
<1>0. /\ c \in Threads /\ pc[c] \in Taking
      /\ n \in Nat /\ s \in Slots /\ slotTail[s] = n /\ slotHead[s] = n
      /\ n < head /\ head <= tail
  BY SlotDivision DEF Threads, TypeOK, RingInv, PopsInLap, Taking
<1>1. SlotsInLap'
  <2>1. Slot(n + Capacity) = s
    BY <1>0, SlotNextLap
  <2>2. tail - Capacity <= n
    BY <1>0 DEF RingInv, SlotsInLap
  <2> QED
    BY <2>1, <2>2, <1>0, CapacityAssumption
       DEF RingInv, SlotsInLap, TypeOK
<1>2. PushesInLap'
  <2> SUFFICES ASSUME NEW p \in Pushers,
                      \/ pc[p] = "pushClaim" /\ ticket[p] = tail
                      \/ pc[p] \in Claiming,
                      Slot(ticket[p]) = s
               PROVE  FALSE
    BY <1>0, ThreadsAssumption
       DEF RingInv, PushesInLap, Claiming, TypeOK, Threads
  <2>1. CASE pc[p] \in Claiming
    BY <2>1, <1>0, ThreadsAssumption DEF RingInv, SlotExclusive, Threads
  <2>2. CASE pc[p] = "pushClaim" /\ ticket[p] = tail
    BY <2>2, <1>0 DEF RingInv, PushesInLap, TypeOK
  <2> QED
    BY <2>1, <2>2
<1>3. PopsInLap'
  <2> SUFFICES ASSUME NEW d \in Poppers, d # c, pc[d] \in Taking
               PROVE  Slot(ticket[d]) # s
    BY <1>0 DEF RingInv, PopsInLap, Taking, TypeOK, Threads
  <2> QED
    BY <1>0 DEF RingInv, SlotExclusive, Threads
<1>4. SlotExclusive'
  BY <1>0 DEF RingInv, SlotExclusive, Claiming, Taking, TypeOK
<1> QED
  BY <1>0, <1>1, <1>2, <1>3, <1>4 DEF RingInv

\* Steps that touch only the content of the slot the call owns.
LEMMA ContentStep ==
  ASSUME TypeOK, RingInv, NEW t \in Threads,
         UNCHANGED <<tail, head, slotTail, slotHead, ticket>>,
         \A u \in Threads \ {t} : pc'[u] = pc[u],
         \/ pc[t] \in Claiming /\ pc'[t] \in Claiming
         \/ pc[t] \in Taking /\ pc'[t] \in Taking
  PROVE  RingInv'
<1> USE DEF RingInv
<1>1. SlotsInLap'
  BY DEF SlotsInLap
<1>2. PushesInLap'
  BY DEF PushesInLap, Claiming, Taking, Threads
<1>3. PopsInLap'
  BY DEF PopsInLap, Claiming, Taking, Threads
<1>4. SlotExclusive'
  BY DEF SlotExclusive, Claiming, Taking
<1> QED
  BY <1>1, <1>2, <1>3, <1>4

\* RingInv is inductive.
LEMMA RingNext == TypeOK /\ RingInv /\ [Next]_vars => RingInv'
<1> SUFFICES ASSUME TypeOK, RingInv, [Next]_vars
             PROVE  RingInv'
  OBVIOUS
<1> USE DEF Goto, Return, ClaimFails, Begin
<1>1. ASSUME NEW p \in Pushers, PushStep(p)
      PROVE  RingInv'
  <2> p \in Threads
    BY DEF Threads
  <2>1. CASE \E d \in Data : PushLoad(p, d)
    BY <2>1, LocalStep DEF PushLoad, TypeOK
  <2>2. CASE PushRefuse(p)
    BY <2>2, LocalStep DEF PushRefuse, TypeOK
  <2>3. CASE PushCheck(p)
    BY <2>3, LocalStep DEF PushCheck, TypeOK, RingInv, PushesInLap
  <2>4. CASE PushClaim(p)
    BY <2>4, PushClaimStep
  <2>5. CASE PushClaimFails(p)
    BY <2>5, LocalStep DEF PushClaimFails, TypeOK
  <2>6. CASE PushWrite(p)
    BY <2>6, ContentStep DEF PushWrite, TypeOK, Claiming
  <2>7. CASE PushPublish(p)
    BY <2>7, PushPublishStep
  <2> QED
    BY <1>1, <2>1, <2>2, <2>3, <2>4, <2>5, <2>6, <2>7 DEF PushStep
<1>2. ASSUME NEW c \in Poppers, PopStep(c)
      PROVE  RingInv'
  <2> c \in Threads
    BY DEF Threads
  <2>1. CASE PopLoad(c)
    BY <2>1, LocalStep DEF PopLoad, TypeOK
  <2>2. CASE PopFetchEarly(c)
    BY <2>2, LocalStep DEF PopFetchEarly, TypeOK, RingInv, PopsInLap
  <2>3. CASE PopRefuse(c)
    BY <2>3, LocalStep DEF PopRefuse, TypeOK
  <2>4. CASE PopCheck(c)
    BY <2>4, LocalStep DEF PopCheck, TypeOK, RingInv, PopsInLap
  <2>5. CASE PopClaim(c)
    BY <2>5, PopClaimStep
  <2>6. CASE PopClaimFails(c)
    BY <2>6, LocalStep DEF PopClaimFails, TypeOK
  <2>7. CASE PopRead(c)
    BY <2>7, ContentStep DEF PopRead, TypeOK, Taking, shared
  <2>8. CASE PopDestroy(c)
    BY <2>8, ContentStep DEF PopDestroy, TypeOK, Taking
  <2>9. CASE PopRelease(c)
    BY <2>9, PopReleaseStep
  <2> QED
    BY <1>2, <2>1, <2>2, <2>3, <2>4, <2>5, <2>6, <2>7, <2>8, <2>9 DEF PopStep
<1>3. ASSUME NEW t \in Threads, SizeStep(t)
      PROVE  RingInv'
  BY <1>3, LocalStep DEF SizeStep, SizeLoadHead, SizeReturn, TypeOK
<1>4. CASE Destroy \/ Gone \/ UNCHANGED vars
  BY <1>4 DEF Destroy, Gone, vars, RingInv, SlotsInLap, PushesInLap,
              PopsInLap, SlotExclusive
<1> QED
  BY <1>1, <1>2, <1>3, <1>4 DEF Next

\* The counters, the slots and the calls always agree on their laps.
THEOREM RingCorrect == Spec => []RingInv
BY RingInit, RingNext, TypeCorrect, PTL DEF Spec

\* No two calls ever use one slot, whatever the number of threads and slots.
THEOREM SlotsAreExclusive == Spec => []SlotExclusive
<1>1. RingInv => SlotExclusive
  BY DEF RingInv
<1> QED
  BY <1>1, RingCorrect, PTL

---------------------------------------------------------------------------
(* The elements.                                                           *)

\* Initially all storage is raw.
LEMMA ContentInit == Init => ContentInv
BY CapacityAssumption, SMTT(30)
   DEF Init, ContentInv, Live, Slots, Slot, Threads

\* Steps that change neither the ring nor who is at a label that matters to
\* the content.
LEMMA QuietStep ==
  ASSUME TypeOK, ContentInv, alive, alive',
         UNCHANGED <<head, slotTail, slotHead, slotData>>,
         NEW t \in Threads,
         \A u \in Threads \ {t} : pc'[u] = pc[u] /\ ticket'[u] = ticket[u],
         pc[t] \notin {"pushPublish", "popRelease"},
         pc'[t] \notin {"pushPublish", "popRelease"},
         pc[t] \in Taking => pc'[t] \in Taking /\ ticket'[t] = ticket[t]
  PROVE  ContentInv'
<1>1. ASSUME NEW s \in Slots
      PROVE  Live(s)' <=> Live(s)
  BY DEF Live, Threads
<1>2. ASSUME NEW c \in Poppers, pc[c] \in Taking
      PROVE  pc'[c] \in Taking /\ ticket'[c] = ticket[c]
  BY <1>2 DEF Threads
<1> QED
  BY <1>1, <1>2 DEF ContentInv

\* A push constructs its element in raw storage.
LEMMA PushWriteContent ==
  ASSUME TypeOK, RingInv, ContentInv, alive, NEW p \in Pushers, PushWrite(p)
  PROVE  ContentInv'
<1> DEFINE n == ticket[p]
           s == Slot(n)
<1> USE DEF PushWrite, Goto
<1>0. p \in Threads /\ s \in Slots /\ pc[p] \in Claiming /\ val[p] # Raw
  BY SlotDivision, DataAssumption DEF Threads, TypeOK, PushPc, Claiming
<1>1. Live(s)'
  BY <1>0 DEF Live, TypeOK
<1>2. ASSUME NEW r \in Slots, r # s
      PROVE  Live(r)' <=> Live(r)
  BY <1>0, <1>2, ThreadsAssumption DEF Live, TypeOK, Threads
<1>3. ASSUME NEW c \in Poppers
      PROVE  pc'[c] = pc[c]
  BY ThreadsAssumption DEF TypeOK, Threads
<1> QED
  BY <1>0, <1>1, <1>2, <1>3 DEF ContentInv, TypeOK

\* A push publishes the element it has constructed.
LEMMA PushPublishContent ==
  ASSUME TypeOK, RingInv, ContentInv, alive, NEW p \in Pushers, PushPublish(p)
  PROVE  ContentInv'
<1> USE DEF PushPublish, Goto, Return
<1> PICK n \in Nat, s \in Slots : n = ticket[p] /\ s = Slot(n)
  BY SlotDivision DEF Threads, TypeOK
<1>0. /\ p \in Threads /\ pc[p] \in Claiming
      /\ slotTail[s] = n /\ head <= n
  BY DEF Threads, Claiming, RingInv, PushesInLap
<1>1. ASSUME NEW c \in Poppers
      PROVE  pc'[c] = pc[c] /\ ticket'[c] = ticket[c]
  BY <1>0, ThreadsAssumption DEF TypeOK, Threads
<1>2. Live(s) /\ Live(s)'
  <2>1. ASSUME NEW c \in Poppers, pc[c] = "popRelease"
        PROVE  Slot(ticket[c]) # s
    BY <2>1, <1>0, ThreadsAssumption
       DEF RingInv, SlotExclusive, Taking, Threads
  <2>2. Live(s)
    BY DEF Live
  <2>3. slotHead'[s] = n /\ slotTail'[s] = n
    BY <1>0 DEF TypeOK
  <2> QED
    BY <2>1, <2>2, <2>3, <1>1 DEF Live
<1>3. ASSUME NEW r \in Slots, r # s
      PROVE  (Live(r)' <=> Live(r)) /\ slotHead'[r] = slotHead[r]
  BY <1>0, <1>1, <1>3 DEF Live, TypeOK, Threads
<1>4. ASSUME NEW r \in Slots
      PROVE  /\ slotData'[r] # Raw <=> Live(r)'
             /\ slotHead'[r] = slotTail'[r] =>
                  \/ head' <= slotTail'[r]
                  \/ \E c \in Poppers : /\ pc'[c] \in Taking
                                        /\ ticket'[c] = slotTail'[r]
  <2>1. CASE r = s
    BY <2>1, <1>0, <1>2 DEF ContentInv
  <2>2. CASE r # s
    BY <2>2, <1>1, <1>3 DEF ContentInv
  <2> QED
    BY <2>1, <2>2
<1> QED
  BY <1>4 DEF ContentInv

\* A pop takes over the slot of the oldest element.
LEMMA PopClaimContent ==
  ASSUME TypeOK, RingInv, ContentInv, alive, NEW c \in Poppers, PopClaim(c)
  PROVE  ContentInv'
<1> USE DEF PopClaim, Goto
<1>0. c \in Threads /\ pc'[c] \in Taking /\ ticket'[c] = head
  BY DEF Threads, TypeOK, Taking
<1>1. ASSUME NEW d \in Poppers, pc[d] \in Taking
      PROVE  pc'[d] \in Taking /\ ticket'[d] = ticket[d]
  BY <1>0, <1>1 DEF TypeOK, Threads, Taking
<1>2. ASSUME NEW r \in Slots
      PROVE  Live(r)' <=> Live(r)
  BY <1>0 DEF Live, TypeOK, Threads
<1>3. ASSUME NEW r \in Slots, slotHead[r] = slotTail[r], head <= slotTail[r]
      PROVE  \/ head + 1 <= slotTail[r]
             \/ slotTail[r] = ticket'[c]
  BY <1>0, <1>3 DEF TypeOK
<1> QED
  BY <1>0, <1>1, <1>2, <1>3 DEF ContentInv, TypeOK

\* A pop destroys the element it has copied out.
LEMMA PopDestroyContent ==
  ASSUME TypeOK, RingInv, ContentInv, alive, NEW c \in Poppers, PopDestroy(c)
  PROVE  ContentInv'
<1> DEFINE s == Slot(ticket[c])
<1> USE DEF PopDestroy, Goto
<1>0. /\ c \in Threads /\ s \in Slots /\ pc[c] \in Taking
      /\ pc'[c] = "popRelease"
  BY SlotDivision DEF Threads, TypeOK, Taking
<1>1. ~Live(s)'
  <2>1. ASSUME NEW p \in Pushers, pc'[p] = "pushPublish"
        PROVE  Slot(ticket[p]) # s
    <3>1. pc[p] = "pushPublish"
      BY <2>1, <1>0, ThreadsAssumption DEF TypeOK, Threads
    <3> QED
      BY <3>1, <1>0, ThreadsAssumption
         DEF RingInv, SlotExclusive, Claiming, Threads
  <2> QED
    BY <2>1, <1>0 DEF Live
<1>2. ASSUME NEW r \in Slots, r # s
      PROVE  Live(r)' <=> Live(r)
  BY <1>0, <1>2, ThreadsAssumption DEF Live, TypeOK, Threads
<1>3. ASSUME NEW d \in Poppers, pc[d] \in Taking
      PROVE  pc'[d] \in Taking
  BY <1>0, <1>3 DEF TypeOK, Threads, Taking
<1> QED
  BY <1>0, <1>1, <1>2, <1>3 DEF ContentInv, TypeOK

\* A pop releases the storage it has made raw.
LEMMA PopReleaseContent ==
  ASSUME TypeOK, RingInv, ContentInv, alive, NEW c \in Poppers, PopRelease(c)
  PROVE  ContentInv'
<1> USE DEF PopRelease, Goto, Return
<1> PICK n \in Nat, s \in Slots : n = ticket[c] /\ s = Slot(n)
  BY SlotDivision DEF Threads, TypeOK
<1>0. /\ c \in Threads /\ pc[c] \in Taking
      /\ slotTail[s] = n /\ slotHead[s] = n /\ slotTail'[s] # n
  BY CapacityAssumption DEF Threads, TypeOK, Taking, RingInv, PopsInLap
<1>1. ASSUME NEW p \in Pushers
      PROVE  pc'[p] = pc[p] /\ ticket'[p] = ticket[p]
  BY <1>0, ThreadsAssumption DEF TypeOK, Threads
<1>2. ~Live(s) /\ ~Live(s)'
  <2>1. ASSUME NEW p \in Pushers, pc[p] = "pushPublish"
        PROVE  Slot(ticket[p]) # s
    BY <2>1, <1>0, ThreadsAssumption
       DEF RingInv, SlotExclusive, Claiming, Threads
  <2>2. ~Live(s)
    BY <2>1 DEF Live
  <2>3. slotHead'[s] # slotTail'[s]
    BY <1>0
  <2> QED
    BY <2>1, <2>2, <2>3, <1>1 DEF Live
<1>3. ASSUME NEW r \in Slots, r # s
      PROVE  Live(r)' <=> Live(r)
  BY <1>0, <1>1, <1>3 DEF Live, TypeOK, Threads
<1>4. ASSUME NEW d \in Poppers, pc[d] \in Taking, d # c
      PROVE  pc'[d] = pc[d] /\ ticket'[d] = ticket[d]
  BY <1>0, <1>4 DEF TypeOK, Threads
<1>5. ASSUME NEW r \in Slots, r # s
      PROVE  slotTail'[r] = slotTail[r] /\ slotTail[r] # n
  BY <1>0, <1>5 DEF TypeOK, RingInv, SlotsInLap
<1>6. ASSUME NEW r \in Slots
      PROVE  /\ slotData'[r] # Raw <=> Live(r)'
             /\ slotHead'[r] = slotTail'[r] =>
                  \/ head' <= slotTail'[r]
                  \/ \E d \in Poppers : /\ pc'[d] \in Taking
                                        /\ ticket'[d] = slotTail'[r]
  <2>1. CASE r = s
    BY <2>1, <1>0, <1>2 DEF ContentInv
  <2>2. CASE r # s
    BY <2>2, <1>3, <1>4, <1>5 DEF ContentInv
  <2> QED
    BY <2>1, <2>2
<1> QED
  BY <1>6 DEF ContentInv

\* The destructor finds every live element between the two counters.
LEMMA DestroyContent ==
  ASSUME TypeOK, RingInv, ContentInv, Destroy
  PROVE  ContentInv'
<1> USE DEF Destroy
<1> SUFFICES ASSUME NEW s \in Slots, slotData[s] # Raw
             PROVE  \E n \in head .. tail - 1 : Slot(n) = s
  BY DEF ContentInv
<1>1. slotHead[s] = slotTail[s]
  BY DEF ContentInv, Live, Threads
<1>2. head <= slotTail[s]
  BY <1>1 DEF ContentInv, Taking, Threads
<1>3. slotTail[s] < tail /\ Slot(slotTail[s]) = s
  BY <1>1 DEF RingInv, SlotsInLap
<1> QED
  BY <1>2, <1>3 DEF TypeOK

\* ContentInv is inductive.
LEMMA ContentNext ==
  TypeOK /\ RingInv /\ ContentInv /\ [Next]_vars => ContentInv'
<1> SUFFICES ASSUME TypeOK, RingInv, ContentInv, [Next]_vars
             PROVE  ContentInv'
  OBVIOUS
<1> USE DEF Goto, Return, ClaimFails, Begin, shared
<1>1. ASSUME NEW p \in Pushers, PushStep(p)
      PROVE  ContentInv'
  <2>0. p \in Threads /\ alive
    BY <1>1 DEF Threads, ContentInv, PushStep, PushLoad, PushRefuse, PushCheck,
                PushClaim, PushClaimFails, PushWrite, PushPublish
  <2>1. CASE \E d \in Data : PushLoad(p, d)
    BY <2>0, <2>1, QuietStep DEF PushLoad, TypeOK, Taking
  <2>2. CASE PushRefuse(p)
    BY <2>0, <2>2, QuietStep DEF PushRefuse, TypeOK, Taking
  <2>3. CASE PushCheck(p)
    BY <2>0, <2>3, QuietStep DEF PushCheck, TypeOK, Taking
  <2>4. CASE PushClaim(p)
    BY <2>0, <2>4, QuietStep DEF PushClaim, TypeOK, Taking
  <2>5. CASE PushClaimFails(p)
    BY <2>0, <2>5, QuietStep DEF PushClaimFails, TypeOK, Taking
  <2>6. CASE PushWrite(p)
    BY <2>0, <2>6, PushWriteContent
  <2>7. CASE PushPublish(p)
    BY <2>0, <2>7, PushPublishContent
  <2> QED
    BY <1>1, <2>1, <2>2, <2>3, <2>4, <2>5, <2>6, <2>7 DEF PushStep
<1>2. ASSUME NEW c \in Poppers, PopStep(c)
      PROVE  ContentInv'
  <2>0. c \in Threads /\ alive
    BY <1>2 DEF Threads, ContentInv, PopStep, PopLoad, PopFetchEarly,
                PopRefuse, PopCheck, PopClaim, PopClaimFails, PopRead,
                PopDestroy, PopRelease
  <2>1. CASE PopLoad(c)
    BY <2>0, <2>1, QuietStep DEF PopLoad, TypeOK, Taking
  <2>2. CASE PopFetchEarly(c)
    BY <2>0, <2>2, QuietStep DEF PopFetchEarly, TypeOK, Taking
  <2>3. CASE PopRefuse(c)
    BY <2>0, <2>3, QuietStep DEF PopRefuse, TypeOK, Taking
  <2>4. CASE PopCheck(c)
    BY <2>0, <2>4, QuietStep DEF PopCheck, TypeOK, Taking
  <2>5. CASE PopClaim(c)
    BY <2>0, <2>5, PopClaimContent
  <2>6. CASE PopClaimFails(c)
    BY <2>0, <2>6, QuietStep DEF PopClaimFails, TypeOK, Taking
  <2>7. CASE PopRead(c)
    BY <2>0, <2>7, QuietStep DEF PopRead, TypeOK, Taking
  <2>8. CASE PopDestroy(c)
    BY <2>0, <2>8, PopDestroyContent
  <2>9. CASE PopRelease(c)
    BY <2>0, <2>9, PopReleaseContent
  <2> QED
    BY <1>2, <2>1, <2>2, <2>3, <2>4, <2>5, <2>6, <2>7, <2>8, <2>9 DEF PopStep
<1>3. ASSUME NEW t \in Threads, SizeStep(t)
      PROVE  ContentInv'
  <2>0. alive
    BY <1>3 DEF ContentInv, SizeStep, SizeLoadHead, SizeReturn
  <2> QED
    BY <2>0, <1>3, QuietStep
       DEF SizeStep, SizeLoadHead, SizeReturn, TypeOK, Taking
<1>4. CASE Destroy
  BY <1>4, DestroyContent
<1>5. CASE Gone \/ UNCHANGED vars
  BY <1>5 DEF Gone, vars, ContentInv, Live
<1> QED
  BY <1>1, <1>2, <1>3, <1>4, <1>5 DEF Next

\* Live elements are exactly where the slots say they are.
THEOREM ContentCorrect == Spec => []ContentInv
BY ContentInit, ContentNext, TypeCorrect, RingCorrect, PTL DEF Spec

\* No push constructs over a live element, and what a pop has claimed is alive
\* until that pop destroys it.
THEOREM StorageRespected == Spec => []StorageLifetimes
<1>1. ASSUME TypeOK, RingInv, ContentInv
      PROVE  StorageLifetimes
  <2> SUFFICES ASSUME NEW t \in Threads,
                      pc[t] \in {"pushWrite", "pushPublish",
                                 "popRead", "popDestroy"}
               PROVE  LET s == Slot(ticket[t])
                      IN  slotData[s] = Raw <=> pc[t] = "pushWrite"
    BY <1>1 DEF StorageLifetimes
  <2> PICK s \in Slots : s = Slot(ticket[t])
    BY <1>1, SlotDivision DEF TypeOK
  <2>1. /\ pc[t] \in Claiming \cup Taking /\ alive
        /\ slotHead[s] = slotTail[s] <=> pc[t] \in Taking
    BY <1>1, Owner DEF Claiming, Taking, ContentInv
  <2>2. ASSUME NEW u \in Threads, u # t, pc[u] \in Claiming \cup Taking
        PROVE  Slot(ticket[u]) # s
    BY <1>1, <2>1, <2>2 DEF RingInv, SlotExclusive
  <2>3. Live(s) <=> pc[t] # "pushWrite"
    <3>1. CASE pc[t] = "pushWrite"
      BY <3>1, <2>1, <2>2 DEF Live, Claiming, Taking, Threads
    <3>2. CASE pc[t] = "pushPublish"
      BY <3>2, <1>1 DEF Live, TypeOK, PushPc
    <3>3. CASE pc[t] \in {"popRead", "popDestroy"}
      BY <3>3, <2>1, <2>2 DEF Live, Taking, Threads
    <3> QED
      BY <3>1, <3>2, <3>3
  <2> QED
    BY <1>1, <2>1, <2>3 DEF ContentInv
<1> QED
  BY <1>1, TypeCorrect, RingCorrect, ContentCorrect, PTL

\* A destroyed ring leaves no live element behind.
THEOREM DestructorCleansUp == Spec => []NothingLeaks
<1>1. ContentInv => NothingLeaks
  BY DEF ContentInv, NothingLeaks
<1> QED
  BY <1>1, ContentCorrect, PTL
===========================================================================
