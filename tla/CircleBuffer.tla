--------------------------- MODULE CircleBuffer ---------------------------
(* The bounded ring of src/utils/circlebuffer.h, shared by any number of   *)
(* pushing and popping threads.  Every access to an atomic (_tail, _head,  *)
(* Node::tail, Node::head) and every access to Node::data is one action,   *)
(* so calls of different threads interleave between any two of them.       *)
(* A thread's locals are its program counter, the ticket it works on (the  *)
(* local `tail` of push, `head` of pop and size) and the value it carries. *)
EXTENDS Integers, FiniteSets

CONSTANTS
  Pushers, Poppers,  \* the threads that call push, the threads that call pop
  Data,              \* the elements (class T)
  Raw,               \* the content of storage that holds no live T
  Unread,            \* a popper that has not read Node::data yet
  Capacity,          \* _capacity, once rounded up by the constructor
  MaxTickets,        \* bound: no push is started once _tail has reached it
  OrderedLoads       \* TRUE: the x86 build.  FALSE: the armeabi-v7a build,
                     \* whose loads may be satisfied out of program order

Threads == Pushers \cup Poppers

ASSUME ThreadsAssumption == Pushers \cap Poppers = {}
ASSUME CapacityAssumption == Capacity \in Nat \ {0}
ASSUME BoundAssumption == MaxTickets \in Nat
ASSUME DataAssumption == Raw \notin Data /\ Unread \notin Data /\ Raw # Unread

VARIABLES
  tail, head,                        \* _tail, _head: the next tickets
  slotTail, slotHead, slotData,      \* Node::tail, Node::head, Node::data
  pc, ticket, val,                   \* the locals of each thread
  alive                              \* FALSE once the destructor has run

shared == <<tail, head, slotTail, slotHead, slotData>>
vars == <<tail, head, slotTail, slotHead, slotData, pc, ticket, val, alive>>

Slots == 0 .. Capacity - 1
Slot(n) == n % Capacity

PushPc == {"pushCheck", "pushClaim", "pushWrite", "pushPublish"}
PopPc == {"popCheck", "popClaim", "popRead", "popDestroy", "popRelease"}

TypeOK ==
  /\ tail \in Nat
  /\ head \in Nat
  /\ slotTail \in [Slots -> Nat]
  /\ slotHead \in [Slots -> Nat \cup {-1}]
  /\ slotData \in [Slots -> Data \cup {Raw}]
  /\ pc \in [Threads -> {"idle", "size"} \cup PushPc \cup PopPc]
  /\ \A t \in Threads : /\ pc[t] \in PushPc => t \in Pushers /\ val[t] \in Data
                        /\ pc[t] \in PopPc => t \in Poppers
  /\ ticket \in [Threads -> Nat]
  /\ val \in [Threads -> Data \cup {Raw, Unread}]
  /\ alive \in BOOLEAN

Init ==
  /\ tail = 0
  /\ head = 0
  /\ slotTail = [s \in Slots |-> s]
  /\ slotHead = [s \in Slots |-> -1]
  /\ slotData = [s \in Slots |-> Raw]
  /\ pc = [t \in Threads |-> "idle"]
  /\ ticket = [t \in Threads |-> 0]
  /\ val = [t \in Threads |-> Unread]
  /\ alive = TRUE

---------------------------------------------------------------------------
(* What the actions of a call have in common.                              *)

Goto(t, l) == pc' = [pc EXCEPT ![t] = l]

\* A call begins: t loads the counter n that it will try to claim from.
Begin(t, n, l) ==
  /\ alive
  /\ pc[t] = "idle"
  /\ ticket' = [ticket EXCEPT ![t] = n]
  /\ Goto(t, l)

\* A call ends: its locals are gone.
Return(t) ==
  /\ Goto(t, "idle")
  /\ ticket' = [ticket EXCEPT ![t] = 0]
  /\ val' = [val EXCEPT ![t] = Unread]

\* A slip: the local is reloaded with the ticket before the counter.
ClaimFailsBehind(t, counter, l) ==
  /\ ticket' = [ticket EXCEPT ![t] = counter - 1]
  /\ Goto(t, l)

\* compare_exchange_weak fails, because the counter has moved on or for no
\* reason at all, and reloads the local from the counter.
ClaimFails(t, counter, l) ==
  /\ ticket' = [ticket EXCEPT ![t] = counter]
  /\ Goto(t, l)

---------------------------------------------------------------------------
(* Actions with a slip that could have been made in the code.  They are no *)
(* part of Next: each shows that a property below notices the slip.        *)

\* push claims a ticket without looking at Node::tail.
PushCheckUntested(p) ==
  /\ pc[p] = "pushCheck"
  /\ Goto(p, "pushClaim")
  /\ UNCHANGED <<shared, ticket, val, alive>>

\* pop claims a ticket without looking at Node::head.
PopCheckUntested(c) ==
  /\ pc[c] = "popCheck"
  /\ Goto(c, "popClaim")
  /\ UNCHANGED <<shared, ticket, val, alive>>

\* pop forgets to call the destructor of what it has copied out.
PopReadKeeping(c) ==
  /\ pc[c] = "popRead"
  /\ val' = [val EXCEPT ![c] = slotData[Slot(ticket[c])]]
  /\ Goto(c, "popRelease")
  /\ UNCHANGED <<shared, ticket, alive>>

\* push publishes the slot as soon as it has claimed it.
PushClaimPublished(p) ==
  /\ pc[p] = "pushClaim"
  /\ tail = ticket[p]
  /\ tail' = tail + 1
  /\ slotHead' = [slotHead EXCEPT ![Slot(ticket[p])] = ticket[p]]
  /\ Goto(p, "pushWrite")
  /\ UNCHANGED <<head, slotTail, slotData, ticket, val, alive>>

\* pop releases the slot for the ticket after the shared counter, not after
\* the one it owns.
PopReleaseShared(c) ==
  /\ pc[c] = "popRelease"
  /\ slotTail' = [slotTail EXCEPT ![Slot(ticket[c])] = head + Capacity]
  /\ Return(c)
  /\ UNCHANGED <<tail, head, slotHead, slotData, alive>>

\* The destructor starts one element late.
DestroyShort ==
  /\ alive
  /\ \A t \in Threads : pc[t] = "idle"
  /\ slotData' = [s \in Slots |->
                    IF \E n \in head + 1 .. tail - 1 : Slot(n) = s
                      THEN Raw ELSE slotData[s]]
  /\ alive' = FALSE
  /\ UNCHANGED <<tail, head, slotTail, slotHead, pc, ticket, val>>

---------------------------------------------------------------------------
(* bool push(const T &data)                                                *)

PushLoad(p, d) ==
  /\ tail < MaxTickets
  /\ Begin(p, tail, "pushCheck")
  /\ val' = [val EXCEPT ![p] = d]
  /\ UNCHANGED <<shared, alive>>

\* The slot of the ticket is not free for it: push returns false.
PushRefuse(p) ==
  /\ pc[p] = "pushCheck"
  /\ slotTail[Slot(ticket[p])] # ticket[p]
  /\ Return(p)
  /\ UNCHANGED <<shared, alive>>

PushCheck(p) ==
  /\ pc[p] = "pushCheck"
  /\ slotTail[Slot(ticket[p])] = ticket[p]
  /\ Goto(p, "pushClaim")
  /\ UNCHANGED <<shared, ticket, val, alive>>

PushClaim(p) ==
  /\ pc[p] = "pushClaim"
  /\ tail = ticket[p]
  /\ tail' = tail + 1
  /\ Goto(p, "pushWrite")
  /\ UNCHANGED <<head, slotTail, slotHead, slotData, ticket, val, alive>>

PushClaimFails(p) ==
  /\ pc[p] = "pushClaim"
  /\ ClaimFails(p, tail, "pushCheck")
  /\ UNCHANGED <<shared, val, alive>>

\* new (&node->data) T(data)
PushWrite(p) ==
  /\ pc[p] = "pushWrite"
  /\ slotData' = [slotData EXCEPT ![Slot(ticket[p])] = val[p]]
  /\ Goto(p, "pushPublish")
  /\ UNCHANGED <<tail, head, slotTail, slotHead, ticket, val, alive>>

\* node->head.store(tail, release); return true
PushPublish(p) ==
  /\ pc[p] = "pushPublish"
  /\ slotHead' = [slotHead EXCEPT ![Slot(ticket[p])] = ticket[p]]
  /\ Return(p)
  /\ UNCHANGED <<tail, head, slotTail, slotData, alive>>

---------------------------------------------------------------------------
(* bool pop(T &result)                                                     *)

PopLoad(c) ==
  /\ Begin(c, head, "popCheck")
  /\ UNCHANGED <<shared, val, alive>>

\* The test of Node::head is a relaxed load, so nothing keeps the read of
\* Node::data after it on a machine that reorders loads: the content of the
\* slot may be fetched as soon as the slot is known.
PopFetchEarly(c) ==
  /\ ~OrderedLoads
  /\ pc[c] = "popCheck"
  /\ val[c] = Unread
  /\ val' = [val EXCEPT ![c] = slotData[Slot(ticket[c])]]
  /\ UNCHANGED <<shared, pc, ticket, alive>>

\* Nothing is published in the slot under this ticket: pop returns false.
PopRefuse(c) ==
  /\ pc[c] = "popCheck"
  /\ slotHead[Slot(ticket[c])] # ticket[c]
  /\ Return(c)
  /\ UNCHANGED <<shared, alive>>

PopCheck(c) ==
  /\ pc[c] = "popCheck"
  /\ slotHead[Slot(ticket[c])] = ticket[c]
  /\ Goto(c, "popClaim")
  /\ UNCHANGED <<shared, ticket, val, alive>>

PopClaim(c) ==
  /\ pc[c] = "popClaim"
  /\ head = ticket[c]
  /\ head' = head + 1
  /\ Goto(c, "popRead")
  /\ UNCHANGED <<tail, slotTail, slotHead, slotData, ticket, val, alive>>

PopClaimFails(c) ==
  /\ pc[c] = "popClaim"
  /\ ClaimFails(c, head, "popCheck")
  /\ val' = [val EXCEPT ![c] = Unread]
  /\ UNCHANGED <<shared, alive>>

\* result = node->data, unless the early fetch has already been made.
PopRead(c) ==
  /\ pc[c] = "popRead"
  /\ val' = IF val[c] = Unread
              THEN [val EXCEPT ![c] = slotData[Slot(ticket[c])]]
              ELSE val
  /\ Goto(c, "popDestroy")
  /\ UNCHANGED <<shared, ticket, alive>>

\* (&node->data)->~T()
PopDestroy(c) ==
  /\ pc[c] = "popDestroy"
  /\ slotData' = [slotData EXCEPT ![Slot(ticket[c])] = Raw]
  /\ Goto(c, "popRelease")
  /\ UNCHANGED <<tail, head, slotTail, slotHead, ticket, val, alive>>

\* node->tail.store(head + _capacity, release); return true
PopRelease(c) ==
  /\ pc[c] = "popRelease"
  /\ slotTail' = [slotTail EXCEPT ![Slot(ticket[c])] = ticket[c] + Capacity]
  /\ Return(c)
  /\ UNCHANGED <<tail, head, slotHead, slotData, alive>>

---------------------------------------------------------------------------
(* size_t size() const: _head first, then _tail, in two loads.             *)

SizeLoadHead(t) ==
  /\ Begin(t, head, "size")
  /\ UNCHANGED <<shared, val, alive>>

\* What size() returns if t loads _tail now.
SizeResult(t) == tail - ticket[t]

SizeReturn(t) ==
  /\ pc[t] = "size"
  /\ Return(t)
  /\ UNCHANGED <<shared, alive>>

---------------------------------------------------------------------------
(* ~CircleBuffer(): run by the last owner, when no call is in progress.    *)

Destroy ==
  /\ alive
  /\ \A t \in Threads : pc[t] = "idle"
  /\ slotData' = [s \in Slots |->
                    IF \E n \in head .. tail - 1 : Slot(n) = s
                      THEN Raw ELSE slotData[s]]
  /\ alive' = FALSE
  /\ UNCHANGED <<tail, head, slotTail, slotHead, pc, ticket, val>>

\* The ring is gone; this is how a run ends.
Gone == ~alive /\ UNCHANGED vars

PushStep(p) ==
  \/ \E d \in Data : PushLoad(p, d)
  \/ PushRefuse(p)
  \/ PushCheck(p)
  \/ PushClaim(p)
  \/ PushClaimFails(p)
  \/ PushWrite(p)
  \/ PushPublish(p)

PopStep(c) ==
  \/ PopLoad(c)
  \/ PopFetchEarly(c)
  \/ PopRefuse(c)
  \/ PopCheck(c)
  \/ PopClaim(c)
  \/ PopClaimFails(c)
  \/ PopRead(c)
  \/ PopDestroy(c)
  \/ PopRelease(c)

SizeStep(t) == SizeLoadHead(t) \/ SizeReturn(t)

Next ==
  \/ \E p \in Pushers : PushStep(p)
  \/ \E c \in Poppers : PopStep(c)
  \/ \E t \in Threads : SizeStep(t)
  \/ Destroy
  \/ Gone

Spec == Init /\ [][Next]_vars

---------------------------------------------------------------------------
(* Properties.                                                             *)

Claiming == {"pushWrite", "pushPublish"}
Taking == {"popRead", "popDestroy", "popRelease"}

\* No slot has two users: between its claim and the store that hands the
\* slot over, a call is alone with Node::data, which is not atomic.
SlotExclusive ==
  \A t, u \in Threads :
    /\ pc[t] \in Claiming \cup Taking
    /\ pc[u] \in Claiming \cup Taking
    /\ Slot(ticket[t]) = Slot(ticket[u])
    => t = u

\* Every T is constructed on raw storage and stays there until the pop that has
\* claimed it destroys it: none is overwritten in place and none dies twice.
\* Both builds keep to it, and it says nothing of when a pop copies the element.
StorageLifetimes ==
  \A t \in Threads :
    /\ pc[t] = "pushWrite" => slotData[Slot(ticket[t])] = Raw
    /\ pc[t] \in {"pushPublish", "popRead", "popDestroy"}
         => slotData[Slot(ticket[t])] # Raw

\* If loads are ordered, what a pop has copied is moreover the very element it
\* then destroys.  PopFetchEarly may copy before the storage holds any.
ElementLifetimes ==
  /\ StorageLifetimes
  /\ \A c \in Poppers :
       pc[c] = "popDestroy" => val[c] = slotData[Slot(ticket[c])]

\* A push on its current ticket is refused only by a full ring or by one pop
\* that has claimed, and not yet released, the slot the ticket needs; a pop
\* only by an empty ring or by a push that has claimed and not published.
\* (A call whose ticket is stale is refused whatever the ring holds: the
\* code returns false where it could have reloaded the counter.)
RefusalsJustified ==
  [][/\ \A p \in Pushers :
          PushRefuse(p) /\ ticket[p] = tail =>
            \/ tail - head = Capacity
            \/ \E c \in Poppers : /\ pc[c] \in Taking
                                  /\ ticket[c] = tail - Capacity
     /\ \A c \in Poppers :
          PopRefuse(c) /\ ticket[c] = head =>
            \/ head = tail
            \/ \E p \in Pushers : pc[p] \in Claiming /\ ticket[p] = head
    ]_vars

\* size() never goes below zero, where size_t would make it enormous, and
\* never exceeds the capacity when its caller is the only pusher or the only
\* popper, whatever the other side does between the two loads.
SizeInRange ==
  \A t \in Threads : pc[t] = "size" =>
    /\ SizeResult(t) >= 0
    /\ Pushers = {t} \/ Poppers = {t} => SizeResult(t) <= Capacity

\* Destroying the ring leaves no live element behind.
NothingLeaks == ~alive => \A s \in Slots : slotData[s] = Raw

---------------------------------------------------------------------------
(* Why the slots are exclusive: an inductive invariant.  Node::tail is the *)
(* ticket of the push that owns the slot, now or next; Node::head equals   *)
(* it from the publication of that push to the release of its pop, and is  *)
(* one lap behind it, or still -1, otherwise.                              *)

SlotsInLap ==
  \A s \in Slots :
    /\ Slot(slotTail[s]) = s
    /\ tail - Capacity <= slotTail[s]
    /\ slotTail[s] < head + Capacity
    /\ slotHead[s] \in {slotTail[s], slotTail[s] - Capacity, -1}
    /\ slotHead[s] = slotTail[s] => slotTail[s] < tail

PushesInLap ==
  \A p \in Pushers :
    LET n == ticket[p]
    IN  /\ pc[p] \in {"pushCheck", "pushClaim"} => n <= tail
        /\ pc[p] = "pushClaim" /\ n = tail => slotTail[Slot(n)] = n
        /\ pc[p] \in Claiming => /\ head <= n
                                 /\ n < tail
                                 /\ slotTail[Slot(n)] = n
                                 /\ slotHead[Slot(n)] # n

PopsInLap ==
  \A c \in Poppers :
    LET n == ticket[c]
    IN  /\ pc[c] \in {"popCheck", "popClaim"} => n <= head
        /\ pc[c] = "popClaim" /\ n = head => slotHead[Slot(n)] = n
        /\ pc[c] \in Taking => /\ n < head
                               /\ slotTail[Slot(n)] = n
                               /\ slotHead[Slot(n)] = n

\* The four facts that every step preserves together: the counters, each
\* slot and each call agree on the lap they are in, and no slot is shared.
RingInv ==
  /\ head <= tail
  /\ SlotsInLap
  /\ PushesInLap
  /\ PopsInLap
  /\ SlotExclusive

\* Slot s holds a live element: published and not yet destroyed by its pop,
\* or written and about to be published.
Live(s) ==
  \/ /\ slotHead[s] = slotTail[s]
     /\ \A c \in Poppers : pc[c] = "popRelease" => Slot(ticket[c]) # s
  \/ \E p \in Pushers : pc[p] = "pushPublish" /\ Slot(ticket[p]) = s

\* The storage follows the protocol of the slots: the second inductive
\* invariant, from which the lifetimes of the elements and the destructor's
\* cleanup follow.
ContentInv ==
  /\ alive => \A s \in Slots :
       /\ slotData[s] # Raw <=> Live(s)
       /\ slotHead[s] = slotTail[s] =>
            \/ head <= slotTail[s]
            \/ \E c \in Poppers : pc[c] \in Taking /\ ticket[c] = slotTail[s]
  /\ ~alive => /\ \A t \in Threads : pc[t] = "idle"
               /\ \A s \in Slots : slotData[s] = Raw

---------------------------------------------------------------------------
(* The ring implements a bounded FIFO queue.  An element is in the queue   *)
(* from the claim of its push, and out of it, in the hands of the popper,  *)
(* from the claim of its pop.                                              *)

Element(n) ==
  LET writers == {p \in Pushers : pc[p] \in Claiming /\ ticket[p] = n}
  IN  IF writers = {} THEN slotData[Slot(n)]
                      ELSE val[CHOOSE p \in writers : TRUE]

Items == IF alive THEN [i \in 1 .. tail - head |-> Element(head + i - 1)]
                  ELSE <<>>

Holding == [c \in Poppers |->
              CASE pc[c] = "popRead" -> slotData[Slot(ticket[c])]
                [] pc[c] \in {"popDestroy", "popRelease"} -> val[c]
                [] OTHER -> Unread]

Fifo == INSTANCE BoundedFifo
          WITH items <- Items, holding <- Holding, Nothing <- Unread

\* The ring loses, duplicates, invents and reorders no element, and holds at
\* most Capacity of them.
ImplementsFifo == Fifo!Spec
===========================================================================
