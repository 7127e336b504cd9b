---------------------------- MODULE RingCapacity ----------------------------
(* The constructor of src/utils/circlebuffer.h: how a requested capacity    *)
(* becomes a power of two and a bit mask, in the arithmetic of size_t.      *)
(* CircleBuffer counts its tickets in Nat and reduces them modulo Capacity; *)
(* the properties below say when that is what the words of the code do.     *)
EXTENDS Integers

CONSTANT Width    \* bits of a size_t

ASSUME WidthAssumption == Width \in {4, 8, 16, 32, 64}

Words == 0 .. 2 ^ Width - 1
Word(n) == n % 2 ^ Width

Places == 0 .. Width - 1

\* The places where a word has a bit, and the word with its bits at given places.
Bits(w) == {b \in Places : (w \div 2 ^ b) % 2 = 1}
WordOf == [S \in SUBSET Places |-> CHOOSE w \in Words : Bits(w) = S]

a | b == WordOf[Bits(a) \cup Bits(b)]
a & b == WordOf[Bits(a) \cap Bits(b)]
shiftR(a, n) == a \div 2 ^ n

VARIABLES
  request,    \* the parameter `capacity`
  mask,       \* _capacityMask
  i,          \* the loop variable
  capacity    \* _capacity, Unset before it is assigned

vars == <<request, mask, i, capacity>>

Unset == -1

LessOne(n) == Word(n - 1)

\* A slip: the loop covers a quarter of the word.
LastShiftEarly == Width \div 4

\* sizeof(void *) * 4, half the bits of the word.
LastShift == Width \div 2

Init ==
  /\ request \in Words
  /\ mask = LessOne(request)
  /\ i = 1
  /\ capacity = Unset

\* _capacityMask |= _capacityMask >> i
Fill ==
  /\ capacity = Unset
  /\ i <= LastShift
  /\ mask' = (mask | shiftR(mask, i))
  /\ i' = 2 * i
  /\ UNCHANGED <<request, capacity>>

\* A slip: the slots are counted by the mask itself.
MakeSlotsShort ==
  /\ capacity = Unset
  /\ i > LastShift
  /\ capacity' = mask
  /\ UNCHANGED <<request, mask, i>>

\* _capacity = _capacityMask + 1 slots are made.
MakeSlots ==
  /\ capacity = Unset
  /\ i > LastShift
  /\ capacity' = Word(mask + 1)
  /\ UNCHANGED <<request, mask, i>>

Made == capacity # Unset /\ UNCHANGED vars

Next == Fill \/ MakeSlots \/ Made

Spec == Init /\ [][Next]_vars

---------------------------------------------------------------------------
Powers == {2 ^ k : k \in 0 .. Width - 1}

\* The least power of two that holds n.
Reference(n) == CHOOSE c \in Powers : c >= n /\ \A d \in Powers : d >= n => c <= d

\* The capacity is the least power of two that holds the request.  A request
\* of nothing, or of more than half the range of the word, wraps around to a
\* ring of no slot at all.
RoundsUp ==
  capacity # Unset =>
    capacity = IF request \in 1 .. 2 ^ (Width - 1) THEN Reference(request)
                                                   ELSE 0

\* Ticket & mask is the slot of the ticket: successive tickets visit the
\* slots in turn, also where the counters _tail and _head overflow, so that
\* no lap is cut short there.
SlotsInTurn ==
  capacity \notin {Unset, 0} =>
    \A n \in Words :
      /\ (n & mask) = n % capacity
      /\ (Word(n + 1) & mask) = ((n & mask) + 1) % capacity
===========================================================================
