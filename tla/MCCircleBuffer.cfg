\* Two pushers and two poppers race for a ring of two slots that wraps twice.
SPECIFICATION Spec
CONSTANTS
  Pushers = {p1, p2}
  Poppers = {c1, c2}
  Data = {a, b}
  Raw = Raw
  Unread = Unread
  Capacity = 2
  MaxTickets = 5
  OrderedLoads = TRUE
SYMMETRY Symmetry
INVARIANTS
  TypeOK
  SlotExclusive
  RingInv
  ContentInv
  ElementLifetimes
  SizeInRange
  NothingLeaks
PROPERTIES
  RefusalsJustified
  ImplementsFifo
