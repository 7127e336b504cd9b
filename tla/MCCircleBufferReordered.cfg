\* Two pushers and the only popper, who also asks for the size, on a machine that
\* may fetch the content of a slot before its ticket.
SPECIFICATION Spec
CONSTANTS
  Pushers = {p1, p2}
  Poppers = {c1}
  Data = {a, b}
  Raw = Raw
  Unread = Unread
  Capacity = 2
  MaxTickets = 5
  OrderedLoads = FALSE
SYMMETRY Symmetry
INVARIANTS
  StorageLifetimes
  SizeInRange
