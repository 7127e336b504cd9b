\* Every request that a word of eight bits can hold.
SPECIFICATION Spec
CONSTANT Width = 8
INVARIANTS
  RoundsUp
  SlotsInTurn
