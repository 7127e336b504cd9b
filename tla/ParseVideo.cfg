\* Every video of up to six frames, a list of three in a ring of four.
SPECIFICATION FairSpec
CONSTANTS
  BufferSize = 3
  MaxFrames = 6
  Videos <- AllVideos
  OrderedLoads = TRUE
  Raw = Raw
  Unread = Unread
INVARIANTS
  TypeOK
  FramesInOrder
  EveryFrameQueued
  ListBounded
  ReadyIsSafe
PROPERTIES
  FinishesOnceFilled
