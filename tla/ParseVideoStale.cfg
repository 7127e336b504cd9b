\* What the consumer pops on a machine that reorders loads.
SPECIFICATION Spec
CONSTANTS
  BufferSize = 3
  MaxFrames = 4
  Videos <- AllVideos
  OrderedLoads = FALSE
  Raw = Raw
  Unread = Unread
INVARIANTS
  FramesInOrder
