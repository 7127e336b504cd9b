\* What the consumer sees of a frame.
SPECIFICATION Spec
CONSTANTS
  BufferSize = 3
  MaxFrames = 4
  Videos <- AllVideos
  OrderedLoads = TRUE
  Raw = Raw
  Unread = Unread
INVARIANTS
  FrameIntact
