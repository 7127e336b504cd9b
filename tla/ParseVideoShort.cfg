\* A sound video that just fills the list.
SPECIFICATION FairSpec
CONSTANTS
  BufferSize = 2
  MaxFrames = 4
  Videos <- ShortVideos
  OrderedLoads = TRUE
  Raw = Raw
  Unread = Unread
PROPERTIES
  Finishes
