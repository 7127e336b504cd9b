\* Up to six frames of up to two persons through the tracker and the upload stage.
SPECIFICATION RecordSpec
CONSTANTS
  MinDuration = 3
  ForgetDelay = 3
  RectifyLength = 2
  MaxObjects = 3
  LastId = 3
  MaxDetections = 2
  MaxFrames = 6
  Persons <- TwoPersons
INVARIANTS
  TypeOK
  LostIsAge
  ForgottenInTime
  TracksInOrder
  MergingEnds
  OneTrackPerDetection
  ReportedIdIsTheTracks
  RecordsFollowTracks
  TrailsAgree
  BestShots
PROPERTIES
  KeepsIdentity
