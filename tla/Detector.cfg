\* A frame with up to three bodies, two heads, one face and two packages.
SPECIFICATION FairSpec
CONSTANTS
  Scores = {1, 2}
  BoxThreshold = 2
  Costs = {1, 2, 3}
  Gate = 2
  Far = 9
  MaxPackages = 1
  MaxCandidates <- Few
INVARIANTS
  TypeOK
  BestOfEachCluster
  Stable
  OnePersonPerBody
PROPERTIES
  StageEnds
