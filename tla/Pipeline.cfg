\* The device build: pipelines of models.cfg or of its first models, one after
\* the other.
SPECIFICATION Spec
CONSTANTS
  Configs <- Shortened
  Decorators <- AllDecorators
  Engines <- DeviceEngines
  Capacity = 1
  MaxPipelines = 2
  MaxFrames = 3
  MaxPersons = 2
INVARIANTS
  TypeOK
  FreshInput
  FeaturePerDetection
  FirstDetectsPersons
  LinksStayInside
