\* The device build, one pipeline of models.cfg.
SPECIFICATION Spec
CONSTANTS
  Configs <- ModelsOnly
  Decorators <- AllDecorators
  Engines <- DeviceEngines
  Capacity = 2
  MaxPipelines = 1
  MaxFrames = 1
  MaxPersons = 2
INVARIANT OwnFeature
