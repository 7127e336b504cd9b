\* The device build, two pipelines of models.cfg in a process, as the tests of
\* test_st make them.
SPECIFICATION Spec
CONSTANTS
  Configs <- ModelsOnly
  Decorators <- AllDecorators
  Engines <- DeviceEngines
  Capacity = 1
  MaxPipelines = 2
  MaxFrames = 2
  MaxPersons = 2
INVARIANT DetectionsArePersons
