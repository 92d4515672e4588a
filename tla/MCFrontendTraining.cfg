CONSTANTS
  Words = 4
  Programs <- LoopProgram
  ActiveListDepth = 3
  PredictorKind = "binary"
  PredictorSize = 4
SPECIFICATION Spec
PROPERTIES
  TrainsOnOutcome
CHECK_DEADLOCK FALSE
