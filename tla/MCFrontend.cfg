CONSTANTS
  Words = 3
  Programs <- AllPrograms
  ActiveListDepth = 3
  PredictorKind = "binary"
  PredictorSize = 2
SPECIFICATION Spec
INVARIANTS
  TypeOK
  StallTracksJump
  OneBranchInFlight
PROPERTIES
  RetiresInProgramOrder
  Progress
CHECK_DEADLOCK FALSE
