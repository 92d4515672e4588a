CONSTANTS
  Ops = {"alu", "mul", "div", "branch"}
  Depth = 3
  MaxSteps = 2
SPECIFICATION MCSpec
INVARIANTS
  TypeOK
  ResultsReachTheirEntries
  IssuedIsInOneUnit
  DivisionsKeepTheirOperands
  BusyTracksDivision
PROPERTY Progress
