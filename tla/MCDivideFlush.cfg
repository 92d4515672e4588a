CONSTANTS
  Ops = {"div", "branch"}
  Depth = 3
  MaxSteps = 2
SPECIFICATION Spec
PROPERTY Progress
