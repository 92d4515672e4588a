CONSTANTS
  Ops = {"div", "mul"}
  Depth = 3
  MaxSteps = 2
SPECIFICATION Spec
INVARIANTS
  DivisionsKeepTheirOperands
