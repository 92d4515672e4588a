SPECIFICATION Spec
CONSTANTS
  RegisterNumber = 4
  LogicalNumber = 2
  ActiveListDepth = 2
  Word = 2
  Instructions <- LoadToZero
INVARIANTS RegisterZeroIsZero
