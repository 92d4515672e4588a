CONSTANTS
  Data = {a, b}
  Depth = 5
  DefaultCount = 3
SPECIFICATION Spec
INVARIANTS TypeOK CountIsDistance ChooseIsOldestMatch
PROPERTY IsBoundedFifo
