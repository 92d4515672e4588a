CONSTANTS
  Bits = 8
  Depth = 2
  Byte = 4
  AddressNumber = 256
  Tasks <- MCTasks
  Dump <- MCDump
  Sext <- RepeatsSign
SPECIFICATION MCSpec
INVARIANTS
  TypeOK
  DecodesImmediate
  CarrySaveKeepsProduct
  DividerInvariant
PROPERTIES
  ImplementsIsa
