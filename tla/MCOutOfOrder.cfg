SPECIFICATION Spec
CONSTANTS
  RegisterNumber = 8
  LogicalNumber = 2
  ActiveListDepth = 3
  Word = 2
  Instructions <- FromRegisters
CONSTRAINT FewRetirements
INVARIANTS TypeOK QueuesMirrorActiveList WrongPathCanBeGivenBack
PROPERTIES RetiresInOrder
