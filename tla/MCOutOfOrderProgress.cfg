SPECIFICATION Spec
CONSTANTS
  RegisterNumber = 4
  LogicalNumber = 2
  ActiveListDepth = 2
  Word = 1
  Instructions <- WithoutData
PROPERTIES ImplementsRenaming Progress
