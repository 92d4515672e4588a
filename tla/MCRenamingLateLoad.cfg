CONSTANTS
  RegisterNumber = 4
  LogicalNumber = 2
  ActiveListDepth = 2
  Instructions <- AllInstructions
  SetReadyWins = TRUE
SPECIFICATION Spec
PROPERTY FlushedEntriesStayOut
