CONSTANTS
  RegisterNumber = 4
  LogicalNumber = 2
  ActiveListDepth = 2
  Instructions <- AllInstructions
  SetReadyWins = FALSE
SPECIFICATION Spec
INVARIANTS
  TypeOK
  RegistersPartitioned
  FreeListNeverUnderflows
  FreeCountIsDistance
  SpecTableIsYoungest
  FreesWhatItReplaces
  SpeculatingTracksBranch
  ReadyTracksProducer
  ProducersFinishFirst
  OldestNeverWaits
  SourcesSurvive
