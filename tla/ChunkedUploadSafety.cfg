SPECIFICATION FairSpec
CONSTANTS
  ChunkCount = 2
  BlockCount = 2
  Overtake = FALSE
  MaxRestarts = 1
INVARIANTS AssembledIsWhole NothingLeftBehind
PROPERTIES UploadEnds DirectoryGoes
CHECK_DEADLOCK FALSE
