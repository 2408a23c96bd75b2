SPECIFICATION Spec
CONSTANTS
  b1 = b1
  b2 = b2
  None = None
  Bundles <- TwoBundles
  Commands <- CommandKinds
  Faults = {"save", "cancel", "read", "slow", "spawn", "commit", "crash"}
  MaxStarts = 3
  MaxGeneration = 3
SYMMETRY Symmetry
INVARIANTS
  RestingServiceIsOnRecord
  SelectionIsSound
  HistoryIsClosed
PROPERTIES
  EvidenceFencesTheLiving
  
CHECK_DEADLOCK FALSE
