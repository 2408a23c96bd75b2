SPECIFICATION FairSpec
CONSTANTS
  b1 = b1
  b2 = b2
  None = None
  Bundles <- OneBundle
  Commands = {"apply"}
  Faults = {"crash"}
  MaxStarts = 5
  MaxGeneration = 5
INVARIANT BoundedRecovery
PROPERTY
  RecoveryResolves
CHECK_DEADLOCK FALSE
