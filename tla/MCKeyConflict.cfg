SPECIFICATION FairSpec
CONSTANTS
  b1 = b1
  b2 = b2
  None = None
  Bundles <- OneBundle
  Commands = {"apply"}
  Faults = {"spawn"}
  MaxStarts = 4
  MaxGeneration = 5
PROPERTY RecoveryResolves
CHECK_DEADLOCK FALSE
