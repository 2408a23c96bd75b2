SPECIFICATION Spec
CONSTANTS
  b1 = b1
  b2 = b2
  None = None
  Bundles <- OneBundle
  Commands = {"apply", "stop"}
  Faults = {"cancel"}
  MaxStarts = 2
  MaxGeneration = 3
PROPERTY FailedStopChangesNothing
