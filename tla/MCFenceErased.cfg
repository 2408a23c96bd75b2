SPECIFICATION Spec
CONSTANTS
  b1 = b1
  b2 = b2
  None = None
  Bundles <- OneBundle
  Commands = {"apply"}
  Faults = {"crash"}
  MaxStarts = 2
  MaxGeneration = 2
PROPERTY FenceOutlivesProcess
