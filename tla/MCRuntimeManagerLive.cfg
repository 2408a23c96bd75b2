CONSTANTS
  c1 = c1
  c2 = c2
  b1 = b1
  b2 = b2
  None = None
  Temp = Temp
  Callers <- TwoCallers
  Bundles <- OneBundle
  MaxStarts = 1
  SignalsFail = FALSE
SPECIFICATION FairSpec
PROPERTIES
  CallsReturn
