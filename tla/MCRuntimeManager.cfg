CONSTANTS
  c1 = c1
  c2 = c2
  b1 = b1
  b2 = b2
  None = None
  Temp = Temp
  Callers <- TwoCallers
  Bundles <- TwoBundles
  MaxStarts = 2
  SignalsFail = TRUE
SPECIFICATION Spec
SYMMETRY TwoSymmetric
INVARIANTS
  OneOwnedChild
  RunningIsVerified
  
  LivingChildrenKeepFiles
PROPERTIES
  ClosedIsFinal
  ImplementsOwnedChild
