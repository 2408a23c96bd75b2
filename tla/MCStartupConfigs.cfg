CONSTANTS
  d1 = d1
  d2 = d2
  h1 = h1
  h2 = h2
  h3 = h3
  Digests <- MCDigests
  Holders <- MCHolders
  NoDigest = NoDigest
  Temp = Temp
SPECIFICATION Spec
INVARIANT HeldFilesStay
PROPERTY NothingIsForgotten
