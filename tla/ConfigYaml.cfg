CONSTANTS
  t1 = t1
  t2 = t2
  Throws = Throws
  Threads <- MCThreads
  AllNodes <- MCAllNodes
  Casts <- MCCasts
  Numerals <- MCNumerals
  Legal <- MCLegal
  Lower <- MCLower
  Statics <- MCStatics
  Reacts <- MCReacts
  Programs <- MCPrograms
  MaxLength = 3
SPECIFICATION Spec
INVARIANTS LoadedAsWritten LoadedAsListed HandlesShared RoundTrip ParsesRight
PROPERTY CallsReturn
CHECK_DEADLOCK FALSE
