CONSTANTS
  SpsIds <- MCOneId
  SpsSet <- MCSps
  MaxUnits = 2
  Paced = TRUE
  None = None
  r1 = r1
  r2 = r2
SPECIFICATION Spec
INVARIANTS
  TypeOK
  PoolExact
  NeverStarved
  DecodedAsParsed
  ReturnedKept
PROPERTY PoolSpec
