CONSTANTS
  SpsIds <- MCOneSps
  Reqs <- MCReqs
  MaxRefs <- MCMaxRefs
  MaxUnits = 2
  Paced = TRUE
  None = None
  r1 = r1
  r2 = r2
SPECIFICATION Spec
INVARIANTS
  TypeOK
  PoolExact
  NeverStarved
  ReturnedKept
PROPERTY PoolSpec
