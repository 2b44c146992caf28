CONSTANTS
  SpsIds <- MCOneId
  SpsSet <- MCIntra
  MaxUnits = 1
  Paced = FALSE
  None = None
  r1 = r1
  r2 = r2
SPECIFICATION Spec
INVARIANT NeverStarved
