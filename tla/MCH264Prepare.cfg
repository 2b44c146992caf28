CONSTANTS
  SpsIds <- MCTwoSps
  Reqs <- MCReqs
  MaxRefs <- MCMaxRefs
  MaxUnits = 1
  Paced = TRUE
  None = None
  r1 = r1
  r2 = r2
SPECIFICATION Spec
INVARIANT SessionEnsured
