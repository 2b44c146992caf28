CONSTANTS
  Threads <- MCThreads
  Exclusive = TRUE
  None = None
  t1 = t1
  t2 = t2
  t3 = t3
SPECIFICATION Spec
INVARIANTS
  TypeOK
  BracketsMatch
  InstallTruthful
PROPERTIES
  LoadedOnce
  VtableReturns
