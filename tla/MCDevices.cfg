CONSTANTS
  Last = 1
  Indices <- MCIndices
  Fds <- MCFds
  MaxChanges = 1
  MaxDecoders = 2
  None = None
SPECIFICATION Spec
INVARIANTS
  TypeOK
  DisplaysOwned
  IndexNamesListed
