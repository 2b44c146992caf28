CONSTANTS
  Last = 1
  Indices <- MCIndices
  Fds <- MCFds
  MaxChanges = 0
  MaxDecoders = 1
  None = None
SPECIFICATION Spec
INVARIANT IndexCorrelates
