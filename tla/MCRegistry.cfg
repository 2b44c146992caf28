CONSTANTS
  Sizes <- MCSizes
  MaxPackets = 3
  MaxNals = 3
  None = None
  small = small
  large = large
SPECIFICATION Spec
INVARIANTS
  TypeOK
  ObjectsOwned
CHECK_DEADLOCK FALSE
