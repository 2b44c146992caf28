CONSTANTS
  Slots <- MCSlots
  RefIdx <- MCRefIdx
  Reqs = {r1, r2}
  MaxFrames = 2
  Conforming = TRUE
  None = None
SPECIFICATION Spec
INVARIANTS
  TypeOK
  UsersExact
  PoolExact
  NeverStarved
PROPERTY PoolSpec
