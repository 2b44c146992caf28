CONSTANTS
  RefIdx <- MCRefIdx
  Reqs = {plain, grain}
  Grain = {grain}
  MaxObus = 3
  MaxTiles = 2
  Conforming = TRUE
  None = None
SPECIFICATION Spec
INVARIANTS
  TypeOK
  UsersExact
  PoolExact
  TilesOnce
  NeverStarved
PROPERTY PoolSpec
