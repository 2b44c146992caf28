CONSTANT MaxBuffers = 3
SPECIFICATION Spec
INVARIANTS
  TypeOK
  NothingLeaks
  Nested
PROPERTIES
  EndsWhatItBegins
  CallsReturn
CHECK_DEADLOCK FALSE
