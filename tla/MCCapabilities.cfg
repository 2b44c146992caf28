CONSTANTS
  Family <- MCFamily
  Encoders <- MCEncoders
  MaxSize = 2
  NotSupported = NotSupported
  Failed = Failed
  LeftOut = LeftOut
  Unknown = Unknown
SPECIFICATION CapsSpec
INVARIANTS
  CapsTypeOK
  AcceptedIsReported
  MaximaExact
