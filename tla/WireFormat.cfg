SPECIFICATION Spec
CONSTANTS
  MaxSerialised = 1024
  MaxMsgSize = 1050
  Size <- AroundLimit
INVARIANTS
  TypeOK
  DecodedUnlessMisread
  ErrorOnlyIfTooLong
CHECK_DEADLOCK FALSE
