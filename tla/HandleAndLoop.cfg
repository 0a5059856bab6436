SPECIFICATION FairSpec
CONSTANTS
  MaxQueue = 4
  MaxTasks = 3
INVARIANTS
  TypeOK
  ContextBeforeUse
  WaitsForSender
  AwaitedIsLast
PROPERTIES
  CallsReturn
  DropReturns
CHECK_DEADLOCK FALSE
