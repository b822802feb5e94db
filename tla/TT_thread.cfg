SPECIFICATION TTSpec
CONSTANTS
  Addr = {x}
  Site = {a, b}
  BufSize = 2
  MaxStack = 2
  Rates = {1, 2}
  MaxCalls = 3
  MaxRegions = 2
  Null = Null
INVARIANTS
  TTTypeOK
  DeliveredOnce
  ExcludedNotRecorded
  TrackedAgain
  DepotFollows
  FramesKept
  ReportedStack
SYMMETRY Sites
CHECK_DEADLOCK FALSE
