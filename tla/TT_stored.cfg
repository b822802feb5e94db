SPECIFICATION TTSpec
CONSTANTS
  Addr = {x}
  Site = {a, b}
  BufSize = 2
  MaxStack = 2
  Rates = {1}
  MaxCalls = 3
  MaxRegions = 1
  Null = Null
INVARIANT
  RefsOfCurrentFunction
CHECK_DEADLOCK FALSE
