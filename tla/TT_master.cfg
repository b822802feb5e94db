SPECIFICATION TTSpec
CONSTANTS
  Addr = {x}
  Site = {a, b}
  BufSize = 2
  MaxStack = 2
  Rates = {1}
  MaxCalls = 3
  MaxRegions = 0
  Null = Null
INVARIANT
  FirstThreadExcluded
CHECK_DEADLOCK FALSE
