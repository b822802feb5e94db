SPECIFICATION TTSpec
CONSTANTS
  Addr = {x}
  Site = {a, b}
  BufSize = 2
  MaxStack = 2
  Rates = {2}
  MaxCalls = 3
  MaxRegions = 0
  Null = Null
INVARIANT
  SampledIsTracked
CHECK_DEADLOCK FALSE
