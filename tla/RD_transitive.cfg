SPECIFICATION RDSpec
CONSTANTS
  Tid = {1, 2, 3}
  Mutex = {}
  Identifier = {i1, i2}
  Addr = {1}
  Block <- NoBlock
  Multiplier = 4
  MaxClock = 1
  MaxDepth = 1
  Spawn <- AllRoots
  Ending = {}
  TidReuse = FALSE
PROPERTY NoFalseAlarm
