SPECIFICATION RDSpec
CONSTANTS
  Tid = {1, 2}
  Mutex = {m1}
  Identifier = {}
  Addr = {1}
  Block <- NoBlock
  Multiplier = 4
  MaxClock = 4
  MaxDepth = 1
  Spawn <- AllRoots
  Ending = {}
  TidReuse = FALSE
INVARIANT OwnTid
