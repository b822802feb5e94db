SPECIFICATION RDSpec
CONSTANTS
  Tid = {1, 2}
  Mutex = {}
  Identifier = {}
  Addr = {1}
  Block <- NoBlock
  Multiplier = 4
  MaxClock = 1
  MaxDepth = 1
  Spawn <- AllRoots
  Ending = {}
  TidReuse = FALSE
INVARIANT NoMissedEarlyRead
