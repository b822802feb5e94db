SPECIFICATION RDSpec
CONSTANTS
  Tid = {1, 2, 3}
  Mutex = {m1}
  Identifier = {}
  Addr = {1}
  Block <- OneBlock
  Multiplier = 4
  MaxClock = 1
  MaxDepth = 2
  Spawn <- TwoRoots
  Ending = {2}
  TidReuse = FALSE
INVARIANT NoMissedRace
PROPERTY NoFalseAlarm
