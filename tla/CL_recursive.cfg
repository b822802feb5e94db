SPECIFICATION CSpec
CONSTANTS
  Tid = {1, 2}
  RuntimeTid = 1
  Mutex = {m1}
  Identifier = {1, 2}
  Addr = {1}
  Block <- NoBlock
  Multiplier = 4
  MaxClock = 2
  BufSize = 2
  MaxDepth = 2
  Spawn <- MainStartsAll
  Ending = {2}
  Annotation = {}
  None = None

PROPERTY ProgramHasRace
CHECK_DEADLOCK FALSE
