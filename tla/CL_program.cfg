SPECIFICATION CSpec
CONSTANTS
  Tid = {1, 2}
  RuntimeTid = 1
  Mutex = {m1}
  Identifier = {1, 2}
  Addr = {1}
  Block <- NoBlock
  Multiplier = 4
  MaxClock = 2
  BufSize = 2
  MaxDepth = 1
  Spawn <- MainStartsAll
  Ending = {1, 2}
  Annotation = {}
  None = None
INVARIANT CTypeOK
PROPERTY ProgramHasRace
CHECK_DEADLOCK FALSE
