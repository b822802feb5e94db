SPECIFICATION CSpec
CONSTANTS
  Tid = {1, 2}
  RuntimeTid = 1
  Mutex = {}
  Identifier = {1, 2, 3}
  Addr = {1}
  Block <- OneBlock
  Multiplier = 4
  MaxClock = 2
  BufSize = 2
  MaxDepth = 1
  Spawn <- MainStartsAll
  Ending = {1, 2}
  Annotation = {3}
  None = None
PROPERTY ProgramHasRace
CHECK_DEADLOCK FALSE
