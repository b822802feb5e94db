SPECIFICATION CSpec
CONSTANTS
  Tid = {1, 2, 3}
  RuntimeTid = 1
  Mutex = {}
  Identifier = {1, 2, 3}
  Addr = {1}
  Block <- NoBlock
  Multiplier = 4
  MaxClock = 2
  BufSize = 2
  MaxDepth = 1
  Spawn <- EachStartsNext
  Ending = {}
  Annotation = {}
  None = None
PROPERTY ProgramHasRace
CHECK_DEADLOCK FALSE
