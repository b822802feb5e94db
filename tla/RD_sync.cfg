SPECIFICATION RDSpec
CONSTANTS
  Tid = {1, 2}
  Mutex = {m1}
  Identifier = {i1}
  Addr = {1}
  Block <- OneBlock
  Multiplier = 4
  MaxClock = 2
  MaxDepth = 2
  Spawn <- MainStartsAll
  Ending = {2}
  TidReuse = FALSE
INVARIANTS
  TypeOK
  OwnTid
  NoFutureKnowledge
  OneReadMode
  ReportsAreConflicts
  NoMissedRace
PROPERTY NoFalseAlarm
