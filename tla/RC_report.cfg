SPECIFICATION RCSpec
CONSTANTS
  Thread = {t1, t2}
  Module <- Modules
  Addr = {0, 1, 2, 3}
  Race <- Races
  MAX = 0
  Annotated = {0, 2}
  Size = 2
  MaxOffers = 3
  Null = Null
INVARIANTS
  RCTypeOK
  InstrumentedRight
  LimitKept
  CountMatches
  OnlyWantedStreamed
  OnlyWantedReported
  WantedReported
SYMMETRY Threads
CHECK_DEADLOCK FALSE
