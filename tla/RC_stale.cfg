SPECIFICATION RCSpec
CONSTANTS
  Thread = {t1}
  Module <- Modules
  Addr = {0, 1, 2, 3}
  Race <- Races
  MAX = 0
  Annotated = {0, 2}
  Size = 2
  MaxOffers = 1
  Null = Null
INVARIANT LoadedFound
CHECK_DEADLOCK FALSE
