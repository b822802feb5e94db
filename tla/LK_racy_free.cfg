SPECIFICATION LSpec
CONSTANTS
  Thread = {t1, t2}
  Addr = {x1}
  Obj = {o1, o2}
  None = None
  RacyFree = TRUE
INVARIANT NoDanglingVar
