SPECIFICATION LSpec
CONSTANTS
  Thread = {t1, t2, t3}
  Addr = {x1, x2}
  Obj = {o1, o2, o3, o4, o5}
  None = None
  RacyFree = FALSE
SYMMETRY Interchangeable
INVARIANTS
  LTypeOK
  NoWaitCycle
  Serialised
  NoDanglingVar
