SPECIFICATION MSpec
CONSTANTS
  Thread = {t1, t2}
  ExecOnce = FALSE
  MaxBeats = 1
  MaxStarts = 2
  Null = Null
INVARIANTS
  MTypeOK
  AttachedToMe
PROPERTIES
  AnsweredIsServed
  UnloadConfirmed
  ResolverFree
  ServiceKept
CHECK_DEADLOCK FALSE
