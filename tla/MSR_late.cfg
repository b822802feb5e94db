SPECIFICATION MSpec
CONSTANTS
  Thread = {t1}
  ExecOnce = FALSE
  MaxBeats = 1
  MaxStarts = 1
  Null = Null
PROPERTY
  LateLookups
CHECK_DEADLOCK FALSE
