SPECIFICATION MSpec
CONSTANTS
  Thread = {t1}
  ExecOnce = FALSE
  MaxBeats = 1
  MaxStarts = 1
  Null = Null
PROPERTY
  EarlyLookups
CHECK_DEADLOCK FALSE
