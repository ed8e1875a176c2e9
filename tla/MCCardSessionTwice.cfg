SPECIFICATION SessionSpec
CONSTANTS
  t1 = t1
  t2 = t2
  f = f
  x = x
  Threads = {t1, t2}
  Opener = t1
  Tools = {}
  Ids = {x}
  Attempts = 2
  MaxCalls = 5
  MaxFaults = 0
  MaxCrashes = 0
INVARIANT CloseKeepsIds
CHECK_DEADLOCK FALSE
