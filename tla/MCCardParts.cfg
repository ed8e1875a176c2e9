SPECIFICATION PartsSpec
CONSTANTS
  NBlocks = 11
  DSize = 3
  PreAlloc = 1
  t1 = t1
  t2 = t2
  f = f
  x = x
  Threads = {t1, t2}
  Opener = t1
  Tools = {f}
  Ids = {x}
  Attempts = 2
  MaxCalls = 5
  MaxFaults = 1
  MaxCrashes = 1
INVARIANTS ClosedForm KeptAsTold CanBeOpened LibraryFollows OneFlush
PROPERTY CallsEnd
CHECK_DEADLOCK FALSE
