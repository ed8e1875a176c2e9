SPECIFICATION Spec
CONSTANTS
  NMeta = 3
  NPages = 2
  NPlanes = 3
  MinDuplicate = 2
  MetaRetry = 2
  NTable = 8
  BlockNums = {1, 2}
  TableRetry = 2
  Erased = Erased
  Dirty = Dirty
  MaxFlushes = 2
  MaxFaults = 3
  MaxCrashes = 0
  MaxReads = 1
VIEW FlushView
INVARIANTS Recoverable
CHECK_DEADLOCK FALSE
