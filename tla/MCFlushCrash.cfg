SPECIFICATION Spec
CONSTANTS
  NMeta = 2
  NPages = 2
  NPlanes = 3
  MinDuplicate = 2
  MetaRetry = 2
  NTable = 6
  BlockNums = {1}
  TableRetry = 2
  Erased = Erased
  Dirty = Dirty
  MaxFlushes = 5
  MaxFaults = 0
  MaxCrashes = 1
  MaxReads = 0
VIEW FlushView
INVARIANTS OpensLatest
CHECK_DEADLOCK FALSE
