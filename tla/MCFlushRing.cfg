SPECIFICATION Spec
CONSTANTS
  NMeta = 2
  NPages = 2
  NPlanes = 2
  MinDuplicate = 1
  MetaRetry = 1
  NTable = 8
  BlockNums = {1}
  TableRetry = 2
  Erased = Erased
  Dirty = Dirty
  MaxFlushes = 6
  MaxFaults = 2
  MaxCrashes = 1
  MaxReads = 0
VIEW FlushView
INVARIANTS Recoverable VersionIdentifies
CHECK_DEADLOCK FALSE
