SPECIFICATION Spec
CONSTANTS
  NBlocks = 5
  DSize = 2
  PreAlloc = 1
  Ids = {a, b}
  Erased = Erased
  Dirty = Dirty
SYMMETRY Symmetry
VIEW DataView
INVARIANTS Partition FreeCount UniqueIds RefusalsJustified FreeNotLive
PROPERTY StoreSpec
