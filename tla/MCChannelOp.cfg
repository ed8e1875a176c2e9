SPECIFICATION FairSpec
CONSTANTS
  NChannels = 2
  Kinds = {"flash", "ram"}
  MaxCommands = 3
INVARIANTS Honest
PROPERTIES Returns
CHECK_DEADLOCK FALSE
