SPECIFICATION Spec
CONSTANTS
  NChannels = 2
  Kinds = {"flash", "ram"}
  MaxCommands = 2
INVARIANTS OwnStatus
CHECK_DEADLOCK FALSE
