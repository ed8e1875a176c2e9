SPECIFICATION Spec
CONSTANTS
  NChannels = 1
  Kinds = {"flash"}
  MaxCommands = 2
INVARIANTS OkIsTrue
CHECK_DEADLOCK FALSE
