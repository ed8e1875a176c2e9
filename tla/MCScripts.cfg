SPECIFICATION ScriptsSpec
CONSTANTS
  MaxFaults = 2
  MaxPolls = 2
  Quota = 4
  PoolSize = 2
  VmCount = 2
  VmRounds = 2
  XRounds = 2
  XPolls = 2
  XFaults = 2
  MaxRuns = 2
  KindsAgain = {"text"}
  MaxUploadFaults = 1
  MaxOps = 4
  MaxCardFaults = 1
INVARIANTS SuccessIsClean LeftBehind NoRefusal PoolIsUsable KeptOrEmpty RoundsCleanUp BaseIsOld UserCanTell CommentsOnce CountsCarriedOver
PROPERTY ScriptsEnd
CHECK_DEADLOCK FALSE
