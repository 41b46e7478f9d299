SPECIFICATION Spec
CONSTANTS
  Configs <- AllConfigs
  InfoSize = 2
  PreSize = 4
  FullSize = 7
  EntrySizes = {2, 3}
  MaxCalls = 5
  NULL = NULL
INVARIANTS
  OneLog
  LogSurvives
  PeiLogIsSound
CHECK_DEADLOCK FALSE
