SPECIFICATION Spec
CONSTANTS
  Configs <- DxeConfigs
  InfoSize = 2
  PreSize = 4
  FullSize = 7
  EntrySizes = {2, 3}
  MaxCalls = 5
  NULL = NULL
INVARIANTS
  SoundInfoIsAccepted
CHECK_DEADLOCK FALSE
