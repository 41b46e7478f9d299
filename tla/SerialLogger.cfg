SPECIFICATION FairSpec
CONSTANTS
  a = a
  b = b
  q = q
  nl = nl
  NewLine = nl
  Chars <- MCChars
  Texts <- MCTexts
  LoudTexts <- MCLoudTexts
  LineLimit = 3
  MaxEntries = 3
  ADV_LOG_MESSAGES_PER_EVENT = 1
  ResetTpls = {4, 8}
CHECK_DEADLOCK FALSE
INVARIANTS
  WrittenOnceInOrder
  OneLinePerOverrun
PROPERTIES
  ExitTakesAll
  EveryMessageIsTaken
