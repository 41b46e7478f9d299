SPECIFICATION Spec
CONSTANTS
  a = a
  b = b
  q = q
  nl = nl
  NewLine = nl
  Chars <- MCChars
  Texts <- MCTexts
  LoudTexts <- MCLoudTexts
  LineLimit = 3
  MaxEntries = 4
  ADV_LOG_MESSAGES_PER_EVENT = 1
  ResetTpls = {8}
CHECK_DEADLOCK FALSE
INVARIANTS
  UnwrittenPartIsWritten
