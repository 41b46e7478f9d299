SPECIFICATION Spec
CONSTANTS
  Handles = {h1}
  LogFiles = 2
  DEBUG_LOG_FILE_SIZE = 3
  MarkerSize = 1
  Texts = {2}
  MaxEntries = 2
  ResetTpls = {4, 8, 16}
  MaxBoots = 3
  MaxFaults = 1
  NULL = NULL
CHECK_DEADLOCK FALSE
INVARIANTS
  FileHoldsTheLog
  ListedIsComplete
  OldLogsAreKept
PROPERTIES
  FlushIsComplete
