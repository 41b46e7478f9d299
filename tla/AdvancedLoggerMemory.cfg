SPECIFICATION FairSpec
CONSTANTS
  w1 = w1
  w2 = w2
  Writers <- MCWriters
  Readers = {r1}
  Lengths <- MCLengths
  LogBufferSize = 56
  MaxCalls = 2
  MAX_UINT16 = 19
  UINT32_SPAN = 8
  NULL = NULL
INVARIANTS
  EntriesTile
  SignedIsComplete
  NothingVanishes
  DiscardedSizeIsExact
  ReaderFollowsLog
PROPERTIES
  LogOnlyGrows
  EveryoneProgresses
  ImplementsMessageLog
