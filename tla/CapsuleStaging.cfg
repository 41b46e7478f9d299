SPECIFICATION Spec
CONSTANTS
  c1 = c1
  c2 = c2
  Images = {c1, c2}
  Torn = Torn
  NULL = NULL
  Arrays <- ArraysDef
  CAPSULE_ID_MODULO = 3
  MAX_ATTEMPTS = 1
  DEFAULT_QUEUE_MODULO = 5
  DiskSize = 3
  MaxBoots = 3
  MaxCalls = 3
  MaxFaults = 2
INVARIANTS
  IdsAreUnique
  PromisedIsDeliverable
  PromisedIsSeen
  StaleIsGone
