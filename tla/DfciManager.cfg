SPECIFICATION FairSpec
CONSTANTS
  c1 = c1
  c2 = c2
  Certs = {c1, c2}
  ZtdCert = ztd
  NoCert = none
  Batches <- BatchesDef
  MaxBatches = 2
  MaxPowerLosses = 1
  MaxWriteFailures = 1
INVARIANTS
  AllOrNothing
  UsersHaveOwner
  KeysAreStored
  ReplayOnlyOfPartner
  OwnReplayIsAccepted
  RoundHasData
PROPERTIES
  LowestVersionHolds
  MailboxesSettle
