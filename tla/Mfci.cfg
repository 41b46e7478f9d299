SPECIFICATION FairSpec
CONSTANTS
  States = {customer, manufacturing}
  Customer = customer
  None = None
  Malformed = Malformed
  MaxFaults = 1
  MaxCrashes = 1
  MaxWrites = 2
INVARIANTS
  PolicyIsAuthentic
  NoChangeWithoutReset
  NeverReinstalled
  ActionsNotRepeated
PROPERTIES
  NoSilentChange
  DeviceSettles
