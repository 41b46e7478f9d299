SPECIFICATION Spec
CONSTANTS
  States = {customer, manufacturing}
  Customer = customer
  None = None
  Malformed = Malformed
  MaxFaults = 0
  MaxCrashes = 0
  MaxWrites = 2
PROPERTY RejectionProceedsToOs
