SPECIFICATION Spec
CONSTANTS
  c1 = c1
  c2 = c2
  Certs = {c1, c2}
  ZtdCert = ztd
  NoCert = none
  Batches <- BatchesDef
  MaxBatches = 2
  MaxPowerLosses = 0
  MaxWriteFailures = 0
INVARIANT AbortedIsReported
