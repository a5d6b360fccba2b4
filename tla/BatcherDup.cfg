CONSTANTS
  s1 = s1 s2 = s2 s3 = s3 a1 = a1 a1x = a1x a2 = a2 i1 = i1 i2 = i2
  NULL = NULL Shutdown = Shutdown
  Attestations = {a1, a1x, a2}
  Ids = {i1, i2}
  IdOf <- MCIdOf
  Genuine = {a1, a1x, a2}
  BatchIds = {b1, b2}
  Submissions = {s1, s2, s3}
  FlushCalls = {f1}
  AttestationOf <- MCResubmitted
  MaxBatchSize = 2
  MinBatchSize = 1
  MaxBatchAge = 1
  ChannelCapacity = 2
  StorageMayFail = FALSE
  MaxCrashes = 0
SPECIFICATION Spec
INVARIANT OnlyShutdownLoses
CHECK_DEADLOCK FALSE
