CONSTANTS
  s1 = s1 s2 = s2 s3 = s3 a1 = a1 a1x = a1x a2 = a2 i1 = i1 i2 = i2
  NULL = NULL Shutdown = Shutdown
  Attestations = {a1, a1x, a2}
  Ids = {i1, i2}
  IdOf <- MCIdOf
  Genuine = {a1, a1x}
  BatchIds = {b1, b2}
  Submissions = {s1, s2, s3}
  FlushCalls = {f1}
  AttestationOf <- MCAttestationOf
  MaxBatchSize = 2
  MinBatchSize = 2
  MaxBatchAge = 1
  ChannelCapacity = 2
  StorageMayFail = TRUE
  MaxCrashes = 1
SYMMETRY MCSymmetry
SPECIFICATION Spec
INVARIANTS StorageConsistent AuditsAgree NothingVanishes SealedIffBatched SizesBounded FlushBarrier NeverClosedUnderACaller
PROPERTIES SealedForever ImplementsSealedLog
CHECK_DEADLOCK FALSE
