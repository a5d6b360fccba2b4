CONSTANTS
  r1 = r1
  r2 = r2
  Runs <- MCRuns
  MaxVerifiers = 2
  VerifierCounts <- MCVerifierCounts
  Attached <- MCAttached
  Verdicts <- MCVerdicts
  MaxOverlap = 1
  s1 = s1 s2 = s2 s3 = s3 a1 = a1 a1x = a1x a2 = a2 i1 = i1 i2 = i2
  NULL = NULL Shutdown = Shutdown
  Attestations = {a1, a1x, a2}
  Ids = {i1, i2}
  IdOf <- MCIdOf
  AttestationOf <- MCTwoSubmissions
  Genuine = {a1}
  BatchIds = {b1, b2}
  Submissions = {s1, s2}
  FlushCalls = {f1}
  MaxBatchSize = 3
  MinBatchSize = 1
  MaxBatchAge = 1
  ChannelCapacity = 1
  StorageMayFail = TRUE
  MaxCrashes = 0
  Records = {1, 2, 3, 4, 5}
  Valid = {1, 2, 3, 4}
  MaxAppends = 2
SPECIFICATION PipelineSpec
INVARIANTS OneFailureCostsOneRecord RecordsBacked ForwardedDurable VerdictUnanimous OutcomeTold CleanRunsRejoin AgeBound
PROPERTIES LoadedStaysLoaded EveryRunEnds EverySubmissionSettles EveryFlushAnswered TaskExits
CHECK_DEADLOCK FALSE
