CONSTANTS
  r1 = r1
  r2 = r2
  Runs = {r1, r2}
  MaxVerifiers = 2
  VerifierCounts <- MCVerifierCounts
  Attached <- MCAttached
  Verdicts <- MCVerdicts
  MaxOverlap = 1
SPECIFICATION DispatcherSpec
INVARIANT EveryProducedPersisted
CHECK_DEADLOCK FALSE
