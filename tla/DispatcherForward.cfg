CONSTANTS
  r1 = r1
  r2 = r2
  Runs = {r1, r2}
  MaxVerifiers = 1
  VerifierCounts <- MCOneVerifier
  Attached <- MCAttached
  Verdicts <- MCVerdicts
  MaxOverlap = 1
SPECIFICATION DispatcherSpec
INVARIANT EveryProducedForwarded
CHECK_DEADLOCK FALSE
