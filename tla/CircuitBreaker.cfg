SPECIFICATION MCSpec
CONSTANTS
  Breakers = {"counted", "timed"}
  MaxTimeOfTimed = 7
  Second = 1
  Callers = {c1, c2}
  FailureRateThreshold = 50
  SlowCallRateThreshold = 60
  SlidingWindowType = "Count"
  SlidingWindowSize = 3
  Permitted = 2
  MinimumNumberOfCalls = 2
  SlowCallDurationThreshold = 2
  MaxWaitDurationInHalfOpen = 0
  WaitDurationInOpen = 2
  ForcedStates = {"ForceOpen", "HalfOpen", "Closed"}
  MaxTime = 4
  MaxForced = 1
  MaxResults = 3
INVARIANTS TypeOK WindowExact HalfOpenBudget CallsOfPermittingState
PROPERTY HalfOpenDecides
CHECK_DEADLOCK FALSE
