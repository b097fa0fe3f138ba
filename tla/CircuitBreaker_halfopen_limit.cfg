SPECIFICATION MCSpec
CONSTANTS
  Breakers = {"counted"}
  MaxTimeOfTimed = 0
  Second = 1
  Callers = {c1, c2, c3}
  FailureRateThreshold = 50
  SlowCallRateThreshold = 60
  SlidingWindowType = "Count"
  SlidingWindowSize = 2
  Permitted = 2
  MinimumNumberOfCalls = 1
  SlowCallDurationThreshold = 2
  MaxWaitDurationInHalfOpen = 1
  WaitDurationInOpen = 2
  ForcedStates = {}
  MaxTime = 6
  MaxForced = 0
  MaxResults = 4
PROPERTIES HalfOpenTimeLimit
