SPECIFICATION PoolFairSpec
CONSTANTS
  Callers = {"c1", "c2"}
  Capacity = 1
  InitSize = 0
  MaxSizes = {1}
PROPERTY SlowPathStops
