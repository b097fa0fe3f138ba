SPECIFICATION MCSpec
CONSTANTS
  Parts = {"registry"}
  ServerSpecs <- MCServerSpecs
  SwitchProtocol = TRUE
  RuntimeEventCap = 2
  MaxReloads = 2
  MaxFaults = 1
  MaxRound = 3
  MaxCapacity = 9
  Limits = {1, 2, 3}
  MaxResizes = 3
  MaxConns = 4
  FlowNodes <- MCFlowNodes
  SideFlows <- MCSideFlows
  MaxFlow = 3
  FilterResults = {"r"}
  Policies <- MCPolicies
  MaxLimiterTime = 8
  MaxRequests = 7
  MaxUpdates = 1
  Callers = {"c1", "c2", "c3"}
  Capacity = 2
  InitSize = 1
  MaxSizes = {1, 3}
  Names = {"a", "b"}
  Specs <- MCSpecs
  Kinds <- MCKinds
  CategoryOf <- MCCategoryOf
  OutcomesOf <- MCOutcomesOf
  Asserting <- MCAsserting
  None = None
  Watchers = {"super", "traffic"}
  Filter <- MCFilter
  EventCap = 2
  Namespaces = {"s"}
  PipelineSpecs <- MCPipelines
  ObjectSpecs <- MCObjectSpecs
  MaxInstances = 3
INVARIANT NeverBUG
CHECK_DEADLOCK FALSE
