SPECIFICATION MCFairSpec
CONSTANTS
  Parts = {"supervisor", "traffic"}
  Panics = TRUE
  Names = {"Raw", "b", "server"}
  Specs <- MCSpecs
  Kinds <- MCKinds
  CategoryOf <- MCCategoryOf
  OutcomesOf <- MCOutcomesOf
  Asserting <- MCAsserting
  None = None
  Watchers = {"super", "traffic"}
  Filter <- MCFilter
  EventCap = 1
  Super = "super"
  Traffic = "traffic"
  Raw = "Raw"
  SystemKinds = {"Raw"}
  Namespaces = {"default"}
  DefaultNamespace = "default"
  PipelineSpecs <- MCPipelines
  MaxEdits = 3
  MaxTrafficEdits = 2
INVARIANTS ReferencesExact FollowsRegistry TrafficUpToDateAlone
PROPERTIES SupervisorConverges PlaneConverges
CHECK_DEADLOCK FALSE
