SPECIFICATION MCSpec
CONSTANTS
  Parts = {"supervisor"}
  Panics = FALSE
  Names = {"Raw", "b", "server"}
  Specs <- MCSpecs
  Kinds <- MCKinds
  CategoryOf <- MCCategoryOf
  OutcomesOf <- MCOutcomesOf
  Asserting <- MCAsserting
  None = None
  Watchers = {"super", "traffic"}
  Filter <- MCFilter
  EventCap = 1
  Super = "super"
  Traffic = "traffic"
  Raw = "Raw"
  SystemKinds = {"Raw"}
  Namespaces = {"default"}
  DefaultNamespace = "default"
  PipelineSpecs <- MCPipelines
  MaxEdits = 3
  MaxTrafficEdits = 2
INVARIANT HasReferences
CHECK_DEADLOCK FALSE
