SPECIFICATION FairSpec
CONSTANTS
  Keys = {"a", "b"}
  Values = {1, 2}
  Configs <- MCConfigs
  Empty <- MCEmpty
  MaxRevision = 3
  ChanCap = 1
INVARIANTS TypeOK ComparesContents
PROPERTIES ImplementsStream ConsumerConverges
