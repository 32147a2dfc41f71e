SPECIFICATION FairSpec
CONSTANTS
  a = a
  b = b
  Process <- TwoProcesses
  Env <- ByName
  Debug = TRUE
  MaxReplicaId = 99
PROPERTIES
  ListedPeersLinked
CHECK_DEADLOCK FALSE
