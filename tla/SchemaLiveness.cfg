SPECIFICATION FairSpec
CONSTANTS
  Replicas = {r1, r2}
  NT = 2
  NI = 2
  NoOne = NoOne
  Ghost = Ghost
  MaxCrashes = 2
  MaxNodeLosses = 0
  MaxLockLosses = 1
  MaxErrors = 1
PROPERTIES
  EveryReplicaRuns
CHECK_DEADLOCK FALSE
