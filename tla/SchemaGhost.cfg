SPECIFICATION FairSpec
CONSTANTS
  Replicas = {r1, r2}
  NT = 2
  NI = 2
  NoOne = NoOne
  Ghost = Ghost
  MaxCrashes = 0
  MaxNodeLosses = 1
  MaxLockLosses = 0
  MaxErrors = 0
PROPERTIES
  EveryReplicaRuns
CHECK_DEADLOCK FALSE
