SPECIFICATION Spec
CONSTANTS
  Replicas = {r1, r2}
  NT = 2
  NI = 2
  NoOne = NoOne
  Ghost = Ghost
  MaxCrashes = 0
  MaxNodeLosses = 0
  MaxLockLosses = 0
  MaxErrors = 0
INVARIANTS
  NoWorkersDuringIndexBuild
CHECK_DEADLOCK FALSE
