SPECIFICATION Spec
CONSTANTS
  Replicas = {r1, r2, r3}
  NT = 2
  NI = 2
  NoOne = NoOne
  Ghost = Ghost
  MaxCrashes = 1
  MaxNodeLosses = 1
  MaxLockLosses = 1
  MaxErrors = 1
SYMMETRY Symmetric
INVARIANTS
  TypeOK
  RunningHasSchema
  LockProtectsDdl
CHECK_DEADLOCK FALSE
