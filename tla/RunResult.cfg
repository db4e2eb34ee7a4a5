SPECIFICATION Spec
CONSTANTS
  Runs = {r1, r2}
  Tables = {t1, t2}
  Chunks = 2
  MaxBytes = 2
  NoFile = NoFile
  Previous = Previous
  None = None
INVARIANTS
  GrowthCoversRun
  ExitIsClean
PROPERTIES
  ReplacedAsAWhole
CHECK_DEADLOCK FALSE
