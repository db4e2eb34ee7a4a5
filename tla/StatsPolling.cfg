SPECIFICATION FairSpec
CONSTANTS
  Relations = {t1, t2}
  Waits = {e1}
  None = None
  MaxIncrements = 2
  MaxResets = 1
INVARIANTS
  NeverOvercounts
  NothingLostWithoutReset
  GaugesFromOneAnswer
PROPERTIES
  AddsNeverNegative
  CountersFollow
