SPECIFICATION Spec
CONSTANTS
  N = 2
  Ops = {insert, delete}
  Durations <- MCDurations
  Drainers = {main, loop}
  NoDrainer = NoDrainer
  MinInterval = 2
  MaxTime = 3
  MaxObs = 3
SYMMETRY Symmetric
INVARIANTS
  TypeOK
  EachCallHeldOnce
  QuiescentTotal
  SeriesSumsToTotals
  SeriesTilesRun
PROPERTY
  ClosedIntervalsFrozen
