SPECIFICATION FairSpec
CONSTANTS
  N = 2
  Ops = {insert}
  Durations <- MCDurations
  NoDrainer = NoDrainer
  Never = Never
  MinInterval = 2
  Interval = 2
  Deadline = 3
  MaxTime = 4
  MaxObs = 1
PROPERTIES
  BoundedRunEnds
  ShutdownCompletes
