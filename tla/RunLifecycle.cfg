SPECIFICATION Spec
CONSTANTS
  N = 2
  Ops = {insert}
  Durations <- MCDurations
  NoDrainer = NoDrainer
  Never = Never
  MinInterval = 2
  Interval = 2
  Deadline = 3
  MaxTime = 4
  MaxObs = 2
INVARIANTS
  TypeOK
  ResultExact
  SeriesOrdered
  CountedNotBeforeRecorded
  DurationMeansFullRun
PROPERTIES
  CollectorSpec
  FinalizedStaysFinal
