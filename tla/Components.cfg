SPECIFICATION MCSpec
CONSTANTS
  Malformed = Malformed
  DefaultWorkers = 1
  Envs <- MCEnvs
  MaxWorkers = 4
  Registered = {"oltp-jsonb"}
  BadDSNs = {"::"}
  Limit = 524288
  Limit32 = 9
  Second = 1000
  MaxAlloc = 170000
  MaxOwn = 5
  Ids = {s1, s2, s3, s4}
  Size = 3
  Nil = Nil
  Latencies = {0, 3, 70}
  Tallies <- MCTallies
  Absent = Absent
  Writers = {w1, w2}
  MinKB = 1
  MaxKB = 7
  Percents = {0, 20, 100}
  ToastThreshold = 2032
  Width = 2
INVARIANTS
  AcceptedIsSafe
  WaitsOnlyForPool
  ExactShares
  SummaryExact
  PayloadsWellFormed
PROPERTIES
  ExitCompletes
  RemembersRecent
CHECK_DEADLOCK FALSE
