SPECIFICATION FairSpec
CONSTANTS
  Workers = {w1, w2}
  NoWorker = NoWorker
  Lost = Lost
  Ids = {s1, s2}
  Nil = Nil
  Size = 1
  MaxEvents = 2
  Batch = 2
  MaxUpdates = 1
INVARIANTS
  TypeOK
  SampledIsCommitted
  CommittedIsPushed
  AuditTrail
PROPERTIES
  SkipMeansContention
  EveryOpReturns
