SPECIFICATION FairSchedSpec
CONSTANTS
  Job = {j1}
  Request = {r1}
  EventId = {}
  MaxDue = 1
  Flow <- MCFlow
  Draft = {d1, d2}
  Thread = {t1}
  Specialist = {s1}
  ActiveLimit = 2
  QueueLimit = 1
  MaxAttempt = 1
  MaxError = 0
  MaxRestart = 1
  None = None
INVARIANTS SchedTypeOK AuthorizedOnce
PROPERTIES LaunchedAsPlanned OccurrencesEnd DeferredEnds FlowsEnd
