SPECIFICATION SchedSpec
CONSTANTS
  Job = {j1}
  Request = {r1}
  EventId = {}
  MaxDue = 0
  Flow <- MCFlow
  Draft = {d1}
  Thread = {t1}
  Specialist = {s1}
  ActiveLimit = 2
  QueueLimit = 1
  MaxAttempt = 1
  MaxError = 1
  MaxRestart = 1
  None = None
INVARIANTS ActiveHasDraft
