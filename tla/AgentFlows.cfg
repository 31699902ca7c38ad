SPECIFICATION FairSpec
CONSTANTS
  Flow = {f1}
  Draft = {d1}
  Thread = {t1, t2}
  Specialist = {s1, s2}
  ActiveLimit = 1
  QueueLimit = 1
  MaxAttempt = 2
  MaxError = 1
  MaxRestart = 1
  None = None
INVARIANTS RunOnce SucceededIsWhole ActiveHasDraft
PROPERTIES CancelIsFinal PastAttemptsFrozen FlowsEnd
