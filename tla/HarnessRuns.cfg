SPECIFICATION Spec
CONSTANTS
  r1 = r1
  r2 = r2
  Run <- MCRun
  Budget <- MCBudget
  Thread = {t1, t2}
  ActiveLimit = 2
  QueueLimit = 1
  MaxCall = 2
  MaxRevision = 3
  MaxFault = 1
  None = None
INVARIANTS TypeOK WrittenAsApproved CompletedIsSettled
PROPERTIES EndedIsQuiet
CHECK_DEADLOCK FALSE
