SPECIFICATION FairSpec
CONSTANTS
  r1 = r1
  r2 = r2
  Run <- MCRun
  Budget <- MCBudget
  Thread = {t1}
  ActiveLimit = 1
  QueueLimit = 1
  MaxCall = 2
  MaxRevision = 1
  MaxFault = 0
  None = None
PROPERTIES QueuedIsRun
CHECK_DEADLOCK FALSE
