SPECIFICATION FairSpec
CONSTANTS
  d1 = d1  d2 = d2  d3 = d3  g1 = g1  g2 = g2  pat = pat  rex = rex  x = x  y = y  month = month  nextMonth = nextMonth
  t1 = t1  t2 = t2  watcher = watcher  none = none
  System = watcher
  None = none
  Actor <- TwoPeople
  PeriodOf <- OnePeriod
  Draft <- OneDraft
  Report <- TwoReports
  Feed <- BothReports
  Body <- OneText
  Worker <- TwoThreads
  Configs <- AlwaysFourEyes
  BatchLimit = 2
  MaxRevision = 1
INVARIANTS
  ClaimedOnce
  NothingSkipped
  QueueNotBlocked
PROPERTIES
  EveryReportAcknowledged
  QueuedIsDelivered
CHECK_DEADLOCK FALSE
