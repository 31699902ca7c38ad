SPECIFICATION Spec
CONSTANTS
  d1 = d1  d2 = d2  d3 = d3  g1 = g1  g2 = g2  pat = pat  rex = rex  x = x  y = y  month = month  nextMonth = nextMonth
  t1 = t1  t2 = t2  watcher = watcher  none = none
  System = watcher
  None = none
  Actor <- TwoPeople
  PeriodOf <- OnePeriod
  Draft <- OneDraft
  Report <- OneReport
  Feed <- FirstReport
  Body <- TwoTexts
  Worker <- OneThread
  Configs <- ChangingConfigs
  BatchLimit = 1
  MaxRevision = 2
SYMMETRY InterchangeableTexts
INVARIANTS
  TypeOK
  QueuedIsFrozen
  ReviewedBeforeSending
PROPERTIES
  ConfirmedAsSaved
CHECK_DEADLOCK FALSE
