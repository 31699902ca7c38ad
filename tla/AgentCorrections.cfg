SPECIFICATION Spec
CONSTANTS
  d1 = d1  d2 = d2  d3 = d3  g1 = g1  g2 = g2  pat = pat  rex = rex  x = x  y = y  month = month  nextMonth = nextMonth
  t1 = t1  t2 = t2  watcher = watcher  none = none
  System = watcher
  None = none
  Actor <- TwoPeople
  PeriodOf <- TwoPeriods
  Draft <- ThreeDrafts
  Report <- NoReport
  Feed <- NoFeed
  Body <- TwoTexts
  Worker <- OneThread
  Configs <- AlwaysFourEyes
  BatchLimit = 1
  MaxRevision = 2
SYMMETRY InterchangeableDrafts
INVARIANTS
  ChainsDoNotFork
CHECK_DEADLOCK FALSE
