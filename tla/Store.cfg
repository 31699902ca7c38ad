SPECIFICATION Spec
CONSTANTS
  m1 = m1  m2 = m2
  a1 = a1  a2 = a2  f2 = f2  a3 = a3  f3 = f3  w2 = w2  b1 = b1  c2 = c2
  r1 = r1  r2 = r2  r3 = r3  r4 = r4  r5 = r5  q1 = q1  q2 = q2
  k1 = k1  k2 = k2  k3 = k3  k4 = k4  k5 = k5  k6 = k6  k7 = k7  k8 = k8  k9 = k9
  p1 = p1  p2 = p2  v = v  w = w  data = data  e1 = e1  e2 = e2
  none = none
  Mine <- MCMine
  MessageId <- MCMessageId
  Key <- MCKey
  Period <- MCPeriod
  Body <- MCBody
  Category <- MCCategory
  WireId <- MCWireId
  NoId <- none
  Submissions <- MCSubmissions
  Responses <- MCResponses
  Acks <- MCAcks
INVARIANTS
  TypeOK
  LinearWorkflow
  ClearedByReanalysis
  OutboxFollowsLineage
  CorrectedIsLaterRevision
  BatchTakesEffectOnce
PROPERTIES
  LedgerSpec
CHECK_DEADLOCK FALSE
