SPECIFICATION FairSpec
CONSTANTS
  Source = {s1}
  Required = {s1}
  Instance = {i1, i2}
  Handler = {h1, h2}
  MaxRevision = 2
  MaxTrouble = 1
  None = None
  Gone = Gone
INVARIANTS TypeOK AssignedIsUnderway DeliveredIsHeld RejectedIsWithoutEffect
PROPERTIES ObservationsEnd
CHECK_DEADLOCK FALSE
