SPECIFICATION Spec
CONSTANTS
  j1 = j1
  j2 = j2
  i1 = i1
  i2 = i2
  Job <- OneJob
  Item <- OneItem
  Content <- Contents
  Interval = 1
  Base = 1
  Cap = 8
  Policies <- ManualOrSafe
  MaxRevision = 4
  MaxFaults = 0
CHECK_DEADLOCK FALSE
INVARIANTS BaselineIsApplied
PROPERTIES ConfirmedOnly ConflictsWait MissingIsRetained
