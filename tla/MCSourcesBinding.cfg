SPECIFICATION Spec
CONSTANTS
  j1 = j1
  j2 = j2
  i1 = i1
  i2 = i2
  Job <- OneJob
  Item <- TwoItems
  Content <- OneContent
  Interval = 1
  Base = 1
  Cap = 8
  Policies <- ManualOnly
  MaxRevision = 3
  MaxFaults = 0
SYMMETRY ItemSymmetry
CHECK_DEADLOCK FALSE
PROPERTIES ConfirmedOnly

