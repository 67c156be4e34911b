SPECIFICATION FairSpec
CONSTANTS
  j1 = j1
  j2 = j2
  i1 = i1
  i2 = i2
  Job <- TwoJobs
  Item <- NoItems
  Content <- OneContent
  Interval = 3
  Base = 1
  Cap = 8
  Policies <- OnOrOff
  MaxRevision = 3
  MaxFaults = 2
CHECK_DEADLOCK FALSE
INVARIANTS TypeOK SingleRefresh ReadyIsCurrent ScheduleFollowsPolicy
PROPERTIES SupersededByNews 
