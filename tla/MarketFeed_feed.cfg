SPECIFICATION FairSpec
CONSTANTS
  c1 = c1
  Conn = {c1}
  MaxCycle = 3
  SaveWorks = {TRUE, FALSE}
INVARIANTS TypeOK StreamWhole SnapshotNotBehind
PROPERTIES FeedSpec DeadLeave DbDrains
CHECK_DEADLOCK FALSE
