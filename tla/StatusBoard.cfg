SPECIFICATION Spec
CONSTANTS
  r1 = r1
  r2 = r2
  NoRid = NoRid
  h1 = h1
  h2 = h2
  Rid = {r1, r2}
  Handler = {h1, h2}
  QueueMaxsize = 2
  ActionsLimit = 2
  Window = 1
  MaxWait = 1
  MaxBatch = 2
  MaxRequests = 2
INVARIANTS TypeOK WaitingIsShown DoneIsShown
PROPERTIES ThroughputRight
SYMMETRY BoardSymmetry
CHECK_DEADLOCK FALSE
