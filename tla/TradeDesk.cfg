SPECIFICATION Spec
CONSTANTS
  b1 = b1
  b2 = b2
  n1 = n1
  n2 = n2
  t1 = t1
  t2 = t2
  g1 = g1
  g2 = g2
  c1 = c1
  c2 = c2
  NoRow = NoRow
  NoName = NoName
  NoBook = NoBook
  NoThread = NoThread
  Book = {b1, b2}
  Name = {n1, n2}
  TradeId = {t1, t2}
  Thread = {g1, g2}
  Caller = {c1, c2}
  MaxBatch = 1
  MaxFaults = 1
  BatchSize = 2
  MaxAttempts = 2
  r1 = r1
  ForeignId = {r1}
  MaxIntentions = 2
  MaxRequests = 4
INVARIANTS DeletedTakesNoMore OneMoreAtMost RunningMeansAlive TwoOnlyAfterRestart
PROPERTIES OnlyPostRevives
SYMMETRY DeskSymmetry
CHECK_DEADLOCK FALSE
