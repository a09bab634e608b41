SPECIFICATION Spec
CONSTANTS
  t1 = t1
  t2 = t2
  t3 = t3
  b1 = b1
  b2 = b2
  Book = {b1, b2}
  Trade = {t1, t2, t3}
  BookOf <- Books
  FairValue <- Values
  NoValue = NoValue
  Window = 2
  MaxTick = 5
  MaxRestarts = 1
INVARIANTS Aligned Chronological MetricsFresh
CHECK_DEADLOCK FALSE
