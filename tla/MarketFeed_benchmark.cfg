SPECIFICATION Spec
CONSTANTS
  c1 = c1
  Conn = {c1}
  MaxCycle = 3
  SaveWorks = {TRUE}
CHECK_DEADLOCK FALSE
INVARIANT BenchmarkStored
