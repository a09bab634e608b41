SPECIFICATION FairSpec
CONSTANTS
  t1 = t1
  t2 = t2
  acme = acme
  c1 = c1
  c2 = c2
  Trade = {t1, t2}
  NoTrade = NoTrade
  Symbol = {acme}
  SymbolOf <- OneSymbol
  Conn = {c1}
  NoConn = NoConn
  CacheLimit = 1
  MaxHistory = 2
  MaxPriced = 2
  MaxFaults = 1
  MaxRestarts = 0
INVARIANTS QueueInOrder
PROPERTIES ClosedPricedNoMore OpenReachesCache
CHECK_DEADLOCK FALSE
