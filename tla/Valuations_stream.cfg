SPECIFICATION FairSpec
CONSTANTS
  t1 = t1
  t2 = t2
  acme = acme
  c1 = c1
  c2 = c2
  Trade = {t1}
  NoTrade = NoTrade
  Symbol = {acme}
  SymbolOf <- OneSymbol
  Conn = {c1, c2}
  NoConn = NoConn
  CacheLimit = 1
  MaxHistory = 1
  MaxPriced = 2
  MaxFaults = 1
  MaxRestarts = 1
INVARIANTS TypeOK NothingMissed SavesAccounted ConnectionShown
PROPERTIES BlotterSettles FeedRecovers
CHECK_DEADLOCK FALSE
