SPECIFICATION FairSpec
CONSTANTS
  MaxTrades = 2
  Targets <- MCTargets
  Blotter <- MCBlotter
  Window = 2
  MaxPause = 1
  MaxSummaries = 1
  MaxOutages = 2
INVARIANTS ErrorsAreOutages FalseAlarmsBounded
PROPERTIES SummaryWhole PageFollows
CHECK_DEADLOCK FALSE
