SPECIFICATION Spec
CONSTANTS
  Tickers = {1, 2}
  Sector <- OneSector
  LeadScores = {1, 2}
  Scores = {3, 5}
  MaxRuns = 2
  MaxSession = 2
  None = None
INVARIANTS
  OrdersRestOnFreshPrices
  OrdersObeyRegime
CHECK_DEADLOCK FALSE
