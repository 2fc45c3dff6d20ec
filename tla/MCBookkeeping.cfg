CONSTANTS
  Positions = {1, 2}
  Quantities = {1}
  ExitPrices = {1, 3}
  Entry = 2
  Stop = 1
  Target = 3
  MaxRuns = 2
  MaxEdits = 2
  Tickers = {t1}
  Advice = {buy, wait}
  MaxReviews = 1
  None = None
  Blank = Blank
SPECIFICATION Spec
CONSTRAINT OneHalfAtATime
 
PROPERTIES
  ClosedStaysFrozen
  EquityCountsBooks
  
CHECK_DEADLOCK FALSE
