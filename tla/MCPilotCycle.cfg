CONSTANTS
  c1 = c1  c2 = c2  x1 = x1  b1 = b1
  NoClaim = NoClaim  NoCommand = NoCommand  NoPlan = NoPlan
  Commands <- MCCommands
  Externals <- MCExternals
  Baseline <- MCBaseline
  Inception <- MCInception
  Amount = 2
  ExpectedCosts = 0
  Costs = {0, 1}
  OrderCap = 2
  CapitalCap = 4
  PositionCap = 2
  LossStop = 2
  FiniteLossStop = 1
  MaxSubmissions = 2
  MaxPerDay = 1
  CashShare = 5
  ExternalPrincipal = 1
  Transfer = 1
  Scenarios <- MCScenarios
SPECIFICATION Spec
INVARIANTS AttributionIsTrue  OrdersStayInBudget
  CompletedMeansRecorded
PROPERTIES LossStopsOrders ReceivedOrdersResolve
CHECK_DEADLOCK FALSE
