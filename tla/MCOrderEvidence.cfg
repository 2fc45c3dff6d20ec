CONSTANTS
  Horizon = 7
  Midnight = 4
  MandateEnd = 6
  Lags = {0, 1}
  MaxRequest = 1
  MaxCapture = 2
  MaxAge = 3
  FiniteMargin = 1
  StateAge = 2
  Handoff = 1
  UsageAge = 3
  PreviewLife = 6
  IntentLife = 6
  ApprovalAge = 5
  DecisionAge = 3
SPECIFICATION OrderSpec
INVARIANTS FreshWhenDispatched DispatchedInAuthority
CHECK_DEADLOCK FALSE
