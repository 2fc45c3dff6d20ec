CONSTANTS
  p1 = p1  p2 = p2  c1 = c1  c2 = c2  q0 = q0  q1 = q1  q2 = q2
  NoBook = NoBook  NoJournal = NoJournal  NoProc = NoProc  NoCapture = NoCapture
  Edited = Edited
  Procs <- MCProcs
  Commands <- MCCommands
  Positions <- MCPositions
  OrderAmount <- MCOrderAmount
  Fillings <- MCFillings
  OpeningHold <- MCOpeningHold
  OpeningCash = 6
  EditedFiles = {"cash"}
  LaggingMarks = {q1}
  MaxAge = 1
  MaxClock = 3
  MaxCrashes = 1
  MaxEdits = 1
  MaxTransfers = 1
SPECIFICATION Spec
INVARIANTS BookIsAPastAccount
PROPERTIES ImplementsBook TransactionsComplete
CHECK_DEADLOCK FALSE
