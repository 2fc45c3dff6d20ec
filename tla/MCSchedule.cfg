\* Two runners, two operators and one evaluator over two run ids.
SPECIFICATION Spec
CONSTANTS
  Procs = {p1, p2}
  RunIds = {r1, r2}
  Sessions = {1}
  Commands = {c1}
  Operators = {o1, o2}
  Drills = {d1}
  CycleInputs <- Cycles
  Ttl = 1
  MinSessions = 1
  MinCycles = 1
  MaxTime = 1
  MaxFaults = 1
  None = None
SYMMETRY Symmetry
INVARIANTS SucceededIsFinalized QualifiedIsEarned
PROPERTY WaitsResolveOnce
CHECK_DEADLOCK FALSE
