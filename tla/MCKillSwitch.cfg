\* Three callers racing over an audit of at most three events.
SPECIFICATION SwitchSpec
CONSTANTS
  Callers = {p1, p2, p3}
  MaxEvents = 3
SYMMETRY CallerSymmetry
INVARIANTS TypeOK StatusIsConsistent 
PROPERTY OpensOnlyByReset
CHECK_DEADLOCK FALSE
