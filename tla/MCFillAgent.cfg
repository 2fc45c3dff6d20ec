\* Four fills over three runs: partial closes, refused and malformed fills, kills, restores.
SPECIFICATION Spec
CONSTANTS
  FillKinds <- MCFillKinds
  StartingCash = 10
  MaxFills = 4
  MaxRuns = 3
INVARIANTS CashMatchesMarks BooksBalance
CHECK_DEADLOCK FALSE
