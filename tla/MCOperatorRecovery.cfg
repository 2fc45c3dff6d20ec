SPECIFICATION FairSpec
CONSTANTS
    Commands = {c1, c2}
    Operators = {p1, p2}
    MaxFills = 2
    MaxCrashes = 1
INVARIANTS EvidenceComesFirst ReconciledIsTerminal
PROPERTIES StagedRowsStay ReconciledIsStaged
