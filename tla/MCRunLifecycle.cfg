SPECIFICATION FairSpec
CONSTANTS
    Runs = {r1, r2}
    Boot = boot
    MaxLive = 1
    MaxFaults = 2
INVARIANTS TypeOK  AuditIsTrue
PROPERTIES FailedIsFinal InterruptedRunResolves
