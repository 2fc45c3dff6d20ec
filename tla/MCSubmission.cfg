\* One intent, two processes: every race of senders and reconcilers.
SPECIFICATION Spec
CONSTANTS
  Intents = {i1}
  Workers = {w1, w2}
  IntentExpiry <- MCExpiry
  ApprovalTTL = 1
  EvidenceTTL = 2
  MaxTime = 2
  MaxDecisions = 2
SYMMETRY WorkerSymmetry
INVARIANTS TypeOK AtMostOneSend SendBacked RecordedOutcomeTrue
PROPERTY ImplementsSendOnce
CHECK_DEADLOCK FALSE
