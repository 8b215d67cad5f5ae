SPECIFICATION Spec
CONSTANTS
  Workers = {w1, w2}
  Requests = {r1}
  NoRequest = none
  NoEvent = noEvent
  Sizes = {2}
  MaxSessions = 2
  MaxReplay = 1
  MaxEvents = 3
  MaxBytes = 4
  MaxTotal = 5
  QueueCap = 2
  QueueBytes = 3
  MaxIssued = 2
  MaxTurns = 2
  MaxCalls = 4
SYMMETRY WorkerSymmetry
CONSTRAINT OneOrTwo
INVARIANTS GapFree TurnGrammar RunOnce BudgetExact AbortedSilent
CHECK_DEADLOCK FALSE
