SPECIFICATION FairSpec
CONSTANTS
  Workers = {w1, w2}
  Requests = {}
  NoRequest = none
  NoEvent = noEvent
  Sizes = {1}
  MaxSessions = 1
  MaxReplay = 0
  MaxEvents = 3
  MaxBytes = 3
  MaxTotal = 3
  QueueCap = 1
  QueueBytes = 1
  MaxIssued = 1
  MaxTurns = 1
  MaxCalls = 4
PROPERTY TeardownCompletes
CHECK_DEADLOCK FALSE
