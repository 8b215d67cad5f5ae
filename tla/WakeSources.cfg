SPECIFICATION FairSpec
CONSTANTS
    NApps = 2
    NBindings = 1
    NTimers = 1
    AppCap = 2
    TotalCap = 3
    ScanBatch = 1
    Delays = {1}
    Intervals = {0, 1}
    MaxCommits = 2
    MaxTime = 2
    MaxSends = 1
    MaxMishaps = 1
CONSTRAINTS OneSource TimerKinds
INVARIANTS CursorMatchesMailbox TimerKeyFresh MailboxBounded
PROPERTIES TimerAccounted OthersDoNotBlock
CHECK_DEADLOCK FALSE
