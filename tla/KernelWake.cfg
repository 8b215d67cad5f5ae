SPECIFICATION FairSpec
CONSTANTS
    NApps = 1
    QueueDepth = 2
    MailboxCap = 1
    MaxFires = 2
    MaxCommits = 2
    MaxBoots = 2
    MaxStops = 1
    MaxMishaps = 1
CONSTRAINT FewExpiries
INVARIANTS NoEventLost KeyNamesOneEvent InOrder ExpiriesCounted
PROPERTY CapturedNotDropped
CHECK_DEADLOCK FALSE
PROPERTY EventuallyWoken
