SPECIFICATION Spec
CONSTANTS
    NApps = 1
    QueueDepth = 2
    MailboxCap = 1
    MaxFires = 0
    MaxCommits = 2
    MaxBoots = 1
    MaxStops = 0
    MaxMishaps = 1
PROPERTY RollbackKeepsPosts
CHECK_DEADLOCK FALSE
