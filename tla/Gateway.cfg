SPECIFICATION FairSpec
CONSTANTS
    App = {a1}
    Channel = {c1}
    External = {x1, x2}
    MailboxCap = 1
    OutboxCap = 1
    MaxSeq = 2
    MaxClient = 1
    MaxEntries = 2
CONSTRAINT FewMessages
INVARIANTS CursorIsLatest ReplyToOrigin
CHECK_DEADLOCK FALSE
PROPERTY ReplyArrives
