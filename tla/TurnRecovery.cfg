SPECIFICATION FairSpec
CONSTANTS
    App = {a1}
    Msg = {1, 2}
    Slot = {w1, w2}
    Text = {x, y}
    Usage = {2}
    Limit = {}
    Wakes = {"on_event"}
    Taints = {FALSE}
    Commands = {}
    NoText = NoText
    NoApp = NoApp
    MaxTokens = 3
    MinBand = 1
    MailboxCap = 2
    MaxMishaps = 2
CONSTRAINT FewMishaps
INVARIANTS TypeOK OneHolder NeverRerun JournalOnce ChargedOnce
PROPERTIES EveryMessageSettles
