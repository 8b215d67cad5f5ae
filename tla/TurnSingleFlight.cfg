SPECIFICATION Spec
CONSTANTS
    App = {a1}
    Msg = {1, 2, 3}
    Slot = {w1, w2}
    Text = {x}
    Usage = {2}
    Limit = {}
    Wakes = {"on_event"}
    Taints = {FALSE}
    Commands = {}
    NoText = NoText
    NoApp = NoApp
    MaxTokens = 6
    MinBand = 1
    MailboxCap = 3
    MaxMishaps = 0
INVARIANTS
    SingleFlight
