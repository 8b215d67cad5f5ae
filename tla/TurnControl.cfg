SPECIFICATION Spec
CONSTANTS
    App = {a1}
    Msg = {1, 2}
    Slot = {w1, w2}
    Text = {x}
    Usage = {2}
    Limit = {3}
    Wakes = {"on_event"}
    Taints = {TRUE}
    Commands = {"state", "retire", "mailbox"}
    NoText = NoText
    NoApp = NoApp
    MaxTokens = 3
    MinBand = 1
    MailboxCap = 1
    MaxMishaps = 1
SYMMETRY Symmetry
INVARIANTS
    TaintCarried ServingWithinBudget
PROPERTIES
    SettledIsFinal ImplementsLedger
