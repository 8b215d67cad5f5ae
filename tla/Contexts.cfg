SPECIFICATION Spec
CONSTANTS
    Data = {dirty, labelled}
    Tainted = {dirty}
    Labelled = {labelled}
    Owners = {o1, o2}
    Imports = {1}
    MaxContexts = 3
    MaxCommits = 4
    MaxRot = 1
    MaxApps = 3
    MaxTurns = 2
    MaxMishaps = 1
    Budget = 6
CONSTRAINT WithinBudget
SYMMETRY OwnerSymmetry
INVARIANTS ContextsDistinct TaintFollowsContent
PROPERTY ImplementsLog
CHECK_DEADLOCK FALSE
