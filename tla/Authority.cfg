SPECIFICATION Spec
CONSTANTS
    Apps = {a1}
    Keys = {k1}
    Subjects = {s1}
    Caveats = {c1, c2}
    Grants <- MCGrants
    Requests <- MCRequests
    Rules <- MCRules
    Mountable <- MCMountable
    MaxRevoked = 1
    MaxWitnessed = 1
    MaxTokens = 3
    MaxRecords = 4
    MaxTime = 1
    MaxMishaps = 1
CONSTRAINTS OneTopic FewRecords
SYMMETRY CaveatSymmetry
INVARIANTS HistoryHolds AllowedByChain MountsHold
CHECK_DEADLOCK FALSE
