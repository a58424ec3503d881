SPECIFICATION FairSpec
CONSTANTS
    Commands = {c1, c2}
    Admins = {c1}
    Keys = {k1}
    Hidden = {k1}
    Secret = {}
    Values = {v1}
    NoValue = NoValue
    Node = node
    Nobody = nobody
    MaxRuns = 2
INVARIANT TypeOK
INVARIANT ReportedIsApplied
PROPERTY LocalIsLast
PROPERTY AdminOnly
PROPERTY CommandEnds
CHECK_DEADLOCK FALSE
