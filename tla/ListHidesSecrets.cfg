SPECIFICATION Spec
CONSTANTS
    Commands = {c1}
    Admins = {}
    Keys = {k1, k2}
    Hidden = {k1}
    Secret = {k2}
    Values = {v1}
    NoValue = NoValue
    Node = node
    Nobody = nobody
    MaxRuns = 1
INVARIANT ListHidesSecrets
CHECK_DEADLOCK FALSE
