SPECIFICATION FairSpec
CONSTANTS
    Launches = {c1, c2}
    Requests = {c2, c3}
    MaxPid = 3
    MaxCrashes = 1
INVARIANT TypeOK
INVARIANT PidNamesNode
INVARIANT OneDaemon
PROPERTY NotOlder
PROPERTY RestartServes
PROPERTY StopEnds
CHECK_DEADLOCK FALSE
