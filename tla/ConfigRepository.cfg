SPECIFICATION FairSpec
CONSTANTS
    Keys = {k1}
    Prefixes = {{k1}, {}}
    Setters = {s1, s2}
    Watches = {w1, w2}
    MaxSets = 2
    NoWatch = NoWatch
INVARIANT TypeOK
INVARIANT WatchesAreTold
INVARIANT ClosedAreUnregistered
PROPERTY SetEnds
PROPERTY WatchesEnd
CHECK_DEADLOCK FALSE
