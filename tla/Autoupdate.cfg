SPECIFICATION FairSpec
CONSTANTS
    Loop = loop
    Jobs = {j1, j2}
    Timers = {t1, t2}
    MaxFreeze = 2
    MaxWrites = 1
    MaxTime = 2
INVARIANT TypeOK
INVARIANT NoLostUpdate
INVARIANT FrozenJobsAreSpared
PROPERTY UpdateHappens
CHECK_DEADLOCK FALSE
