SPECIFICATION FairSpec
CONSTANTS
    Callers = {c1, c2, c3}
    Derived = {d1}
INVARIANT TypeOK
INVARIANT DoneContract
INVARIANT ReturnedMeansClosed
PROPERTY ShutdownCompletes
PROPERTY ImplementsLatch
CHECK_DEADLOCK FALSE
