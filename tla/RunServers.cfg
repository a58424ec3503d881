SPECIFICATION FairSpec
CONSTANTS
    Grpc = {g}
    Http = {}
    Custom = {c}
    MaxSignals = 2
INVARIANT TypeOK
INVARIANT SuccessorFindsAllFree
PROPERTY NodeStops
PROPERTY RestartHonoured
