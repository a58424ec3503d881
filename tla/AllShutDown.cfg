SPECIFICATION Spec
CONSTANTS
    Grpc = {g1, g2}
    Http = {}
    Custom = {}
    MaxSignals = 0
INVARIANT AllShutDown
