SPECIFICATION Spec
CONSTANTS
    Grpc = {}
    Http = {h}
    Custom = {c}
    MaxSignals = 0
INVARIANT StopCancelsGroup
