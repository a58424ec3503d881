SPECIFICATION Spec
CONSTANTS
    Names = {n1, n2}
    Runners = {r1}
    MaxJobs = 2
INVARIANT CancelStopsJob
