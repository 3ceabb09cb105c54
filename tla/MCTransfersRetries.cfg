SPECIFICATION Spec
CONSTANTS
    N = 2
    Units = 2
    MaxParallel = 2
    MaxRequests = 2
    Retries = 1
INVARIANT NeverCrashes
CHECK_DEADLOCK FALSE
