SPECIFICATION FairSpec
CONSTANTS
    N = 4
    Units = 2
    MaxParallel = 3
    MaxRequests = 2
    Retries = 2
INVARIANTS TypeOK AtomicReplace DownloadIsExact
PROPERTIES TransferEnds IsTransfer
CHECK_DEADLOCK FALSE
