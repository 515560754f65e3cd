\* Crashes, RPC errors, refused publications and a reorganisation.
SPECIFICATION FairWatcherSpec
CONSTANTS
    small = small  large = large
    Locks <- MCLocks
    Confirmations <- MCConfirmations
    StartBlock = 1
    MaxBlock = 6
    MaxCrashes = 1
    MaxRpcErrors = 1
    MaxBusErrors = 1
    MaxReorgs = 1
    ReorgDepth = 1
CHECK_DEADLOCK FALSE
INVARIANTS
    SkippedOnlyByFault
    PublishedDeepEnough
PROPERTIES
    DepositsPublished
