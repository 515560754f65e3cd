\* Every fault at every point of the loop.
SPECIFICATION FairCosmosSpec
CONSTANTS
    n1 = n1  n2 = n2
    Burns <- MCBurns
    MaxPerBlock = 2
    MaxHeight = 4
    MaxCrashes = 1
    MaxRpcErrors = 1
    MaxBusErrors = 1
    MaxDbErrors = 1
INVARIANTS
    SkippedOnlyByFault
    BurnedIsPublished
PROPERTIES
    ObservedIsAnnounced
