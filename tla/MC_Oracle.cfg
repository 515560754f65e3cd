\* Three operators, one of them faulty, and one round reported again and again.
SPECIFICATION MCOracleSpec
SYMMETRY Symmetric
CONSTANTS
    o1 = o1  o2 = o2  o3 = o3  feed = feed
    Reporters <- MCReporters
    Validators <- MCValidators
    Feeds <- MCFeeds
    Rounds = {1}
    Values <- MCValues
    GenesisOperators = {}
    CommitWindow = 1
    RevealWindow = 1
    MinOperatorCommits = 2
    StalenessThresholdBlocks = 2
    Width = 6
    Faulty <- MCFaulty
    MaxHeight = 6
CHECK_DEADLOCK FALSE
INVARIANTS
    ExpiriesMatchCommits
    SlashedInTime
PROPERTIES
    PriceFollowsMajority
