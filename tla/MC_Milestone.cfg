\* Milestones over fresh and stale feeds, with a restart at any time.
SPECIFICATION MCVestingSpec
CONSTANTS
    op = op  f1 = f1  f2 = f2  m1 = m1  m2 = m2  m3 = m3
    Reporters = {op}
    Validators = {}
    Feeds = {f1, f2}
    Rounds = {1}
    Values = {0, 1}
    GenesisOperators = {op}
    CommitWindow = 1
    RevealWindow = 1
    MinOperatorCommits = 1
    StalenessThresholdBlocks = 1
    Width = 2
    Faulty = {}
    MaxHeight = 4
    Plans <- MCPlans
    Targets = {1, 2}
    FeedOrder <- MCFeedOrder
    IdOrder <- MCIdOrder
    MaxActiveMilestones = 2
    EscrowFunds = 2
CHECK_DEADLOCK FALSE
INVARIANTS
    IndexMatchesStates
    AchievedPaysOnce
PROPERTIES
    SettledOnFreshPrice
