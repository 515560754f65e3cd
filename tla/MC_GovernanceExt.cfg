CONSTANTS
    v1 = v1
    v2 = v2
    Validators = {v1, v2}
    Rank <- MCRank
    Sizes = {1, 2}
    W = 3
    Bootstrap = 2
    K = 2
    KDegraded = 1
    Listed = {}
    Limits = {2}
    Rejections = {TRUE, FALSE}
    MaxHeight = 6
    Distress = {3, 4}
    MaxChanges = 2
    Witnesses = {w}
    WitnessKeys = {k1, k2}
    Payloads = {p}
    Amounts = {1}
    Funds = 2
    Tolerance = 0
    Governor = gov
    ColdMultisig = cold
    Stranger = stranger
SPECIFICATION MCSpec
CHECK_DEADLOCK FALSE
INVARIANTS
    CountDriftsOnlyByAbsence
    SettledOnce
PROPERTIES
    JailedForCause
    LaggardsEscapeOnlyByAbsence
    SlotsNotOverfilled
    PauseFreezesProposals
