\* Every interleaving, with a crash, a redelivery, a failed broadcast and a
\* lost vote.
SPECIFICATION FairRoundSpec
CONSTANTS
    me = me  p1 = p1  p2 = p2
    Relayers <- MCRelayers
    Self = me
    Quorum = 2
    Kind = "lock"
    WatcherLags = TRUE
    MaxSteps = 2
    MaxRetries = 1
    MaxTicks = 2
    MaxCrashes = 1
    MaxRedeliveries = 1
    MaxSendErrors = 1
    MaxLostVotes = 1
CHECK_DEADLOCK FALSE
INVARIANTS
    BroadcastHasQuorum
    BroadcastsBounded
PROPERTIES
    ReadyIsSubmitted
    OwnVoteCounted
