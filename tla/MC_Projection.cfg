CONSTANTS
    v1 = v1
    v2 = v2
    Chain <- MCChain
    BatchLimit = 2
    MaxFaults = 2
SPECIFICATION ReadSpec
CHECK_DEADLOCK FALSE
INVARIANTS
    IngestedUnlessFault
    CountersDriftOnlyByRedelivery
PROPERTIES
    StoredIsProjected
