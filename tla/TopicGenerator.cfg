SPECIFICATION FairSpec
CONSTANTS
    u1 = u1
    u2 = u2
    u3 = u3
    URL = {u1, u2, u3}
    NoURL = NoURL
    Headlines <- MCHeadlines
    BATCH_SIZE = 2
    maxBatchSize = 2
    WriteLimit = 2
    MaxTopics = 3
    MaxRuns = 2
CHECK_DEADLOCK FALSE
INVARIANTS
    TypeOK
    RequestsAreAccepted
    EveryHeadlineIsAccountedFor
    StoredTopicsAreLeftAlone
PROPERTY
    EveryStepIsCounted
    GenerationEnds
