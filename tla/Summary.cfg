SPECIFICATION FairSpec
CONSTANTS
    p1 = p1
    p2 = p2
    c1 = c1
    c2 = c2
    Partition = {p1, p2}
    Log <- MCLog
    ContentID <- MCContentID
    Malformed = Malformed
    NoMessage = NoMessage
    BATCH_SIZE = 1
    SummaryCalls = 2
    MAX_RETRIES = 2
    MaxFaults = 1
INVARIANTS
    TypeOK
    NoContentVanishes
    CommittedWasSettled
    UncommittedIsRecoverable
PROPERTIES
    UpMeansProgress
    OutageEnds
    ImplementsConsumer
