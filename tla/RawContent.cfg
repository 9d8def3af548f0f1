SPECIFICATION FairSpec
CONSTANTS
    p1 = p1
    c1 = c1
    c2 = c2
    c3 = c3
    Partition = {p1}
    Log <- MCLog
    ContentID = {c1, c2, c3}
    LongContent = {c2}
    Malformed = Malformed
    NoMessage = NoMessage
    Main = Main
    Worker = {w1, w2}
    BATCH_SIZE = 2
    MaxFaults = 1
CHECK_DEADLOCK FALSE
INVARIANTS
    TypeOK
    NoContentVanishes
    CommittedWasSettled
    UncommittedIsRecoverable
PROPERTIES
    OnlyAPartialBatchStays
    ImplementsConsumer
