SPECIFICATION Spec
CONSTANTS
    p1 = p1
    p2 = p2
    c1 = c1
    c2 = c2
    c3 = c3
    Partition = {p1}
    Log <- MCOneLog
    ContentID <- MCContentID
    Malformed = Malformed
    NoMessage = NoMessage
    INSERT_BATCH_SIZE = 2
    MaxFaults = 0
INVARIANT
    ReportedIsStored
