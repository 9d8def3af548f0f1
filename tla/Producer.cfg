SPECIFICATION FairSpec
CONSTANTS
    main = main
    sender = sender
    Caller <- OneCaller
    MaxCalls = 3
INVARIANTS
    TypeOK
    VisibleOnlyAfterOwnCommit
PROPERTIES
    ImplementsContract
    EveryCallReturns
