SPECIFICATION Spec
CONSTANTS
    main = main
    sender = sender
    Caller <- OneCaller
    MaxCalls = 3
INVARIANT
    StartedWithProducer
