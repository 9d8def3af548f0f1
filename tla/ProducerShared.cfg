SPECIFICATION Spec
CONSTANTS
    main = main
    sender = sender
    Caller <- TwoCallers
    MaxCalls = 3
INVARIANT
    PublishedIsVisible
