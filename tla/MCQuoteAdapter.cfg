SPECIFICATION Spec
CONSTANTS
    s1 = s1
    Symbols = {s1}
    Script <- MCScript
    MaxAttempts = 2
    CommandCapacity = 1
    CommandBatch = 1
    QuoteCapacity = 1
    MaxCallbacks = 5
INVARIANTS
    SubscribedIsLive
    EndsAccounted
PROPERTIES
    RefusedInErrorOnly
    ReconnectEnds
CHECK_DEADLOCK FALSE
