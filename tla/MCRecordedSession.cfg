SPECIFICATION RecordingSpec
CONSTANTS
    Clients = {a, b}
    Capacity = 2
    BatchSize = 2
    MaxEvents = 3
    MaxBarriers = 2
    Captured <- MCCaptured
INVARIANTS
    FlushCoversEarlierEvents
    PersistedIsReadBack
    CompleteMeansProjected
PROPERTIES
    ImplementsOrderedSink
    FlushesSettle
    StopSettles
CHECK_DEADLOCK FALSE
