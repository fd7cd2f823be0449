SPECIFICATION Spec
CONSTANTS
    Clients = {a, b}
    Session <- MCSession
    After = 2
INVARIANTS
    PublishesInOrder
    SleepingWorkerIsWoken
PROPERTIES
    StopTerminates
    PlaybackEnds
CHECK_DEADLOCK FALSE
