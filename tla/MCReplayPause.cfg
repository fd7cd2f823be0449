SPECIFICATION Spec
CONSTANTS
    Clients = {a}
    Session <- MCSession
    After = 0
PROPERTY PauseIsAcknowledged
CHECK_DEADLOCK FALSE
