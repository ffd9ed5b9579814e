SPECIFICATION Spec
CONSTANTS
    NumTasks = 3
    OS_NUM_MUTEX = 3
    NUM_DEVICES = 4
    dev_freq <- FreqReal
    Boot = {0, 7}
    MaxCreate = 3
    MayLock <- OneLockOnly
    NULL = NULL
INVARIANTS
    CeilingHolds
    NoTaskLost
PROPERTIES
    OrderLostOnlyByUnlock
    TickRestoresOrder
    MostUrgentServed
