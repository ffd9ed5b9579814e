SPECIFICATION Spec
CONSTANTS
    NumTasks = 3
    OS_NUM_MUTEX = 4
    NUM_DEVICES = 2
    dev_freq <- Freq2
    Boot = {0}
    MaxCreate = 3
    MayLock <- LocksInOrder
    NULL = NULL
INVARIANTS
    OnePlace
    LostOnlyAtPriorityZero
    NoCircularWait
PROPERTIES
    ImplementsFairLock
