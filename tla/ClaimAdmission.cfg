SPECIFICATION StartupSpec
CONSTANTS
    Wrap = 65536
    TaskSets <- Sets
    OS_NUM_MUTEX = 2
    NUM_DEVICES = 2
    dev_freq <- Freq2
    MaxCreate = 2
    MaxTicks = 2
    NULL = NULL
INVARIANTS
    AdmittedSetsFit
CHECK_DEADLOCK FALSE
