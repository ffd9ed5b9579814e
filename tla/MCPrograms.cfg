SPECIFICATION Spec
CONSTANTS
    Names = {"mutex_chaser", "simple_mutex", "sys_err"}
    OS_NUM_MUTEX = 5
    Boot = {0, 3, 4, 8, 9, 13, 18}
    NULL = NULL
INVARIANTS
    ChaserKeepsOrder
    SysErrPasses
PROPERTIES
    PanicWithMutexStopsAll
