SPECIFICATION Spec
CONSTANTS
    NumTasks = 3
    OS_NUM_MUTEX = 3
    NUM_DEVICES = 2
    dev_freq <- Freq2
    Boot = {0}
    MaxCreate = 2
    NULL = NULL
    MaxStarts = 1
INVARIANTS
    ListsSound
PROPERTIES
    StepsOfTheKernel
    StartsAfresh
