SPECIFICATION Spec
CONSTANTS
    Wrap = 256
    dev_freq <- Freqs
    Requests = {0, 1, 10, 15, 45, 120}
    MaxTicks = 40
INVARIANTS
    SignalledOnTime
    ShortByLessThanATick
    WakesInTime
CHECK_DEADLOCK FALSE
