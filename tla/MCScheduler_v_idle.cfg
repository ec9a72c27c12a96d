SPECIFICATION CoreSpec
CONSTANTS
    N = 3
    OriginalPriority <- Prio112
    NPrios = 4
    f1 = f1
    m1 = m1
    Futexes = {f1}
    PIFutexes = {}
    InterruptFutexes = {f1}
    NoAddress = NoAddress
    MultiWaiters = {}
    NoMultiWaiter = NoMultiWaiter
    CyclesPerTick = 2
    Never <- MCNever
    Timeouts <- TickOrForever
    SleepKinds = {"sleep_full"}
    Counts = {1}
    MaxTime = 3
INVARIANT HighestPriorityRuns
CHECK_DEADLOCK FALSE
