SPECIFICATION CoreSpec
CONSTANTS
    N = 3
    OriginalPriority <- Prio123
    NPrios = 4
    f1 = f1
    m1 = m1
    Futexes = {f1}
    PIFutexes = {f1}
    InterruptFutexes = {}
    NoAddress = NoAddress
    MultiWaiters = {}
    NoMultiWaiter = NoMultiWaiter
    CyclesPerTick = 2
    Never <- MCNever
    Timeouts <- TickOrForever
    SleepKinds = {"sleep_full"}
    Counts = {3}
    MaxTime = 3
INVARIANT HighestPriorityRuns
CHECK_DEADLOCK FALSE
