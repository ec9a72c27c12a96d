SPECIFICATION PairSpec
CONSTANTS
    N = 3
    OriginalPriority <- Prio112
    NPrios = 3
    f1 = f1
    m1 = m1
    Futexes = {f1}
    PIFutexes = {}
    InterruptFutexes = {}
    NoAddress = NoAddress
    MultiWaiters = {}
    NoMultiWaiter = NoMultiWaiter
    CyclesPerTick = 2
    Never <- MCNever
    Timeouts <- BlockTimeouts
    SleepKinds = {"sleep_full"}
    Counts = {1, 3}
    MaxTime = 3
INVARIANTS PairListsAgree 
PROPERTY InheritWakesHighestFirst
CHECK_DEADLOCK FALSE
