SPECIFICATION LocksSpec
CONSTANTS
    t1 = t1
    t2 = t2
    t3 = t3
    t4 = t4
    Threads = {t1, t2, t3}
    NoThread = NoThread
    PriorityInherited = TRUE
    MaxDepth = 2
    m1 = m1
    m2 = m2
    NoMessage = NoMessage
INVARIANTS NoMissedWake RecursiveOwned SemaphoreConserved BarrierNobodyEarly
     InitialisedOnce
PROPERTIES ImplementsMutex TicketInTurn RingImplementsQueue FlagSleepersWake EveryoneServed
CHECK_DEADLOCK FALSE
