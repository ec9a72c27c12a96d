------------------------------ MODULE MCLocks ------------------------------
(***************************************************************************)
(* The instances for TLC of the libraries that are written on futexes.  A  *)
(* behaviour is one of one of them, chosen in the initial state (library). *)
(* FlagLock and RecursiveMutex have their own variables; the others share  *)
(* place (their pc), mem, local, asleep and history.                       *)
(***************************************************************************)
EXTENDS RecursiveMutex, TLC

CONSTANTS t1, t2, t3, t4, m1, m2, NoMessage

VARIABLES library, place, mem, local, asleep, history

flagVars == <<lockWord, pc, old, timeout, holding, depth, locks>>
futexVars == <<place, mem, local, asleep, history>>
allVars == <<library, flagVars, futexVars>>

Ticket == INSTANCE TicketLock WITH Threads <- {t1, t2, t3}, Wrap <- 4, pc <- place
Sem == INSTANCE Semaphore WITH
    Threads <- {t1, t2, t3}, Getters <- {t1, t2}, MaxCount <- 2, MaxPuts <- 4, pc <- place
Barr == INSTANCE Barrier WITH
    Threads <- {t1, t2, t3, t4}, Patient <- {t1, t2, t3}, pc <- place
Cond == INSTANCE ConditionVariable WITH
    Threads <- {t1, t2, t3, t4}, Consumers <- {t1, t2}, MaxItems <- 3, pc <- place
RunOnce == INSTANCE Once WITH Threads <- {t1, t2, t3, t4}, pc <- place
Guard == INSTANCE CxxGuard WITH Threads <- {t1, t2, t3, t4}, pc <- place
Ring == INSTANCE RingBuffer WITH
    Threads <- {t1, t2, t3}, Producers <- {t1, t2}, Messages <- {m1, m2},
    BufferSize <- 2, Wrap <- 4, pc <- place

NoFutex ==
    /\ place = [t \in Threads |-> "user"]
    /\ mem = [word |-> 0]
    /\ local = [t \in Threads |-> 0]
    /\ asleep = [t \in Threads |-> "no"]
    /\ history = {}

LocksInit ==
    /\ RecursiveInit
    /\ \/ library = "FlagLock" /\ NoFutex
       \/ library = "RecursiveMutex" /\ NoFutex
       \/ library = "TicketLock" /\ Ticket!Init
       \/ library = "Semaphore" /\ Sem!Init
       \/ library = "Barrier" /\ Barr!Init
       \/ library = "ConditionVariable" /\ Cond!Init
       \/ library = "Once" /\ RunOnce!Init
       \/ library = "CxxGuard" /\ Guard!Init
       \/ library = "RingBuffer" /\ Ring!Init

\* A step of a library on the shared variables.
Futex(name, step) == library = name /\ step /\ UNCHANGED <<library, flagVars>>

LocksNext ==
    \/ library = "FlagLock" /\ Next /\ UNCHANGED <<library, depth, locks, futexVars>>
    \/ library = "RecursiveMutex" /\ RecursiveNext /\ UNCHANGED <<library, futexVars>>
    \/ Futex("TicketLock", Ticket!Next)
    \/ Futex("Semaphore", Sem!Next)
    \/ Futex("Barrier", Barr!Next)
    \/ Futex("ConditionVariable", Cond!Next)
    \/ Futex("Once", RunOnce!Next)
    \/ Futex("CxxGuard", Guard!Next)
    \/ Futex("RingBuffer", Ring!Next)

\* The steps a scheduled thread takes by itself.
Runs(t) ==
    \/ library = "FlagLock" /\ t \in Threads /\ Step(t)
       /\ UNCHANGED <<library, depth, locks, futexVars>>
    \/ t \in {t1, t2, t3} /\ Futex("TicketLock", Ticket!Step(t))
    \/ Futex("Barrier", Barr!Step(t))
    \/ Futex("Once", RunOnce!Step(t))

Releases(t) ==
    library = "FlagLock" /\ Unlock(t) /\ UNCHANGED <<library, depth, locks, futexVars>>

\* Every thread keeps running while it can, and whoever holds a flag lock and
\* is not in a call gives it back: what the clients of a lock owe it (holders
\* of a ticket lock and the callback of run_once are scheduled threads like
\* any other).
LocksSpec ==
    /\ LocksInit
    /\ [][LocksNext]_allVars
    /\ \A t \in {t1, t2, t3, t4} : WF_allVars(Runs(t))
    /\ \A t \in Threads : SF_allVars(Releases(t))

---------------------------------------------------------------------------

\* Under the clients' promise to unlock, no thread sleeps for ever in a flag
\* lock's try_lock; and upgrade_for_destruction gets every waiter out of the
\* call, with -ENOENT or a timeout, even one that would have waited forever.
FlagSleepersWake ==
    \A t \in Threads :
        /\ (library = "FlagLock" /\ pc[t] = "asleep") ~> pc[t] # "asleep"
        /\ (library = "FlagLock" /\ InDestructMode(lockWord) /\ pc[t] = "asleep")
                ~> pc[t] = "user"

\* The word of a flag lock tells who holds it, which is what the scheduler
\* and the recursive mutex go by; and a recursive mutex is owned until it was
\* unlocked as often as locked, the limit of its depth included.
RecursiveOwned ==
    WordTellsHolder /\ (library = "RecursiveMutex" => OwnedUntilBalanced)

\* One thread at a time holds a ticket lock, and tickets are served in the
\* order in which they were taken, across the wrap of the counters.
TicketInTurn ==
    [][library = "TicketLock" => Ticket!Exclusion /\ Ticket!KeepsOrder]_allVars

\* Whoever takes a ticket gets the lock, a barrier at which all threads arrive
\* lets all of them go, and every call of run_once returns.
EveryoneServed ==
    /\ \A t \in {t1, t2, t3} :
            (library = "TicketLock" /\ place[t] = "load") ~> place[t] = "held"
    /\ <>(library = "Barrier" => Barr!AllGone)
    /\ <>(library = "Once" => RunOnce!AllReturned)

\* No unit of a semaphore is lost or made up, and nobody sleeps while there
\* are units without a wake on its way.
SemaphoreConserved == library = "Semaphore" => Sem!Conserved /\ Sem!NoMissedPut

\* Nobody gets past a barrier before every thread has arrived.
BarrierNobodyEarly == library = "Barrier" => Barr!NobodyPassesEarly


\* The callback of run_once and the constructor of a static have run once,
\* and to their end, before anybody goes on.
InitialisedOnce ==
    /\ library = "Once" => RunOnce!RunsOnceBefore
    /\ library = "CxxGuard" => Guard!ConstructedOnce

\* The ring buffer implements a bounded first-in first-out queue.
RingImplementsQueue ==
    [][library = "RingBuffer" => Ring!QueueStep]_allVars

\* A wake is issued on the transitions to non-empty and non-full.
RingWakesOnTransition == library = "RingBuffer" => Ring!WakesOnTransition
=============================================================================
