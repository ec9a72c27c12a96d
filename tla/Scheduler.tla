----------------------------- MODULE Scheduler -----------------------------
(***************************************************************************)
(* The CHERIoT scheduler: sdk/core/scheduler/{thread.h,timer.h,main.cc,     *)
(* multiwait.h}.  One core runs the threads; every scheduler entry point    *)
(* runs with interrupts disabled.  An entry point is cut at the calls of    *)
(* the member functions of Thread: `kernel.at' says which of them comes     *)
(* next, and only when it is "user" may the running thread, the clock or an *)
(* interrupt act, so a handler is indivisible although it takes several     *)
(* steps.  (Each step is then one C++ function, and a loop is one step per  *)
(* thread visited.)                                                         *)
(*                                                                         *)
(* A thread that blocks in an entry point finishes that entry point, still  *)
(* with interrupts disabled, when it is next scheduled: `call' holds the    *)
(* locals it needs.  Time passes only outside the scheduler.                *)
(***************************************************************************)
EXTENDS ThreadLists, FiniteSets

CONSTANTS
    N,                  \* CONFIG_THREADS_NUM
    OriginalPriority,   \* the priority of each thread in the firmware image
    NPrios,             \* CONFIG_THREAD_MAX_PRIORITY + 1
    Futexes,            \* addresses of futex words
    PIFutexes,          \* those used with FutexPriorityInheritance
    InterruptFutexes,   \* those of the interrupt controller
    NoAddress,          \* address 0
    MultiWaiters,       \* multiwaiter objects
    NoMultiWaiter,      \* nullptr
    CyclesPerTick,      \* TIMERCYCLES_PER_TICK
    Never,              \* the expiry time -1
    Timeouts,           \* the timeout arguments the threads use
    SleepKinds,         \* "sleep", and "sleep_full" with ThreadSleepNoEarlyWake
    Counts,             \* the counts futex_wake is called with
    MaxTime             \* bound on the clock

Threads == 1 .. N   \* thread IDs
NoThread == 0       \* no thread has this ID: the idle thread

ASSUME PriorityAssumption ==
    /\ N \in Nat \ {0}
    /\ NPrios \in Nat \ {0}
    /\ OriginalPriority \in [Threads -> 0 .. NPrios - 1]
ASSUME NoneAssumption ==
    /\ NoAddress \notin Futexes
    /\ NoMultiWaiter \notin MultiWaiters
    /\ PIFutexes \subseteq Futexes
    /\ InterruptFutexes \subseteq Futexes \ PIFutexes
ASSUME TimeAssumption ==
    /\ CyclesPerTick \in Nat \ {0}
    /\ Never \in Nat
    /\ Timeouts \subseteq [kind : {"relative", "absolute"}, value : Nat]
    /\ SleepKinds \subseteq {"sleep", "sleep_full"}
    /\ Counts \subseteq Nat
    /\ MaxTime \in Nat

VARIABLES
    current,            \* the running thread, NoThread for the idle thread
    state,              \* Ready, Suspended or Exited
    priority,           \* the current priority, boosts included
    priorityList,       \* the run queue of each priority
    priorityMap,        \* the bits of priorityMap that are set
    highestPriority,
    waitingList,        \* every suspended thread, by expiry time
    expiryTime,         \* when a sleeper expires; when a runner was scheduled
    sleepQueue,         \* the list a sleeper is on besides waitingList
    yielding,           \* the threads with isYielding set
    futexWaitingList,   \* the threads in futex_timed_wait, by priority
    futexWaitAddress,
    inheriting,         \* the threads with futexPriorityInheriting set
    boosted,            \* futexPriorityBoostedThread
    multiList,          \* MultiWaiterInternal::threads
    multiWaiter,        \* the object each thread is blocked on
    events,             \* the futexes registered with each multiwaiter
    live,               \* the multiwaiters that have not been deallocated
    owner,              \* the low 16 bits of a priority-inheriting futex word
    now,                \* the cycle timer
    ticksSinceBoot,
    timer,              \* the timer comparator, Never when cleared
    call,               \* the entry point each thread is blocked in
    kernel              \* where the scheduler is, and its locals

queueVars == <<state, priority, priorityList, priorityMap, highestPriority,
               waitingList, sleepQueue, futexWaitingList, multiList>>
futexVars == <<futexWaitAddress, inheriting, boosted, owner>>
multiVars == <<multiWaiter, events, live>>
timeVars == <<now, ticksSinceBoot, timer>>
vars == <<current, queueVars, expiryTime, yielding, futexVars, multiVars,
          timeVars, call, kernel>>

Priorities == 0 .. NPrios - 1
Queues == {"none", "futex", "multi"}
Phases == {"boot", "user", "boost", "suspend", "yield", "wake", "wakeyield", "delete",
           "expire", "schedule", "skip", "resume"}

NoTimeout == [kind |-> "relative", value |-> 0]
NoCall == [op |-> "none", timeout |-> NoTimeout, start |-> 0,
           owner |-> NoThread, object |-> NoMultiWaiter]
User == [at |-> "user", then |-> "user", target |-> NoThread, boost |-> 0,
         key |-> NoAddress, count |-> 0, woke |-> 0, caller |-> "none",
         object |-> NoMultiWaiter, decision |-> "none"]

InUser == kernel.at = "user"
\* The running thread may call the scheduler.
Running == InUser /\ current # NoThread /\ call[current].op = "none"
Goto(phase) == kernel' = [kernel EXCEPT !.at = phase]

---------------------------------------------------------------------------
(* Seeded faults: each is a plausible slip in one helper, and one of the   *)
(* properties below is violated when it replaces that helper.              *)


\* The tick counter is advanced only when the system is idle.
TicksWhenIdle(time) ==
    IF priorityMap # {} THEN ticksSinceBoot ELSE time \div CyclesPerTick

\* expiretimers does not count a sleeper whose time is exactly now.
ExpiredStrictly(t) == expiryTime[t] < now


\* futex_wake looks for peers before it looks for higher priorities.
ShouldYieldToPeers ==
    IF kernel.woke = 0 \/ Len(priorityList[priority[current]]) = 1 THEN "NoYield"
    ELSE IF now >= expiryTime[current] + CyclesPerTick THEN "YieldNow"
    ELSE "YieldLater"

\* ready leaves a thread on the list of multiwaiters.
LeaveFutexQueue(t, queue, list) ==
    IF sleepQueue[t] = queue /\ queue = "futex" THEN ListRemove(list, t) ELSE list

---------------------------------------------------------------------------
(* Helpers of ThreadImpl.  They are used with the values that the calling  *)
(* step has computed so far.                                               *)

any_ready == priorityMap # {}

\* clz(priorityMap)
Highest(map) == IF map = {} THEN 0 ELSE CHOOSE p \in map : \A q \in map : q <= p

\* priority_map_remove, after `lists' has lost a thread of priority p.
MapRemove(lists, p, map) ==
    IF lists[p] = <<>>
    THEN /\ priorityMap' = map \ {p}
         /\ highestPriority' = Highest(map \ {p})
    ELSE /\ priorityMap' = map
         /\ UNCHANGED highestPriority

\* Leave the sleep queue, if that is the one the thread is on.
LeaveSleepQueue(t, queue, list) ==
    IF sleepQueue[t] = queue THEN ListRemove(list, t) ELSE list

\* ready(reason): off the timer list and the sleep queue, on to the run queue.
\* A wake by the timer also clears the union that holds the futex or
\* multiwaiter state.
MakeReady(t, reason) ==
    LET p == priority[t]
    IN  /\ waitingList' = ListRemove(waitingList, t)
        /\ futexWaitingList' = LeaveSleepQueue(t, "futex", futexWaitingList)
        /\ multiList' = LeaveSleepQueue(t, "multi", multiList)
        /\ sleepQueue' = [sleepQueue EXCEPT ![t] = "none"]
        /\ state' = [state EXCEPT ![t] = "Ready"]
        /\ IF priorityList[p] = <<>>
           THEN /\ priorityMap' = priorityMap \cup {p}
                /\ highestPriority' = IF p > highestPriority THEN p ELSE highestPriority
           ELSE UNCHANGED <<priorityMap, highestPriority>>
        /\ IF reason = "Timer"
           THEN /\ multiWaiter' = [multiWaiter EXCEPT ![t] = NoMultiWaiter]
                /\ futexWaitAddress' = [futexWaitAddress EXCEPT ![t] = NoAddress]
                /\ boosted' = [boosted EXCEPT ![t] = NoThread]
                /\ inheriting' = inheriting \ {t}
           ELSE UNCHANGED <<multiWaiter, futexWaitAddress, boosted, inheriting>>
        /\ priorityList' = [priorityList EXCEPT ![p] = ListInsert(@, t, priority)]
        /\ yielding' = yielding \ {t}
        /\ UNCHANGED priority

\* timeout_may_block
MayBlock(timeout) ==
    IF timeout.kind = "relative" THEN timeout.value > 0 ELSE timeout.value >= now

\* expiry_time_for_timeout, or the absolute timeout itself.
ExpiryFor(timeout) ==
    IF timeout.kind = "absolute" \/ timeout.value = Never
    THEN timeout.value
    ELSE now + timeout.value * CyclesPerTick

\* Does the resumed call report a timeout?  (timeout_elapse with the ticks
\* that yield_timed counted, then may_block.)
TimedOut(c) ==
    IF c.timeout.kind = "relative"
    THEN c.timeout.value # Never /\ ticksSinceBoot - c.start >= c.timeout.value
    ELSE c.timeout.value < now

\* suspend_internal
SuspendInternal(t, timeout, queue) ==
    LET p == priority[t]
        lists == [priorityList EXCEPT ![p] = ListRemove(@, t)]
        expiry == [expiryTime EXCEPT ![t] = ExpiryFor(timeout)]
    IN  /\ priorityList' = lists
        /\ state' = [state EXCEPT ![t] = "Suspended"]
        /\ MapRemove(lists, p, priorityMap)
        /\ futexWaitingList' = IF queue = "futex"
                               THEN ListInsert(futexWaitingList, t, priority)
                               ELSE futexWaitingList
        /\ multiList' = IF queue = "multi"
                        THEN ListInsert(multiList, t, priority)
                        ELSE multiList
        /\ sleepQueue' = [sleepQueue EXCEPT ![t] = queue]
        /\ expiryTime' = expiry
        /\ waitingList' = TimerListInsert(waitingList, t, expiry)
        /\ UNCHANGED priority

\* has_priority_peers
HasPeers(t, lists) == Len(lists[priority[t]]) > 1

\* Timer::update, for the thread that is about to run.
TimerFor(t, lists) ==
    LET nextTimer == IF waitingList = <<>> THEN Never ELSE expiryTime[Head(waitingList)]
        nextTick == IF t # NoThread /\ HasPeers(t, lists)
                    THEN now + CyclesPerTick ELSE Never
    IN  IF nextTick < nextTimer THEN nextTick ELSE nextTimer

\* schedule notes the time when it switches to another thread.
ScheduledAt(next) ==
    IF next # NoThread /\ next # current
    THEN [expiryTime EXCEPT ![next] = now]
    ELSE expiryTime

\* The tick count, and the test of expiretimers.
TicksAt(time) == time \div CyclesPerTick
Expired(t) == expiryTime[t] <= now

\* get_results empties the multiwaiter, unless it has been freed.
GetResults(m) == IF m \in live THEN [events EXCEPT ![m] = {}] ELSE events

\* priority_boost_for_thread
BoostFor(t, targets, base) ==
    Highest({base} \cup
            {priority[u] : u \in {v \in ToSet(futexWaitingList) :
                                    v \in inheriting /\ targets[v] = t}})

---------------------------------------------------------------------------

\* Every thread has been constructed, suspended; scheduler_entry is about to
\* make them ready.
Init ==
    /\ current = NoThread
    /\ state = [t \in Threads |-> "Suspended"]
    /\ priority = OriginalPriority
    /\ priorityList = [p \in Priorities |-> <<>>]
    /\ priorityMap = {}
    /\ highestPriority = 0
    /\ waitingList = [t \in Threads |-> t]
    /\ expiryTime = [t \in Threads |-> Never]
    /\ sleepQueue = [t \in Threads |-> "none"]
    /\ yielding = {}
    /\ futexWaitingList = <<>>
    /\ futexWaitAddress = [t \in Threads |-> NoAddress]
    /\ inheriting = {}
    /\ boosted = [t \in Threads |-> NoThread]
    /\ multiList = <<>>
    /\ multiWaiter = [t \in Threads |-> NoMultiWaiter]
    /\ events = [m \in MultiWaiters |-> {}]
    /\ live = MultiWaiters
    /\ owner = [f \in PIFutexes |-> NoThread]
    /\ now = 0
    /\ ticksSinceBoot = 0
    /\ timer = Never
    /\ call = [t \in Threads |-> NoCall]
    /\ kernel = [User EXCEPT !.at = "boot"]

\* scheduler_entry makes the threads ready in the order of their IDs; then
\* the idle thread yields.
Boot ==
    /\ kernel.at = "boot"
    /\ \/ /\ waitingList # <<>>
          /\ MakeReady(Head(waitingList), "Timer")
          /\ UNCHANGED kernel
       \/ /\ waitingList = <<>>
          /\ Goto("yield")
          /\ UNCHANGED <<queueVars, yielding, multiWaiter, futexWaitAddress,
                         boosted, inheriting>>
    /\ UNCHANGED <<current, expiryTime, owner, events, live, timeVars, call>>

---------------------------------------------------------------------------
(* exception_entry *)

\* The explicit yield: ECALL.  The timers are looked at when the caller is
\* still runnable or nothing is.
Yield ==
    /\ kernel.at = "yield"
    /\ Goto(IF any_ready /\ (current = NoThread \/ state[current] # "Ready")
            THEN "schedule" ELSE "expire")
    /\ UNCHANGED <<current, queueVars, expiryTime, yielding, futexVars,
                   multiVars, timeVars, call>>

\* Timer::expiretimers.  The loop stops after one thread: the thread after
\* the one it woke is then the head of the list, where it started.
ExpireTimers ==
    LET head == Head(waitingList)
        expired == waitingList # <<>> /\ Expired(head)
        early == waitingList # <<>> /\ ~any_ready /\ head \in yielding
    IN  /\ kernel.at = "expire"
        /\ ticksSinceBoot' = TicksAt(now)
        /\ \/ /\ expired \/ early
              /\ MakeReady(head, "Timer")
           \/ /\ ~expired /\ ~early
              /\ UNCHANGED <<queueVars, yielding, multiWaiter, futexWaitAddress,
                             boosted, inheriting>>
        /\ Goto(IF kernel.decision = "skip" THEN "skip" ELSE "schedule")
        /\ UNCHANGED <<current, expiryTime, owner, events, live, now, timer, call>>

\* Thread::schedule and Timer::update.
Schedule ==
    LET lists == IF current # NoThread /\ state[current] = "Ready"
                 THEN [priorityList EXCEPT ![priority[current]] = Rotate(@, current)]
                 ELSE priorityList
        next == IF lists[highestPriority] = <<>> THEN NoThread
                ELSE Head(lists[highestPriority])
    IN  /\ kernel.at = "schedule"
        /\ priorityList' = lists
        /\ current' = next
        /\ expiryTime' = ScheduledAt(next)
        /\ timer' = TimerFor(next, lists)
        /\ kernel' = IF next # NoThread /\ call[next].op \notin {"none", "destroy"}
                     THEN [User EXCEPT !.at = "resume"] ELSE User
        /\ UNCHANGED <<state, priority, priorityMap, highestPriority,
                       waitingList, sleepQueue, futexWaitingList, multiList,
                       yielding, futexVars, multiVars, now, ticksSinceBoot, call>>

\* Timer::update when no scheduling was needed: back to the same context.
SkipSchedule ==
    /\ kernel.at = "skip"
    /\ timer' = TimerFor(current, priorityList)
    /\ kernel' = User
    /\ UNCHANGED <<current, queueVars, expiryTime, yielding, futexVars,
                   multiVars, now, ticksSinceBoot, call>>

\* MTIME
TimerInterrupt ==
    /\ InUser
    /\ timer # Never /\ timer <= now
    /\ Goto("expire")
    /\ UNCHANGED <<current, queueVars, expiryTime, yielding, futexVars,
                   multiVars, timeVars, call>>

\* MEXTERN: wake whoever waits on the interrupt's futex.
ExternalInterrupt(f) ==
    /\ InUser
    /\ kernel' = [User EXCEPT !.at = "wake", !.key = f, !.count = N,
                              !.caller = "interrupt"]
    /\ UNCHANGED <<current, queueVars, expiryTime, yielding, futexVars,
                   multiVars, timeVars, call>>

\* MCAUSE_THREAD_EXIT
Exit ==
    LET p == priority[current]
        lists == [priorityList EXCEPT ![p] = ListRemove(@, current)]
    IN  /\ Running
        /\ priorityList' = lists
        /\ MapRemove(lists, p, priorityMap)
        /\ state' = [state EXCEPT ![current] = "Exited"]
        /\ Goto("expire")
        /\ UNCHANGED <<current, priority, waitingList, sleepQueue,
                       futexWaitingList, multiList, expiryTime, yielding,
                       futexVars, multiVars, timeVars, call>>

---------------------------------------------------------------------------
(* Blocking: thread_sleep, futex_timed_wait, multiwaiter_wait *)

\* suspend: sleep when the timeout allows it, yield when asked to regardless.
Suspend ==
    LET c == call[current]
    IN  /\ kernel.at = "suspend"
        /\ \/ /\ MayBlock(c.timeout)
              /\ SuspendInternal(current, c.timeout,
                                 CASE c.op = "futex" -> "futex"
                                   [] c.op = "multi" -> "multi"
                                   [] OTHER -> "none")
              /\ yielding' = IF c.op = "sleep" THEN yielding \cup {current}
                             ELSE yielding \ {current}
           \/ /\ ~MayBlock(c.timeout)
              /\ UNCHANGED <<queueVars, expiryTime, yielding>>
        /\ call' = [call EXCEPT ![current].start = ticksSinceBoot]
        /\ Goto(IF MayBlock(c.timeout) \/ c.op \in {"sleep", "sleep_full"}
                THEN "yield" ELSE "resume")
        /\ UNCHANGED <<current, futexVars, multiVars, timeVars>>

\* thread_sleep; with ThreadSleepNoEarlyWake the sleeper is not "yielding".
ThreadSleep(timeout, op) ==
    /\ Running
    /\ call' = [call EXCEPT ![current] = [NoCall EXCEPT !.op = op, !.timeout = timeout]]
    /\ Goto("suspend")
    /\ UNCHANGED <<current, queueVars, expiryTime, yielding, futexVars,
                   multiVars, timeVars>>

\* futex_timed_wait, once the word has been found to hold the expected value
\* (nothing happens otherwise).
FutexWait(f, timeout) ==
    /\ Running
    /\ futexWaitAddress' = [futexWaitAddress EXCEPT ![current] = f]
    /\ \/ /\ f \notin PIFutexes
          /\ inheriting' = inheriting \ {current}
          /\ call' = [call EXCEPT ![current] =
                        [NoCall EXCEPT !.op = "futex", !.timeout = timeout]]
          /\ Goto("suspend")
          /\ UNCHANGED boosted
       \/ /\ f \in PIFutexes
          /\ inheriting' = inheriting \cup {current}
          /\ owner[f] \notin {current, NoThread}
          /\ boosted' = [u \in Threads |->
                           IF /\ u \in ToSet(futexWaitingList)
                              /\ u \in inheriting /\ futexWaitAddress[u] = f
                           THEN owner[f] ELSE boosted[u]]
          /\ kernel' = [User EXCEPT !.at = "boost", !.then = "suspend",
                                    !.target = owner[f],
                                    !.boost = BoostFor(owner[f], boosted', priority[current])]
          /\ call' = [call EXCEPT ![current] =
                        [NoCall EXCEPT !.op = "futex", !.timeout = timeout,
                                       !.owner = owner[f]]]
       \/ /\ f \in PIFutexes        \* -EINVAL
          /\ inheriting' = inheriting \cup {current}
          /\ owner[f] \in {current, NoThread}
          /\ UNCHANGED <<boosted, kernel, call>>
    /\ UNCHANGED <<current, queueVars, expiryTime, yielding, owner, multiVars,
                   timeVars>>

\* multiwaiter_wait on events none of which has fired yet.
MultiwaiterWait(m, fs, timeout) ==
    /\ Running
    /\ m \in live
    /\ events[m] = {}       \* -EBUSY otherwise
    /\ MayBlock(timeout)
    /\ events' = [events EXCEPT ![m] = fs]
    /\ multiWaiter' = [multiWaiter EXCEPT ![current] = m]
    /\ futexWaitAddress' = [futexWaitAddress EXCEPT ![current] = NoAddress]
    /\ boosted' = [boosted EXCEPT ![current] = NoThread]
    /\ inheriting' = inheriting \ {current}
    /\ call' = [call EXCEPT ![current] =
                  [NoCall EXCEPT !.op = "multi", !.timeout = timeout, !.object = m]]
    /\ Goto("suspend")
    /\ UNCHANGED <<current, queueVars, expiryTime, yielding, owner, live, timeVars>>

\* The rest of the entry point that the scheduled thread had blocked in.
Resume ==
    LET c == call[current]
    IN  /\ kernel.at = "resume"
        /\ call' = [call EXCEPT ![current] = NoCall]
        /\ \/ /\ c.op = "futex"
              /\ futexWaitAddress' = [futexWaitAddress EXCEPT ![current] = NoAddress]
              /\ kernel' = IF c.owner = NoThread THEN User
                           ELSE [User EXCEPT !.at = "boost", !.target = c.owner,
                                             !.boost = BoostFor(c.owner, boosted, 0)]
              /\ UNCHANGED <<boosted, inheriting, multiWaiter, events>>
           \/ /\ c.op = "multi"
              /\ multiWaiter' = [multiWaiter EXCEPT ![current] = NoMultiWaiter]
              /\ futexWaitAddress' = [futexWaitAddress EXCEPT ![current] = NoAddress]
              /\ boosted' = [boosted EXCEPT ![current] = NoThread]
              /\ inheriting' = inheriting \ {current}
              /\ events' = GetResults(c.object)
              /\ kernel' = User
           \/ /\ c.op \notin {"futex", "multi"}
              /\ kernel' = User
              /\ UNCHANGED <<futexWaitAddress, boosted, inheriting, multiWaiter, events>>
        /\ UNCHANGED <<current, queueVars, expiryTime, yielding, owner, live, timeVars>>

---------------------------------------------------------------------------
(* Waking: futex_wake and multiwaiter_delete *)

\* The futex_wake entry point (a count of 0 wakes nobody).
FutexWake(f, count) ==
    /\ Running
    /\ kernel' = [User EXCEPT !.at = "wake", !.key = f, !.count = count,
                              !.caller = "thread"]
    /\ UNCHANGED <<current, queueVars, expiryTime, yielding, futexVars,
                   multiVars, timeVars, call>>

FutexMatch(t) == futexWaitAddress[t] = kernel.key
MultiMatch(t) == kernel.key \in events[multiWaiter[t]]

\* The internal futex_wake wakes the first waiter on the address ...
WakeFutexWaiter ==
    LET i == SelectInSeq(futexWaitingList, FutexMatch)
        t == futexWaitingList[i]
    IN  /\ kernel.at = "wake"
        /\ kernel.count > 0 /\ i # 0
        /\ MakeReady(t, "Futex")
        /\ kernel' = [kernel EXCEPT !.count = @ - 1, !.woke = @ + 1,
                        !.then = IF t \in inheriting THEN "boost" ELSE @]
        /\ UNCHANGED <<current, expiryTime, owner, events, live, timeVars, call>>

\* ... and, when none is left, the first multiwaiter that has the event.
WakeMultiWaiter ==
    LET i == SelectInSeq(multiList, MultiMatch)
        t == multiList[i]
    IN  /\ kernel.at = "wake"
        /\ kernel.count > 0 /\ i # 0
        /\ SelectInSeq(futexWaitingList, FutexMatch) = 0
        /\ MakeReady(t, "MultiWaiter")
        /\ kernel' = [kernel EXCEPT !.count = @ - 1, !.woke = @ + 1]
        /\ UNCHANGED <<current, expiryTime, owner, events, live, timeVars, call>>

WakeFinished ==
    /\ kernel.at = "wake"
    /\ \/ kernel.count = 0
       \/ /\ SelectInSeq(futexWaitingList, FutexMatch) = 0
          /\ SelectInSeq(multiList, MultiMatch) = 0

\* The end of exception_entry's MEXTERN case: schedule if somebody woke.
InterruptWakeEnd ==
    /\ WakeFinished /\ kernel.caller = "interrupt"
    /\ kernel' = [User EXCEPT
                    !.at = IF kernel.woke > 0 \/ ~any_ready THEN "expire" ELSE "skip",
                    !.decision = IF kernel.woke > 0 THEN "none" ELSE "skip"]
    /\ UNCHANGED <<current, queueVars, expiryTime, yielding, futexVars,
                   multiVars, timeVars, call>>

\* Whether the caller of futex_wake should yield.
ShouldYield ==
    IF kernel.woke = 0 THEN "NoYield"
    ELSE IF priority[current] # highestPriority THEN "YieldNow"
    ELSE IF HasPeers(current, priorityList)
         THEN IF now >= expiryTime[current] + CyclesPerTick THEN "YieldNow" ELSE "YieldLater"
    ELSE "NoYield"

\* The entry point decides whether to yield and, when it woke a waiter of a
\* priority-inheriting futex, gives up the boost that came from this futex.
FutexWakeEnd ==
    /\ WakeFinished /\ kernel.caller = "thread"
    /\ \/ /\ kernel.then = "boost"
          /\ boosted' = [u \in Threads |->
                           IF /\ u \in ToSet(futexWaitingList)
                              /\ u \in inheriting /\ futexWaitAddress[u] = kernel.key
                              /\ boosted[u] = current
                           THEN NoThread ELSE boosted[u]]
          /\ kernel' = [User EXCEPT !.at = "boost", !.then = "wakeyield",
                                    !.target = current,
                                    !.boost = BoostFor(current, boosted', 0),
                                    !.decision = ShouldYield]
       \/ /\ kernel.then # "boost"
          /\ kernel' = [User EXCEPT !.at = "wakeyield", !.decision = ShouldYield]
          /\ UNCHANGED boosted
    /\ UNCHANGED <<current, queueVars, expiryTime, yielding, futexWaitAddress,
                   inheriting, owner, multiVars, timeVars, call>>

\* Timer::ensure_tick, yield, or neither.
WakeYield ==
    LET tick == expiryTime[current] + CyclesPerTick
    IN  /\ kernel.at = "wakeyield"
        /\ \/ /\ kernel.decision = "YieldNow"
              /\ kernel' = [User EXCEPT !.at = "yield"]
              /\ call' = [call EXCEPT ![current].op = "wake"]
              /\ UNCHANGED timer
           \/ /\ kernel.decision = "YieldLater"
              /\ timer' = IF tick < timer THEN tick ELSE timer
              /\ kernel' = User
              /\ UNCHANGED call
           \/ /\ kernel.decision = "NoYield"
              /\ kernel' = User
              /\ UNCHANGED <<timer, call>>
        /\ UNCHANGED <<current, queueVars, expiryTime, yielding, futexVars,
                       multiVars, now, ticksSinceBoot>>

\* priority_boost.  The run queue is left and joined before `priority'
\* changes: a thread that is boosted goes to the tail of its new run queue, one
\* that loses a boost to the head.  A sleep queue is sorted again.
PriorityBoost ==
    LET t == kernel.target
        p == priority[t]
        q == IF kernel.boost > OriginalPriority[t] THEN kernel.boost
             ELSE OriginalPriority[t]
        new == [priority EXCEPT ![t] = q]
        lists == [priorityList EXCEPT ![p] = ListRemove(@, t),
                                      ![q] = ListInsert(@, t, priority)]
    IN  /\ kernel.at = "boost"
        /\ IF p = q
           THEN UNCHANGED queueVars
           ELSE /\ priority' = new
                /\ IF state[t] = "Ready"
                   THEN /\ priorityList' = lists
                        /\ MapRemove(lists, p, priorityMap \cup {q})
                   ELSE UNCHANGED <<priorityList, priorityMap, highestPriority>>
                /\ futexWaitingList' = IF sleepQueue[t] = "futex"
                                       THEN ListInsert(ListRemove(futexWaitingList, t), t, new)
                                       ELSE futexWaitingList
                /\ multiList' = IF sleepQueue[t] = "multi"
                                THEN ListInsert(ListRemove(multiList, t), t, new)
                                ELSE multiList
                /\ UNCHANGED <<state, waitingList, sleepQueue>>
        /\ kernel' = [User EXCEPT !.at = kernel.then, !.decision = kernel.decision]
        /\ UNCHANGED <<current, expiryTime, yielding, futexVars, multiVars,
                       timeVars, call>>

\* multiwaiter_delete runs the destructor, which unblocks the waiters ...
\* Another thread that deletes waits for deallocLock.
MultiwaiterDelete(m) ==
    /\ Running
    /\ m \in live
    /\ \A t \in Threads : call[t].op # "destroy"
    /\ kernel' = [User EXCEPT !.at = "delete", !.object = m]
    /\ UNCHANGED <<current, queueVars, expiryTime, yielding, futexVars,
                   multiVars, timeVars, call>>

Blocked(t) == multiWaiter[t] = kernel.object

Destructor ==
    LET i == SelectInSeq(multiList, Blocked)
    IN  /\ kernel.at = "delete"
        /\ \/ /\ i # 0
              /\ MakeReady(multiList[i], "Timer")
              /\ UNCHANGED <<kernel, call>>
           \/ /\ i = 0
              /\ call' = [call EXCEPT ![current] =
                            [NoCall EXCEPT !.op = "destroy", !.object = kernel.object]]
              /\ kernel' = User
              /\ UNCHANGED <<queueVars, yielding, multiWaiter, futexWaitAddress,
                             boosted, inheriting>>
        /\ UNCHANGED <<current, expiryTime, owner, events, live, timeVars>>

\* ... and then calls the allocator, which runs with interrupts enabled, to
\* free the object.
DestroyObject ==
    /\ InUser /\ current # NoThread /\ call[current].op = "destroy"
    /\ live' = live \ {call[current].object}
    /\ call' = [call EXCEPT ![current] = NoCall]
    /\ UNCHANGED <<current, queueVars, expiryTime, yielding, futexVars,
                   multiWaiter, events, timeVars, kernel>>

---------------------------------------------------------------------------
(* The threads' own stores to a priority-inheriting futex word *)

AcquireWord(f) ==
    /\ Running
    /\ owner[f] = NoThread
    /\ owner' = [owner EXCEPT ![f] = current]
    /\ UNCHANGED <<current, queueVars, expiryTime, yielding, futexWaitAddress,
                   inheriting, boosted, multiVars, timeVars, call, kernel>>

ReleaseWord(f) ==
    /\ Running
    /\ owner[f] = current
    /\ owner' = [owner EXCEPT ![f] = NoThread]
    /\ UNCHANGED <<current, queueVars, expiryTime, yielding, futexWaitAddress,
                   inheriting, boosted, multiVars, timeVars, call, kernel>>

\* The clock.
Tick ==
    /\ InUser
    /\ now < MaxTime
    /\ now' = now + 1
    /\ UNCHANGED <<current, queueVars, expiryTime, yielding, futexVars,
                   multiVars, ticksSinceBoot, timer, call, kernel>>

---------------------------------------------------------------------------

\* What the scheduler does by itself once it is entered.
KernelStep ==
    \/ Boot \/ Yield \/ ExpireTimers \/ Schedule \/ SkipSchedule \/ Suspend
    \/ Resume \/ WakeFutexWaiter \/ WakeMultiWaiter \/ InterruptWakeEnd
    \/ FutexWakeEnd \/ WakeYield \/ PriorityBoost \/ Destructor

\* What the running thread may call.
ThreadCall ==
    \/ Exit \/ DestroyObject
    \/ \E timeout \in Timeouts, op \in SleepKinds : ThreadSleep(timeout, op)
    \/ \E f \in Futexes, timeout \in Timeouts : FutexWait(f, timeout)
    \/ \E f \in Futexes, count \in Counts : FutexWake(f, count)
    \/ \E m \in MultiWaiters, fs \in SUBSET Futexes, timeout \in Timeouts :
            MultiwaiterWait(m, fs, timeout)
    \/ \E m \in MultiWaiters : MultiwaiterDelete(m)
    \/ \E f \in PIFutexes : AcquireWord(f) \/ ReleaseWord(f)

\* What the hardware does.
Hardware == Tick \/ TimerInterrupt \/ \E f \in InterruptFutexes : ExternalInterrupt(f)

Next == KernelStep \/ ThreadCall \/ Hardware

Spec == Init /\ [][Next]_vars

---------------------------------------------------------------------------
(* Properties *)

TypeOK ==
    /\ current \in Threads \cup {NoThread}
    /\ state \in [Threads -> {"Ready", "Suspended", "Exited"}]
    /\ priority \in [Threads -> Priorities]
    /\ priorityList \in [Priorities -> Seq(Threads)]
    /\ priorityMap \in SUBSET Priorities
    /\ highestPriority \in Priorities
    /\ waitingList \in Seq(Threads)
    /\ expiryTime \in [Threads -> Nat]
    /\ sleepQueue \in [Threads -> Queues]
    /\ yielding \in SUBSET Threads
    /\ futexWaitingList \in Seq(Threads)
    /\ futexWaitAddress \in [Threads -> Futexes \cup {NoAddress}]
    /\ inheriting \in SUBSET Threads
    /\ boosted \in [Threads -> Threads \cup {NoThread}]
    /\ multiList \in Seq(Threads)
    /\ multiWaiter \in [Threads -> MultiWaiters \cup {NoMultiWaiter}]
    /\ events \in [MultiWaiters -> SUBSET Futexes]
    /\ live \in SUBSET MultiWaiters
    /\ owner \in [PIFutexes -> Threads \cup {NoThread}]
    /\ now \in Nat /\ ticksSinceBoot \in Nat /\ timer \in Nat
    /\ kernel.at \in Phases

\* "All threads that are suspended must be on this list" (waitingList), every
\* ready thread is on the run queue of its priority and on no other, and a
\* sleep queue holds exactly the threads that say they sleep on it.
QueuesMatchState ==
    /\ Holds(waitingList, {t \in Threads : state[t] = "Suspended"})
    /\ \A p \in Priorities :
         Holds(priorityList[p], {t \in Threads : state[t] = "Ready" /\ priority[t] = p})
    /\ Holds(futexWaitingList, {t \in Threads : sleepQueue[t] = "futex"})
    /\ Holds(multiList, {t \in Threads : sleepQueue[t] = "multi"})
    /\ \A t \in Threads : sleepQueue[t] # "none" => state[t] = "Suspended"

\* priorityMap has a bit for each non-empty run queue, and whenever a thread
\* runs or is chosen highestPriority is the highest of them ("the highest
\* priority of all the current threads that are ready").
HighestIsHighest ==
    /\ priorityMap = {p \in Priorities : priorityList[p] # <<>>}
    /\ kernel.at \in {"user", "schedule"} => highestPriority = Highest(priorityMap)

\* The waiting list is sorted by expiry time and the sleep queues by
\* priority, boosts and lost boosts of sleeping threads included.
QueuesSorted ==
    /\ \A i, j \in 1 .. Len(waitingList) :
         i < j => expiryTime[waitingList[i]] <= expiryTime[waitingList[j]]
    /\ \A i, j \in 1 .. Len(futexWaitingList) :
         i < j => priority[futexWaitingList[i]] >= priority[futexWaitingList[j]]
    /\ \A i, j \in 1 .. Len(multiList) :
         i < j => priority[multiList[i]] >= priority[multiList[j]]

\* The run queues, the waiting list and the sleep queues are in order.
QueuesOrdered == HighestIsHighest /\ QueuesSorted

\* "A simple RTOS scheduler that does not allow any thread to run if a
\* higher-priority thread is runnable": outside the scheduler a ready thread
\* of the highest priority runs, and the idle thread only when none is ready.
HighestPriorityRuns ==
    InUser => IF current = NoThread
              THEN \A t \in Threads : state[t] # "Ready"
              ELSE /\ state[current] = "Ready"
                   /\ \A t \in Threads :
                        state[t] = "Ready" => priority[t] <= priority[current]

\* Outside the scheduler the timer is set to fire no later than the first
\* sleeper expires: no timeout is lost.
SleepersHaveTimer ==
    InUser => \A t \in Threads : state[t] = "Suspended" => timer <= expiryTime[t]

\* Outside the scheduler, when the running thread has peers the timer is set
\* for a tick: threads of one priority take turns.
PeersHaveTick ==
    InUser /\ current # NoThread /\ HasPeers(current, priorityList)
        => timer <= now + CyclesPerTick

\* "When a thread is running, this [is] the time at which it was scheduled":
\* has_run_for_full_tick and ensure_tick count from it.
RunnerScheduledInPast ==
    InUser /\ current # NoThread => expiryTime[current] <= now


\* A multiwaiter is marked busy only while a thread is in multiwaiter_wait on
\* it: the next caller does not get -EBUSY for ever.
MultiwaiterReusable ==
    \A m \in live :
        events[m] # {} => \E t \in Threads : call[t].op = "multi" /\ call[t].object = m

\* wake_waiters never finds a null multiwaiter in its list, although the
\* field shares its storage with the futex state and a timeout clears it.
BlockedOnSomeObject ==
    \A t \in ToSet(multiList) : multiWaiter[t] # NoMultiWaiter

\* The call that is about to return from futex_timed_wait after a sleep.
ResumingFutexWait ==
    kernel.at = "resume" /\ call[current].op = "futex" /\ call[current].timeout.value > 0

\* "If we woke up from a timer, report timeout": the ticks that were counted,
\* from a tick counter that only expiretimers advances, use up the timeout of
\* a waiter whose time has come.
ExpiryReported ==
    ResumingFutexWait /\ futexWaitAddress[current] = NoAddress
        => TimedOut(call[current])

\* "Recalculate the priority boost from the remaining waiters, if any": while
\* a thread waits for the owner of a priority-inheriting lock, the owner's
\* priority is at least the waiter's.
BoostedWhileWaitedFor ==
    InUser =>
        \A t \in ToSet(futexWaitingList) \cap inheriting :
            owner[futexWaitAddress[t]] = call[t].owner
                => priority[call[t].owner] >= priority[t]

\* futex_wake wakes the waiters on an address in order of their priority,
\* also when a waiter was boosted or lost its boost while it slept.
HighestFirstStep ==
    \A t, u \in Threads :
        /\ kernel.at = "wake" /\ sleepQueue[t] = "futex" /\ sleepQueue'[t] = "none"
        /\ sleepQueue'[u] = "futex" /\ futexWaitAddress[u] = futexWaitAddress[t]
        => priority[u] <= priority[t]

\* The scheduler goes on once entered, and a pending timer interrupt is taken
\* when interrupts are enabled again (strong fairness: a thread that keeps
\* calling the scheduler has them enabled in between).
Fairness == WF_vars(KernelStep) /\ SF_vars(TimerInterrupt)
FairSpec == Spec /\ Fairness

\* A sleeper whose time has come is made ready, whatever the threads do.
ExpiredSleeperWakes ==
    \A t \in Threads :
        (state[t] = "Suspended" /\ expiryTime[t] <= now) ~> state[t] = "Ready"
=============================================================================
