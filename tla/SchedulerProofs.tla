-------------------------- MODULE SchedulerProofs --------------------------
(***************************************************************************)
(* Proofs about Scheduler, for any number of threads, priorities, futexes   *)
(* and multiwaiters and any timeouts: TypeOK and QueuesMatchState are       *)
(* invariants.  They are inductive only together with KernelOK, which says  *)
(* what the scheduler's locals are between two member functions: removing  *)
(* the running thread from its run queue is right only because it is on it. *)
(***************************************************************************)
EXTENDS Scheduler, ThreadListsProofs

Calls ==
    [op : {"none", "sleep", "sleep_full", "futex", "multi", "wake", "destroy"},
     timeout : [kind : {"relative", "absolute"}, value : Nat],
     start : Nat,
     owner : Threads \cup {NoThread},
     object : MultiWaiters \cup {NoMultiWaiter}]

Kernels ==
    [at : Phases, then : Phases, target : Threads \cup {NoThread},
     boost : Priorities, key : Futexes \cup {NoAddress}, count : Nat, woke : Nat,
     caller : {"none", "thread", "interrupt"},
     object : MultiWaiters \cup {NoMultiWaiter},
     decision : {"none", "skip", "NoYield", "YieldNow", "YieldLater"}]

\* The phases in which the thread that entered the scheduler may have stopped
\* being ready.
Leaving == {"boot", "yield", "expire", "schedule"}

KernelOK ==
    /\ call \in [Threads -> Calls]
    /\ kernel \in Kernels
    /\ kernel.at \in {"suspend", "wakeyield", "delete", "resume"} => current # NoThread
    /\ kernel.at = "wake" /\ kernel.caller = "thread" => current # NoThread
    /\ kernel.at = "boost" => /\ kernel.target # NoThread
                              /\ kernel.then \in {"user", "suspend", "wakeyield"}
                              /\ kernel.then # "user" => current # NoThread
    /\ kernel.decision = "skip" => kernel.at \in {"expire", "skip"}
    /\ current # NoThread /\ (kernel.at \notin Leaving \/ kernel.decision = "skip")
           => state[current] = "Ready"

QueueTypes ==
    /\ state \in [Threads -> {"Ready", "Suspended", "Exited"}]
    /\ priority \in [Threads -> Priorities]
    /\ priorityList \in [Priorities -> Seq(Threads)]
    /\ priorityMap \in SUBSET Priorities
    /\ highestPriority \in Priorities
    /\ waitingList \in Seq(Threads)
    /\ sleepQueue \in [Threads -> Queues]
    /\ futexWaitingList \in Seq(Threads)
    /\ multiList \in Seq(Threads)

OtherTypes ==
    /\ current \in Threads \cup {NoThread}
    /\ expiryTime \in [Threads -> Nat]
    /\ yielding \in SUBSET Threads
    /\ futexWaitAddress \in [Threads -> Futexes \cup {NoAddress}]
    /\ inheriting \in SUBSET Threads
    /\ boosted \in [Threads -> Threads \cup {NoThread}]
    /\ multiWaiter \in [Threads -> MultiWaiters \cup {NoMultiWaiter}]
    /\ events \in [MultiWaiters -> SUBSET Futexes]
    /\ live \in SUBSET MultiWaiters
    /\ owner \in [PIFutexes -> Threads \cup {NoThread}]
    /\ now \in Nat /\ ticksSinceBoot \in Nat /\ timer \in Nat

IInv == QueueTypes /\ QueuesMatchState /\ OtherTypes /\ KernelOK

---------------------------------------------------------------------------
(* Helpers *)

\* The highest priority in a set of priorities is a priority.
LEMMA HighestType ==
    ASSUME NEW map \in SUBSET Priorities
    PROVE  Highest(map) \in Priorities
<1>1. CASE map = {}
  BY <1>1, PriorityAssumption DEF Highest, Priorities
<1>2. CASE map # {}
  <2>1. map \subseteq 0 .. NPrios - 1 /\ NPrios - 1 \in Nat
    BY PriorityAssumption DEF Priorities
  <2>2. \E x \in map : \A y \in map : x >= y
    BY <1>2, <2>1, NatMax, Zenon
  <2>3. \E x \in map : \A y \in map : y <= x
    BY <2>1, <2>2
  <2> QED
    BY <1>2, <2>3 DEF Highest
<1> QED
  BY <1>1, <1>2

\* The members of a list of threads are threads.
LEMMA ToSetType ==
    ASSUME NEW S, NEW list \in Seq(S)
    PROVE  ToSet(list) \subseteq S
<1>1. ASSUME NEW x \in ToSet(list) PROVE x \in S
  <2>1. \E j \in 1 .. Len(list) : list[j] = x
    BY Members
  <2> QED
    BY <2>1
<1> QED
  BY <1>1

\* So is a boost.
LEMMA BoostType ==
    ASSUME QueueTypes, NEW t, NEW targets, NEW base \in Priorities
    PROVE  BoostFor(t, targets, base) \in Priorities
<1> DEFINE W == {v \in ToSet(futexWaitingList) : v \in inheriting /\ targets[v] = t}
           M == {base} \cup {priority[u] : u \in W}
<1>1. ToSet(futexWaitingList) \subseteq Threads
  BY ToSetType DEF QueueTypes
<1>2. \A u \in Threads : priority[u] \in Priorities
  BY DEF QueueTypes
<1>3. M \subseteq Priorities
  BY <1>1, <1>2, Zenon
<1>4. Highest(M) \in Priorities
  BY <1>3, HighestType
<1> QED
  BY <1>4, Zenon DEF BoostFor

\* The head of a list is one of its members.
LEMMA HeadHolds ==
    ASSUME NEW S, NEW list \in Seq(S), NEW T, Holds(list, T), list # <<>>
    PROVE  Head(list) \in T
<1>1. 1 \in 1 .. Len(list) /\ Head(list) = list[1]
  OBVIOUS
<1> QED
  BY <1>1, Members DEF Holds

\* So is the thread that a walk over a list stops at.
LEMMA PlaceHolds ==
    ASSUME NEW S, NEW list \in Seq(S), NEW T, Holds(list, T), NEW i \in 1 .. Len(list)
    PROVE  list[i] \in T
  BY Members DEF Holds

\* MapRemove keeps the types.
LEMMA MapRemoveType ==
    ASSUME NEW lists, NEW p, NEW map \in SUBSET Priorities, MapRemove(lists, p, map),
           highestPriority \in Priorities
    PROVE  priorityMap' \in SUBSET Priorities /\ highestPriority' \in Priorities
<1>1. Highest(map \ {p}) \in Priorities
  BY HighestType
<1> QED
  BY <1>1 DEF MapRemove

\* The walks over the sleep queues find a place on them.
LEMMA FutexMatchPlace ==
    ASSUME QueueTypes, SelectInSeq(futexWaitingList, FutexMatch) # 0
    PROVE  SelectInSeq(futexWaitingList, FutexMatch) \in 1 .. Len(futexWaitingList)
<1> DEFINE I == {j \in 1 .. Len(futexWaitingList) : FutexMatch(futexWaitingList[j])}
<1>1. I # {} /\ SelectInSeq(futexWaitingList, FutexMatch) = Min(I)
  BY DEF SelectInSeq
<1>2. I \subseteq Nat
  BY DEF QueueTypes
<1>3. \E x \in I : \A y \in I : x <= y
  BY <1>1, <1>2, NatMin, Zenon
<1>4. Min(I) \in I
  BY <1>3 DEF Min
<1> QED
  BY <1>1, <1>4

\* The walk of wake_waiters over the multiwaiters.
LEMMA MultiMatchPlace ==
    ASSUME QueueTypes, SelectInSeq(multiList, MultiMatch) # 0
    PROVE  SelectInSeq(multiList, MultiMatch) \in 1 .. Len(multiList)
<1> DEFINE I == {j \in 1 .. Len(multiList) : MultiMatch(multiList[j])}
<1>1. I # {} /\ SelectInSeq(multiList, MultiMatch) = Min(I)
  BY DEF SelectInSeq
<1>2. I \subseteq Nat
  BY DEF QueueTypes
<1>3. \E x \in I : \A y \in I : x <= y
  BY <1>1, <1>2, NatMin
<1>4. Min(I) \in I
  BY <1>3 DEF Min
<1> QED
  BY <1>1, <1>4

\* The walk of ~MultiWaiterInternal.
LEMMA BlockedPlace ==
    ASSUME QueueTypes, SelectInSeq(multiList, Blocked) # 0
    PROVE  SelectInSeq(multiList, Blocked) \in 1 .. Len(multiList)
<1> DEFINE I == {j \in 1 .. Len(multiList) : Blocked(multiList[j])}
<1>1. I # {} /\ SelectInSeq(multiList, Blocked) = Min(I)
  BY DEF SelectInSeq
<1>2. I \subseteq Nat
  BY DEF QueueTypes
<1>3. \E x \in I : \A y \in I : x <= y
  BY <1>1, <1>2, NatMin
<1>4. Min(I) \in I
  BY <1>3 DEF Min
<1> QED
  BY <1>1, <1>4

---------------------------------------------------------------------------
(* The member functions of Thread keep the queues *)

\* ready moves a suspended thread to the run queue of its priority.
LEMMA MakeReadyQueues ==
    ASSUME QueueTypes, QueuesMatchState,
           NEW t \in Threads, state[t] = "Suspended", NEW reason, MakeReady(t, reason)
    PROVE  /\ QueueTypes' /\ QueuesMatchState'
           /\ \A u \in Threads : state[u] = "Ready" => state'[u] = "Ready"
<1> DEFINE p == priority[t]
           Suspendeds == {u \in Threads : state[u] = "Suspended"}
           Readys(r) == {u \in Threads : state[u] = "Ready" /\ priority[u] = r}
           On(queue) == {u \in Threads : sleepQueue[u] = queue}
<1>1. /\ state' = [state EXCEPT ![t] = "Ready"]
      /\ sleepQueue' = [sleepQueue EXCEPT ![t] = "none"]
      /\ priority' = priority
      /\ waitingList' = ListRemove(waitingList, t)
      /\ futexWaitingList' = LeaveSleepQueue(t, "futex", futexWaitingList)
      /\ multiList' = LeaveSleepQueue(t, "multi", multiList)
      /\ priorityList' = [priorityList EXCEPT ![p] = ListInsert(@, t, priority)]
  BY DEF MakeReady
<1>2. p \in Priorities
  BY DEF QueueTypes
<1>3. waitingList' \in Seq(Threads) /\ Holds(waitingList', Suspendeds \ {t})
  BY <1>1, ListRemoveHolds, Zenon DEF QueueTypes, QueuesMatchState
<1>4. futexWaitingList' \in Seq(Threads) /\ Holds(futexWaitingList', On("futex") \ {t})
  <2>1. futexWaitingList \in Seq(Threads) /\ Holds(futexWaitingList, On("futex"))
    BY DEF QueueTypes, QueuesMatchState
  <2>2. CASE sleepQueue[t] = "futex"
    BY <1>1, <2>1, <2>2, ListRemoveHolds, Zenon DEF LeaveSleepQueue
  <2>3. CASE sleepQueue[t] # "futex"
    <3>1. On("futex") \ {t} = On("futex")
      BY <2>3
    <3> QED
      BY <1>1, <2>1, <2>3, <3>1, Zenon DEF LeaveSleepQueue
  <2> QED
    BY <2>2, <2>3
<1>5. multiList' \in Seq(Threads) /\ Holds(multiList', On("multi") \ {t})
  <2>1. multiList \in Seq(Threads) /\ Holds(multiList, On("multi"))
    BY DEF QueueTypes, QueuesMatchState
  <2>2. CASE sleepQueue[t] = "multi"
    BY <1>1, <2>1, <2>2, ListRemoveHolds, Zenon DEF LeaveSleepQueue
  <2>3. CASE sleepQueue[t] # "multi"
    <3>1. On("multi") \ {t} = On("multi")
      BY <2>3
    <3> QED
      BY <1>1, <2>1, <2>3, <3>1, Zenon DEF LeaveSleepQueue
  <2> QED
    BY <2>2, <2>3
<1>6. /\ ListInsert(priorityList[p], t, priority) \in Seq(Threads)
      /\ Holds(ListInsert(priorityList[p], t, priority), Readys(p) \cup {t})
  <2>1. priorityList[p] \in Seq(Threads) /\ Holds(priorityList[p], Readys(p)) /\ t \notin Readys(p)
    BY <1>2 DEF QueueTypes, QueuesMatchState
  <2> QED
    BY <2>1, ListInsertHolds, Zenon
<1>7. QueueTypes'
  <2>1. priorityMap' \in SUBSET Priorities /\ highestPriority' \in Priorities
    BY <1>2 DEF MakeReady, QueueTypes
  <2>2. priorityList' \in [Priorities -> Seq(Threads)]
    BY <1>1, <1>2, <1>6 DEF QueueTypes
  <2>3. state' \in [Threads -> {"Ready", "Suspended", "Exited"}]
    BY <1>1 DEF QueueTypes
  <2>4. sleepQueue' \in [Threads -> Queues]
    BY <1>1 DEF QueueTypes, Queues
  <2> QED
    BY <1>1, <1>3, <1>4, <1>5, <2>1, <2>2, <2>3, <2>4 DEF QueueTypes
<1>8. QueuesMatchState'
  <2>1. Suspendeds' = Suspendeds \ {t}
    BY <1>1 DEF QueueTypes
  <2>2. On("futex")' = On("futex") \ {t} /\ On("multi")' = On("multi") \ {t}
    BY <1>1 DEF QueueTypes
  <2>3. ASSUME NEW r \in Priorities
        PROVE  Holds(priorityList'[r], Readys(r)')
    <3>1. CASE r = p
      <4>1. Readys(r)' = Readys(p) \cup {t}
        BY <1>1, <3>1 DEF QueueTypes
      <4>2. priorityList'[r] = ListInsert(priorityList[p], t, priority)
        BY <1>1, <3>1 DEF QueueTypes
      <4> QED
        BY <1>6, <4>1, <4>2, Zenon
    <3>2. CASE r # p
      <4>1. Readys(r)' = Readys(r)
        BY <1>1, <3>2 DEF QueueTypes
      <4>2. priorityList'[r] = priorityList[r]
        BY <1>1, <3>2 DEF QueueTypes
      <4> QED
        BY <4>1, <4>2 DEF QueuesMatchState
    <3> QED
      BY <3>1, <3>2
  <2>4. \A u \in Threads : sleepQueue'[u] # "none" => state'[u] = "Suspended"
    BY <1>1 DEF QueueTypes, QueuesMatchState
  <2> QED
    BY <1>3, <1>4, <1>5, <2>1, <2>2, <2>3, <2>4, Zenon DEF QueuesMatchState
<1> QED
  BY <1>1, <1>7, <1>8 DEF QueueTypes

\* The sets of threads that the queues must hold.
ReadyAt(r) == {u \in Threads : state[u] = "Ready" /\ priority[u] = r}
SleepingOn(queue) == {u \in Threads : sleepQueue[u] = queue}

\* A ready thread leaves its run queue (suspend_internal and exit).
LEMMA LeaveRunQueue ==
    ASSUME QueueTypes, QueuesMatchState, NEW t \in Threads, state[t] = "Ready",
           priority' = priority,
           NEW s \in {"Suspended", "Exited"}, state' = [state EXCEPT ![t] = s],
           priorityList' = [priorityList EXCEPT ![priority[t]] = ListRemove(@, t)]
    PROVE  /\ priorityList' \in [Priorities -> Seq(Threads)]
           /\ state' \in [Threads -> {"Ready", "Suspended", "Exited"}]
           /\ \A r \in Priorities : Holds(priorityList'[r], ReadyAt(r)')
<1> DEFINE p == priority[t]
<1>1. p \in Priorities /\ t \in ReadyAt(p)
  BY DEF QueueTypes, ReadyAt
<1>2. /\ ListRemove(priorityList[p], t) \in Seq(Threads)
      /\ Holds(ListRemove(priorityList[p], t), ReadyAt(p) \ {t})
  <2>1. priorityList[p] \in Seq(Threads) /\ Holds(priorityList[p], ReadyAt(p))
    BY <1>1, Zenon DEF QueueTypes, QueuesMatchState, ReadyAt
  <2> QED
    BY <1>1, <2>1, ListRemoveHolds
<1>3. ASSUME NEW r \in Priorities
      PROVE  Holds(priorityList'[r], ReadyAt(r)')
  <2>1. CASE r = p
    <3>1. ReadyAt(r)' = ReadyAt(p) \ {t}
      BY <2>1 DEF QueueTypes, ReadyAt
    <3>2. priorityList'[r] = ListRemove(priorityList[p], t)
      BY <2>1 DEF QueueTypes
    <3> QED
      BY <1>2, <3>1, <3>2
  <2>2. CASE r # p
    <3>1. ReadyAt(r)' = ReadyAt(r)
      BY <2>2 DEF QueueTypes, ReadyAt
    <3>2. priorityList'[r] = priorityList[r]
      BY <2>2 DEF QueueTypes
    <3> QED
      BY <3>1, <3>2 DEF QueuesMatchState, ReadyAt
  <2> QED
    BY <2>1, <2>2
<1> QED
  BY <1>1, <1>2, <1>3 DEF QueueTypes

\* suspend_internal moves the running thread to the waiting list and, when it
\* blocks on an object, to that sleep queue.
LEMMA SuspendQueues ==
    ASSUME QueueTypes, QueuesMatchState, NEW t \in Threads, state[t] = "Ready",
           NEW timeout, NEW queue \in Queues, SuspendInternal(t, timeout, queue)
    PROVE  QueueTypes' /\ QueuesMatchState'
<1> DEFINE Suspendeds == {u \in Threads : state[u] = "Suspended"}
           lists == [priorityList EXCEPT ![priority[t]] = ListRemove(@, t)]
           expiry == [expiryTime EXCEPT ![t] = ExpiryFor(timeout)]
<1>1. /\ state' = [state EXCEPT ![t] = "Suspended"]
      /\ sleepQueue' = [sleepQueue EXCEPT ![t] = queue]
      /\ priority' = priority
      /\ priorityList' = lists
      /\ MapRemove(lists, priority[t], priorityMap)
      /\ waitingList' = TimerListInsert(waitingList, t, expiry)
      /\ futexWaitingList' = IF queue = "futex" THEN ListInsert(futexWaitingList, t, priority)
                             ELSE futexWaitingList
      /\ multiList' = IF queue = "multi" THEN ListInsert(multiList, t, priority)
                      ELSE multiList
  BY DEF SuspendInternal
<1>2. sleepQueue[t] = "none" /\ t \notin Suspendeds
  BY DEF QueuesMatchState
<1>3. /\ priorityList' \in [Priorities -> Seq(Threads)]
      /\ state' \in [Threads -> {"Ready", "Suspended", "Exited"}]
      /\ \A r \in Priorities : Holds(priorityList'[r], ReadyAt(r)')
  <2>1. priorityList' = [priorityList EXCEPT ![priority[t]] = ListRemove(@, t)]
    BY <1>1
  <2> QED
    BY <1>1, <2>1, LeaveRunQueue, Zenon
<1>4. priorityMap' \in SUBSET Priorities /\ highestPriority' \in Priorities
  BY <1>1, MapRemoveType DEF QueueTypes
<1> HIDE DEF lists, expiry
<1>5. waitingList' \in Seq(Threads) /\ Holds(waitingList', Suspendeds \cup {t})
  BY <1>1, <1>2, TimerListInsertHolds, Zenon DEF QueueTypes, QueuesMatchState
<1>6. /\ futexWaitingList' \in Seq(Threads)
      /\ Holds(futexWaitingList', IF queue = "futex" THEN SleepingOn("futex") \cup {t}
                                  ELSE SleepingOn("futex"))
  <2>1. /\ futexWaitingList \in Seq(Threads) /\ Holds(futexWaitingList, SleepingOn("futex"))
        /\ t \notin SleepingOn("futex")
    BY <1>2 DEF QueueTypes, QueuesMatchState, SleepingOn
  <2>2. CASE queue = "futex"
    <3>1. futexWaitingList' = ListInsert(futexWaitingList, t, priority)
      BY <1>1, <2>2
    <3> QED
      BY <2>1, <2>2, <3>1, ListInsertHolds
  <2>3. CASE queue # "futex"
    BY <1>1, <2>1, <2>3
  <2> QED
    BY <2>2, <2>3
<1>7. /\ multiList' \in Seq(Threads)
      /\ Holds(multiList', IF queue = "multi" THEN SleepingOn("multi") \cup {t}
                           ELSE SleepingOn("multi"))
  <2>1. /\ multiList \in Seq(Threads) /\ Holds(multiList, SleepingOn("multi"))
        /\ t \notin SleepingOn("multi")
    BY <1>2 DEF QueueTypes, QueuesMatchState, SleepingOn
  <2>2. CASE queue = "multi"
    <3>1. multiList' = ListInsert(multiList, t, priority)
      BY <1>1, <2>2
    <3> QED
      BY <2>1, <2>2, <3>1, ListInsertHolds
  <2>3. CASE queue # "multi"
    BY <1>1, <2>1, <2>3
  <2> QED
    BY <2>2, <2>3
<1>8. QueueTypes'
  BY <1>1, <1>3, <1>4, <1>5, <1>6, <1>7 DEF QueueTypes
<1>9. QueuesMatchState'
  <2>1. Suspendeds' = Suspendeds \cup {t}
    BY <1>1 DEF QueueTypes
  <2>2. /\ SleepingOn("futex")' = IF queue = "futex" THEN SleepingOn("futex") \cup {t}
                                  ELSE SleepingOn("futex")
        /\ SleepingOn("multi")' = IF queue = "multi" THEN SleepingOn("multi") \cup {t}
                                  ELSE SleepingOn("multi")
    BY <1>1, <1>2 DEF QueueTypes, SleepingOn
  <2>3. \A u \in Threads : sleepQueue'[u] # "none" => state'[u] = "Suspended"
    BY <1>1 DEF QueueTypes, QueuesMatchState
  <2> QED
    BY <1>3, <1>5, <1>6, <1>7, <2>1, <2>2, <2>3, Zenon DEF QueuesMatchState, ReadyAt, SleepingOn
<1> QED
  BY <1>8, <1>9

\* A thread that exits is on no queue any more.
LEMMA ExitQueues ==
    ASSUME QueueTypes, QueuesMatchState, current \in Threads, state[current] = "Ready", Exit
    PROVE  QueueTypes' /\ QueuesMatchState'
<1> DEFINE Suspendeds == {u \in Threads : state[u] = "Suspended"}
           lists == [priorityList EXCEPT ![priority[current]] = ListRemove(@, current)]
<1>1. /\ state' = [state EXCEPT ![current] = "Exited"]
      /\ UNCHANGED <<priority, waitingList, sleepQueue, futexWaitingList, multiList>>
      /\ priorityList' = lists
      /\ MapRemove(lists, priority[current], priorityMap)
  BY DEF Exit
<1>2. sleepQueue[current] = "none"
  BY DEF QueuesMatchState
<1>3. /\ priorityList' \in [Priorities -> Seq(Threads)]
      /\ state' \in [Threads -> {"Ready", "Suspended", "Exited"}]
      /\ \A r \in Priorities : Holds(priorityList'[r], ReadyAt(r)')
  <2>1. priorityList' = [priorityList EXCEPT ![priority[current]] = ListRemove(@, current)]
    BY <1>1
  <2> QED
    BY <1>1, <2>1, LeaveRunQueue, Zenon
<1>4. priorityMap' \in SUBSET Priorities /\ highestPriority' \in Priorities
  BY <1>1, MapRemoveType DEF QueueTypes
<1> HIDE DEF lists
<1>5. QueueTypes'
  BY <1>1, <1>3, <1>4 DEF QueueTypes
<1>6. Suspendeds' = Suspendeds
  BY <1>1 DEF QueueTypes
<1>7. \A u \in Threads : sleepQueue'[u] # "none" => state'[u] = "Suspended"
  BY <1>1, <1>2 DEF QueueTypes, QueuesMatchState
<1>8. QueuesMatchState'
  BY <1>1, <1>3, <1>6, <1>7, Zenon DEF QueuesMatchState, ReadyAt
<1> QED
  BY <1>5, <1>8

\* schedule rotates the run queue of the thread that was running and picks the
\* head of the highest one, which is ready.
LEMMA ScheduleQueues ==
    ASSUME QueueTypes, QueuesMatchState, current \in Threads \cup {NoThread}, Schedule
    PROVE  /\ QueueTypes' /\ QueuesMatchState'
           /\ current' \in Threads \cup {NoThread}
           /\ current' # NoThread => state'[current'] = "Ready"
<1> DEFINE rotates == current # NoThread /\ state[current] = "Ready"
           lists == IF rotates
                    THEN [priorityList EXCEPT ![priority[current]] = Rotate(@, current)]
                    ELSE priorityList
<1>1. /\ UNCHANGED <<state, priority, priorityMap, highestPriority, waitingList,
                     sleepQueue, futexWaitingList, multiList>>
      /\ priorityList' = lists
      /\ current' = IF lists[highestPriority] = <<>> THEN NoThread
                    ELSE Head(lists[highestPriority])
  BY DEF Schedule
<1>2. lists \in [Priorities -> Seq(Threads)] /\ \A r \in Priorities : Holds(lists[r], ReadyAt(r))
  <2>1. CASE ~rotates
    BY <2>1 DEF QueueTypes, QueuesMatchState, ReadyAt
  <2>2. CASE rotates
    <3> DEFINE p == priority[current]
    <3>1. current \in Threads /\ p \in Priorities /\ current \in ReadyAt(p)
      BY <2>2 DEF QueueTypes, ReadyAt
    <3>2. priorityList[p] \in Seq(Threads) /\ Holds(priorityList[p], ReadyAt(p))
      BY <3>1 DEF QueueTypes, QueuesMatchState, ReadyAt
    <3>3. /\ Rotate(priorityList[p], current) \in Seq(Threads)
          /\ Holds(Rotate(priorityList[p], current), ReadyAt(p))
      BY <3>1, <3>2, RotateHolds
    <3>4. lists = [priorityList EXCEPT ![p] = Rotate(priorityList[p], current)]
      BY <2>2
    <3> HIDE DEF lists, p
    <3>5. ASSUME NEW r \in Priorities
          PROVE  lists[r] = IF r = p THEN Rotate(priorityList[p], current) ELSE priorityList[r]
      BY <3>4 DEF QueueTypes
    <3>6. \A r \in Priorities : Holds(priorityList[r], ReadyAt(r))
      BY DEF QueuesMatchState, ReadyAt
    <3>7. lists \in [Priorities -> Seq(Threads)]
      BY <3>3, <3>4, Zenon DEF QueueTypes
    <3> QED
      BY <3>3, <3>5, <3>6, <3>7
  <2> QED
    BY <2>1, <2>2
<1> HIDE DEF lists, rotates
<1>3. QueueTypes'
  BY <1>1, <1>2 DEF QueueTypes
<1>4. QueuesMatchState'
  BY <1>1, <1>2 DEF QueuesMatchState, ReadyAt
<1>5. CASE lists[highestPriority] = <<>>
  BY <1>1, <1>3, <1>4, <1>5
<1>6. CASE lists[highestPriority] # <<>>
  <2>1. highestPriority \in Priorities
    BY DEF QueueTypes
  <2>2. Head(lists[highestPriority]) \in ReadyAt(highestPriority)
    BY <1>2, <1>6, <2>1, HeadHolds
  <2>3. current' \in Threads /\ state[current'] = "Ready"
    BY <1>1, <1>6, <2>2 DEF ReadyAt
  <2> QED
    BY <1>1, <1>3, <1>4, <2>3
<1> QED
  BY <1>5, <1>6

\* Leaving a sleep queue and joining it again, as priority_boost does.
LEMMA ResortHolds ==
    ASSUME NEW S, NEW list \in Seq(S), NEW T, Holds(list, T), NEW t \in T, t \in S, NEW new
    PROVE  /\ ListInsert(ListRemove(list, t), t, new) \in Seq(S)
           /\ Holds(ListInsert(ListRemove(list, t), t, new), T)
<1>1. ListRemove(list, t) \in Seq(S) /\ Holds(ListRemove(list, t), T \ {t})
  BY ListRemoveHolds
<1>2. t \notin T \ {t} /\ (T \ {t}) \cup {t} = T
  OBVIOUS
<1>3. /\ ListInsert(ListRemove(list, t), t, new) \in Seq(S)
      /\ Holds(ListInsert(ListRemove(list, t), t, new), (T \ {t}) \cup {t})
  BY <1>1, <1>2, ListInsertHolds
<1> QED
  BY <1>2, <1>3, Zenon

\* priority_boost moves a ready thread from one run queue to another and
\* leaves a sleeping one on the queues it is on.
LEMMA BoostQueues ==
    ASSUME QueueTypes, QueuesMatchState, kernel.target \in Threads,
           kernel.boost \in Priorities, PriorityBoost
    PROVE  QueueTypes' /\ QueuesMatchState' /\ state' = state
<1> DEFINE t == kernel.target
           p == priority[t]
           q == IF kernel.boost > OriginalPriority[t] THEN kernel.boost
                ELSE OriginalPriority[t]
           new == [priority EXCEPT ![t] = q]
           lists == [priorityList EXCEPT ![p] = ListRemove(@, t),
                                         ![q] = ListInsert(@, t, priority)]
<1>1. CASE p = q
  BY <1>1 DEF PriorityBoost, queueVars, QueueTypes, QueuesMatchState
<1>2. CASE p # q
  <2>1. /\ priority' = new
        /\ IF state[t] = "Ready"
           THEN priorityList' = lists /\ MapRemove(lists, p, priorityMap \cup {q})
           ELSE UNCHANGED <<priorityList, priorityMap, highestPriority>>
        /\ futexWaitingList' = IF sleepQueue[t] = "futex"
                               THEN ListInsert(ListRemove(futexWaitingList, t), t, new)
                               ELSE futexWaitingList
        /\ multiList' = IF sleepQueue[t] = "multi"
                        THEN ListInsert(ListRemove(multiList, t), t, new)
                        ELSE multiList
        /\ UNCHANGED <<state, waitingList, sleepQueue>>
    BY <1>2 DEF PriorityBoost
  <2>2. t \in Threads /\ p \in Priorities /\ q \in Priorities
    BY PriorityAssumption DEF QueueTypes, Priorities
  <2>3. priority' \in [Threads -> Priorities]
    BY <2>1, <2>2 DEF QueueTypes
  <2>4. futexWaitingList' \in Seq(Threads) /\ Holds(futexWaitingList', SleepingOn("futex"))
    <3>1. futexWaitingList \in Seq(Threads) /\ Holds(futexWaitingList, SleepingOn("futex"))
      BY DEF QueueTypes, QueuesMatchState, SleepingOn
    <3>2. CASE sleepQueue[t] = "futex"
      <4>1. t \in SleepingOn("futex")
        BY <2>2, <3>2 DEF SleepingOn
      <4> HIDE DEF t, new
      <4> QED
        BY <2>1, <2>2, <3>1, <3>2, <4>1, ResortHolds
    <3>3. CASE sleepQueue[t] # "futex"
      BY <2>1, <3>1, <3>3
    <3> QED
      BY <3>2, <3>3
  <2>5. multiList' \in Seq(Threads) /\ Holds(multiList', SleepingOn("multi"))
    <3>1. multiList \in Seq(Threads) /\ Holds(multiList, SleepingOn("multi"))
      BY DEF QueueTypes, QueuesMatchState, SleepingOn
    <3>2. CASE sleepQueue[t] = "multi"
      <4>1. t \in SleepingOn("multi")
        BY <2>2, <3>2 DEF SleepingOn
      <4> HIDE DEF t, new
      <4> QED
        BY <2>1, <2>2, <3>1, <3>2, <4>1, ResortHolds
    <3>3. CASE sleepQueue[t] # "multi"
      BY <2>1, <3>1, <3>3
    <3> QED
      BY <3>2, <3>3
  <2>6. /\ priorityList' \in [Priorities -> Seq(Threads)]
        /\ \A r \in Priorities : Holds(priorityList'[r], ReadyAt(r)')
        /\ priorityMap' \in SUBSET Priorities /\ highestPriority' \in Priorities
    <3>1. CASE state[t] = "Ready"
      <4> DEFINE out == ListRemove(priorityList[p], t)
                 in == ListInsert(priorityList[q], t, priority)
      <4>1. /\ priorityList[p] \in Seq(Threads) /\ Holds(priorityList[p], ReadyAt(p))
            /\ priorityList[q] \in Seq(Threads) /\ Holds(priorityList[q], ReadyAt(q))
            /\ t \in ReadyAt(p) /\ t \notin ReadyAt(q)
        BY <1>2, <2>2, <3>1, Zenon DEF QueueTypes, QueuesMatchState, ReadyAt
      <4>2. out \in Seq(Threads) /\ Holds(out, ReadyAt(p) \ {t})
        BY <4>1, ListRemoveHolds
      <4>3. in \in Seq(Threads) /\ Holds(in, ReadyAt(q) \cup {t})
        BY <2>2, <4>1, ListInsertHolds
      <4>4. MapRemove(lists, p, priorityMap \cup {q})
        BY <2>1, <3>1
      <4>5. priorityMap' \in SUBSET Priorities /\ highestPriority' \in Priorities
        BY <2>2, <4>4, MapRemoveType DEF QueueTypes
      <4>6. priorityList' = [priorityList EXCEPT ![p] = out, ![q] = in]
        BY <1>2, <2>1, <2>2, <3>1 DEF QueueTypes
      <4>7. priority' = [priority EXCEPT ![t] = q] /\ state' = state
        BY <2>1
      <4> HIDE DEF out, in, lists, new, q
      <4>8. ASSUME NEW r \in Priorities
            PROVE  Holds(priorityList'[r], ReadyAt(r)')
        <5>1. CASE r = p
          <6>1. priorityList'[r] = out
            BY <1>2, <2>2, <4>6, <5>1 DEF QueueTypes
          <6>2. ReadyAt(r)' = ReadyAt(p) \ {t}
            BY <1>2, <2>2, <4>7, <5>1 DEF QueueTypes, ReadyAt
          <6> QED
            BY <4>2, <6>1, <6>2
        <5>2. CASE r = q
          <6>1. priorityList'[r] = in
            BY <1>2, <2>2, <4>6, <5>2 DEF QueueTypes
          <6>2. ReadyAt(r)' = ReadyAt(q) \cup {t}
            BY <2>2, <3>1, <4>7, <5>2 DEF QueueTypes, ReadyAt
          <6> QED
            BY <4>3, <6>1, <6>2
        <5>3. CASE r # p /\ r # q
          <6>1. priorityList'[r] = priorityList[r]
            BY <2>2, <4>6, <5>3 DEF QueueTypes
          <6>2. ReadyAt(r)' = ReadyAt(r)
            BY <2>2, <4>7, <5>3 DEF QueueTypes, ReadyAt
          <6> QED
            BY <6>1, <6>2 DEF QueuesMatchState, ReadyAt
        <5> QED
          BY <5>1, <5>2, <5>3
      <4>9. priorityList' \in [Priorities -> Seq(Threads)]
        BY <2>2, <4>2, <4>3, <4>6, Zenon DEF QueueTypes
      <4> QED
        BY <4>5, <4>8, <4>9
    <3>2. CASE state[t] # "Ready"
      <4>1. UNCHANGED <<priorityList, priorityMap, highestPriority, state>>
        BY <2>1, <3>2
      <4>2. \A r \in Priorities : ReadyAt(r)' = ReadyAt(r)
        BY <2>1, <2>2, <3>2 DEF QueueTypes, ReadyAt
      <4> QED
        BY <4>1, <4>2, Zenon DEF QueueTypes, QueuesMatchState, ReadyAt
    <3> QED
      BY <3>1, <3>2
  <2> HIDE DEF lists, new, q, t
  <2>7. QueueTypes'
    BY <2>1, <2>3, <2>4, <2>5, <2>6 DEF QueueTypes
  <2>8. QueuesMatchState'
    BY <2>1, <2>4, <2>5, <2>6 DEF QueuesMatchState, ReadyAt, SleepingOn
  <2> QED
    BY <2>1, <2>7, <2>8
<1> QED
  BY <1>1, <1>2

---------------------------------------------------------------------------
(* The inductive invariant *)

\* The constants of the model are in the types of the scheduler's locals.
LEMMA UserType ==
    /\ User \in Kernels /\ NoCall \in Calls
    /\ User.at = "user" /\ User.then = "user" /\ User.decision = "none"
  BY PriorityAssumption DEF User, NoCall, NoTimeout, Kernels, Calls, Phases, Priorities

\* A step that leaves the queues alone.
LEMMA SameQueues ==
    ASSUME QueueTypes, QueuesMatchState, UNCHANGED queueVars
    PROVE  QueueTypes' /\ QueuesMatchState' /\ state' = state
  BY DEF queueVars, QueueTypes, QueuesMatchState

\* ready keeps the types of what is not a queue.
LEMMA MakeReadyTypes ==
    ASSUME OtherTypes, NEW t \in Threads, NEW reason, MakeReady(t, reason)
    PROVE  /\ yielding' \in SUBSET Threads
           /\ futexWaitAddress' \in [Threads -> Futexes \cup {NoAddress}]
           /\ inheriting' \in SUBSET Threads
           /\ boosted' \in [Threads -> Threads \cup {NoThread}]
           /\ multiWaiter' \in [Threads -> MultiWaiters \cup {NoMultiWaiter}]
  BY Zenon DEF MakeReady, OtherTypes

\* scheduler_entry keeps the invariant: it readies the head of the waiting list.
LEMMA BootStep ==
    ASSUME IInv, Boot
    PROVE  IInv'
<1> USE DEF IInv
<1>1. UNCHANGED <<current, expiryTime, owner, events, live, timeVars, call>> /\ kernel.at = "boot"
  BY DEF Boot
<1>2. CASE waitingList # <<>> /\ MakeReady(Head(waitingList), "Timer") /\ UNCHANGED kernel
  <2>1. Head(waitingList) \in Threads /\ state[Head(waitingList)] = "Suspended"
    BY <1>2, HeadHolds DEF QueueTypes, QueuesMatchState
  <2>2. QueueTypes' /\ QueuesMatchState'
        /\ \A u \in Threads : state[u] = "Ready" => state'[u] = "Ready"
    BY <1>2, <2>1, MakeReadyQueues
  <2>3. OtherTypes'
    BY <1>1, <1>2, <2>1, MakeReadyTypes DEF OtherTypes, timeVars
  <2>4. KernelOK'
    BY <1>1, <1>2, <2>2 DEF KernelOK, OtherTypes, Leaving
  <2> QED
    BY <2>2, <2>3, <2>4
<1>3. CASE Goto("yield") /\ UNCHANGED <<queueVars, yielding, multiWaiter, futexWaitAddress,
                                        boosted, inheriting>>
  <2>1. QueueTypes' /\ QueuesMatchState' /\ state' = state
    BY <1>3, SameQueues
  <2>2. OtherTypes'
    BY <1>1, <1>3 DEF OtherTypes, timeVars
  <2>3. KernelOK'
    BY <1>1, <1>3, <2>1 DEF KernelOK, Kernels, Goto, Phases, Leaving
  <2> QED
    BY <2>1, <2>2, <2>3
<1> QED
  BY <1>2, <1>3 DEF Boot

\* An explicit yield and a timer interrupt only choose what comes next.
LEMMA YieldStep ==
    ASSUME IInv, Yield \/ TimerInterrupt
    PROVE  IInv'
<1> USE DEF IInv
<1>1. UNCHANGED <<current, queueVars, expiryTime, yielding, futexVars, multiVars, timeVars, call>>
  BY DEF Yield, TimerInterrupt
<1>2. QueueTypes' /\ QueuesMatchState' /\ state' = state
  BY <1>1, SameQueues
<1>3. OtherTypes'
  BY <1>1 DEF OtherTypes, futexVars, multiVars, timeVars
<1>4. kernel.at \in {"yield", "user"} /\ (Goto("schedule") \/ Goto("expire"))
  BY DEF Yield, TimerInterrupt, InUser
<1>5. KernelOK'
  BY <1>1, <1>2, <1>4 DEF KernelOK, Kernels, Goto, Phases, Leaving
<1> QED
  BY <1>2, <1>3, <1>5

\* expiretimers readies at most the head of the waiting list.
LEMMA ExpireTimersStep ==
    ASSUME IInv, ExpireTimers
    PROVE  IInv'
<1> USE DEF IInv
<1>1. /\ UNCHANGED <<current, expiryTime, owner, events, live, now, timer, call>>
      /\ kernel.at = "expire" /\ ticksSinceBoot' = TicksAt(now)
      /\ Goto(IF kernel.decision = "skip" THEN "skip" ELSE "schedule")
  BY DEF ExpireTimers
<1>2. ticksSinceBoot' \in Nat
  BY <1>1, TimeAssumption DEF TicksAt, OtherTypes
<1>3. /\ QueueTypes' /\ QueuesMatchState'
      /\ \A u \in Threads : state[u] = "Ready" => state'[u] = "Ready"
      /\ OtherTypes'
  <2>1. CASE waitingList # <<>> /\ MakeReady(Head(waitingList), "Timer")
    <3>1. Head(waitingList) \in Threads /\ state[Head(waitingList)] = "Suspended"
      BY <2>1, HeadHolds DEF QueueTypes, QueuesMatchState
    <3>2. QueueTypes' /\ QueuesMatchState'
          /\ \A u \in Threads : state[u] = "Ready" => state'[u] = "Ready"
      BY <2>1, <3>1, MakeReadyQueues
    <3>3. OtherTypes'
      BY <1>1, <1>2, <2>1, <3>1, MakeReadyTypes DEF OtherTypes
    <3> QED
      BY <3>2, <3>3
  <2>2. CASE UNCHANGED <<queueVars, yielding, multiWaiter, futexWaitAddress, boosted, inheriting>>
    <3>1. QueueTypes' /\ QueuesMatchState' /\ state' = state
      BY <2>2, SameQueues
    <3>2. OtherTypes'
      BY <1>1, <1>2, <2>2 DEF OtherTypes
    <3> QED
      BY <3>1, <3>2
  <2> QED
    BY <2>1, <2>2 DEF ExpireTimers
<1>4. KernelOK'
  BY <1>1, <1>3 DEF KernelOK, Kernels, Goto, Phases, Leaving, OtherTypes
<1> QED
  BY <1>3, <1>4

\* Timer::update computes a time.
LEMMA TimerType ==
    ASSUME QueueTypes, OtherTypes, QueuesMatchState, NEW t, NEW lists
    PROVE  TimerFor(t, lists) \in Nat
<1>1. CASE waitingList = <<>>
  BY <1>1, TimeAssumption DEF TimerFor, OtherTypes
<1>2. CASE waitingList # <<>>
  <2>1. Head(waitingList) \in Threads
    BY <1>2, HeadHolds DEF QueueTypes, QueuesMatchState
  <2>2. expiryTime[Head(waitingList)] \in Nat
    BY <2>1 DEF OtherTypes
  <2> QED
    BY <1>2, <2>2, TimeAssumption DEF TimerFor, OtherTypes
<1> QED
  BY <1>1, <1>2

\* schedule picks a ready thread, or none.
LEMMA ScheduleStep ==
    ASSUME IInv, Schedule
    PROVE  IInv'
<1> USE DEF IInv
<1>1. /\ QueueTypes' /\ QueuesMatchState'
      /\ current' \in Threads \cup {NoThread}
      /\ current' # NoThread => state'[current'] = "Ready"
  BY ScheduleQueues DEF OtherTypes
<1> DEFINE lists == IF current # NoThread /\ state[current] = "Ready"
                    THEN [priorityList EXCEPT ![priority[current]] = Rotate(@, current)]
                    ELSE priorityList
<1>2. /\ UNCHANGED <<yielding, futexVars, multiVars, now, ticksSinceBoot, call>>
      /\ expiryTime' = ScheduledAt(current')
      /\ timer' = TimerFor(current', lists)
      /\ kernel' = IF current' # NoThread /\ call[current'].op \notin {"none", "destroy"}
                   THEN [User EXCEPT !.at = "resume"] ELSE User
  BY DEF Schedule
<1> HIDE DEF lists
<1>3. timer' \in Nat
  BY <1>2, TimerType
<1>4. expiryTime' \in [Threads -> Nat]
  BY <1>1, <1>2 DEF ScheduledAt, OtherTypes
<1>5. OtherTypes'
  BY <1>1, <1>2, <1>3, <1>4 DEF OtherTypes, futexVars, multiVars
<1>6. KernelOK'
  <2>1. /\ kernel' \in Kernels /\ kernel'.decision = "none"
        /\ kernel'.at = "user" \/ (kernel'.at = "resume" /\ current' # NoThread)
    BY <1>2, UserType DEF Kernels, Phases
  <2> QED
    BY <1>1, <1>2, <2>1 DEF KernelOK, Leaving
<1> QED
  BY <1>1, <1>5, <1>6

\* exception_entry that needs no scheduling returns to a ready thread.
LEMMA SkipScheduleStep ==
    ASSUME IInv, SkipSchedule
    PROVE  IInv'
<1> USE DEF IInv
<1>1. /\ UNCHANGED <<current, queueVars, expiryTime, yielding, futexVars, multiVars, now,
                     ticksSinceBoot, call>>
      /\ timer' = TimerFor(current, priorityList) /\ kernel' = User /\ kernel.at = "skip"
  BY DEF SkipSchedule
<1>2. QueueTypes' /\ QueuesMatchState' /\ state' = state
  BY <1>1, SameQueues
<1>3. timer' \in Nat
  BY <1>1, TimerType
<1>4. OtherTypes'
  BY <1>1, <1>3 DEF OtherTypes, futexVars, multiVars
<1>5. KernelOK'
  BY <1>1, <1>2, UserType DEF KernelOK, Leaving
<1> QED
  BY <1>2, <1>4, <1>5

\* The entry points that only record what they were called with.
LEMMA EntryStep ==
    ASSUME IInv,
           \/ \E f \in InterruptFutexes : ExternalInterrupt(f)
           \/ \E f \in Futexes, count \in Counts : FutexWake(f, count)
           \/ \E m \in MultiWaiters : MultiwaiterDelete(m)
    PROVE  IInv'
<1> USE DEF IInv
<1>1. /\ UNCHANGED <<current, queueVars, expiryTime, yielding, futexVars, multiVars, timeVars, call>>
      /\ InUser
  BY Zenon DEF ExternalInterrupt, FutexWake, MultiwaiterDelete, Running
<1>2. QueueTypes' /\ QueuesMatchState' /\ state' = state
  BY <1>1, SameQueues
<1>3. OtherTypes'
  BY <1>1 DEF OtherTypes, futexVars, multiVars, timeVars
<1>4. /\ kernel' \in Kernels /\ kernel'.decision = "none"
      /\ \/ kernel'.at = "wake" /\ kernel'.caller = "interrupt"
         \/ kernel'.at \in {"wake", "delete"} /\ current # NoThread
  <2>1. ASSUME NEW f \in InterruptFutexes, ExternalInterrupt(f)
        PROVE  kernel' \in Kernels /\ kernel'.decision = "none"
               /\ kernel'.at = "wake" /\ kernel'.caller = "interrupt"
    BY <2>1, UserType, NoneAssumption, PriorityAssumption, Zenon DEF ExternalInterrupt, Kernels, Phases
  <2>2. ASSUME NEW f \in Futexes, NEW count \in Counts, FutexWake(f, count)
        PROVE  kernel' \in Kernels /\ kernel'.decision = "none"
               /\ kernel'.at = "wake" /\ current # NoThread
    BY <2>2, UserType, TimeAssumption, Zenon DEF FutexWake, Running, Kernels, Phases
  <2>3. ASSUME NEW m \in MultiWaiters, MultiwaiterDelete(m)
        PROVE  kernel' \in Kernels /\ kernel'.decision = "none"
               /\ kernel'.at = "delete" /\ current # NoThread
    BY <2>3, UserType, Zenon DEF MultiwaiterDelete, Running, Kernels, Phases
  <2> QED
    BY <2>1, <2>2, <2>3
<1>5. KernelOK'
  BY <1>1, <1>2, <1>4 DEF KernelOK, InUser, Leaving
<1> QED
  BY <1>2, <1>3, <1>5

\* A thread that exits is the running one, so it is on its run queue.
LEMMA ExitStep ==
    ASSUME IInv, Exit
    PROVE  IInv'
<1> USE DEF IInv
<1>1. /\ UNCHANGED <<current, expiryTime, yielding, futexVars, multiVars, timeVars, call>>
      /\ kernel.at = "user" /\ current # NoThread /\ Goto("expire")
  BY DEF Exit, Running, InUser
<1>2. current \in Threads /\ state[current] = "Ready"
  BY <1>1 DEF OtherTypes, KernelOK, Leaving
<1>3. QueueTypes' /\ QueuesMatchState'
  BY <1>2, ExitQueues
<1>4. OtherTypes'
  BY <1>1 DEF OtherTypes, futexVars, multiVars, timeVars
<1>5. KernelOK'
  BY <1>1 DEF KernelOK, Kernels, Goto, Phases, Leaving
<1> QED
  BY <1>3, <1>4, <1>5

\* The time at which a timeout expires is a time.
LEMMA ExpiryType ==
    ASSUME now \in Nat, NEW timeout, timeout.value \in Nat
    PROVE  ExpiryFor(timeout) \in Nat
<1>1. timeout.value * CyclesPerTick \in Nat
  BY TimeAssumption
<1> QED
  BY <1>1 DEF ExpiryFor

\* suspend removes the running thread from its run queue, where it is.
LEMMA SuspendStep ==
    ASSUME IInv, Suspend
    PROVE  IInv'
<1> USE DEF IInv
<1> DEFINE c == call[current]
           queue == CASE c.op = "futex" -> "futex"
                      [] c.op = "multi" -> "multi"
                      [] OTHER -> "none"
<1>1. /\ kernel.at = "suspend"
      /\ \/ /\ SuspendInternal(current, c.timeout, queue)
            /\ MayBlock(c.timeout)
            /\ yielding' = IF c.op = "sleep" THEN yielding \cup {current}
                           ELSE yielding \ {current}
         \/ UNCHANGED <<queueVars, expiryTime, yielding>> /\ ~MayBlock(c.timeout)
      /\ call' = [call EXCEPT ![current].start = ticksSinceBoot]
      /\ Goto(IF MayBlock(c.timeout) \/ c.op \in {"sleep", "sleep_full"} THEN "yield" ELSE "resume")
      /\ UNCHANGED <<current, futexVars, multiVars, timeVars>>
  BY DEF Suspend
<1>2. /\ current \in Threads /\ state[current] = "Ready" /\ c \in Calls
      /\ kernel.decision # "skip"
  BY <1>1 DEF OtherTypes, KernelOK, Leaving
<1>3. queue \in Queues
  BY DEF Queues
<1>4. c.timeout.value \in Nat
  BY <1>2 DEF Calls
<1> HIDE DEF queue
<1>5. QueueTypes' /\ QueuesMatchState' /\ expiryTime' \in [Threads -> Nat]
      /\ yielding' \in SUBSET Threads /\ (MayBlock(c.timeout) \/ state' = state)
  <2>1. CASE /\ SuspendInternal(current, c.timeout, queue)
             /\ MayBlock(c.timeout)
             /\ yielding' = IF c.op = "sleep" THEN yielding \cup {current}
                            ELSE yielding \ {current}
    <3>1. QueueTypes' /\ QueuesMatchState'
      BY <1>2, <1>3, <2>1, SuspendQueues
    <3>2. expiryTime' = [expiryTime EXCEPT ![current] = ExpiryFor(c.timeout)]
      BY <2>1, Zenon DEF SuspendInternal
    <3>3. ExpiryFor(c.timeout) \in Nat
      BY <1>4, ExpiryType DEF OtherTypes
    <3> QED
      BY <1>2, <2>1, <3>1, <3>2, <3>3 DEF OtherTypes
  <2>2. CASE UNCHANGED <<queueVars, expiryTime, yielding>> /\ ~MayBlock(c.timeout)
    BY <2>2, SameQueues DEF OtherTypes
  <2> QED
    BY <1>1, <2>1, <2>2
<1>6. OtherTypes'
  BY <1>1, <1>5 DEF OtherTypes, futexVars, multiVars, timeVars
<1>7. call' \in [Threads -> Calls]
  <2>1. [c EXCEPT !.start = ticksSinceBoot] \in Calls
    BY <1>2 DEF Calls, OtherTypes
  <2>2. call' = [call EXCEPT ![current] = [c EXCEPT !.start = ticksSinceBoot]]
    BY <1>1
  <2> QED
    BY <1>2, <2>1, <2>2 DEF KernelOK
<1>8. KernelOK'
  <2>1. /\ kernel' \in Kernels /\ kernel'.decision # "skip"
        /\ kernel'.at = "yield" \/ (kernel'.at = "resume" /\ ~MayBlock(c.timeout))
    BY <1>1, <1>2 DEF Goto, Kernels, Phases, KernelOK
  <2> QED
    BY <1>1, <1>2, <1>5, <1>7, <2>1 DEF KernelOK, Leaving
<1> QED
  BY <1>5, <1>6, <1>8

\* A blocking call records itself, and its thread is suspended next.
LEMMA BlockingCall ==
    ASSUME IInv, Running, NEW c \in Calls, call' = [call EXCEPT ![current] = c],
           UNCHANGED <<current, state>>, Goto("suspend")
    PROVE  KernelOK'
<1> USE DEF IInv
<1>1. /\ kernel.at = "user" /\ kernel.decision # "skip"
      /\ current # NoThread /\ state[current] = "Ready"
  BY Zenon DEF Running, InUser, OtherTypes, KernelOK, Leaving
<1>2. call' \in [Threads -> Calls]
  BY Zenon DEF KernelOK
<1>3. kernel' \in Kernels /\ kernel'.at = "suspend" /\ kernel'.decision # "skip"
  BY <1>1 DEF Goto, KernelOK, Kernels, Phases
<1> QED
  BY <1>1, <1>2, <1>3 DEF KernelOK, Leaving

\* thread_sleep records the call.
LEMMA ThreadSleepStep ==
    ASSUME IInv, NEW timeout \in Timeouts, NEW op \in SleepKinds, ThreadSleep(timeout, op)
    PROVE  IInv'
<1> USE DEF IInv
<1>1. UNCHANGED <<current, queueVars, expiryTime, yielding, futexVars, multiVars, timeVars>>
  BY DEF ThreadSleep
<1>2. QueueTypes' /\ QueuesMatchState' /\ state' = state
  BY <1>1, SameQueues
<1>3. OtherTypes'
  BY <1>1 DEF OtherTypes, futexVars, multiVars, timeVars
<1> DEFINE c == [NoCall EXCEPT !.op = op, !.timeout = timeout]
<1>4. c \in Calls
  <2>1. op \in {"sleep", "sleep_full"}
    BY TimeAssumption
  <2>2. timeout \in [kind : {"relative", "absolute"}, value : Nat]
    BY TimeAssumption
  <2> QED
    BY <2>1, <2>2, UserType, Zenon DEF Calls
<1>5. Running /\ call' = [call EXCEPT ![current] = c] /\ Goto("suspend")
  BY DEF ThreadSleep
<1> HIDE DEF c
<1>6. KernelOK'
  BY <1>1, <1>2, <1>4, <1>5, BlockingCall, Zenon
<1> QED
  BY <1>2, <1>3, <1>6

\* multiwaiter_wait registers the events and records the call.
LEMMA MultiwaiterWaitStep ==
    ASSUME IInv, NEW m \in MultiWaiters, NEW fs \in SUBSET Futexes, NEW timeout \in Timeouts,
           MultiwaiterWait(m, fs, timeout)
    PROVE  IInv'
<1> USE DEF IInv
<1>1. UNCHANGED <<current, queueVars, expiryTime, yielding, owner, live, timeVars>>
  BY DEF MultiwaiterWait
<1>2. QueueTypes' /\ QueuesMatchState' /\ state' = state
  BY <1>1, SameQueues
<1>3. OtherTypes'
  <2>1. /\ events' \in [MultiWaiters -> SUBSET Futexes]
        /\ multiWaiter' \in [Threads -> MultiWaiters \cup {NoMultiWaiter}]
        /\ futexWaitAddress' \in [Threads -> Futexes \cup {NoAddress}]
        /\ boosted' \in [Threads -> Threads \cup {NoThread}]
        /\ inheriting' \in SUBSET Threads
    BY Zenon DEF MultiwaiterWait, OtherTypes
  <2> QED
    BY <1>1, <2>1 DEF OtherTypes, timeVars
<1> DEFINE c == [NoCall EXCEPT !.op = "multi", !.timeout = timeout, !.object = m]
<1>4. c \in Calls
  BY UserType, TimeAssumption, Zenon DEF Calls
<1>5. Running /\ call' = [call EXCEPT ![current] = c] /\ Goto("suspend")
  BY DEF MultiwaiterWait
<1> HIDE DEF c
<1>6. KernelOK'
  BY <1>1, <1>2, <1>4, <1>5, BlockingCall, Zenon
<1> QED
  BY <1>2, <1>3, <1>6

\* futex_timed_wait records the call and, on a priority-inheriting futex, the
\* boost of the owner.
LEMMA FutexWaitStep ==
    ASSUME IInv, NEW f \in Futexes, NEW timeout \in Timeouts, FutexWait(f, timeout)
    PROVE  IInv'
<1> USE DEF IInv
<1> DEFINE plain == [NoCall EXCEPT !.op = "futex", !.timeout = timeout]
           lent == [NoCall EXCEPT !.op = "futex", !.timeout = timeout, !.owner = owner[f]]
<1>1. /\ UNCHANGED <<current, queueVars, expiryTime, yielding, owner, multiVars, timeVars>>
      /\ Running
      /\ futexWaitAddress' = [futexWaitAddress EXCEPT ![current] = f]
      /\ inheriting' = inheriting \ {current} \/ inheriting' = inheriting \cup {current}
  BY DEF FutexWait
<1>2. QueueTypes' /\ QueuesMatchState' /\ state' = state
  BY <1>1, SameQueues
<1>3. /\ kernel.at = "user" /\ kernel.decision # "skip" /\ current \in Threads
      /\ current # NoThread /\ state[current] = "Ready"
  BY <1>1, Zenon DEF Running, InUser, OtherTypes, KernelOK, Leaving
<1>4. timeout \in [kind : {"relative", "absolute"}, value : Nat]
  BY TimeAssumption
<1>5. boosted' \in [Threads -> Threads \cup {NoThread}] /\ KernelOK'
  <2>1. CASE /\ call' = [call EXCEPT ![current] = plain]
             /\ Goto("suspend") /\ UNCHANGED boosted
    <3>1. plain \in Calls
      BY <1>4, UserType, Zenon DEF Calls
    <3> HIDE DEF plain
    <3> QED
      BY <1>1, <1>2, <2>1, <3>1, BlockingCall, Zenon DEF OtherTypes
  <2>2. CASE /\ f \in PIFutexes
             /\ owner[f] \notin {current, NoThread}
             /\ boosted' = [u \in Threads |->
                              IF /\ u \in ToSet(futexWaitingList)
                                 /\ u \in inheriting /\ futexWaitAddress[u] = f
                              THEN owner[f] ELSE boosted[u]]
             /\ kernel' = [User EXCEPT !.at = "boost", !.then = "suspend",
                                       !.target = owner[f],
                                       !.boost = BoostFor(owner[f], boosted', priority[current])]
             /\ call' = [call EXCEPT ![current] = lent]
    <3>1. owner[f] \in Threads \cup {NoThread} /\ owner[f] # NoThread
      BY <2>2 DEF OtherTypes
    <3>2. boosted' \in [Threads -> Threads \cup {NoThread}]
      BY <2>2, <3>1 DEF OtherTypes
    <3>3. BoostFor(owner[f], boosted', priority[current]) \in Priorities
      BY <1>3, BoostType DEF QueueTypes
    <3>4. lent \in Calls
      BY <1>4, <3>1, UserType, Zenon DEF Calls
    <3> HIDE DEF lent
    <3>5. call' \in [Threads -> Calls]
      BY <2>2, <3>4, Zenon DEF KernelOK
    <3>6. /\ kernel' \in Kernels /\ kernel'.at = "boost" /\ kernel'.then = "suspend"
          /\ kernel'.target = owner[f] /\ kernel'.decision = "none"
      BY <2>2, <3>1, <3>3, UserType, Zenon DEF Kernels, Phases
    <3>7. KernelOK'
      BY <1>1, <1>2, <1>3, <3>1, <3>5, <3>6, Zenon DEF KernelOK
    <3> QED
      BY <3>2, <3>7
  <2>3. CASE UNCHANGED <<boosted, kernel, call>>
    BY <1>1, <1>2, <2>3, Zenon DEF OtherTypes, KernelOK
  <2> QED
    BY <2>1, <2>2, <2>3 DEF FutexWait
<1>6. OtherTypes'
  BY <1>1, <1>3, <1>5, Zenon DEF OtherTypes, multiVars, timeVars
<1> QED
  BY <1>2, <1>5, <1>6

\* The end of a blocking call, which may take back the boost of the owner.
LEMMA ResumeStep ==
    ASSUME IInv, Resume
    PROVE  IInv'
<1> USE DEF IInv
<1> DEFINE c == call[current]
<1>1. /\ UNCHANGED <<current, queueVars, expiryTime, yielding, owner, live, timeVars>>
      /\ kernel.at = "resume"
      /\ call' = [call EXCEPT ![current] = NoCall]
  BY DEF Resume
<1>2. QueueTypes' /\ QueuesMatchState' /\ state' = state
  BY <1>1, SameQueues
<1>3. current \in Threads /\ current # NoThread /\ state[current] = "Ready" /\ c \in Calls
  BY <1>1 DEF OtherTypes, KernelOK, Leaving
<1>4. OtherTypes'
  <2>1. /\ futexWaitAddress' \in [Threads -> Futexes \cup {NoAddress}]
        /\ boosted' \in [Threads -> Threads \cup {NoThread}]
        /\ inheriting' \in SUBSET Threads
        /\ multiWaiter' \in [Threads -> MultiWaiters \cup {NoMultiWaiter}]
        /\ events' \in [MultiWaiters -> SUBSET Futexes]
    BY DEF Resume, GetResults, OtherTypes
  <2> QED
    BY <1>1, <2>1 DEF OtherTypes, timeVars
<1>5. call' \in [Threads -> Calls]
  BY <1>1, UserType, Zenon DEF KernelOK
<1>6. /\ kernel' \in Kernels /\ kernel'.decision = "none"
      /\ \/ kernel'.at = "user"
         \/ kernel'.at = "boost" /\ kernel'.target # NoThread /\ kernel'.then = "user"
  <2>1. CASE kernel' = User
    BY <2>1, UserType
  <2>2. CASE /\ c.owner # NoThread
             /\ kernel' = [User EXCEPT !.at = "boost", !.target = c.owner,
                                       !.boost = BoostFor(c.owner, boosted, 0)]
    <3>1. 0 \in Priorities
      BY PriorityAssumption DEF Priorities
    <3>2. BoostFor(c.owner, boosted, 0) \in Priorities
      BY <3>1, BoostType
    <3>3. c.owner \in Threads \cup {NoThread}
      BY <1>3 DEF Calls
    <3> HIDE DEF c
    <3> QED
      BY <2>2, <3>2, <3>3, UserType, Zenon DEF Kernels, Phases
  <2> QED
    BY <2>1, <2>2 DEF Resume
<1>7. KernelOK'
  BY <1>1, <1>2, <1>3, <1>5, <1>6 DEF KernelOK
<1> QED
  BY <1>2, <1>4, <1>7

\* The two loops of the internal futex_wake.
LEMMA WakeStep ==
    ASSUME IInv, WakeFutexWaiter \/ WakeMultiWaiter
    PROVE  IInv'
<1> USE DEF IInv
<1>1. /\ UNCHANGED <<current, expiryTime, owner, events, live, timeVars, call>>
      /\ kernel.at = "wake" /\ kernel.count > 0
  BY DEF WakeFutexWaiter, WakeMultiWaiter
<1>2. PICK t \in Threads, reason \in {"Futex", "MultiWaiter"} :
        state[t] = "Suspended" /\ MakeReady(t, reason)
  <2>1. CASE WakeFutexWaiter
    <3> DEFINE i == SelectInSeq(futexWaitingList, FutexMatch)
    <3>1. i # 0 /\ MakeReady(futexWaitingList[i], "Futex")
      BY <2>1 DEF WakeFutexWaiter
    <3>2. i \in 1 .. Len(futexWaitingList)
      BY <3>1, FutexMatchPlace
    <3> HIDE DEF i
    <3>3. futexWaitingList[i] \in {u \in Threads : sleepQueue[u] = "futex"}
      BY <3>2, PlaceHolds DEF QueueTypes, QueuesMatchState
    <3> QED
      BY <3>1, <3>3 DEF QueuesMatchState
  <2>2. CASE WakeMultiWaiter
    <3> DEFINE i == SelectInSeq(multiList, MultiMatch)
    <3>1. i # 0 /\ MakeReady(multiList[i], "MultiWaiter")
      BY <2>2 DEF WakeMultiWaiter
    <3>2. i \in 1 .. Len(multiList)
      BY <3>1, MultiMatchPlace
    <3> HIDE DEF i
    <3>3. multiList[i] \in {u \in Threads : sleepQueue[u] = "multi"}
      BY <3>2, PlaceHolds DEF QueueTypes, QueuesMatchState
    <3> QED
      BY <3>1, <3>3, Zenon DEF QueuesMatchState
  <2> QED
    BY <2>1, <2>2
<1>3. QueueTypes' /\ QueuesMatchState'
      /\ \A u \in Threads : state[u] = "Ready" => state'[u] = "Ready"
  BY <1>2, MakeReadyQueues
<1>4. OtherTypes'
  BY <1>1, <1>2, MakeReadyTypes DEF OtherTypes, timeVars
<1>5. /\ kernel' \in Kernels /\ kernel'.at = "wake"
      /\ kernel'.caller = kernel.caller /\ kernel'.decision = kernel.decision
  <2>1. /\ kernel \in Kernels
        /\ kernel.count - 1 \in Nat /\ kernel.woke + 1 \in Nat /\ kernel.then \in Phases
    BY <1>1 DEF KernelOK, Kernels
  <2> DEFINE less == kernel.count - 1
             more == kernel.woke + 1
  <2>2. PICK then \in Phases :
          kernel' = [kernel EXCEPT !.count = less, !.woke = more, !.then = then]
    <3>1. "boost" \in Phases
      BY DEF Phases
    <3>2. CASE WakeFutexWaiter
      BY <2>1, <3>1, <3>2, Zenon DEF WakeFutexWaiter
    <3>3. CASE WakeMultiWaiter
      <4>1. kernel' = [kernel EXCEPT !.count = less, !.woke = more]
        BY <3>3 DEF WakeMultiWaiter
      <4>2. kernel' = [kernel EXCEPT !.count = less, !.woke = more, !.then = kernel.then]
        BY <2>1, <4>1, Zenon DEF Kernels
      <4> QED
        BY <2>1, <4>2, Zenon
    <3> QED
      BY <3>2, <3>3, Zenon
  <2>3. less \in Nat /\ more \in Nat
    BY <2>1
  <2> HIDE DEF less, more
  <2> QED
    BY <1>1, <2>1, <2>2, <2>3, Zenon DEF Kernels
<1>6. KernelOK'
  BY <1>1, <1>3, <1>5 DEF KernelOK, OtherTypes, Leaving
<1> QED
  BY <1>3, <1>4, <1>6

\* An interrupt that woke nobody returns to the running thread.
LEMMA InterruptWakeEndStep ==
    ASSUME IInv, InterruptWakeEnd
    PROVE  IInv'
<1> USE DEF IInv
<1>1. /\ UNCHANGED <<current, queueVars, expiryTime, yielding, futexVars, multiVars, timeVars, call>>
      /\ kernel.at = "wake"
      /\ kernel' = [User EXCEPT
                      !.at = IF kernel.woke > 0 \/ ~any_ready THEN "expire" ELSE "skip",
                      !.decision = IF kernel.woke > 0 THEN "none" ELSE "skip"]
  BY DEF InterruptWakeEnd, WakeFinished
<1>2. QueueTypes' /\ QueuesMatchState' /\ state' = state
  BY <1>1, SameQueues
<1>3. OtherTypes'
  BY <1>1 DEF OtherTypes, futexVars, multiVars, timeVars
<1>4. kernel' \in Kernels /\ kernel'.at \in {"expire", "skip"}
  BY <1>1, UserType, ZenonT(60) DEF Kernels, Phases
<1>5. KernelOK'
  BY <1>1, <1>2, <1>4 DEF KernelOK, Leaving
<1> QED
  BY <1>2, <1>3, <1>5

\* The end of futex_wake, which may take back the caller's boost.
LEMMA FutexWakeEndStep ==
    ASSUME IInv, FutexWakeEnd
    PROVE  IInv'
<1> USE DEF IInv
<1>1. /\ UNCHANGED <<current, queueVars, expiryTime, yielding, futexWaitAddress, inheriting,
                     owner, multiVars, timeVars, call>>
      /\ kernel.at = "wake" /\ kernel.caller = "thread"
  BY DEF FutexWakeEnd, WakeFinished
<1>2. QueueTypes' /\ QueuesMatchState' /\ state' = state
  BY <1>1, SameQueues
<1>3. current \in Threads /\ current # NoThread /\ state[current] = "Ready"
  BY <1>1 DEF OtherTypes, KernelOK, Leaving
<1>4. ShouldYield \in {"NoYield", "YieldNow", "YieldLater"}
  BY DEF ShouldYield
<1>5. boosted' \in [Threads -> Threads \cup {NoThread}]
  BY DEF FutexWakeEnd, OtherTypes
<1>6. OtherTypes'
  BY <1>1, <1>5 DEF OtherTypes, multiVars, timeVars
<1>7. /\ kernel' \in Kernels /\ kernel'.decision # "skip"
      /\ \/ kernel'.at = "wakeyield"
         \/ kernel'.at = "boost" /\ kernel'.target = current /\ kernel'.then = "wakeyield"
  <2>1. CASE kernel' = [User EXCEPT !.at = "boost", !.then = "wakeyield", !.target = current,
                                    !.boost = BoostFor(current, boosted', 0),
                                    !.decision = ShouldYield]
    <3>1. 0 \in Priorities
      BY PriorityAssumption DEF Priorities
    <3>2. BoostFor(current, boosted', 0) \in Priorities
      BY <3>1, BoostType
    <3> QED
      BY <1>3, <1>4, <2>1, <3>2, UserType, Zenon DEF Kernels, Phases
  <2>2. CASE kernel' = [User EXCEPT !.at = "wakeyield", !.decision = ShouldYield]
    BY <1>4, <2>2, UserType, Zenon DEF Kernels, Phases
  <2> QED
    BY <2>1, <2>2 DEF FutexWakeEnd
<1>8. KernelOK'
  BY <1>1, <1>2, <1>3, <1>7 DEF KernelOK
<1> QED
  BY <1>2, <1>6, <1>8

\* futex_wake yields, asks for a tick, or returns.
LEMMA WakeYieldStep ==
    ASSUME IInv, WakeYield
    PROVE  IInv'
<1> USE DEF IInv
<1>1. /\ UNCHANGED <<current, queueVars, expiryTime, yielding, futexVars, multiVars, now,
                     ticksSinceBoot>>
      /\ kernel.at = "wakeyield"
      /\ call' = call \/ call' = [call EXCEPT ![current].op = "wake"]
  BY DEF WakeYield
<1>2. QueueTypes' /\ QueuesMatchState' /\ state' = state
  BY <1>1, SameQueues
<1>3. current \in Threads /\ state[current] = "Ready"
  BY <1>1 DEF OtherTypes, KernelOK, Leaving
<1>4. timer' \in Nat
  <2>1. expiryTime[current] + CyclesPerTick \in Nat /\ timer \in Nat
    BY <1>3, TimeAssumption DEF OtherTypes
  <2> QED
    BY <2>1 DEF WakeYield
<1>5. OtherTypes'
  BY <1>1, <1>4 DEF OtherTypes, futexVars, multiVars
<1>6. kernel' \in Kernels /\ kernel'.at \in {"user", "yield"} /\ kernel'.decision = "none"
  <2>1. kernel' = User \/ kernel' = [User EXCEPT !.at = "yield"]
    BY DEF WakeYield
  <2> QED
    BY <2>1, UserType DEF Kernels, Phases
<1>7. call' \in [Threads -> Calls]
  BY <1>1, <1>3 DEF KernelOK, Calls
<1>8. KernelOK'
  BY <1>1, <1>2, <1>3, <1>6, <1>7 DEF KernelOK, Leaving
<1> QED
  BY <1>2, <1>5, <1>8

\* priority_boost keeps every thread on the queues of its state.
LEMMA PriorityBoostStep ==
    ASSUME IInv, PriorityBoost
    PROVE  IInv'
<1> USE DEF IInv
<1>1. /\ UNCHANGED <<current, expiryTime, yielding, futexVars, multiVars, timeVars, call>>
      /\ kernel.at = "boost"
      /\ kernel' = [User EXCEPT !.at = kernel.then, !.decision = kernel.decision]
  BY DEF PriorityBoost
<1>2. kernel.target \in Threads /\ kernel.boost \in Priorities
  BY <1>1 DEF KernelOK, Kernels
<1>3. QueueTypes' /\ QueuesMatchState' /\ state' = state
  BY <1>2, BoostQueues
<1>4. OtherTypes'
  BY <1>1 DEF OtherTypes, futexVars, multiVars, timeVars
<1>5. /\ kernel' \in Kernels /\ kernel'.at = kernel.then
      /\ kernel'.decision = kernel.decision /\ kernel.decision # "skip"
  BY <1>1, UserType, Zenon DEF KernelOK, Kernels
<1>6. KernelOK'
  BY <1>1, <1>3, <1>5 DEF KernelOK, Leaving
<1> QED
  BY <1>3, <1>4, <1>6

\* The destructor of a multiwaiter readies its waiters one at a time.
LEMMA DestructorStep ==
    ASSUME IInv, Destructor
    PROVE  IInv'
<1> USE DEF IInv
<1> DEFINE i == SelectInSeq(multiList, Blocked)
           c == [NoCall EXCEPT !.op = "destroy", !.object = kernel.object]
<1>1. /\ UNCHANGED <<current, expiryTime, owner, events, live, timeVars>>
      /\ kernel.at = "delete"
  BY DEF Destructor
<1>2. CASE i # 0 /\ MakeReady(multiList[i], "Timer") /\ UNCHANGED <<kernel, call>>
  <2>1. i \in 1 .. Len(multiList)
    BY <1>2, BlockedPlace
  <2> HIDE DEF i
  <2>2. multiList[i] \in {u \in Threads : sleepQueue[u] = "multi"}
    BY <2>1, PlaceHolds DEF QueueTypes, QueuesMatchState
  <2>3. multiList[i] \in Threads /\ state[multiList[i]] = "Suspended"
    BY <2>2 DEF QueuesMatchState
  <2>4. QueueTypes' /\ QueuesMatchState'
        /\ \A u \in Threads : state[u] = "Ready" => state'[u] = "Ready"
    BY <1>2, <2>3, MakeReadyQueues
  <2>5. OtherTypes'
    BY <1>1, <1>2, <2>3, MakeReadyTypes, Zenon DEF OtherTypes, timeVars
  <2>6. KernelOK'
    BY <1>1, <1>2, <2>4, Zenon DEF KernelOK, OtherTypes, Leaving
  <2> QED
    BY <2>4, <2>5, <2>6
<1>3. CASE /\ call' = [call EXCEPT ![current] = c] /\ kernel' = User
           /\ UNCHANGED <<queueVars, yielding, multiWaiter, futexWaitAddress, boosted, inheriting>>
  <2>1. QueueTypes' /\ QueuesMatchState' /\ state' = state
    BY <1>3, SameQueues
  <2>2. OtherTypes'
    BY <1>1, <1>3 DEF OtherTypes, timeVars
  <2>3. c \in Calls
    BY UserType, Zenon DEF KernelOK, Kernels, Calls
  <2> HIDE DEF c
  <2>4. call' \in [Threads -> Calls]
    BY <1>3, <2>3, Zenon DEF KernelOK
  <2>5. KernelOK'
    BY <1>1, <1>3, <2>1, <2>4, UserType DEF KernelOK, Leaving
  <2> QED
    BY <2>1, <2>2, <2>5
<1> QED
  BY <1>2, <1>3 DEF Destructor

\* The steps outside the scheduler.
LEMMA UserStep ==
    ASSUME IInv,
           \/ Tick \/ DestroyObject
           \/ \E f \in PIFutexes : AcquireWord(f) \/ ReleaseWord(f)
    PROVE  IInv'
<1> USE DEF IInv
<1>1. /\ UNCHANGED <<current, queueVars, expiryTime, yielding, futexWaitAddress, inheriting,
                     boosted, multiWaiter, events, ticksSinceBoot, timer, kernel>>
      /\ call' = call \/ call' = [call EXCEPT ![current] = NoCall]
  BY DEF Tick, DestroyObject, AcquireWord, ReleaseWord, futexVars, multiVars, timeVars
<1>2. QueueTypes' /\ QueuesMatchState' /\ state' = state
  BY <1>1, SameQueues
<1>3. /\ now' \in Nat /\ live' \in SUBSET MultiWaiters
      /\ owner' \in [PIFutexes -> Threads \cup {NoThread}]
  BY DEF Tick, DestroyObject, AcquireWord, ReleaseWord, futexVars, multiVars, timeVars, OtherTypes
<1>4. OtherTypes'
  BY <1>1, <1>3 DEF OtherTypes
<1>5. KernelOK'
  BY <1>1, <1>2, UserType DEF KernelOK
<1> QED
  BY <1>2, <1>4, <1>5

\* scheduler_entry starts with every thread constructed and suspended.
LEMMA InitIInv == Init => IInv
<1> SUFFICES ASSUME Init PROVE IInv
  OBVIOUS
<1>1. N \in Nat /\ waitingList = [t \in 1 .. N |-> t] /\ Threads = 1 .. N
  BY PriorityAssumption DEF Init, Threads
<1>2. waitingList \in Seq(Threads) /\ Len(waitingList) = N
  BY <1>1
<1>3. \A t \in 1 .. Len(waitingList) : waitingList[t] = t
  BY <1>1, <1>2
<1>4. Holds(waitingList, Threads)
  <2>1. ToSet(waitingList) = Threads
    <3>1. ASSUME NEW x PROVE x \in ToSet(waitingList) <=> x \in Threads
      <4>1. x \in ToSet(waitingList) <=> \E j \in 1 .. Len(waitingList) : waitingList[j] = x
        BY <1>2, Members
      <4> QED
        BY <1>1, <1>2, <1>3, <4>1
    <3> QED
      BY <3>1
  <2> QED
    BY <1>3, <2>1 DEF Holds
<1>5. <<>> \in Seq(Threads) /\ Holds(<<>>, {})
  <2>1. ToSet(<<>>) = {}
    <3>1. ASSUME NEW x PROVE x \notin ToSet(<<>>)
      BY DEF ToSet
    <3> QED
      BY <3>1
  <2> QED
    BY <2>1 DEF Holds
<1>6. QueueTypes
  BY <1>2, <1>5, PriorityAssumption DEF Init, QueueTypes, Priorities, Queues
<1>7. QueuesMatchState
  <2>1. {t \in Threads : state[t] = "Suspended"} = Threads
    BY DEF Init
  <2>2. ASSUME NEW p \in Priorities
        PROVE  Holds(priorityList[p], {t \in Threads : state[t] = "Ready" /\ priority[t] = p})
    <3>1. priorityList[p] = <<>> /\ {t \in Threads : state[t] = "Ready" /\ priority[t] = p} = {}
      BY DEF Init
    <3> QED
      BY <1>5, <3>1
  <2>3. /\ {t \in Threads : sleepQueue[t] = "futex"} = {} /\ futexWaitingList = <<>>
        /\ {t \in Threads : sleepQueue[t] = "multi"} = {} /\ multiList = <<>>
    BY DEF Init
  <2>4. \A t \in Threads : sleepQueue[t] # "none" => state[t] = "Suspended"
    BY DEF Init
  <2> QED
    BY <1>4, <1>5, <2>1, <2>2, <2>3, <2>4, Zenon DEF QueuesMatchState
<1>8. OtherTypes
  BY TimeAssumption DEF Init, OtherTypes
<1>9. KernelOK
  <2>1. call \in [Threads -> Calls]
    BY UserType DEF Init
  <2>2. kernel \in Kernels /\ kernel.at = "boot" /\ kernel.decision = "none"
    BY UserType DEF Init, Kernels, Phases
  <2> QED
    BY <2>1, <2>2 DEF Init, KernelOK
<1> QED
  BY <1>6, <1>7, <1>8, <1>9 DEF IInv

\* Every step of the scheduler, of the threads and of the hardware keeps the
\* inductive invariant.
LEMMA NextIInv == IInv /\ [Next]_vars => IInv'
<1> SUFFICES ASSUME IInv, [Next]_vars PROVE IInv'
  OBVIOUS
<1>1. CASE KernelStep
  BY <1>1, BootStep, YieldStep, ExpireTimersStep, ScheduleStep, SkipScheduleStep, SuspendStep,
     ResumeStep, WakeStep, InterruptWakeEndStep, FutexWakeEndStep, WakeYieldStep,
     PriorityBoostStep, DestructorStep DEF KernelStep
<1>2. CASE ThreadCall
  BY <1>2, ExitStep, UserStep, ThreadSleepStep, FutexWaitStep, EntryStep, MultiwaiterWaitStep
     DEF ThreadCall
<1>3. CASE Hardware
  BY <1>3, UserStep, YieldStep, EntryStep DEF Hardware
<1>4. CASE UNCHANGED vars
  BY <1>4, Zenon DEF vars, queueVars, futexVars, multiVars, timeVars, IInv, QueueTypes,
     QueuesMatchState, OtherTypes, KernelOK
<1> QED
  BY <1>1, <1>2, <1>3, <1>4 DEF Next

\* Every variable keeps its type: a boost never makes a priority that does not
\* exist, highestPriority is always a valid index of the run queues, and no
\* list ever holds anything but threads.
THEOREM SchedulerTypeOK == Spec => []TypeOK
<1>1. IInv => TypeOK
  BY DEF IInv, QueueTypes, OtherTypes, KernelOK, Kernels, TypeOK
<1> QED
  BY <1>1, InitIInv, NextIInv, PTL DEF Spec

\* "All threads that are suspended must be on this list": the waiting list, the
\* run queues and the sleep queues hold exactly the threads they should, each
\* once, for every number of threads, however the calls, the interrupts, the
\* timeouts and the priority boosts are interleaved.
THEOREM SchedulerQueuesMatchState == Spec => []QueuesMatchState
<1>1. IInv => QueuesMatchState
  BY DEF IInv
<1> QED
  BY <1>1, InitIInv, NextIInv, PTL DEF Spec
=============================================================================
