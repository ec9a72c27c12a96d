------------------------- MODULE ConditionVariable -------------------------
(***************************************************************************)
(* The condition variable (sdk/lib/locks/condition_variable.cc) with the   *)
(* use it is made for: consumers wait for items, under a mutex, producers  *)
(* add an item under the mutex and notify one waiter, before or after they *)
(* release the mutex.                                                      *)
(* mem holds the sequence counter, the mutex (its holder; an abstract lock *)
(* behind the mutexLock and mutexUnlock callbacks) and the items; local is *)
(* each thread's copy of the counter; history counts the items produced.   *)
(***************************************************************************)
EXTENDS FutexThreads

CONSTANTS
    Consumers,  \* the threads that wait for items; the others produce them
    MaxItems    \* bound: how many items are produced in a behaviour

Init ==
    /\ mem = [sequenceCounter |-> 0, mutex |-> "free", items |-> 0]
    /\ pc = [t \in Threads |-> "user"]
    /\ local = [t \in Threads |-> 0]
    /\ asleep = [t \in Threads |-> "no"]
    /\ history = 0

Locks(t) == mem.mutex = "free" /\ mem' = [mem EXCEPT !.mutex = t]
Unlocks(t) == mem' = [mem EXCEPT !.mutex = "free"]

---------------------------------------------------------------------------
(* Seeded faults *)


---------------------------------------------------------------------------
(* condition_variable_notify *)

\* conditionVariable->sequenceCounter++
Notify(t) ==
    /\ At(t, "notify")
    /\ mem' = [mem EXCEPT !.sequenceCounter = @ + 1]
    /\ Goto(t, "wake")
    /\ UNCHANGED <<local, asleep, history>>

\* futex_wake(&sequenceCounter, 1)
Wake(t) ==
    /\ At(t, "wake")
    /\ NotifyOne("sequenceCounter")
    /\ Goto(t, IF mem.mutex = t THEN "release" ELSE "user")
    /\ UNCHANGED <<mem, local, history>>

---------------------------------------------------------------------------
(* condition_variable_wait, called with the mutex held *)

\* counter = sequenceCounter.load()
WaitLoad(t) ==
    /\ At(t, "cv_load")
    /\ local' = [local EXCEPT ![t] = mem.sequenceCounter]
    /\ Goto(t, "cv_unlock")
    /\ UNCHANGED <<mem, asleep, history>>

\* mutexUnlock(mutex)
WaitUnlock(t) ==
    /\ At(t, "cv_unlock")
    /\ Unlocks(t)
    /\ Goto(t, "cv_wait")
    /\ UNCHANGED <<local, asleep, history>>

\* sequenceCounter.wait(timeout, counter)
Wait(t) ==
    /\ At(t, "cv_wait")
    /\ FutexWait(t, "sequenceCounter", local[t], "cv_lock", "woken")
    /\ UNCHANGED <<mem, local, history>>

\* wait has returned 0, or a timeout, which is returned without the mutex.
Woken(t) ==
    /\ At(t, "woken")
    /\ Goto(t, "cv_lock") \/ Goto(t, "user")
    /\ UNCHANGED <<mem, local, asleep, history>>

Expire(t) == TimesOut(t, "woken")

\* mutexLock(timeout, mutex), which may time out.
WaitLock(t) ==
    /\ At(t, "cv_lock")
    /\ \/ Locks(t) /\ Goto(t, "check")
       \/ mem.mutex # "free" /\ Goto(t, "user") /\ UNCHANGED mem
    /\ UNCHANGED <<local, asleep, history>>

---------------------------------------------------------------------------
(* The callers *)

\* A consumer takes the mutex to look for an item.
Consume(t) ==
    /\ t \in Consumers
    /\ At(t, "user")
    /\ Locks(t)
    /\ Goto(t, "check")
    /\ UNCHANGED <<local, asleep, history>>

\* It takes one and releases the mutex, or waits.
Check(t) ==
    /\ At(t, "check")
    /\ \/ /\ mem.items > 0
          /\ mem' = [mem EXCEPT !.items = @ - 1, !.mutex = "free"]
          /\ Goto(t, "user")
       \/ mem.items = 0 /\ Goto(t, "cv_load") /\ UNCHANGED mem
    /\ UNCHANGED <<local, asleep, history>>

\* A producer takes the mutex, adds an item, and keeps the mutex while it
\* notifies or releases it first.
Produce(t) ==
    /\ t \notin Consumers
    /\ history < MaxItems
    /\ At(t, "user")
    /\ mem.mutex = "free"
    /\ \E keep \in {t, "free"} : mem' = [mem EXCEPT !.items = @ + 1, !.mutex = keep]
    /\ history' = history + 1
    /\ Goto(t, "notify")
    /\ UNCHANGED <<local, asleep>>

Release(t) ==
    /\ At(t, "release")
    /\ Unlocks(t)
    /\ Goto(t, "user")
    /\ UNCHANGED <<local, asleep, history>>

Next ==
    \E t \in Threads :
        \/ Notify(t) \/ Wake(t)
        \/ WaitLoad(t) \/ WaitUnlock(t) \/ Wait(t) \/ Woken(t) \/ Expire(t) \/ WaitLock(t)
        \/ Consume(t) \/ Check(t) \/ Produce(t) \/ Release(t)

Spec == Init /\ [][Next]_vars

---------------------------------------------------------------------------

\* The threads that have not finished a notify, and the consumers that
\* are on their way to look at the items.
Notifying == {t \in Threads : pc[t] \in {"notify", "wake"}}
Looking == {t \in Consumers : asleep[t] = "no"}

\* No notification is lost: while there is an item, not every consumer
\* sleeps, unless the producer of an item is still to notify.  (The counter
\* is read under the mutex: a notify after that makes the wait return.)
NoLostNotify ==
    mem.items > 0 => Looking # {} \/ Notifying # {}
===========================================================================
