----------------------------- MODULE Semaphore -----------------------------
(***************************************************************************)
(* The counting semaphore (sdk/lib/locks/semaphore.cc).  The one word of   *)
(* the object is the count with WaitersBit; local is each thread's copy of *)
(* it.  The threads of Getters call semaphore_get, again and again; the    *)
(* others call semaphore_put.  history counts the units put in (the ones it *)
(* was created with included) and the units taken.                         *)
(***************************************************************************)
EXTENDS FutexThreads

CONSTANTS
    Getters,    \* the threads that call semaphore_get
    MaxCount,   \* maxCount of the semaphore
    MaxPuts     \* bound: how often semaphore_put succeeds in a behaviour

Init ==
    /\ \E n \in 0 .. MaxCount : mem = [count |-> [n |-> n, waiters |-> FALSE]] /\ history = [puts |-> n, gets |-> 0]
    /\ pc = [t \in Threads |-> "user"]
    /\ local = [t \in Threads |-> [n |-> 0, waiters |-> FALSE]]
    /\ asleep = [t \in Threads |-> "no"]

\* Leave the call: its locals die.
Return(t) ==
    /\ Goto(t, "user")
    /\ local' = [local EXCEPT ![t] = [n |-> 0, waiters |-> FALSE]]

\* count.compare_exchange_strong(value, new)
Exchanges(t, new) ==
    /\ mem.count = local[t]
    /\ mem' = [mem EXCEPT !.count = new]

---------------------------------------------------------------------------
(* Seeded faults *)

\* semaphore_put decides by the count, not by WaitersBit, who is to be woken.
PutToZero(t) ==
    /\ At(t, "put")
    /\ \/ /\ Exchanges(t, [n |-> local[t].n + 1, waiters |-> FALSE])
          /\ history' = [history EXCEPT !.puts = @ + 1]
          /\ IF local[t].n > 0 THEN Goto(t, "notify") /\ UNCHANGED local ELSE Return(t)
       \/ mem.count # local[t] /\ Goto(t, "put_load") /\ UNCHANGED <<mem, local, history>>
    /\ UNCHANGED asleep

---------------------------------------------------------------------------
(* semaphore_get *)

GetCall(t) ==
    /\ t \in Getters
    /\ At(t, "user")
    /\ Goto(t, "get")
    /\ UNCHANGED <<mem, local, asleep, history>>

\* value = count.load(), and the tests on it.
GetLoad(t) ==
    /\ At(t, "get")
    /\ local' = [local EXCEPT ![t] = mem.count]
    /\ Goto(t, IF mem.count.n > 0 THEN "take"
               ELSE IF mem.count.waiters THEN "wait" ELSE "mark")
    /\ UNCHANGED <<mem, asleep, history>>

\* compare_exchange_strong(value, value - 1); retry if it lost.
Take(t) ==
    /\ At(t, "take")
    /\ \/ /\ Exchanges(t, [local[t] EXCEPT !.n = @ - 1])
          /\ history' = [history EXCEPT !.gets = @ + 1]
          /\ Return(t)
       \/ mem.count # local[t] /\ Goto(t, "get") /\ UNCHANGED <<mem, local, history>>
    /\ UNCHANGED asleep

\* compare_exchange_strong(value, value | WaitersBit); retry if it lost.
Mark(t) ==
    /\ At(t, "mark")
    /\ \/ Exchanges(t, [local[t] EXCEPT !.waiters = TRUE]) /\ Goto(t, "wait")
       \/ mem.count # local[t] /\ Goto(t, "get") /\ UNCHANGED mem
    /\ UNCHANGED <<local, asleep, history>>

\* count.wait(timeout, value | WaitersBit)
Wait(t) ==
    /\ At(t, "wait")
    /\ FutexWait(t, "count", [local[t] EXCEPT !.waiters = TRUE], "get", "woken")
    /\ UNCHANGED <<mem, local, history>>

\* wait returns: 0 and another round, or its error to the caller.
Woken(t) ==
    /\ At(t, "woken")
    /\ \/ Goto(t, "get") /\ UNCHANGED local
       \/ Return(t)
    /\ UNCHANGED <<mem, asleep, history>>

\* The timer wakes a thread that waits.
Expire(t) == TimesOut(t, "woken")

---------------------------------------------------------------------------
(* semaphore_put *)

PutCall(t) ==
    /\ t \notin Getters
    /\ history.puts < MaxPuts
    /\ At(t, "user")
    /\ Goto(t, "put_load")
    /\ UNCHANGED <<mem, local, asleep, history>>

\* value = count.load(); -EINVAL at the maximum.
PutLoad(t) ==
    /\ At(t, "put_load")
    /\ \/ mem.count.n = MaxCount /\ Return(t)
       \/ /\ mem.count.n # MaxCount
          /\ local' = [local EXCEPT ![t] = mem.count]
          /\ Goto(t, "put")
    /\ UNCHANGED <<mem, asleep, history>>

\* compare_exchange_strong(value, count + 1), which drops WaitersBit.
Put(t) ==
    /\ At(t, "put")
    /\ \/ /\ Exchanges(t, [n |-> local[t].n + 1, waiters |-> FALSE])
          /\ history' = [history EXCEPT !.puts = @ + 1]
          /\ IF local[t].waiters THEN Goto(t, "notify") /\ UNCHANGED local ELSE Return(t)
       \/ mem.count # local[t] /\ Goto(t, "put_load") /\ UNCHANGED <<mem, local, history>>
    /\ UNCHANGED asleep

Notify(t) ==
    /\ At(t, "notify")
    /\ NotifyAll("count")
    /\ Return(t)
    /\ UNCHANGED <<mem, history>>

Next ==
    \E t \in Threads :
        \/ GetCall(t) \/ GetLoad(t) \/ Take(t) \/ Mark(t) \/ Wait(t) \/ Woken(t) \/ Expire(t)
        \/ PutCall(t) \/ PutLoad(t) \/ Put(t) \/ Notify(t)

Spec == Init /\ [][Next]_vars

---------------------------------------------------------------------------

\* No unit is lost or made up in the races of the compare-and-exchanges: the
\* count is what was put in less what was taken, and stays within maxCount.
Conserved ==
    /\ history.puts = mem.count.n + history.gets
    /\ mem.count.n <= MaxCount

\* A thread does not sleep on a semaphore that has units, except while the
\* semaphore_put that made them is about to wake it; and while it sleeps on
\* an empty one, WaitersBit makes the next put wake it.
NoMissedPut ==
    \A t \in Threads : asleep[t] # "no" =>
        \/ \E u \in Threads : pc[u] = "notify"
        \/ mem.count = [n |-> 0, waiters |-> TRUE]
===========================================================================
