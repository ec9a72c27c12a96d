------------------------------ MODULE Barrier ------------------------------
(***************************************************************************)
(* The one-shot thread barrier (sdk/lib/locks/barrier.cc).  The one word   *)
(* of the object counts the threads that have not arrived; local is each   *)
(* thread's copy of it, and history the threads that have arrived.         *)
(***************************************************************************)
EXTENDS FutexThreads, FiniteSets

CONSTANT Patient        \* the threads that wait without a timeout

Init ==
    /\ mem = [remaining |-> Cardinality(Threads)]
    /\ pc = [t \in Threads |-> "user"]
    /\ local = [t \in Threads |-> 0]
    /\ asleep = [t \in Threads |-> "no"]
    /\ history = {}

---------------------------------------------------------------------------
(* Seeded faults *)

\* The while of barrier_timed_wait is an if.
ReloadOnce(t) ==
    /\ At(t, "reload")
    /\ local' = [local EXCEPT ![t] = mem.remaining]
    /\ Goto(t, "passed")
    /\ UNCHANGED <<mem, asleep, history>>

---------------------------------------------------------------------------

\* remaining = --barrier->remaining
Arrive(t) ==
    /\ At(t, "user")
    /\ mem' = [mem EXCEPT !.remaining = @ - 1]
    /\ local' = [local EXCEPT ![t] = mem.remaining - 1]
    /\ history' = history \cup {t}
    /\ Goto(t, IF mem.remaining = 1 THEN "last" ELSE "wait")
    /\ UNCHANGED asleep

\* The last thread wakes everyone and returns 0.
Open(t) ==
    /\ At(t, "last")
    /\ NotifyAll("remaining")
    /\ Goto(t, "passed")
    /\ UNCHANGED <<mem, local, history>>

\* barrier->remaining.wait(timeout, remaining)
Wait(t) ==
    /\ At(t, "wait")
    /\ FutexWait(t, "remaining", local[t], "reload", "woken")
    /\ UNCHANGED <<mem, local, history>>

\* A woken thread goes on, or is told that it timed out after all.
Woken(t) ==
    /\ At(t, "woken")
    /\ \/ Goto(t, "reload")
       \/ t \notin Patient /\ Goto(t, "expired")
    /\ UNCHANGED <<mem, local, asleep, history>>

Expire(t) == t \notin Patient /\ TimesOut(t, "expired")

\* remaining = barrier->remaining, and the loop's condition.
Reload(t) ==
    /\ At(t, "reload")
    /\ local' = [local EXCEPT ![t] = mem.remaining]
    /\ Goto(t, IF mem.remaining = 0 THEN "passed" ELSE "wait")
    /\ UNCHANGED <<mem, asleep, history>>

Step(t) == Arrive(t) \/ Open(t) \/ Wait(t) \/ Woken(t) \/ Reload(t)

Next == \E t \in Threads : Step(t) \/ Expire(t)

Spec == Init /\ [][Next]_vars

---------------------------------------------------------------------------

\* Nobody gets past the barrier (0 or 1) before every thread has arrived,
\* also when threads that have arrived give up with -ETIMEDOUT.
NobodyPassesEarly ==
    (\E t \in Threads : pc[t] = "passed") => history = Threads

\* If every thread arrives, every thread leaves, and the ones that wait
\* without a timeout leave past the barrier.
AllGone == \A t \in Threads : pc[t] = "passed" \/ (t \notin Patient /\ pc[t] = "expired")
Opens == <>AllGone
===========================================================================
