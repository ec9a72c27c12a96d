----------------------------- MODULE WallClock -----------------------------
(***************************************************************************)
(* The wall clock (sdk/lib/clock): clock_update_wall_clock publishes a     *)
(* pair of times in a shared object, guarded by an epoch that is odd while *)
(* an update is in progress; wall_clock_time_get reads the pair without a  *)
(* lock.  The n-th update publishes n in both words, so that a pair shows  *)
(* whether it was published together.                                      *)
(* mem holds the shared object and updatingLock (abstract: its holder, or  *)
(* "free"), local what a thread has read or is about to publish, history   *)
(* the number of updates.  The time sources are abstract: what the best of *)
(* them says is the next time, and there may be none that works.           *)
(***************************************************************************)
EXTENDS FutexThreads

CONSTANTS
    Updaters,   \* the threads in clock_update_wall_clock; the others read
    MaxUpdates, \* bound: how many updates are published in a behaviour
    Garbage     \* what an uninitialised local variable holds

Locals == [epoch |-> 0, wall |-> Garbage, monotonic |-> Garbage]

Init ==
    /\ mem = [updatingEpoch |-> 0, monotonicTime |-> 0, wallClockTime |-> 0, lock |-> "free"]
    /\ pc = [t \in Threads |-> "user"]
    /\ local = [t \in Threads |-> Locals]
    /\ asleep = [t \in Threads |-> "no"]
    /\ history = 0

---------------------------------------------------------------------------
(* Seeded faults *)

\* The epoch is incremented once, before the words are written.
EndWithoutEpoch(t) ==
    /\ At(t, "end")
    /\ mem' = [mem EXCEPT !.updatingEpoch = @ - 1]
    /\ Goto(t, "notify")
    /\ UNCHANGED <<local, asleep, history>>

---------------------------------------------------------------------------
(* clock_update_wall_clock *)

\* LockGuard g{updatingLock, timeout}: -ENOSYS without the lock.  The loop
\* that reads the time of the last update ends at once: under the lock the
\* epoch is even and does not change.
Update(t) ==
    /\ t \in Updaters
    /\ history < MaxUpdates
    /\ At(t, "user")
    /\ mem.lock = "free"
    /\ mem' = [mem EXCEPT !.lock = t]
    /\ Goto(t, "sources")
    /\ UNCHANGED <<local, asleep, history>>

\* The sources are asked; -ENOSYS when none of them answers.
Sources(t) ==
    /\ At(t, "sources")
    /\ \/ /\ local' = [local EXCEPT ![t].wall = history + 1, ![t].monotonic = history + 1]
          /\ history' = history + 1
          /\ Goto(t, "begin")
          /\ UNCHANGED mem
       \/ /\ mem' = [mem EXCEPT !.lock = "free"]
          /\ Goto(t, "user")
          /\ UNCHANGED <<local, history>>
    /\ UNCHANGED asleep

\* updatingEpoch++
Begin(t) ==
    /\ At(t, "begin")
    /\ mem' = [mem EXCEPT !.updatingEpoch = @ + 1]
    /\ Goto(t, "monotonic")
    /\ UNCHANGED <<local, asleep, history>>

\* monotonicTime = bestMonotonicClock, then wallClockTime = bestWallClock
Publish(t) ==
    /\ \/ /\ At(t, "monotonic")
          /\ mem' = [mem EXCEPT !.monotonicTime = local[t].monotonic]
          /\ Goto(t, "wall")
       \/ /\ At(t, "wall")
          /\ mem' = [mem EXCEPT !.wallClockTime = local[t].wall]
          /\ Goto(t, "end")
    /\ UNCHANGED <<local, asleep, history>>

\* updatingEpoch++
End(t) ==
    /\ At(t, "end")
    /\ mem' = [mem EXCEPT !.updatingEpoch = @ + 1]
    /\ Goto(t, "notify")
    /\ UNCHANGED <<local, asleep, history>>

\* notify_all, and the lock is released at the end of the guard's scope.
Notify(t) ==
    /\ At(t, "notify")
    /\ NotifyAll("updatingEpoch")
    /\ mem' = [mem EXCEPT !.lock = "free"]
    /\ local' = [local EXCEPT ![t] = Locals]
    /\ Goto(t, "user")
    /\ UNCHANGED history

---------------------------------------------------------------------------
(* wall_clock_time_get *)

\* epoch = updatingEpoch.load(): wait if it is odd.
Get(t) ==
    /\ t \notin Updaters
    /\ At(t, "user") \/ At(t, "again")
    /\ local' = [local EXCEPT ![t] = [IF pc[t] = "user" THEN Locals ELSE local[t]
                                      EXCEPT !.epoch = mem.updatingEpoch]]
    /\ Goto(t, IF mem.updatingEpoch % 2 = 1 THEN "wait" ELSE "get_wall")
    /\ UNCHANGED <<mem, asleep, history>>

\* updatingEpoch.wait(&t, epoch), then continue: the condition of the loop.
Wait(t) ==
    /\ At(t, "wait")
    /\ FutexWait(t, "updatingEpoch", local[t].epoch, "test", "test")
    /\ UNCHANGED <<mem, local, history>>

\* The 10 ms are over.
Expire(t) == TimesOut(t, "test")

\* wallClockTime and monotonicTime are read.
Read(t) ==
    /\ \/ /\ At(t, "get_wall")
          /\ local' = [local EXCEPT ![t].wall = mem.wallClockTime]
          /\ Goto(t, "get_monotonic")
       \/ /\ At(t, "get_monotonic")
          /\ local' = [local EXCEPT ![t].monotonic = mem.monotonicTime]
          /\ Goto(t, "test")
    /\ UNCHANGED <<mem, asleep, history>>

\* while (epoch != updatingEpoch.load())
Test(t) ==
    /\ At(t, "test")
    /\ Goto(t, IF local[t].epoch = mem.updatingEpoch THEN "got" ELSE "again")
    /\ UNCHANGED <<mem, local, asleep, history>>

\* The time is computed from what was read, and returned.
Use(t) ==
    /\ At(t, "got")
    /\ local' = [local EXCEPT ![t] = Locals]
    /\ Goto(t, "user")
    /\ UNCHANGED <<mem, asleep, history>>

Next ==
    \E t \in Threads :
        \/ Update(t) \/ Sources(t) \/ Begin(t) \/ Publish(t) \/ End(t) \/ Notify(t)
        \/ Get(t) \/ Wait(t) \/ Expire(t) \/ Read(t) \/ Test(t) \/ Use(t)

Spec == Init /\ [][Next]_vars

---------------------------------------------------------------------------

\* A reader that leaves the loop on an even epoch has read two words that
\* one update published together, and a published time, however often it
\* was overtaken.
ReadsOneUpdate ==
    \A t \in Threads : pc[t] = "got" /\ local[t].epoch % 2 = 0 =>
        local[t].wall = local[t].monotonic /\ local[t].wall # Garbage

\* "If this value differs at the start and end, retry" and an odd value
\* means that an update is in progress (wall_clock.hh): whatever a reader
\* returns was published by one update.
ReadsPublishedTime ==
    \A t \in Threads : pc[t] = "got" =>
        local[t].wall = local[t].monotonic /\ local[t].wall # Garbage
=============================================================================
