------------------------------ MODULE CxxGuard ------------------------------
(***************************************************************************)
(* The guard of a function-local static (sdk/lib/cxxrt/guard.cc).  mem     *)
(* holds the bit that says the variable is initialised (low) and the       *)
(* priority-inheriting flag lock (high; an abstract lock: its holder, or   *)
(* "free"); history counts the constructions begun and ended.              *)
(***************************************************************************)
EXTENDS FutexThreads

Init ==
    /\ mem = [low |-> FALSE, high |-> "free"]
    /\ pc = [t \in Threads |-> "user"]
    /\ local = [t \in Threads |-> 0]
    /\ asleep = [t \in Threads |-> "no"]
    /\ history = [begun |-> 0, ended |-> 0]

---------------------------------------------------------------------------
(* Seeded faults *)

\* __cxa_guard_release releases the lock first.
ReleaseUnlocksFirst(t) ==
    /\ \/ At(t, "release") /\ Goto(t, "unlock") /\ mem' = [mem EXCEPT !.high = "free"]
       \/ At(t, "unlock") /\ Goto(t, "done") /\ mem' = [mem EXCEPT !.low = TRUE]
    /\ UNCHANGED <<local, asleep, history>>

---------------------------------------------------------------------------

\* The code around a static: the bit is tested before the runtime is called.
Reach(t) ==
    /\ At(t, "user")
    /\ Goto(t, IF mem.low THEN "done" ELSE "acquire")
    /\ UNCHANGED <<mem, local, asleep, history>>

\* __cxa_guard_acquire: LockGuard{high} waits for the lock.
Acquire(t) ==
    /\ At(t, "acquire")
    /\ mem.high = "free"
    /\ mem' = [mem EXCEPT !.high = t]
    /\ Goto(t, "test")
    /\ UNCHANGED <<local, asleep, history>>

\* 0 and the lock released when the variable is initialised, else 1 and the
\* lock kept (g.release()) while the caller runs the constructor.
Test(t) ==
    /\ At(t, "test")
    /\ \/ /\ mem.low
          /\ mem' = [mem EXCEPT !.high = "free"]
          /\ Goto(t, "done")
          /\ UNCHANGED history
       \/ /\ ~mem.low
          /\ history' = [history EXCEPT !.begun = @ + 1]
          /\ Goto(t, "construct")
          /\ UNCHANGED mem
    /\ UNCHANGED <<local, asleep>>

Construct(t) ==
    /\ At(t, "construct")
    /\ history' = [history EXCEPT !.ended = @ + 1]
    /\ Goto(t, "release")
    /\ UNCHANGED <<mem, local, asleep>>

\* __cxa_guard_release: set_initialised, then unlock.
Release(t) ==
    /\ \/ At(t, "release") /\ Goto(t, "unlock") /\ mem' = [mem EXCEPT !.low = TRUE]
       \/ At(t, "unlock") /\ Goto(t, "done") /\ mem' = [mem EXCEPT !.high = "free"]
    /\ UNCHANGED <<local, asleep, history>>

Step(t) == Reach(t) \/ Acquire(t) \/ Test(t) \/ Construct(t) \/ Release(t)

Next == \E t \in Threads : Step(t)

Spec == Init /\ [][Next]_vars

---------------------------------------------------------------------------

\* The constructor of a static runs once, and no thread goes on to use the
\* variable before it has ended; the assertion in __cxa_guard_release (the
\* guard is not yet initialised) holds.
ConstructedOnce ==
    /\ history.begun <= 1
    /\ \A t \in Threads :
           /\ pc[t] = "done" => history.ended = 1
           /\ pc[t] = "release" => ~mem.low /\ mem.high = t
=============================================================================
