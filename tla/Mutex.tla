------------------------------- MODULE Mutex -------------------------------
(***************************************************************************)
(* What a lock that can be retired promises: at most one thread holds it,  *)
(* and once it has been set in destruction mode nobody acquires it again.  *)
(* FlagLock is shown to implement this specification.                      *)
(***************************************************************************)
CONSTANTS Threads, NoThread

VARIABLES
    holder,     \* the thread that holds the lock, or NoThread
    destroyed   \* has the lock been set in destruction mode?

vars == <<holder, destroyed>>

Init ==
    /\ holder = NoThread
    /\ destroyed = FALSE

Acquire(t) ==
    /\ holder = NoThread
    /\ ~destroyed
    /\ holder' = t
    /\ UNCHANGED destroyed

Release(t) ==
    /\ holder = t
    /\ holder' = NoThread
    /\ UNCHANGED destroyed

Destroy ==
    /\ destroyed' = TRUE
    /\ UNCHANGED holder

Next == Destroy \/ \E t \in Threads : Acquire(t) \/ Release(t)

Spec == Init /\ [][Next]_vars
=============================================================================
