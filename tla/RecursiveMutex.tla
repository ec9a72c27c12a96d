--------------------------- MODULE RecursiveMutex ---------------------------
(***************************************************************************)
(* The recursive mutex (sdk/lib/locks/locks.cc, RecursiveMutexState): a    *)
(* priority-inheriting flag lock and a count of the acquisitions of its    *)
(* owner (uint16_t: MaxDepth is 65535 in the code).  A composition: every  *)
(* step of the flag lock is FlagLock's own.                                *)
(***************************************************************************)
EXTENDS FlagLock, Naturals

CONSTANT MaxDepth

VARIABLES
    depth,      \* the depth field of the mutex
    locks       \* how often each thread has locked and not unlocked: a history

recursiveVars == <<lockWord, pc, old, timeout, holding, depth, locks>>

RecursiveInit ==
    /\ Init
    /\ depth = 0
    /\ locks = [t \in Threads |-> 0]

---------------------------------------------------------------------------
(* Seeded faults *)

\* The owner's depth is not compared with the maximum.
RelockWraps(t) ==
    /\ pc[t] = "user"
    /\ lockWord.owner = t
    /\ depth' = (depth + 1) % (MaxDepth + 1)
    /\ locks' = [locks EXCEPT ![t] = @ + 1]
    /\ UNCHANGED vars

\* recursivemutex_unlock keeps the lock one unlock too long.
UnlockLate(t) ==
    /\ pc[t] = "user"
    /\ locks[t] > 0
    /\ depth' = IF depth = 0 THEN 0 ELSE depth - 1
    /\ locks' = [locks EXCEPT ![t] = @ - 1]
    /\ IF depth > 0 THEN UNCHANGED vars ELSE Unlock(t)

---------------------------------------------------------------------------

\* recursivemutex_trylock by the owner: one level more, or -EOVERFLOW.
Relock(t) ==
    /\ pc[t] = "user"
    /\ lockWord.owner = t
    /\ depth < MaxDepth
    /\ depth' = depth + 1
    /\ locks' = [locks EXCEPT ![t] = @ + 1]
    /\ UNCHANGED vars

\* recursivemutex_trylock by another thread: try_lock.
FirstLock(t) ==
    /\ lockWord.owner # t
    /\ TryLock(t)
    /\ UNCHANGED <<depth, locks>>

\* try_lock succeeds and depth is set to 1.
FirstAcquired(t) ==
    /\ Acquire(t)
    /\ depth' = 1
    /\ locks' = [locks EXCEPT ![t] = 1]

\* recursivemutex_unlock: the flag lock is released at depth 0.
RecursiveUnlock(t) ==
    /\ pc[t] = "user"
    /\ locks[t] > 0
    /\ depth' = depth - 1
    /\ locks' = [locks EXCEPT ![t] = @ - 1]
    /\ IF depth > 1 THEN UNCHANGED vars ELSE Unlock(t)

\* The other steps are the flag lock's: they do not touch depth.
LockStep(t) ==
    /\ \/ AcquireFails(t) \/ AddWaiters(t) \/ Wait(t) \/ Resume(t)
       \/ UpgradeLoad(t) \/ NotifyAll(t) \/ Upgrade(t) \/ TimeOut(t)
    /\ UNCHANGED <<depth, locks>>

RecursiveNext ==
    \E t \in Threads :
        Relock(t) \/ FirstLock(t) \/ FirstAcquired(t) \/ RecursiveUnlock(t) \/ LockStep(t)

RecursiveSpec == RecursiveInit /\ [][RecursiveNext]_recursiveVars

---------------------------------------------------------------------------

\* A thread owns the mutex until it has unlocked it as often as it has
\* locked it: the owner alone has acquisitions to give back, the word names
\* it and the depth counts them.
OwnedUntilBalanced ==
    /\ holding = {t \in Threads : locks[t] > 0}
    /\ \A t \in Threads : locks[t] > 0 => lockWord.owner = t /\ depth = locks[t]
=============================================================================
