---------------------------- MODULE AllocatorWait ----------------------------
(***************************************************************************)
(* How heap_allocate waits for memory: malloc_internal in                  *)
(* sdk/core/allocator/main.cc, with heap_free and heap_free_all, which wake *)
(* the waiters through the word freeFutex.                                 *)
(*                                                                         *)
(* The heap is three numbers: free bytes, bytes in quarantine, and those of *)
(* them that a sweep has released but nobody has dequeued.  Attempts and    *)
(* frees hold the allocator's lock and are one step; the wait is without    *)
(* it.  Quotas are large, and no object is kept alive by a hazard (then the *)
(* wait is for one tick only).                                             *)
(***************************************************************************)
EXTENDS FutexThreads, Integers

CONSTANTS
    Allocators,     \* the threads in heap_allocate; the others free
    Request,        \* how much each allocator asks for
    Held,           \* what each of the others holds at first, in objects of one
    UsesFreeAll     \* whether they call heap_free_all

Freers == Threads \ Allocators
NoWaiter == -1      \* the value of freeFutex when nobody waits

Init ==
    /\ mem = [heapFreeSize |-> 0, heapQuarantineSize |-> 0, swept |-> 0, freeFutex |-> NoWaiter]
    /\ pc = [t \in Threads |-> IF t \in Allocators THEN "attempt" ELSE "user"]
    /\ local = [t \in Threads |-> [expected |-> 0, held |-> IF t \in Allocators THEN 0 ELSE Held]]
    /\ asleep = [t \in Threads |-> "no"]
    /\ history = 0

---------------------------------------------------------------------------
\* quarantine_dequeue: what a sweep has released becomes free.
Dequeued == [mem EXCEPT !.heapFreeSize = @ + mem.swept,
                        !.heapQuarantineSize = @ - mem.swept,
                        !.swept = 0]

Fits(t) == Request[t] <= Dequeued.heapFreeSize
\* mspace_dispatch answers AllocationFailureRevocationNeeded.
NeedsRevocation(t) ==
    /\ ~Fits(t)
    /\ Dequeued.heapQuarantineSize > 0
    /\ Request[t] <= Dequeued.heapFreeSize + Dequeued.heapQuarantineSize

\* One round of the loop.  Success; or wait for the revoker, or -EAGAIN or
\* -ETIMEDOUT when the flags or the timeout forbid it; or wait for a free,
\* with the free bytes in freeFutex, or -ENOMEM when the flags forbid it.
Attempt(t) ==
    /\ At(t, "attempt")
    /\ \/ /\ Fits(t)
          /\ mem' = [Dequeued EXCEPT !.heapFreeSize = @ - Request[t]]
          /\ local' = [local EXCEPT ![t].held = Request[t]]
          /\ Goto(t, "done")
       \/ /\ NeedsRevocation(t)
          /\ mem' = Dequeued
          /\ Goto(t, "revoke") \/ Goto(t, "failed")
          /\ UNCHANGED local
       \/ /\ ~Fits(t) /\ ~NeedsRevocation(t)
          /\ \/ /\ mem' = [Dequeued EXCEPT !.freeFutex = Dequeued.heapFreeSize]
                /\ local' = [local EXCEPT ![t].expected = Dequeued.heapFreeSize]
                /\ Goto(t, "wait")
             \/ /\ mem' = Dequeued
                /\ Goto(t, "failed")
                /\ UNCHANGED local
    /\ UNCHANGED <<asleep, history>>

\* wait_for_background_revoker (module Quarantine): another round when the
\* sweep is over, -ETIMEDOUT when it takes too long.
Revoke(t) ==
    /\ At(t, "revoke")
    /\ (mem.swept > 0 /\ Goto(t, "attempt")) \/ Goto(t, "failed")
    /\ UNCHANGED <<mem, local, asleep, history>>

\* freeFutex.wait(t, expected), without the lock
Wait(t) ==
    /\ At(t, "wait")
    /\ FutexWait(t, "freeFutex", local[t].expected, "attempt", "attempt")
    /\ UNCHANGED <<mem, local, history>>

WaitTimesOut(t) == TimesOut(t, "failed")

\* heap_free of one object: wake whoever waits.
Free(t) ==
    /\ At(t, "user") /\ t \in Freers
    /\ local[t].held > 0
    /\ local' = [local EXCEPT ![t].held = @ - 1]
    /\ mem' = [mem EXCEPT !.heapQuarantineSize = @ + 1, !.freeFutex = NoWaiter]
    /\ IF mem.freeFutex # NoWaiter THEN NotifyAll("freeFutex") ELSE UNCHANGED asleep
    /\ UNCHANGED <<pc, history>>

\* heap_free_all: wake whoever waits, by another test.
FreeAll(t) ==
    /\ UsesFreeAll
    /\ At(t, "user") /\ t \in Freers
    /\ LET wakes == mem.freeFutex > 0 /\ local[t].held > 0
       IN  /\ mem' = [mem EXCEPT !.heapQuarantineSize = @ + local[t].held,
                                 !.freeFutex = IF wakes THEN 0 ELSE @]
           /\ IF wakes THEN NotifyAll("freeFutex") ELSE UNCHANGED asleep
    /\ local' = [local EXCEPT ![t].held = 0]
    /\ UNCHANGED <<pc, history>>

\* A caller of heap_allocate is back: it frees what it got, or calls again.
Return(t) ==
    /\ t \in Allocators
    /\ pc[t] \in {"done", "failed"} /\ asleep[t] = "no"
    /\ IF pc[t] = "done" /\ local[t].held > 0
       THEN /\ mem' = [mem EXCEPT !.heapQuarantineSize = @ + local[t].held, !.freeFutex = NoWaiter]
            /\ IF mem.freeFutex # NoWaiter THEN NotifyAll("freeFutex") ELSE UNCHANGED asleep
            /\ local' = [local EXCEPT ![t].held = 0]
            /\ UNCHANGED pc
       ELSE Goto(t, "attempt") /\ UNCHANGED <<mem, local, asleep>>
    /\ UNCHANGED history

\* The revoker finishes a sweep.
Sweep ==
    /\ mem.swept < mem.heapQuarantineSize
    /\ mem' = [mem EXCEPT !.swept = mem.heapQuarantineSize]
    /\ UNCHANGED <<pc, local, asleep, history>>

Next ==
    \/ \E t \in Threads :
        Attempt(t) \/ Revoke(t) \/ Wait(t) \/ WaitTimesOut(t) \/ Free(t) \/ FreeAll(t) \/ Return(t)
    \/ Sweep
Spec == Init /\ [][Next]_vars

---------------------------------------------------------------------------


\* A thread sleeps on freeFutex only while its request cannot be met, not
\* even with what is in quarantine.
NoMissedFree ==
    \A t \in Sleepers("freeFutex") : ~Fits(t) /\ ~NeedsRevocation(t)
=============================================================================
