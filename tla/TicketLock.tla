---------------------------- MODULE TicketLock ----------------------------
(***************************************************************************)
(* InternalTicketLock (sdk/lib/locks/locks.cc).  mem holds the two words   *)
(* of TicketLockState, local each thread's ticket and its snapshot of      *)
(* current.  The counters wrap, as uint32_t does: Wrap is 2^32 in the code.*)
(***************************************************************************)
EXTENDS FutexThreads

CONSTANT Wrap           \* the counters are counted modulo Wrap

Init ==
    /\ mem = [current |-> 0, next |-> 0]
    /\ pc = [t \in Threads |-> "user"]
    /\ local = [t \in Threads |-> [ticket |-> 0, snapshot |-> 0]]
    /\ asleep = [t \in Threads |-> "no"]
    /\ history = {}

---------------------------------------------------------------------------
(* Seeded faults *)

\* A thread whose turn has passed is let in.
LoadOrdered(t) ==
    /\ At(t, "load")
    /\ local' = [local EXCEPT ![t].snapshot = mem.current]
    /\ Goto(t, IF mem.current >= local[t].ticket THEN "held" ELSE "wait")
    /\ UNCHANGED <<mem, asleep, history>>

---------------------------------------------------------------------------

\* lock: ticket = next++
Take(t) ==
    /\ At(t, "user")
    /\ local' = [local EXCEPT ![t].ticket = mem.next]
    /\ mem' = [mem EXCEPT !.next = (@ + 1) % Wrap]
    /\ Goto(t, "load")
    /\ UNCHANGED <<asleep, history>>

\* currentSnapshot = current, and the test on it.
Load(t) ==
    /\ At(t, "load")
    /\ local' = [local EXCEPT ![t].snapshot = mem.current]
    /\ Goto(t, IF mem.current = local[t].ticket THEN "held" ELSE "wait")
    /\ UNCHANGED <<mem, asleep, history>>

\* current.wait(currentSnapshot)
Wait(t) ==
    /\ At(t, "wait")
    /\ FutexWait(t, "current", local[t].snapshot, "load", "load")
    /\ UNCHANGED <<mem, local, history>>

\* unlock: currentSnapshot = current++
Unlock(t) ==
    /\ At(t, "held")
    /\ local' = [local EXCEPT ![t].snapshot = mem.current]
    /\ mem' = [mem EXCEPT !.current = (@ + 1) % Wrap]
    /\ Goto(t, "unlocked")
    /\ UNCHANGED <<asleep, history>>

\* notify_all unless next is the snapshot.
Notify(t) ==
    /\ At(t, "unlocked")
    /\ IF mem.next # local[t].snapshot THEN NotifyAll("current") ELSE UNCHANGED asleep
    /\ local' = [local EXCEPT ![t] = [ticket |-> 0, snapshot |-> 0]]
    /\ Goto(t, "user")
    /\ UNCHANGED <<mem, history>>

Step(t) == Load(t) \/ Wait(t) \/ Unlock(t) \/ Notify(t)

Next == \E t \in Threads : Take(t) \/ Step(t)

Spec == Init /\ [][Next]_vars

---------------------------------------------------------------------------

TypeOK ==
    /\ mem \in [current : 0 .. Wrap - 1, next : 0 .. Wrap - 1]
    /\ pc \in [Threads -> {"user", "load", "wait", "held", "unlocked"}]
    /\ local \in [Threads -> [ticket : 0 .. Wrap - 1, snapshot : 0 .. Wrap - 1]]
    /\ asleep \in [Threads -> {"no", "current"}]
    /\ history = {}

\* The threads that have a ticket which has not been served, and how many
\* turns each is away from the lock.
Waiting == {t \in Threads : pc[t] \in {"load", "wait", "held"}}
Turns(t) == (local[t].ticket + Wrap - mem.current) % Wrap

\* One thread at a time is between lock and unlock, also when the tickets
\* wrap around: there are fewer threads than tickets.
Exclusion == \A t, u \in Threads : pc[t] = "held" /\ pc[u] = "held" => t = u

\* Tickets are served in the order they were taken: no thread that comes
\* later gets in front of one that waits.
KeepsOrder ==
    \A t, u \in Waiting :
        u \in Waiting' /\ Turns(t) < Turns(u) => t \notin Waiting' \/ Turns(t)' < Turns(u)'
InOrder == [][KeepsOrder]_vars

\* A thread that sleeps although its turn has come is about to be woken.
NoMissedTurn ==
    \A t \in Threads : asleep[t] # "no" /\ mem.current = local[t].ticket =>
        \E u \in Threads : pc[u] = "unlocked" /\ mem.next # local[u].snapshot

\* Whoever takes a ticket gets the lock, if its holders release it.
Served == \A t \in Threads : pc[t] = "load" ~> pc[t] = "held"
===========================================================================
