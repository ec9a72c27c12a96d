----------------------------- MODULE EventGroup -----------------------------
(***************************************************************************)
(* The event group (sdk/lib/event_group/event_group.cc): the threads of    *)
(* Waiters call eventgroup_wait, Setter calls eventgroup_set and           *)
(* eventgroup_clear, Destroyer one of the two eventgroup_destroy calls.    *)
(* mem is struct EventGroup: the flag lock (abstract: its holder, "free"   *)
(* or "destroyed"), the event bits, a slot for each waiting thread, and    *)
(* whether heap_free has taken the memory away: a step that would use it   *)
(* after that traps.  A waiter sleeps on the bitsSeen of its own slot.     *)
(* local holds the arguments of a thread's call and its local variables.   *)
(***************************************************************************)
EXTENDS FutexThreads, Sequences

CONSTANTS
    Waiters,    \* a sequence: the threads that wait, in the order of their slots
    Setter,     \* the thread that sets and clears
    Destroyer,  \* the thread that destroys the group
    Requests,   \* what each of them waits for: the bits, all or any, cleared or not
    Changes     \* the sets of bits that are set and cleared

Waiting == {Waiters[i] : i \in 1 .. Len(Waiters)}

Init ==
    /\ mem = [lock |-> "free", bits |-> {}, freed |-> FALSE,
              slot |-> [w \in Waiting |->
                        [seen |-> {}, wanted |-> {}, all |-> FALSE, clear |-> FALSE]]]
    /\ pc = [t \in Threads |-> "user"]
    /\ local = [t \in Threads |-> [wanted |-> {}, all |-> FALSE, clear |-> FALSE,
                                   seen |-> {}, index |-> 0]]
    /\ asleep = [t \in Threads |-> "no"]
    /\ history = {}

\* EventWaiter::is_triggered, also the lambda in eventgroup_wait.
IsTriggered(waiter, bits) ==
    IF waiter.all THEN waiter.wanted \subseteq bits
    ELSE waiter.wanted \cap bits # {}

\* Leave the call: its locals die.
Return(t) ==
    /\ Goto(t, "user")
    /\ local' = [local EXCEPT ![t] = [wanted |-> {}, all |-> FALSE, clear |-> FALSE,
                                      seen |-> {}, index |-> 0]]

\* A step of t that uses the group's memory: t traps once it has been freed.
Uses(t, place) == At(t, place) /\ ~mem.freed

\* LockGuard g{group->lock, timeout}: the lock, or -ETIMEDOUT.
Locks(t, place) ==
    \/ /\ mem.lock = "free"
       /\ mem' = [mem EXCEPT !.lock = t]
       /\ Goto(t, place)
       /\ UNCHANGED <<local, asleep, history>>
    \/ mem.lock # "free" /\ Return(t) /\ UNCHANGED <<mem, asleep, history>>

\* The guard's unlock keeps a lock in destruction mode.
Unlocked == IF mem.lock = "destroyed" THEN "destroyed" ELSE "free"

---------------------------------------------------------------------------
(* Seeded faults *)

\* eventgroup_set wakes the waiter without telling it the bits.
SetStoreNoBits(t) ==
    /\ Uses(t, "set_store")
    /\ mem' = [mem EXCEPT !.slot[Waiters[local[t].index]].wanted = {}]
    /\ Goto(t, "set_notify")
    /\ UNCHANGED <<local, asleep, history>>

---------------------------------------------------------------------------
(* eventgroup_wait *)

\* The call; bitsWanted is not empty and has 24 bits at most.
WaitCall(t) ==
    /\ t \in Waiting
    /\ Uses(t, "user")
    /\ \E request \in Requests[t] :
         local' = [local EXCEPT ![t].wanted = request.wanted, ![t].all = request.all,
                                ![t].clear = request.clear]
    /\ Goto(t, "wait_lock")
    /\ UNCHANGED <<mem, asleep, history>>

WaitLock(t) == Uses(t, "wait_lock") /\ Locks(t, "wait_locked")

\* Under the lock: return at once if the condition holds, else fill the slot.
Register(t) ==
    /\ Uses(t, "wait_locked")
    /\ \/ /\ IsTriggered(local[t], mem.bits)
          /\ mem' = [mem EXCEPT !.lock = Unlocked,
                                !.bits = IF local[t].clear THEN @ \ local[t].wanted ELSE @]
          /\ Return(t)
       \/ /\ ~IsTriggered(local[t], mem.bits)
          /\ mem' = [mem EXCEPT !.lock = Unlocked,
                                !.slot[t] = [seen |-> mem.bits, wanted |-> local[t].wanted,
                                             all |-> local[t].all, clear |-> local[t].clear]]
          /\ local' = [local EXCEPT ![t].seen = mem.bits]
          /\ Goto(t, "futex")
    /\ UNCHANGED <<asleep, history>>

\* waiter.bitsSeen.wait(timeout, bitsSeen)
Futex(t) ==
    /\ Uses(t, "futex")
    /\ \/ /\ mem.slot[t].seen = local[t].seen
          /\ asleep' = [asleep EXCEPT ![t] = "seen"]
          /\ Goto(t, "woken")
       \/ mem.slot[t].seen # local[t].seen /\ Goto(t, "reload") /\ UNCHANGED asleep
    /\ UNCHANGED <<mem, local, history>>

\* The wait returns: 0, or -ETIMEDOUT also to a thread that was woken.
Woken(t) ==
    /\ At(t, "woken")
    /\ Goto(t, "reload") \/ Goto(t, "expired")
    /\ UNCHANGED <<mem, local, asleep, history>>

Expire(t) == TimesOut(t, "expired")

\* bitsSeen = waiter.bitsSeen.load(), and the test on it.
Reload(t) ==
    /\ Uses(t, "reload")
    /\ \/ IsTriggered(local[t], mem.slot[t].seen) /\ Return(t)
       \/ /\ ~IsTriggered(local[t], mem.slot[t].seen)
          /\ local' = [local EXCEPT ![t].seen = mem.slot[t].seen]
          /\ Goto(t, "futex")
    /\ UNCHANGED <<mem, asleep, history>>

\* waiter.bitsWanted = 0, without the lock.
Expired(t) ==
    /\ Uses(t, "expired")
    /\ mem' = [mem EXCEPT !.slot[t].wanted = {}]
    /\ Return(t)
    /\ UNCHANGED <<asleep, history>>

---------------------------------------------------------------------------
(* eventgroup_set and eventgroup_clear *)

SetCall(t) ==
    /\ t = Setter
    /\ Uses(t, "user")
    /\ Locks(t, "set_locked")

\* Set or clear bits; after setting, look at every slot.
Change(t) ==
    /\ Uses(t, "set_locked")
    /\ \E change \in Changes :
         \/ /\ mem' = [mem EXCEPT !.bits = @ \ change, !.lock = Unlocked]
            /\ Return(t)
         \/ /\ mem' = [mem EXCEPT !.bits = @ \cup change]
            /\ local' = [local EXCEPT ![t].seen = mem.bits \cup change, ![t].index = 1]
            /\ Goto(t, "set_scan")
    /\ UNCHANGED <<asleep, history>>

\* One turn of the loop: is this waiter's condition met?  After the last
\* one the bits that were waited for with clearOnExit are cleared.
Scan(t) ==
    /\ Uses(t, "set_scan")
    /\ \/ /\ local[t].index > Len(Waiters)
          /\ mem' = [mem EXCEPT !.bits = @ \ local[t].wanted, !.lock = Unlocked]
          /\ Return(t)
       \/ /\ local[t].index <= Len(Waiters)
          /\ LET waiter == mem.slot[Waiters[local[t].index]]
             IN  IF waiter.wanted # {} /\ IsTriggered(waiter, local[t].seen)
                 THEN /\ local' = [local EXCEPT ![t].wanted =
                            IF waiter.clear THEN @ \cup (waiter.wanted \cap local[t].seen) ELSE @]
                      /\ Goto(t, "set_store")
                 ELSE /\ local' = [local EXCEPT ![t].index = @ + 1]
                      /\ UNCHANGED pc
          /\ UNCHANGED mem
    /\ UNCHANGED <<asleep, history>>

\* waiter.bitsWanted = 0; waiter.bitsSeen = bits
SetStore(t) ==
    /\ Uses(t, "set_store")
    /\ mem' = [mem EXCEPT !.slot[Waiters[local[t].index]].wanted = {},
                          !.slot[Waiters[local[t].index]].seen = local[t].seen]
    /\ Goto(t, "set_notify")
    /\ UNCHANGED <<local, asleep, history>>

\* waiter.bitsSeen.notify_one()
SetNotify(t) ==
    /\ Uses(t, "set_notify")
    /\ asleep' = [asleep EXCEPT ![Waiters[local[t].index]] = "no"]
    /\ local' = [local EXCEPT ![t].index = @ + 1]
    /\ Goto(t, "set_scan")
    /\ UNCHANGED <<mem, history>>

---------------------------------------------------------------------------
(* eventgroup_destroy and eventgroup_destroy_force *)

\* Both retire the lock; eventgroup_destroy acquires it first.
Destroy(t) ==
    /\ t = Destroyer
    /\ Uses(t, "user")
    /\ mem.lock # "destroyed"
    /\ mem' = [mem EXCEPT !.lock = "destroyed"]
    /\ local' = [local EXCEPT ![t].index = 1]
    /\ Goto(t, "destroy_scan")
    /\ UNCHANGED <<asleep, history>>

\* Every slot gets the bits its thread wants, then heap_free.
DestroyScan(t) ==
    /\ Uses(t, "destroy_scan")
    /\ \/ /\ local[t].index > Len(Waiters)
          /\ mem' = [mem EXCEPT !.freed = TRUE]
          /\ Return(t)
       \/ /\ local[t].index <= Len(Waiters)
          /\ LET w == Waiters[local[t].index]
             IN  mem' = [mem EXCEPT !.slot[w].wanted = {}, !.slot[w].seen = mem.slot[w].wanted]
          /\ Goto(t, "destroy_notify")
          /\ UNCHANGED local
    /\ UNCHANGED <<asleep, history>>

DestroyNotify(t) ==
    /\ Uses(t, "destroy_notify")
    /\ asleep' = [asleep EXCEPT ![Waiters[local[t].index]] = "no"]
    /\ local' = [local EXCEPT ![t].index = @ + 1]
    /\ Goto(t, "destroy_scan")
    /\ UNCHANGED <<mem, history>>

Next ==
    \E t \in Threads :
        \/ WaitCall(t) \/ WaitLock(t) \/ Register(t) \/ Futex(t) \/ Woken(t) \/ Expire(t)
        \/ Reload(t) \/ Expired(t)
        \/ SetCall(t) \/ Change(t) \/ Scan(t) \/ SetStore(t) \/ SetNotify(t)
        \/ Destroy(t) \/ DestroyScan(t) \/ DestroyNotify(t)

Spec == Init /\ [][Next]_vars

---------------------------------------------------------------------------

\* No event is missed, although the waiter tests the bits under the lock and
\* sleeps after it was released: a waiter that sleeps is still registered,
\* unless whoever triggered it is about to notify it; and outside
\* eventgroup_set no registered waiter's condition is met by the bits.
NoMissedEvent ==
    mem.lock # "destroyed" =>
        \A i \in 1 .. Len(Waiters) :
            LET w == Waiters[i]
                slot == mem.slot[w]
            IN  /\ asleep[w] # "no" /\ slot.wanted = {} =>
                       pc[Setter] = "set_notify" /\ local[Setter].index = i
                /\ slot.wanted # {} /\ IsTriggered(slot, mem.bits) =>
                       /\ pc[Setter] \in {"set_scan", "set_store", "set_notify"}
                       /\ local[Setter].index <= i

\* A slot belongs to its thread's current call: while it is registered, the
\* thread is inside the eventgroup_wait whose arguments the slot holds.
SlotIsCurrent ==
    \A w \in Waiting : mem.slot[w].wanted # {} =>
        /\ pc[w] \in {"futex", "woken", "reload", "expired"}
        /\ mem.slot[w].wanted = local[w].wanted
        /\ mem.slot[w].all = local[w].all
        /\ mem.slot[w].clear = local[w].clear
=============================================================================
