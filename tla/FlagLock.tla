----------------------------- MODULE FlagLock -----------------------------
(***************************************************************************)
(* InternalFlagLock (sdk/lib/locks/locks.cc): a lock held in one futex     *)
(* word.  Each action is one atomic access to the word or one call of the  *)
(* scheduler's futex interface (both are indivisible: the atomics are      *)
(* libcalls with interrupts disabled, the scheduler runs with interrupts   *)
(* disabled), so the model has every interleaving the threads can have.    *)
(*                                                                         *)
(* The futex is modelled from futex_timed_wait and futex_wake: a wait      *)
(* compares and sleeps in one step, a wake empties the set of sleepers,    *)
(* and a sleeper with a finite timeout may leave at any time.  Timeouts    *)
(* are abstracted to "zero" (must not block), "finite" and "forever".      *)
(***************************************************************************)
CONSTANTS
    Threads,            \* the threads that use the lock
    NoThread,           \* thread ID 0
    PriorityInherited   \* TRUE: the word records its owner (the PI variant)

ASSUME NoThreadAssumption == NoThread \notin Threads
ASSUME PIAssumption == PriorityInherited \in BOOLEAN

VARIABLES
    lockWord,   \* the flag bits that are set and the owner in the low 16 bits
    pc,         \* where each thread is
    old,        \* each thread's local copy of the word
    timeout,    \* each thread's timeout argument
    holding     \* the threads whose try_lock succeeded and that have not unlocked

vars == <<lockWord, pc, old, timeout, holding>>

Flags == {"Locked", "LockedWithWaiters", "LockedInDestructMode"}
Timeouts == {"zero", "finite", "forever"}
Words == [flags : SUBSET Flags, owner : Threads \cup {NoThread}]
Places == {"user", "cas", "add", "wait", "asleep", "woken", "notify",
           "up_load", "up_notify"}

Unlocked == [flags |-> {}, owner |-> NoThread]

HasWaiters(word) == "LockedWithWaiters" \in word.flags
InDestructMode(word) == "LockedInDestructMode" \in word.flags

Init ==
    /\ lockWord = Unlocked
    /\ pc = [t \in Threads |-> "user"]
    /\ old = [t \in Threads |-> Unlocked]
    /\ timeout = [t \in Threads |-> "zero"]
    /\ holding = {}

Goto(t, place) == pc' = [pc EXCEPT ![t] = place]

\* Leave try_lock (its locals die); the result says why.
Return(t, result) ==
    /\ result \in {"0", "-ENOENT", "-ETIMEDOUT", "-EINVAL"}
    /\ Goto(t, "user")
    /\ old' = [old EXCEPT ![t] = Unlocked]
    /\ timeout' = [timeout EXCEPT ![t] = "zero"]

\* The top of the loop in try_lock.
Retry(t) ==
    /\ Goto(t, "cas")
    /\ old' = [old EXCEPT ![t] = Unlocked]
    /\ UNCHANGED timeout

---------------------------------------------------------------------------
(* Seeded faults: each is a plausible slip in one operation, and one of    *)
(* the properties below is violated when it replaces that operation.       *)

\* unlock stores Unlocked and forgets the destruction bit.
UnlockStore(t) ==
    /\ pc[t] = "user"
    /\ t \in holding
    /\ lockWord' = Unlocked
    /\ holding' = holding \ {t}
    /\ Goto(t, IF HasWaiters(lockWord) THEN "notify" ELSE "user")
    /\ UNCHANGED <<old, timeout>>

\* unlock tests the value it wrote, not the one it replaced.
UnlockNoNotify(t) ==
    /\ pc[t] = "user"
    /\ t \in holding
    /\ lockWord' = [flags |-> lockWord.flags \cap {"LockedInDestructMode"},
                    owner |-> NoThread]
    /\ holding' = holding \ {t}
    /\ Goto(t, "user")
    /\ UNCHANGED <<old, timeout>>

\* upgrade_for_destruction stores the bit in place of or-ing it in.
UpgradeStore(t) ==
    /\ pc[t] = "user"
    /\ lockWord' = [flags |-> {"LockedInDestructMode"}, owner |-> NoThread]
    /\ Goto(t, "up_load")
    /\ UNCHANGED <<old, timeout, holding>>

---------------------------------------------------------------------------
(* try_lock *)

\* flaglock_trylock or flaglock_priority_inheriting_trylock.  Only a
\* priority-inheriting lock detects a second call by its holder.
TryLock(t) ==
    /\ pc[t] = "user"
    /\ t \in holding => PriorityInherited
    /\ \E k \in Timeouts : timeout' = [timeout EXCEPT ![t] = k]
    /\ Goto(t, "cas")
    /\ UNCHANGED <<lockWord, old, holding>>

\* The value a successful try_lock writes: Locked | threadID.
Desired(t) ==
    [flags |-> {"Locked"},
     owner |-> IF PriorityInherited THEN t ELSE NoThread]

\* compare_exchange_strong(Unlocked, desired) succeeds.
Acquire(t) ==
    /\ pc[t] = "cas"
    /\ lockWord = Unlocked
    /\ lockWord' = Desired(t)
    /\ holding' = holding \cup {t}
    /\ Return(t, "0")

\* It fails: the tests on the value that it read.
AcquireFails(t) ==
    /\ pc[t] = "cas"
    /\ lockWord # Unlocked
    /\ \/ InDestructMode(lockWord) /\ Return(t, "-ENOENT")
       \/ /\ ~InDestructMode(lockWord)
          /\ timeout[t] = "zero"
          /\ Return(t, "-ETIMEDOUT")
       \/ /\ ~InDestructMode(lockWord)
          /\ timeout[t] # "zero"
          /\ old' = [old EXCEPT ![t] = lockWord]
          /\ Goto(t, IF HasWaiters(lockWord) THEN "wait" ELSE "add")
          /\ UNCHANGED timeout
    /\ UNCHANGED <<lockWord, holding>>

\* compare_exchange_strong(old, LockedWithWaiters | owner); retry if it lost.
AddWaiters(t) ==
    /\ pc[t] = "add"
    /\ \/ /\ lockWord = old[t]
          /\ lockWord' = [lockWord EXCEPT !.flags = {"LockedWithWaiters"}]
          /\ old' = [old EXCEPT ![t] = lockWord']
          /\ Goto(t, "wait")
          /\ UNCHANGED timeout
       \/ lockWord # old[t] /\ Retry(t) /\ UNCHANGED lockWord
    /\ UNCHANGED holding

\* futex_timed_wait: 0 at once when the word has changed, -EINVAL when the
\* word of a priority-inheriting futex names the caller, sleep otherwise.
Wait(t) ==
    /\ pc[t] = "wait"
    /\ \/ lockWord # old[t] /\ Retry(t)
       \/ lockWord = old[t] /\ lockWord.owner = t /\ Return(t, "-EINVAL")
       \/ /\ lockWord = old[t]
          /\ lockWord.owner # t
          /\ Goto(t, "asleep")
          /\ UNCHANGED <<old, timeout>>
    /\ UNCHANGED <<lockWord, holding>>

\* The timer wakes the sleeper and futex_timed_wait reports the timeout.
TimeOut(t) ==
    /\ pc[t] = "asleep"
    /\ timeout[t] = "finite"
    /\ Return(t, "-ETIMEDOUT")
    /\ UNCHANGED <<lockWord, holding>>

\* A thread woken by futex_wake leaves futex_timed_wait.  The ticks it slept
\* have been taken from a finite timeout: when none remain the scheduler
\* reports a timeout although the thread was woken.
Resume(t) ==
    /\ pc[t] = "woken"
    /\ \/ Retry(t)
       \/ timeout[t] = "finite" /\ Return(t, "-ETIMEDOUT")
    /\ UNCHANGED <<lockWord, holding>>

---------------------------------------------------------------------------
(* unlock and upgrade_for_destruction *)

\* fetch_and(LockedInDestructMode)
Unlock(t) ==
    /\ pc[t] = "user"
    /\ t \in holding
    /\ lockWord' = [flags |-> lockWord.flags \cap {"LockedInDestructMode"},
                    owner |-> NoThread]
    /\ holding' = holding \ {t}
    /\ Goto(t, IF HasWaiters(lockWord) THEN "notify" ELSE "user")
    /\ UNCHANGED <<old, timeout>>

\* lockWord |= LockedInDestructMode; the caller need not hold the lock.
Upgrade(t) ==
    /\ pc[t] = "user"
    /\ lockWord' = [lockWord EXCEPT !.flags = @ \cup {"LockedInDestructMode"}]
    /\ Goto(t, "up_load")
    /\ UNCHANGED <<old, timeout, holding>>

\* The second load of the word in upgrade_for_destruction.
UpgradeLoad(t) ==
    /\ pc[t] = "up_load"
    /\ Goto(t, IF HasWaiters(lockWord) THEN "up_notify" ELSE "user")
    /\ UNCHANGED <<lockWord, old, timeout, holding>>

\* notify_all, from unlock or from upgrade_for_destruction: futex_wake makes
\* every sleeper runnable.
NotifyAll(t) ==
    /\ pc[t] \in {"notify", "up_notify"}
    /\ pc' = [u \in Threads |-> IF u = t THEN "user"
                                ELSE IF pc[u] = "asleep" THEN "woken" ELSE pc[u]]
    /\ UNCHANGED <<lockWord, old, timeout, holding>>

---------------------------------------------------------------------------

\* The steps inside a call, which a scheduled thread takes.
Step(t) ==
    \/ Acquire(t) \/ AcquireFails(t) \/ AddWaiters(t) \/ Wait(t) \/ Resume(t)
    \/ UpgradeLoad(t) \/ NotifyAll(t)

\* The calls a thread chooses to make, and the timer.
Call(t) == TryLock(t) \/ Unlock(t) \/ Upgrade(t) \/ TimeOut(t)

Next == \E t \in Threads : Step(t) \/ Call(t)

Spec == Init /\ [][Next]_vars

---------------------------------------------------------------------------
(* Properties *)

TypeOK ==
    /\ lockWord \in Words
    /\ pc \in [Threads -> Places]
    /\ old \in [Threads -> Words]
    /\ timeout \in [Threads -> Timeouts]
    /\ holding \in SUBSET Threads

\* At most one thread is between a successful try_lock and its unlock,
\* whatever the races between the two compare-and-exchanges of try_lock,
\* the fetch_and of unlock and upgrade_for_destruction.
MutualExclusion == \A t, u \in holding : t = u

\* No missed wake (the argument in the comment of upgrade_for_destruction):
\* while a thread sleeps on the word, either the word still says
\* LockedWithWaiters and its holder will notify, or somebody is about to call
\* notify_all; and in destruction mode somebody is about to wake it.
NoMissedWake ==
    \A t \in Threads : pc[t] = "asleep" =>
        \/ \E u \in Threads : pc[u] \in {"notify", "up_notify"}
        \/ /\ HasWaiters(lockWord)
           /\ holding # {}
           /\ InDestructMode(lockWord) => \E u \in Threads : pc[u] = "up_load"

\* The assertion in try_lock: the value to which the waiters flag is added
\* is a plain Locked word, so that adding the flag keeps the owner and drops
\* neither the destruction bit nor another flag.
AddsWaitersToLocked ==
    \A t \in Threads :
        pc[t] = "add" => old[t].flags = {"Locked"}

\* A held lock is recorded in the word, with its owner when it is priority
\* inheriting; a free one is clear but for the destruction bit.
WordTellsHolder ==
    /\ holding = {} <=> lockWord.flags \subseteq {"LockedInDestructMode"}
    /\ holding = {} => lockWord.owner = NoThread
    /\ PriorityInherited => \A t \in holding : lockWord.owner = t

\* Nobody acquires a lock that is in destruction mode, and the mode is final.
NeverAcquiredInDestruction ==
    [][InDestructMode(lockWord) => InDestructMode(lockWord') /\ holding' \subseteq holding]_vars

\* The flag lock implements the abstract mutex.
M == INSTANCE Mutex WITH
        holder <- IF holding = {} THEN NoThread ELSE CHOOSE t \in holding : TRUE,
        destroyed <- InDestructMode(lockWord)
ImplementsMutex == M!Spec
===========================================================================
