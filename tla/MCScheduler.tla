---------------------------- MODULE MCScheduler ----------------------------
(***************************************************************************)
(* Instances of Scheduler for TLC: the one that a configuration gives      *)
(* ("core"), and a pair: three priorities and a futex that inherits them   *)
(* ("inherit"); two peers below a third thread, an interrupt futex and a   *)
(* multiwaiter ("multi").                                                  *)
(***************************************************************************)
EXTENDS Scheduler, TLC

CONSTANTS f1, m1

VARIABLE setup      \* which instance a behaviour is one of

MCNever == 99
Rel(n) == [kind |-> "relative", value |-> n]

\* Two peers below a third thread.
Prio112 == <<1, 1, 2>>
\* Three different priorities.
Prio123 == <<1, 2, 3>>

\* One tick or for ever.
TickOrForever == {Rel(1), Rel(MCNever)}
\* Not at all, one tick, or for ever.
BlockTimeouts == {Rel(0), Rel(1), Rel(MCNever)}

Inherit == INSTANCE Scheduler WITH
    N <- 3, OriginalPriority <- Prio123, NPrios <- 4, Futexes <- {f1}, PIFutexes <- {f1},
    InterruptFutexes <- {}, MultiWaiters <- {}, CyclesPerTick <- 2, Never <- MCNever,
    Timeouts <- TickOrForever, SleepKinds <- {"sleep_full"}, Counts <- {3}, MaxTime <- 3

Multi == INSTANCE Scheduler WITH
    N <- 3, OriginalPriority <- Prio112, NPrios <- 4, Futexes <- {f1}, PIFutexes <- {},
    InterruptFutexes <- {f1}, MultiWaiters <- {m1}, CyclesPerTick <- 2, Never <- MCNever,
    Timeouts <- TickOrForever, SleepKinds <- {"sleep"}, Counts <- {1}, MaxTime <- 2

allVars == <<setup, vars>>

SetupNext ==
    /\ \/ setup = "core" /\ Next
       \/ setup = "inherit" /\ Inherit!Next
       \/ setup = "multi" /\ Multi!Next
    /\ UNCHANGED setup

CoreInit == setup = "core" /\ Init
CoreSpec == CoreInit /\ [][SetupNext]_allVars

FairCoreSpec == CoreSpec /\ Fairness

PairInit ==
    \/ setup = "inherit" /\ Inherit!Init
    \/ setup = "multi" /\ Multi!Init

PairSpec == PairInit /\ [][SetupNext]_allVars

---------------------------------------------------------------------------
(* Properties of the pair *)

\* With boosts and with multiwaiters, the lists and the states of the threads
\* agree and are in order; who sleeps with a timeout has a timer that will wake
\* it; and who is blocked on a multiwaiter is blocked on a registered one.
PairListsAgree ==
    /\ setup = "inherit" => Inherit!QueuesMatchState /\ Inherit!QueuesOrdered
    /\ setup = "multi" => /\ Multi!QueuesMatchState /\ Multi!QueuesOrdered
                          /\ Multi!SleepersHaveTimer /\ Multi!BlockedOnSomeObject

\* futex_wake wakes the waiters of the highest priority.
InheritWakesHighestFirst ==
    [][setup = "inherit" => Inherit!HighestFirstStep]_allVars


---------------------------------------------------------------------------
(* Statements of the repository that the code does not meet; no run checks  *)
(* them, README.md has the behaviours that violate them.                    *)

\* Every thread on the list of blocked multiwaiters has a multiwaiter that
\* still exists: wake_waiters calls trigger on it.
BlockedOnLiveObject ==
    \A t \in ToSet(multiList) : multiWaiter[t] \in live

\* "0 on success: either `*address' and `expected' differ or a wake is
\* received": a waiter that futex_wake woke, and that runs again before its
\* deadline, reports no timeout.
WakeReported ==
    [][LET t == current'
       IN  /\ kernel.at = "schedule" /\ kernel'.at = "resume"
           /\ call[t].op = "futex" /\ futexWaitAddress[t] # NoAddress
           /\ now < expiryTime[t]
           => ~TimedOut(call[t])]_vars

\* When nobody is in a wait for a priority-inheriting futex, every thread has
\* its own priority again.
NoLeakedBoost ==
    InUser /\ (\A t \in Threads : call[t].owner = NoThread)
        => \A t \in Threads : state[t] # "Exited" => priority[t] = OriginalPriority[t]

\* "Wake any threads that were sleeping until a timeout before the current
\* time": expiretimers leaves no expired sleeper.
ExpiresEveryone ==
    [][kernel.at = "expire" /\ kernel'.at # "expire"
         => \A t \in Threads : state'[t] = "Suspended" => expiryTime[t] > now]_vars
=============================================================================
