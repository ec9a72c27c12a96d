--------------------------- MODULE FutexThreads ---------------------------
(***************************************************************************)
(* What the synchronisation libraries (sdk/lib/locks and its neighbours)   *)
(* are written on: threads that share atomic words and sleep on them.      *)
(* One step of a thread is one atomic access or one call of the scheduler's*)
(* futex interface; both are indivisible (the atomics are libcalls with    *)
(* interrupts disabled, the scheduler runs with interrupts disabled).      *)
(*                                                                         *)
(* The futex is the one of module Scheduler seen by its callers: a wait    *)
(* compares and sleeps in one step; a wake makes sleepers runnable; a      *)
(* sleeper with a timeout leaves at any time, and one that was woken late  *)
(* may be told that it timed out.                                          *)
(***************************************************************************)
EXTENDS Naturals

CONSTANT Threads        \* the threads that use the object

VARIABLES
    mem,        \* the shared object: a record with a field for each word
    pc,         \* where each thread is: the step it takes next
    local,      \* each thread's local variables
    asleep,     \* the word of mem each thread sleeps on, or "no"
    history     \* what was done so far: for the properties and the bounds only

vars == <<mem, pc, local, asleep, history>>

\* Thread t runs, and its next step is the one called place.
At(t, place) == pc[t] = place /\ asleep[t] = "no"

Goto(t, place) == pc' = [pc EXCEPT ![t] = place]

\* futex_timed_wait(&mem[word], expected): t goes on at place changed when
\* the word has another value, and sleeps otherwise, to go on at place woken.
FutexWait(t, word, expected, changed, woken) ==
    IF mem[word] = expected
    THEN Goto(t, woken) /\ asleep' = [asleep EXCEPT ![t] = word]
    ELSE Goto(t, changed) /\ UNCHANGED asleep

Sleepers(word) == {t \in Threads : asleep[t] = word}

\* futex_wake(&mem[word], UINT32_MAX)
NotifyAll(word) ==
    asleep' = [t \in Threads |-> IF asleep[t] = word THEN "no" ELSE asleep[t]]

\* futex_wake(&mem[word], 1); which sleeper it is depends on priorities.
NotifyOne(word) ==
    \/ Sleepers(word) = {} /\ UNCHANGED asleep
    \/ \E t \in Sleepers(word) : asleep' = [asleep EXCEPT ![t] = "no"]

\* The timer wakes a sleeper: t goes on at place, where it has timed out.
TimesOut(t, place) ==
    /\ asleep[t] # "no"
    /\ asleep' = [asleep EXCEPT ![t] = "no"]
    /\ Goto(t, place)
    /\ UNCHANGED <<mem, local, history>>
===========================================================================
