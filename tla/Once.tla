-------------------------------- MODULE Once --------------------------------
(***************************************************************************)
(* run_once (sdk/include/locks.h, sdk/lib/locks/once.cc).  The one word of *)
(* the object is OnceState; local is the value the failed exchange read,   *)
(* and history counts the calls of the callback that began and ended.      *)
(***************************************************************************)
EXTENDS FutexThreads

Init ==
    /\ mem = [state |-> "NotRun"]
    /\ pc = [t \in Threads |-> "user"]
    /\ local = [t \in Threads |-> "NotRun"]
    /\ asleep = [t \in Threads |-> "no"]
    /\ history = [begun |-> 0, ended |-> 0]

---------------------------------------------------------------------------
(* Seeded faults *)

\* The waiters are woken before the state is written.
FinishNotifiesFirst(t) ==
    /\ \/ At(t, "finish") /\ NotifyAll("state") /\ Goto(t, "notify") /\ UNCHANGED mem
       \/ At(t, "notify") /\ mem' = [mem EXCEPT !.state = "Run"] /\ Goto(t, "done")
          /\ UNCHANGED asleep
    /\ UNCHANGED <<local, history>>

---------------------------------------------------------------------------

\* The fast path of run_once: the callback has run.
Call(t) ==
    /\ At(t, "user")
    /\ Goto(t, IF mem.state = "Run" THEN "done" ELSE "slow")
    /\ UNCHANGED <<mem, local, asleep, history>>

\* compare_exchange_strong(expected, Running): the winner calls back.
Exchange(t) ==
    /\ At(t, "slow")
    /\ \/ /\ mem.state = "NotRun"
          /\ mem' = [mem EXCEPT !.state = "Running"]
          /\ history' = [history EXCEPT !.begun = @ + 1]
          /\ Goto(t, "callback")
          /\ UNCHANGED local
       \/ /\ mem.state # "NotRun"
          /\ local' = [local EXCEPT ![t] = mem.state]
          /\ Goto(t, IF mem.state = "Running" THEN "lost" ELSE "assert")
          /\ UNCHANGED <<mem, history>>
    /\ UNCHANGED asleep

\* The callback returns.
Callback(t) ==
    /\ At(t, "callback")
    /\ history' = [history EXCEPT !.ended = @ + 1]
    /\ Goto(t, "finish")
    /\ UNCHANGED <<mem, local, asleep>>

\* state = Run
Finish(t) ==
    /\ At(t, "finish")
    /\ mem' = [mem EXCEPT !.state = "Run"]
    /\ Goto(t, "notify")
    /\ UNCHANGED <<local, asleep, history>>

Notify(t) ==
    /\ At(t, "notify")
    /\ NotifyAll("state")
    /\ Goto(t, "done")
    /\ UNCHANGED <<mem, local, history>>

\* state.wait(expected), once and without a timeout.
Lost(t) ==
    /\ At(t, "lost")
    /\ FutexWait(t, "state", local[t], "assert", "assert")
    /\ UNCHANGED <<mem, local, history>>

\* The assertion that the state is Run; a thread that fails it stops.
Assert(t) ==
    /\ At(t, "assert")
    /\ mem.state = "Run"
    /\ Goto(t, "done")
    /\ UNCHANGED <<mem, local, asleep, history>>

Step(t) ==
    \/ Call(t) \/ Exchange(t) \/ Callback(t) \/ Finish(t) \/ Notify(t)
    \/ Lost(t) \/ Assert(t)

Next == \E t \in Threads : Step(t)

Spec == Init /\ [][Next]_vars

---------------------------------------------------------------------------

\* The callback is called once, and whoever returns from run_once returns
\* after it has ended: the one wait of the slow path, which is not in a
\* loop, is enough for its assertion.
RunsOnceBefore ==
    /\ history.begun <= 1
    /\ \A t \in Threads : At(t, "assert") \/ pc[t] = "done" =>
           history.ended = 1 /\ mem.state = "Run"

\* If the callback returns, every caller of run_once does.
AllReturned == \A t \in Threads : pc[t] = "done"
AllReturn == <>AllReturned
=============================================================================
