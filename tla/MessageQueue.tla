---------------------------- MODULE MessageQueue ----------------------------
(***************************************************************************)
(* The message queue library, sdk/lib/queue/queue.cc: a ring of Size        *)
(* elements with a producer and a consumer counter.  Each counter shares a  *)
(* word with the lock of its end (HighBitFlagLock), so senders wait for     *)
(* space on the very word on which receivers wait for their lock.  Every    *)
(* atomic access, memcpy and futex call is an action; futex_timed_wait      *)
(* compares and sleeps in one step (Scheduler has the details).             *)
(*                                                                         *)
(* Sending and receiving are mirror images: `Own(t)' is the word of a       *)
(* thread's end and `Facing(t)' the other one.                              *)
(***************************************************************************)
EXTENDS Integers, Sequences, FiniteSets

CONSTANTS
    Senders, Receivers,     \* threads in queue_send(_multiple), queue_receive(_multiple)
    Resetters,              \* threads in queue_reset
    Size,                   \* queueSize
    Counts,                 \* the numbers of elements they ask for
    Values, Zero,           \* the contents of an element, and of fresh memory
    Stops                   \* whether queue_stop is called

ASSUME SizeAssumption ==
    /\ Size \in Nat \ {0} /\ Counts \subseteq Nat /\ Values # {}
    /\ Senders \cap Receivers = {} /\ (Senders \cup Receivers) \cap Resetters = {}

VARIABLES
    word,       \* the producer and the consumer word
    buffer,     \* the elements
    pc,
    local,      \* the locals of each thread's call
    asleep,     \* the threads asleep in futex_timed_wait
    stopping    \* how far queue_stop has got

vars == <<word, buffer, pc, local, asleep, stopping>>

Threads == Senders \cup Receivers \cup Resetters
Ends == {"producer", "consumer"}
Own(t) == IF t \in Receivers THEN "consumer" ELSE "producer"
Facing(t) == IF t \in Receivers THEN "producer" ELSE "consumer"

\* A word: LockBit, WaitersBit, LockedInDestructModeBit and the counter.
Words == [locked : BOOLEAN, waiters : BOOLEAN, destruct : BOOLEAN,
          counter : 0 .. 2 * Size - 1]
ZeroWord == [locked |-> FALSE, waiters |-> FALSE, destruct |-> FALSE, counter |-> 0]

\* end: the word being locked or unlocked; value: a copy of it; own: the
\* counter of our end; seen: the word of the other end; count: what is left to
\* transfer; run: what memcpy moved; wake: shouldWake.
Fresh == [end |-> "producer", value |-> ZeroWord, own |-> 0, seen |-> ZeroWord,
          count |-> 0, run |-> <<>>, wake |-> FALSE]

Phases == {"idle", "lockload", "lockwaiters", "lockwait", "lockwoken", "lockcas",
           "loop", "datawait", "datawoken", "datareload", "copy", "store", "checkwake",
           "resetproducer", "resetconsumer", "unlockload", "unlock", "unlocknotify",
           "notify"}

Goto(t, phase) == pc' = [pc EXCEPT ![t] = phase]

---------------------------------------------------------------------------
(* Seeded faults: plausible slips that the properties detect. *)

\* The counters wrap at Size: full and empty look the same.
AddAndWrapAtSize(counter, n) == (counter + n) % Size

\* A run goes up to the end of the buffer, whatever the other end's index is.
RunLengthToEnd(t) ==
    LET start == IF local[t].own >= Size THEN local[t].own - Size ELSE local[t].own
    IN  IF local[t].count < Size - start THEN local[t].count ELSE Size - start

\* queue_send does not tell a receiver that found the queue empty.
ShouldWakeNever(t) == local[t].wake


---------------------------------------------------------------------------
(* The counters *)

\* add_and_wrap (increment_and_wrap adds one)
AddAndWrap(counter, n) ==
    IF counter + n >= 2 * Size THEN counter + n - 2 * Size ELSE counter + n

\* items_remaining
ItemsRemaining(producer, consumer) ==
    IF consumer > producer THEN 2 * Size - consumer + producer ELSE producer - consumer

IsFull(producer, consumer) == ItemsRemaining(producer, consumer) = Size
IsEmpty(producer, consumer) == producer = consumer

\* index_at_counter
IndexAt(counter) == IF counter >= Size THEN counter - Size ELSE counter

\* A sender must wait when the queue is full, a receiver when it is empty.
MustWait(t, own, facing) ==
    IF t \in Senders THEN IsFull(own, facing) ELSE IsEmpty(facing, own)

\* How many elements the next memcpy moves: up to the end of the buffer or to
\* the other end's index.
RunLength(t) ==
    LET start == IndexAt(local[t].own)
        facing == IndexAt(local[t].seen.counter)
        limit == IF facing <= start THEN Size ELSE facing
    IN  IF local[t].count < limit - start THEN local[t].count ELSE limit - start

\* shouldWake, after the counter has been stored: the queue was empty, or full.
ShouldWake(t) ==
    \/ local[t].wake
    \/ IF t \in Senders
       THEN IsEmpty(local[t].own, word["consumer"].counter)
       ELSE IsFull(word["producer"].counter, local[t].own)

---------------------------------------------------------------------------

Init ==
    /\ word = [e \in Ends |-> ZeroWord]
    /\ buffer = [i \in 0 .. Size - 1 |-> Zero]
    /\ pc = [t \in Threads |-> "idle"]
    /\ local = [t \in Threads |-> Fresh]
    /\ asleep = {}
    /\ stopping = "no"

---------------------------------------------------------------------------
(* HighBitFlagLock *)

\* What comes after try_lock has returned false: send and receive return,
\* queue_reset releases the producer lock if it has it, and notifies.
LockFails(t) ==
    IF t \notin Resetters
    THEN Goto(t, "idle") /\ local' = [local EXCEPT ![t] = Fresh]
    ELSE IF local[t].end = "producer"
    THEN Goto(t, "notify") /\ local' = [local EXCEPT ![t].value = ZeroWord]
    ELSE Goto(t, "unlockload")
         /\ local' = [local EXCEPT ![t].value = ZeroWord, ![t].end = "producer"]

\* The condition of the loop over the elements.
Continue(count) == IF count = 0 THEN "unlockload" ELSE "loop"

\* ... or true: queue_reset goes on to the consumer lock.
LockSucceeds(t) ==
    IF t \notin Resetters
    THEN Goto(t, Continue(local[t].count)) /\ local' = [local EXCEPT ![t].value = ZeroWord]
    ELSE IF local[t].end = "producer"
    THEN Goto(t, "lockload")
         /\ local' = [local EXCEPT ![t].value = ZeroWord, ![t].end = "consumer"]
    ELSE Goto(t, "resetproducer") /\ local' = [local EXCEPT ![t].value = ZeroWord]

\* The word a thread in a futex call waits on.
WaitsOn(t) == IF pc[t] = "lockwoken" THEN local[t].end ELSE Facing(t)
NotifyAll(e) == asleep' = {t \in asleep : WaitsOn(t) # e}

\* try_lock loads the word.
LockLoad(t) ==
    LET w == word[local[t].end]
    IN  /\ pc[t] = "lockload"
        /\ \/ w.destruct /\ LockFails(t)
           \/ /\ ~w.destruct
              /\ local' = [local EXCEPT ![t].value = w]
              /\ Goto(t, IF ~w.locked THEN "lockcas"
                         ELSE IF w.waiters THEN "lockwait" ELSE "lockwaiters")
        /\ UNCHANGED <<word, buffer, asleep, stopping>>

\* It adds the waiters bit.  When that fails, `continue' in a do-while loop
\* evaluates the condition, with the value that was just read.
LockAddWaiters(t) ==
    LET e == local[t].end
    IN  /\ pc[t] = "lockwaiters"
        /\ \/ /\ word[e] = local[t].value
              /\ word' = [word EXCEPT ![e].waiters = TRUE]
              /\ Goto(t, "lockwait")
              /\ UNCHANGED local
           \/ /\ word[e] # local[t].value
              /\ local' = [local EXCEPT ![t].value = word[e]]
              /\ Goto(t, "lockcas")
              /\ UNCHANGED word
        /\ UNCHANGED <<buffer, asleep, stopping>>

\* It sleeps unless the word has changed since.  (`value' has not got the
\* waiters bit when it was added just now.)
LockWait(t) ==
    /\ pc[t] = "lockwait"
    /\ \/ /\ word[local[t].end] = local[t].value
          /\ asleep' = asleep \cup {t}
          /\ Goto(t, "lockwoken")
       \/ /\ word[local[t].end] # local[t].value
          /\ Goto(t, "lockcas")
          /\ UNCHANGED asleep
    /\ UNCHANGED <<word, buffer, local, stopping>>

\* The condition of the loop, also after a sleep.
LockCas(t) ==
    LET e == local[t].end
    IN  /\ pc[t] = "lockcas" \/ (pc[t] = "lockwoken" /\ t \notin asleep)
        /\ \/ /\ word[e] = local[t].value
              /\ word' = [word EXCEPT ![e].locked = TRUE]
              /\ LockSucceeds(t)
           \/ /\ word[e] # local[t].value
              /\ local' = [local EXCEPT ![t].value = ZeroWord]
              /\ Goto(t, "lockload")
              /\ UNCHANGED word
        /\ UNCHANGED <<buffer, asleep, stopping>>

\* unlock loads the word ...
UnlockLoad(t) ==
    /\ pc[t] = "unlockload"
    /\ local' = [local EXCEPT ![t].value = word[local[t].end]]
    /\ Goto(t, "unlock")
    /\ UNCHANGED <<word, buffer, asleep, stopping>>

\* What comes after an unlock.
Unlocked(t) ==
    IF t \in Resetters /\ local[t].end = "consumer"
    THEN Goto(t, "unlockload")
         /\ local' = [local EXCEPT ![t].value = ZeroWord, ![t].end = "producer"]
    ELSE Goto(t, "notify") /\ local' = [local EXCEPT ![t].value = ZeroWord]

\* ... replaces it by that value without the lock bit, and looks whether the
\* word it replaced had the waiters bit ...
Unlock(t) ==
    /\ pc[t] = "unlock"
    /\ word' = [word EXCEPT ![local[t].end] = [local[t].value EXCEPT !.locked = FALSE]]
    /\ IF word[local[t].end].waiters
       THEN Goto(t, "unlocknotify") /\ UNCHANGED local
       ELSE Unlocked(t)
    /\ UNCHANGED <<buffer, asleep, stopping>>

\* ... and wakes the waiters.
UnlockNotify(t) ==
    /\ pc[t] = "unlocknotify"
    /\ NotifyAll(local[t].end)
    /\ Unlocked(t)
    /\ UNCHANGED <<word, buffer, stopping>>

---------------------------------------------------------------------------
(* queue_send_multiple and queue_receive_multiple *)

Call(t, n) ==
    /\ pc[t] = "idle"
    /\ t \notin Resetters
    /\ local' = [local EXCEPT ![t] = [Fresh EXCEPT !.end = Own(t), !.count = n]]
    /\ Goto(t, "lockload")
    /\ UNCHANGED <<word, buffer, asleep, stopping>>

\* Load both counters (the lock protects our own) and see whether to wait.
Loop(t) ==
    LET own == word[Own(t)].counter
        seen == word[Facing(t)]
    IN  /\ pc[t] = "loop"
        /\ local' = [local EXCEPT ![t].own = own, ![t].seen = seen]
        /\ Goto(t, IF MustWait(t, own, seen.counter) THEN "datawait" ELSE "copy")
        /\ UNCHANGED <<word, buffer, asleep, stopping>>

\* Wait for the other end's word to change.
DataWait(t) ==
    /\ pc[t] = "datawait"
    /\ \/ /\ word[Facing(t)] = local[t].seen
          /\ asleep' = asleep \cup {t}
          /\ Goto(t, "datawoken")
       \/ /\ word[Facing(t)] # local[t].seen
          /\ Goto(t, "datareload")
          /\ UNCHANGED asleep
    /\ UNCHANGED <<word, buffer, local, stopping>>

\* Load the other end's word again.
DataReload(t) ==
    LET seen == word[Facing(t)]
    IN  /\ pc[t] = "datareload" \/ (pc[t] = "datawoken" /\ t \notin asleep)
        /\ local' = [local EXCEPT ![t].seen = seen]
        /\ Goto(t, IF MustWait(t, local[t].own, seen.counter) THEN "datawait" ELSE "copy")
        /\ UNCHANGED <<word, buffer, asleep, stopping>>

\* A futex call returns -ETIMEDOUT, asleep or just woken.
TimeOut(t) ==
    /\ asleep' = asleep \ {t}
    /\ \/ pc[t] = "lockwoken" /\ LockFails(t)
       \/ /\ pc[t] = "datawoken"
          /\ Goto(t, "unlockload")
          /\ UNCHANGED local
    /\ UNCHANGED <<word, buffer, stopping>>

\* The buffer after memcpy has put a run into it.
Written(start, run) ==
    [i \in DOMAIN buffer |-> IF i - start + 1 \in DOMAIN run THEN run[i - start + 1]
                             ELSE buffer[i]]

\* memcpy into or out of the ring.
Copy(t) ==
    LET start == IndexAt(local[t].own)
        n == RunLength(t)
    IN  /\ pc[t] = "copy"
        /\ \/ /\ t \in Senders
              /\ \E run \in [1 .. n -> Values] :
                   /\ buffer' = Written(start, run)
                   /\ local' = [local EXCEPT ![t].run = run]
           \/ /\ t \in Receivers
              /\ local' = [local EXCEPT ![t].run =
                              [i \in 1 .. n |-> buffer[start + i - 1]]]
              /\ UNCHANGED buffer
        /\ Goto(t, "store")
        /\ UNCHANGED <<word, asleep, stopping>>

\* memcpy faults, a sender's after having moved less than the whole run:
\* on_error leaves the counters alone.
CopyFaults(t) ==
    /\ pc[t] = "copy"
    /\ \/ t \in Receivers /\ UNCHANGED buffer
       \/ /\ t \in Senders
          /\ \E m \in 0 .. RunLength(t) - 1 : \E run \in [1 .. m -> Values] :
               buffer' = Written(IndexAt(local[t].own), run)
    /\ Goto(t, "unlockload")
    /\ UNCHANGED <<word, local, asleep, stopping>>

\* counter_store publishes the run.
Store(t) ==
    LET n == Len(local[t].run)
    IN  /\ pc[t] = "store"
        /\ word' = [word EXCEPT ![Own(t)].counter = AddAndWrap(local[t].own, n)]
        /\ local' = [local EXCEPT ![t].count = @ - n, ![t].run = <<>>]
        /\ Goto(t, "checkwake")
        /\ UNCHANGED <<buffer, asleep, stopping>>

\* Was the queue empty, or full?
CheckWake(t) ==
    /\ pc[t] = "checkwake"
    /\ local' = [local EXCEPT ![t].wake = ShouldWake(t), ![t].own = 0, ![t].seen = ZeroWord]
    /\ Goto(t, Continue(local[t].count))
    /\ UNCHANGED <<word, buffer, asleep, stopping>>

\* Wake the other end, if it may be waiting, and return.
Notify(t) ==
    /\ pc[t] = "notify"
    /\ IF local[t].wake THEN NotifyAll(Own(t)) ELSE UNCHANGED asleep
    /\ local' = [local EXCEPT ![t] = Fresh]
    /\ Goto(t, "idle")
    /\ UNCHANGED <<word, buffer, stopping>>

---------------------------------------------------------------------------
(* queue_reset and queue_stop *)

CallReset(t) ==
    /\ pc[t] = "idle"
    /\ t \in Resetters
    /\ local' = [local EXCEPT ![t] = [Fresh EXCEPT !.wake = TRUE]]
    /\ Goto(t, "lockload")
    /\ UNCHANGED <<word, buffer, asleep, stopping>>

ResetProducer(t) ==
    /\ pc[t] = "resetproducer"
    /\ word' = [word EXCEPT !["producer"].counter = 0]
    /\ Goto(t, "resetconsumer")
    /\ UNCHANGED <<buffer, local, asleep, stopping>>

ResetConsumer(t) ==
    /\ pc[t] = "resetconsumer"
    /\ word' = [word EXCEPT !["consumer"].counter = 0]
    /\ Goto(t, "unlockload")
    /\ UNCHANGED <<buffer, local, asleep, stopping>>

\* queue_stop upgrades the producer lock, then the consumer lock: set the bit ...
StopSet(e) ==
    /\ Stops
    /\ stopping = IF e = "producer" THEN "no" ELSE "between"
    /\ word' = [word EXCEPT ![e].destruct = TRUE]
    /\ stopping' = e
    /\ UNCHANGED <<buffer, pc, local, asleep>>

\* ... and wake the waiters if the word has the waiters bit.
StopNotify(e) ==
    /\ stopping = e
    /\ IF word[e].waiters THEN NotifyAll(e) ELSE UNCHANGED asleep
    /\ stopping' = IF e = "producer" THEN "between" ELSE "done"
    /\ UNCHANGED <<word, buffer, pc, local>>

---------------------------------------------------------------------------

ThreadStep(t) ==
    \/ LockLoad(t) \/ LockAddWaiters(t) \/ LockWait(t) \/ LockCas(t)
    \/ UnlockLoad(t) \/ Unlock(t) \/ UnlockNotify(t)
    \/ Loop(t) \/ DataWait(t) \/ DataReload(t) \/ TimeOut(t)
    \/ Copy(t) \/ CopyFaults(t) \/ Store(t) \/ CheckWake(t) \/ Notify(t)
    \/ ResetProducer(t) \/ ResetConsumer(t)

Next ==
    \/ \E t \in Threads : ThreadStep(t) \/ CallReset(t) \/ \E n \in Counts : Call(t, n)
    \/ \E e \in Ends : StopSet(e) \/ StopNotify(e)

Spec == Init /\ [][Next]_vars

---------------------------------------------------------------------------
(* Properties *)

TypeOK ==
    /\ word \in [Ends -> Words]
    /\ buffer \in [0 .. Size - 1 -> Values \cup {Zero}]
    /\ pc \in [Threads -> Phases]
    /\ asleep \subseteq {t \in Threads : pc[t] \in {"lockwoken", "datawoken"}}
    /\ stopping \in {"no", "between", "done"} \cup Ends
    /\ \A t \in Threads : local[t].value \in Words /\ local[t].seen \in Words

\* The phases in which try_lock has succeeded and unlock has not yet stored.
InSection == {"loop", "datawait", "datawoken", "datareload", "copy", "store", "checkwake",
              "unlockload", "unlock"}
HasLock(t, e) ==
    IF t \notin Resetters THEN e = Own(t) /\ pc[t] \in InSection
    ELSE \/ pc[t] \in {"resetproducer", "resetconsumer"}
         \/ pc[t] \in {"unlockload", "unlock"} /\ local[t].end = "consumer"
         \/ /\ e = "producer"
            /\ \/ local[t].end = "consumer"
               \/ pc[t] \in {"unlockload", "unlock"}

\* "Both sets of queues support multiple senders and multiple receivers": at
\* most one thread at a time is inside the lock of an end.
MutualExclusion ==
    \A e \in Ends : Cardinality({t \in Threads : HasLock(t, e)}) <= 1

\* The elements in the queue, by the counters.  In the middle of queue_reset
\* both ends are locked.
Contents ==
    LET producer == word["producer"].counter
        consumer == word["consumer"].counter
    IN  IF \E t \in Resetters : pc[t] = "resetconsumer" THEN <<>>
        ELSE [i \in 1 .. ItemsRemaining(producer, consumer) |->
                buffer[IndexAt(AddAndWrap(consumer, i - 1))]]

\* The run that a thread has copied is in its locals until counter_store.
Moving == [t \in Threads |-> local[t].run]

Abstract == INSTANCE BoundedQueue WITH items <- Contents, moving <- Moving

\* As long as the locks exclude, the library implements a bounded first-in
\* first-out queue: nothing is lost, repeated, reordered or overwritten, also
\* when a call times out halfway, faults in memcpy, or races a reset.
ImplementsBoundedQueue ==
    /\ Abstract!Init
    /\ [][\/ UNCHANGED <<Contents, Moving>>
          \/ MutualExclusion => Abstract!Next]_vars

\* The cells that memcpy is moving.
Cells(t) ==
    LET start == IndexAt(local[t].own)
    IN  start .. start + RunLength(t) - 1

\* A sender and a receiver, which hold different locks, never copy the same
\* cell at the same time (so treating memcpy as one step loses nothing).
RunsDisjoint ==
    MutualExclusion =>
        \A s \in Senders, r \in Receivers :
            pc[s] = "copy" /\ pc[r] = "copy" => Cells(s) \cap Cells(r) = {}

\* A call that is certain to call notify_all on the word of end e without
\* waiting for anything first.
WillNotify(t, e) ==
    \/ pc[t] = "unlocknotify" /\ local[t].end = e
    \/ /\ t \notin Resetters /\ t \notin asleep /\ Own(t) = e
       /\ local[t].wake \/ pc[t] = "checkwake"
    \/ stopping = e

\* "Anything on the [other] side will be on the path to a futex_wait with the
\* old version of the counter and so will bounce out again": a thread that
\* sleeps because the queue is full (empty) does so only while it is, unless
\* the thread that changed this is about to wake it.
NoMissedElement ==
    \A t \in asleep :
        pc[t] = "datawoken" /\ MutualExclusion =>
            \/ MustWait(t, word[Own(t)].counter, word[Facing(t)].counter)
            \/ \E u \in Threads : WillNotify(u, Facing(t))
=============================================================================
