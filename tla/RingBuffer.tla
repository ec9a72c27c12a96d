----------------------------- MODULE RingBuffer -----------------------------
(***************************************************************************)
(* RingBuffer (sdk/include/ring_buffer.hh) with a lock at each end, as the *)
(* thread pool uses it (sdk/lib/thread_pool/thread_pool.cc): the threads   *)
(* of Producers are in thread_pool_async, the others in thread_pool_run.   *)
(* mem holds the ring, the two free-running counters (uint32_t: Wrap is    *)
(* 2^32 in the code) and the two locks, which are abstract here (the       *)
(* holder, or "free").  local holds each thread's message and what it read *)
(* of the other counter.                                                   *)
(***************************************************************************)
EXTENDS FutexThreads, Sequences

CONSTANTS
    Producers,  \* the threads that push; the others pop
    Messages,   \* what they push
    NoMessage,  \* a message that was never assigned
    BufferSize, \* the capacity, a power of two
    Wrap        \* the counters are counted modulo Wrap

Consumers == Threads \ Producers

Init ==
    /\ mem = [producer |-> 0, consumer |-> 0,
              ring |-> [i \in 0 .. BufferSize - 1 |-> NoMessage],
              pushLock |-> "free", popLock |-> "free"]
    /\ pc = [t \in Threads |-> "user"]
    /\ local = [t \in Threads |-> [message |-> NoMessage, was |-> FALSE]]
    /\ asleep = [t \in Threads |-> "no"]
    /\ history = {}

\* producer - consumer, in the counters' arithmetic.
Used == (mem.producer + Wrap - mem.consumer) % Wrap

\* Seeded fault: the ring counts as full one message too late.
IsFullLate == Used > BufferSize

IsFull == Used = BufferSize
IsEmpty == mem.producer = mem.consumer
CounterToIndex(counter) == counter % BufferSize

---------------------------------------------------------------------------
(* push *)

\* LockGuard g{pushLock}
PushLock(t) ==
    /\ t \in Producers
    /\ At(t, "user")
    /\ mem.pushLock = "free"
    /\ mem' = [mem EXCEPT !.pushLock = t]
    /\ \E m \in Messages : local' = [local EXCEPT ![t].message = m]
    /\ Goto(t, "push_test")
    /\ UNCHANGED <<asleep, history>>

\* while (is_full())
PushTest(t) ==
    /\ At(t, "push_test")
    /\ Goto(t, IF IsFull THEN "push_wait" ELSE "push_write")
    /\ UNCHANGED <<mem, local, asleep, history>>

\* consumer.wait(producer - BufferSize)
PushWait(t) ==
    /\ At(t, "push_wait")
    /\ FutexWait(t, "consumer", (mem.producer + Wrap - BufferSize) % Wrap, "push_test", "push_test")
    /\ UNCHANGED <<mem, local, history>>

\* ring[i] = std::move(message)
PushWrite(t) ==
    /\ At(t, "push_write")
    /\ mem' = [mem EXCEPT !.ring[CounterToIndex(mem.producer)] = local[t].message]
    /\ Goto(t, "push_was")
    /\ UNCHANGED <<local, asleep, history>>

\* wasEmpty = is_empty()
PushWas(t) ==
    /\ At(t, "push_was")
    /\ local' = [local EXCEPT ![t].was = IsEmpty]
    /\ Goto(t, "push_inc")
    /\ UNCHANGED <<mem, asleep, history>>

\* producer++
PushInc(t) ==
    /\ At(t, "push_inc")
    /\ mem' = [mem EXCEPT !.producer = (@ + 1) % Wrap]
    /\ Goto(t, "push_unlock")
    /\ UNCHANGED <<local, asleep, history>>

---------------------------------------------------------------------------
(* pop *)

\* LockGuard g{popLock}
PopLock(t) ==
    /\ t \in Consumers
    /\ At(t, "user")
    /\ mem.popLock = "free"
    /\ mem' = [mem EXCEPT !.popLock = t]
    /\ Goto(t, "pop_test")
    /\ UNCHANGED <<local, asleep, history>>

\* while (is_empty())
PopTest(t) ==
    /\ At(t, "pop_test")
    /\ Goto(t, IF IsEmpty THEN "pop_wait" ELSE "pop_read")
    /\ UNCHANGED <<mem, local, asleep, history>>

\* producer.wait(consumer)
PopWait(t) ==
    /\ At(t, "pop_wait")
    /\ FutexWait(t, "producer", mem.consumer, "pop_test", "pop_test")
    /\ UNCHANGED <<mem, local, history>>

\* result = std::move(ring[i])
PopRead(t) ==
    /\ At(t, "pop_read")
    /\ local' = [local EXCEPT ![t].message = mem.ring[CounterToIndex(mem.consumer)]]
    /\ Goto(t, "pop_was")
    /\ UNCHANGED <<mem, asleep, history>>

\* wasFull = is_full()
PopWas(t) ==
    /\ At(t, "pop_was")
    /\ local' = [local EXCEPT ![t].was = IsFull]
    /\ Goto(t, "pop_inc")
    /\ UNCHANGED <<mem, asleep, history>>

\* consumer++
PopInc(t) ==
    /\ At(t, "pop_inc")
    /\ mem' = [mem EXCEPT !.consumer = (@ + 1) % Wrap]
    /\ Goto(t, "pop_unlock")
    /\ UNCHANGED <<local, asleep, history>>

---------------------------------------------------------------------------

\* The end of the guard's scope, then the notification of the other side;
\* thread_pool_run invokes the message and comes back for the next.
Leave(t) ==
    LET notify == IF t \in Producers THEN "push_notify" ELSE "pop_notify"
    IN  /\ \/ At(t, "push_unlock") /\ mem' = [mem EXCEPT !.pushLock = "free"]
           \/ At(t, "pop_unlock") /\ mem' = [mem EXCEPT !.popLock = "free"]
        /\ Goto(t, IF local[t].was THEN notify ELSE "user")
        /\ local' = [local EXCEPT ![t] = [message |-> NoMessage, was |-> FALSE]]
        /\ UNCHANGED <<asleep, history>>

Notify(t) ==
    /\ \/ At(t, "push_notify") /\ NotifyAll("producer")
       \/ At(t, "pop_notify") /\ NotifyAll("consumer")
    /\ Goto(t, "user")
    /\ UNCHANGED <<mem, local, history>>

Next ==
    \E t \in Threads :
        \/ PushLock(t) \/ PushTest(t) \/ PushWait(t) \/ PushWrite(t) \/ PushWas(t) \/ PushInc(t)
        \/ PopLock(t) \/ PopTest(t) \/ PopWait(t) \/ PopRead(t) \/ PopWas(t) \/ PopInc(t)
        \/ Leave(t) \/ Notify(t)

Spec == Init /\ [][Next]_vars

---------------------------------------------------------------------------

\* The messages in the ring, oldest first, and what each thread has moved
\* in or out of a slot without having moved its counter.
Contents == [i \in 1 .. Used |-> mem.ring[CounterToIndex(mem.consumer + i - 1)]]
Moving ==
    [t \in Threads |->
        IF pc[t] \in {"push_was", "push_inc", "pop_was", "pop_inc"}
        THEN <<local[t].message>> ELSE <<>>]

Queue == INSTANCE BoundedQueue WITH
    Senders <- Producers, Receivers <- Consumers, Resetters <- {},
    Size <- BufferSize, Values <- Messages, items <- Contents, moving <- Moving

\* The ring implements a bounded first-in first-out queue: across the wrap
\* of the counters no message is lost, repeated, reordered or overwritten
\* before it was read.
ImplementsQueue == Queue!Spec

\* The same, one step at a time.
QueueStep == Queue!Next \/ UNCHANGED Queue!vars

\* "On transitions to non-empty and non-full, the queue will issue a
\* futex_wake" (ring_buffer.hh): nobody sleeps in pop while the ring has a
\* message, or in push while it has room, unless a wake is on its way.
WakesOnTransition ==
    \A t \in Threads : asleep[t] # "no" =>
        \/ \E u \in Threads : pc[u] \in {"push_inc", "push_unlock", "push_notify",
                                         "pop_inc", "pop_unlock", "pop_notify"}
        \/ IF t \in Consumers THEN IsEmpty ELSE IsFull
=============================================================================
