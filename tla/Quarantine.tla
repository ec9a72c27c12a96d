----------------------------- MODULE Quarantine -----------------------------
(***************************************************************************)
(* Temporal safety: the quarantine of the allocator                        *)
(* (sdk/core/allocator/alloc.h), its two pending rings                     *)
(* (sdk/include/ds/ring_buffer.h), and a revoker that sweeps memory in the *)
(* background (sdk/include/platform/ibex/platform-hardware_revoker.hh)     *)
(* while other threads copy capabilities about.                            *)
(*                                                                         *)
(* The allocator's lock makes its callers exclude each other, but the      *)
(* revoker and the mutators run between any two of their steps: a step is  *)
(* one read of the revocation epoch, one painting, one chunk that leaves   *)
(* the quarantine, one word swept.  Chunks have one size.  mem.words is    *)
(* the memory that the revoker sweeps, registers of threads that do not    *)
(* run included (they are spilled there).                                  *)
(***************************************************************************)
EXTENDS FutexThreads, Integers, Sequences, FiniteSets

CONSTANTS
    Flushers,   \* the threads that call only heap_quarantine_flush
    Chunks,     \* the chunks of the heap
    Words,      \* places in memory that hold capabilities
    None,       \* a word without a valid capability
    EpochWrap,  \* the revocation epoch has 32 bits: 2^32 in the code
    FirstEpoch, \* the even epoch when the behaviour begins, after any number
                \* of sweeps
    MaxPasses   \* bound: the sweeps of a behaviour

QuarantineRings == 2
DequeueOnFree == 3
DequeueOnMalloc == 4

Locals == [op |-> "none", chunk |-> None, epoch |-> 0, value |-> 0, loops |-> 0,
           dequeued |-> 0, before |-> {}]

\* The quarantine, youngest last: what waits for a sweep, what waits for a
\* visit by the allocator.
Elements(s) == {s[i] : i \in DOMAIN s}
Quarantined == (UNION {Elements(mem.pending[i]) : i \in 0 .. QuarantineRings - 1})
                  \cup Elements(mem.finished)
\* Chunks between the painting and the quarantine
InFree == {local[t].chunk : t \in {u \in Threads : pc[u] \in {"paint", "epoch", "push"}}}
Allocated == Chunks \ (mem.free \cup Quarantined \cup InFree)

---------------------------------------------------------------------------
(* ds::ring_buffer::Cursors, for a capacity that is a power of two *)

Advance(v) == (v - 1) % QuarantineRings

\* reset
EmptyRing == [tail |-> 0, head |-> Advance(0), empty |-> TRUE]

HasRoom(ring) == ring.empty \/ ring.head # Advance(ring.tail)
HeadAdvance(ring) ==
    [ring EXCEPT !.head = Advance(@), !.empty = ring.empty \/ ring.head = ring.tail]
TailAdvance(ring) == [ring EXCEPT !.tail = Advance(@), !.empty = FALSE]

Init ==
    /\ mem = [lock |-> "free", epoch |-> FirstEpoch, swept |-> {}, requested |-> FALSE, irq |-> 0,
              words |-> [w \in Words |-> None], painted |-> {}, free |-> Chunks,
              pending |-> [i \in 0 .. QuarantineRings - 1 |-> <<>>],
              pendingEpoch |-> [i \in 0 .. QuarantineRings - 1 |-> 0],
              ring |-> EmptyRing, finished |-> <<>>]
    /\ pc = [t \in Threads |-> "user"]
    /\ local = [t \in Threads |-> Locals]
    /\ asleep = [t \in Threads |-> "no"]
    /\ history = 0

---------------------------------------------------------------------------
(* Seeded faults *)

\* Things freed during a sweep are filed under the epoch of that sweep.
RoundUpNot(epoch) == epoch - (epoch % 2)

\* quarantine_pending_push makes no room.
ToFinishedNever(m) == m


\* heap_quarantine_flush waits for the epoch that it reads.
FlushEpochDown(epoch) == epoch - (epoch % 2)

---------------------------------------------------------------------------
(* The revoker: a device that sweeps memory, behind a load barrier *)

Running == mem.epoch % 2 = 1

\* The load barrier: a capability to painted memory loses its tag.
Load(word) == IF word \in mem.painted THEN None ELSE word

\* system_bg_revoker_kick: nothing when a sweep is in progress.
Kicked(m) ==
    IF m.epoch % 2 = 1 \/ history >= MaxPasses THEN m
    ELSE [m EXCEPT !.epoch = (@ + 1) % EpochWrap, !.swept = {}]

\* has_revocation_finished_for_epoch: the difference as a signed number.
HasFinished(epoch) ==
    LET distance == (mem.epoch - epoch) % EpochWrap
    IN  1 < distance /\ distance < EpochWrap \div 2

Sweep(w) ==
    /\ Running
    /\ w \notin mem.swept
    /\ mem' = [mem EXCEPT !.words[w] = Load(@), !.swept = @ \cup {w}]
    /\ UNCHANGED <<pc, local, asleep, history>>

\* The epoch becomes even; the interrupt, if it was asked for, increments the
\* futex word and wakes its waiters.
SweepEnds ==
    /\ Running
    /\ mem.swept = Words
    /\ history' = history + 1
    /\ mem' = [mem EXCEPT !.epoch = (@ + 1) % EpochWrap, !.requested = FALSE,
                          !.irq = IF mem.requested THEN @ + 1 ELSE @]
    /\ IF mem.requested THEN NotifyAll("irq") ELSE UNCHANGED asleep
    /\ UNCHANGED <<pc, local>>

\* A thread copies a capability from one word to another.
Copy(v, w) ==
    /\ mem.words[w] # Load(mem.words[v])
    /\ mem' = [mem EXCEPT !.words[w] = Load(mem.words[v])]
    /\ UNCHANGED <<pc, local, asleep, history>>

---------------------------------------------------------------------------
(* Into the quarantine *)

\* heap_free of an allocated chunk, with the lock held and no hazards.
Free(t, c) ==
    /\ At(t, "user") /\ t \notin Flushers
    /\ mem.lock = "free"
    /\ c \in Allocated
    /\ mem' = [mem EXCEPT !.lock = t]
    /\ local' = [local EXCEPT ![t] = [Locals EXCEPT !.op = "free", !.chunk = c]]
    /\ Goto(t, "paint")
    /\ UNCHANGED <<asleep, history>>

\* mark_set_range
Paint(t) ==
    /\ At(t, "paint")
    /\ mem' = [mem EXCEPT !.painted = @ \cup {local[t].chunk}]
    /\ Goto(t, "epoch")
    /\ UNCHANGED <<local, asleep, history>>

\* epoch += epoch & 1
RoundUp(epoch) == (epoch + (epoch % 2)) % EpochWrap

\* system_epoch_get
ReadEpoch(t) ==
    /\ At(t, "epoch")
    /\ local' = [local EXCEPT ![t].epoch = RoundUp(mem.epoch)]
    /\ Goto(t, "push")
    /\ UNCHANGED <<mem, asleep, history>>

\* quarantine_pending_to_finished: the oldest ring, when its epoch is past.
ToFinished(m) ==
    LET oldest == m.ring.head
    IN  IF m.ring.empty \/ ~HasFinished(m.pendingEpoch[oldest]) THEN m
        ELSE [m EXCEPT !.finished = @ \o m.pending[oldest],
                       !.pending[oldest] = <<>>,
                       !.ring = HeadAdvance(@)]

\* Room for a new ring, when the youngest one is of another epoch.
MakeRoom(m) == ToFinished(m)

\* quarantine_pending_push
Pushed(m, epoch, c) ==
    LET opening == m.ring.empty \/ m.pendingEpoch[m.ring.tail] # epoch
        room == MakeRoom(m)
        opened == [room EXCEPT !.pendingEpoch[Advance(room.ring.tail)] = epoch,
                               !.ring = TailAdvance(@)]
        ready == IF opening THEN opened ELSE m
    IN  [ready EXCEPT !.pending[ready.ring.tail] = Append(@, c)]

\* The end of mspace_free: then the quarantine is visited.
Push(t) ==
    /\ At(t, "push")
    /\ mem' = Pushed(mem, local[t].epoch, local[t].chunk)
    /\ local' = [local EXCEPT ![t].loops = DequeueOnFree]
    /\ Goto(t, "dequeue")
    /\ UNCHANGED <<asleep, history>>

---------------------------------------------------------------------------
(* Out of the quarantine *)

\* One round of mspace_qtbin_deqn: a chunk of the finished ring goes back to
\* the free list, its bits cleared; the oldest pending ring may become the
\* finished one.
Dequeue(t) ==
    /\ At(t, "dequeue")
    /\ local[t].loops > 0
    /\ LET m == IF mem.finished = <<>> THEN ToFinished(mem) ELSE mem
       IN  IF m.finished = <<>>
           THEN mem' = m /\ local' = [local EXCEPT ![t].loops = 0]
           ELSE /\ mem' = [m EXCEPT !.finished = Tail(@),
                                    !.painted = @ \ {Head(m.finished)},
                                    !.free = @ \cup {Head(m.finished)}]
                /\ local' = [u \in Threads |->
                       [local[u] EXCEPT !.before = @ \ {Head(m.finished)},
                                        !.loops = IF u = t THEN @ - 1 ELSE @,
                                        !.dequeued = IF u = t THEN @ + 1 ELSE @]]
    /\ UNCHANGED <<pc, asleep, history>>

\* The end of mspace_free: mspace_bg_revoker_kick, by its heuristics.
FreeEnds(t) ==
    /\ At(t, "dequeue")
    /\ local[t].op = "free" /\ local[t].loops = 0
    /\ mem' \in {[mem EXCEPT !.lock = "free"], [Kicked(mem) EXCEPT !.lock = "free"]}
    /\ local' = [local EXCEPT ![t] = Locals]
    /\ Goto(t, "user")
    /\ UNCHANGED <<asleep, history>>

\* heap_allocate visits the quarantine first.
Allocate(t) ==
    /\ At(t, "user") /\ t \notin Flushers
    /\ mem.lock = "free"
    /\ mem' = [mem EXCEPT !.lock = t]
    /\ local' = [local EXCEPT ![t] = [Locals EXCEPT !.op = "malloc", !.loops = DequeueOnMalloc]]
    /\ Goto(t, "dequeue")
    /\ UNCHANGED <<asleep, history>>

\* A free chunk: a capability to it comes to exist in some word.  Without
\* one, the revoker is kicked; an empty quarantine means that the heap is full
\* and the call fails here, otherwise the quarantine is visited again.
AllocateEnds(t) ==
    /\ At(t, "dequeue")
    /\ local[t].op = "malloc" /\ local[t].loops = 0
    /\ \/ /\ \E c \in mem.free, w \in Words :
               mem' = [mem EXCEPT !.free = @ \ {c}, !.words[w] = c, !.lock = "free"]
          /\ local' = [local EXCEPT ![t] = Locals]
          /\ Goto(t, "user")
       \/ /\ mem.free = {} /\ Quarantined = {}
          /\ mem' = [mem EXCEPT !.lock = "free"]
          /\ local' = [local EXCEPT ![t] = Locals]
          /\ Goto(t, "user")
       \/ /\ mem.free = {} /\ Quarantined # {}
          /\ mem' = Kicked(mem)
          /\ local' = [local EXCEPT ![t].op = "retry", ![t].loops = DequeueOnMalloc, ![t].dequeued = 0,
                                    ![t].epoch = mem.pendingEpoch[mem.ring.head]]
          /\ UNCHANGED pc
    /\ UNCHANGED <<asleep, history>>

\* Again at once when something came out of the quarantine; otherwise without
\* the lock until the oldest epoch of the quarantine has finished.
RetryVisited(t) ==
    /\ At(t, "dequeue")
    /\ local[t].op = "retry" /\ local[t].loops = 0
    /\ local' = [local EXCEPT ![t].op = "malloc",
                              ![t].loops = IF local[t].dequeued > 0 THEN DequeueOnMalloc ELSE 0]
    /\ IF local[t].dequeued > 0 THEN UNCHANGED <<mem, pc>>
       ELSE mem' = [Kicked(mem) EXCEPT !.lock = "free"] /\ Goto(t, "value")
    /\ UNCHANGED <<asleep, history>>

\* heap_quarantine_flush: the epoch rounded up, a kick, and the quarantine
\* visited until nothing comes out of it.
RoundFlush(epoch) == ((epoch + 1) - ((epoch + 1) % 2)) % EpochWrap
Flush(t) ==
    /\ At(t, "user")
    /\ mem.lock = "free"
    /\ mem' = [Kicked(mem) EXCEPT !.lock = t]
    /\ local' = [local EXCEPT ![t] = [Locals EXCEPT !.op = "flush", !.loops = DequeueOnMalloc,
                                          !.epoch = RoundFlush(mem.epoch), !.before = Quarantined]]
    /\ Goto(t, "dequeue")
    /\ UNCHANGED <<asleep, history>>

\* while (quarantine_dequeue()); then return when the quarantine is empty, or
\* wait for the epoch and do it again.
FlushVisited(t) ==
    /\ At(t, "dequeue")
    /\ local[t].op \in {"flush", "flushed"} /\ local[t].loops = 0
    /\ IF local[t].dequeued > 0
       THEN /\ local' = [local EXCEPT ![t].loops = DequeueOnMalloc, ![t].dequeued = 0]
            /\ UNCHANGED <<mem, pc>>
       ELSE /\ mem' = [mem EXCEPT !.lock = "free"]
            /\ Goto(t, IF local[t].op = "flush" /\ Quarantined # {} THEN "value" ELSE "done")
            /\ UNCHANGED local
    /\ UNCHANGED <<asleep, history>>

\* heap_quarantine_flush has returned 0.
FlushReturns(t) ==
    /\ At(t, "done")
    /\ local' = [local EXCEPT ![t] = Locals]
    /\ Goto(t, "user")
    /\ UNCHANGED <<mem, asleep, history>>

---------------------------------------------------------------------------
(* wait_for_completion, without the allocator's lock *)

\* interruptValue = *interruptFutex
ReadValue(t) ==
    /\ At(t, "value")
    /\ local' = [local EXCEPT ![t].value = mem.irq]
    /\ Goto(t, "look")
    /\ UNCHANGED <<mem, asleep, history>>

\* The first look at the epoch, and the one after the request.
Look(t) ==
    /\ pc[t] \in {"look", "look again"} /\ asleep[t] = "no"
    /\ Goto(t, IF HasFinished(local[t].epoch) THEN "relock"
               ELSE IF pc[t] = "look" THEN "request" ELSE "kick")
    /\ UNCHANGED <<mem, local, asleep, history>>

\* interruptRequested = 1
Request(t) ==
    /\ At(t, "request")
    /\ mem' = [mem EXCEPT !.requested = TRUE]
    /\ Goto(t, "look again")
    /\ UNCHANGED <<local, asleep, history>>

\* "Make sure that the revoker is running."
Kick(t) ==
    /\ At(t, "kick")
    /\ Running \/ history < MaxPasses
    /\ mem' = Kicked(mem)
    /\ Goto(t, "sleep")
    /\ UNCHANGED <<local, asleep, history>>

\* futex_timed_wait(timeout, interruptFutex, interruptValue)
Sleep(t) ==
    /\ At(t, "sleep")
    /\ FutexWait(t, "irq", local[t].value, "value", "value")
    /\ UNCHANGED <<mem, local, history>>

\* The wait fails when the timeout has passed: -ETIMEDOUT, without the lock.
WaitFails(t) ==
    /\ TimesOut(t, "failed")

Failed(t) ==
    /\ At(t, "failed")
    /\ local' = [local EXCEPT ![t] = Locals]
    /\ Goto(t, "user")
    /\ UNCHANGED <<mem, asleep, history>>

\* g.try_lock, and the caller goes on; or the lock is not free in time.
Relock(t) ==
    /\ At(t, "relock")
    /\ \/ /\ mem.lock = "free"
          /\ mem' = [mem EXCEPT !.lock = t]
          /\ local' = [local EXCEPT ![t].loops = DequeueOnMalloc, ![t].dequeued = 0,
                                    ![t].op = IF @ = "flush" THEN "flushed" ELSE @]
          /\ Goto(t, "dequeue")
       \/ /\ mem.lock # "free"
          /\ Goto(t, "failed")
          /\ UNCHANGED <<mem, local>>
    /\ UNCHANGED <<asleep, history>>

Step(t) ==
    \/ \E c \in Chunks : Free(t, c)
    \/ Paint(t) \/ ReadEpoch(t) \/ Push(t) \/ Dequeue(t) \/ FreeEnds(t)
    \/ Allocate(t) \/ AllocateEnds(t) \/ RetryVisited(t)
    \/ Flush(t) \/ FlushVisited(t) \/ FlushReturns(t)
    \/ ReadValue(t) \/ Look(t) \/ Request(t) \/ Kick(t) \/ Sleep(t) \/ WaitFails(t) \/ Failed(t)
    \/ Relock(t)

Next ==
    \/ \E t \in Threads : Step(t)
    \/ \E w \in Words : Sweep(w)
    \/ SweepEnds
    \/ \E v, w \in Words : Copy(v, w)

Spec == Init /\ [][Next]_vars

---------------------------------------------------------------------------

\* No use after reallocation: when a chunk is in the free list, no word of
\* memory holds a capability to it, however its holders copied it while the
\* revoker swept.  It takes the painting before the epoch is read, the
\* rounding of that epoch, the comparison and the load barrier together.
FreeIsUnreachable == \A c \in mem.free, w \in Words : mem.words[w] # c

\* "Failed to open epoch ring" cannot happen: when a chunk is filed under a
\* new epoch, two pending rings are enough.
RingsSuffice ==
    \A t \in Threads :
        pc[t] = "push" /\ ~mem.ring.empty /\ mem.pendingEpoch[mem.ring.tail] # local[t].epoch
            => HasRoom(MakeRoom(mem).ring)

\* heap_quarantine_flush returns 0 only when everything that was in the
\* quarantine when it was called has left it (local.before is what has not).
FlushDrains ==
    \A t \in Threads :
        pc[t] = "done" => local[t].before = {}

\* Nobody waits for an interrupt that will not come: while a thread sleeps on
\* the revoker's futex, a sweep is running and the interrupt is asked for.
InterruptWillCome ==
    \A t \in Threads : asleep[t] = "irq" => Running /\ mem.requested
=============================================================================
