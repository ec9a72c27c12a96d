# CHERIoT RTOS in TLA+

TLA+ modules for the concurrent core of CHERIoT RTOS, TLC configurations that
check them on small instances, and TLAPS proofs of their main invariants for
every value of the constants. Every definition is translated from the source;
`PROJECT.json` has the line ranges under `map`.

## The system

One core runs a fixed set of threads. The **switcher** moves a thread between
compartments and saves it on an exception; the **scheduler** decides which
thread runs and offers one blocking primitive, the futex (plus the multiwaiter,
a wait on several futexes). Everything that blocks is a shared library built on
futexes and atomics: locks, semaphores, queues, event groups, one-time
initialisation. The **allocator** owns the heap and works with the **revoker**
to make freed memory unreachable before it is used again. The **loader** turns
the firmware image into capabilities, once, at boot.

Two kinds of concurrency follow. The scheduler and (mostly) the switcher run
with interrupts disabled, so their entry points are indivisible, but they are
entered in any order, and a thread that blocks inside one leaves half of it for
later. The libraries run with interrupts enabled: any two atomic accesses of a
thread may be separated by anything the others do.

### Inventory

| Part | State | Operations | What is hard |
|---|---|---|---|
| scheduler (`core/scheduler`) | run queue per priority, priority map, waiting list, sleep queues, timer | sleep, yield, futex wait and wake, multiwaiter calls, timer and external interrupts, exit | one thread on several intrusive lists; boosts that re-sort them; the timer as the only source of progress; locals that are stale after a wait |
| flag lock, recursive mutex, ticket lock (`lib/locks`) | a lock word; ticket counters | try_lock, unlock, upgrade for destruction | missed wake-ups; destruction racing with waiters; counter wrap |
| semaphore, barrier, condition variable, once | a word or two | get, put, wait, notify | the window between a test and a wait; timeouts |
| message queue (`lib/queue`) | two words that hold a counter and a lock each, a ring | send, receive (several elements), reset, stop | two protocols on one word; wrap; a failure halfway |
| event group, thread pool, C++ guards, wall clock | small shared structures under a lock or a sequence counter | set, wait; submit, run; construct; publish, read | the order of notify and store; a slot that is reused; a full ring; torn reads |
| allocator (`core/allocator`) | chunks and bins, quotas, owners, claims, hazard slots, quarantine, `freeFutex` | allocate, free, claim, free all, flush | memory freed while claimed or in a hazard slot; the epoch at which it may be used again; who pays; merging and tries |
| revoker | epoch, an interrupt to ask for | kick, wait | a sweep that starts or ends between any two steps of the allocator |
| switcher (`core/switcher`) | trusted stack, stack, spill frame, hazard slots | call, return, fault and error handler, unwind, switch of threads | nesting of error paths; a spill frame with several users; zeroing |
| token library, loader, drivers, C library, debug output, stdio | sealing keys; image; registers; none | | no interleaving; left out |

`PROJECT.json` lists every part with its status, and the hazards with the line
where each bites.

## The modules

| Module | What it is |
|---|---|
| `ThreadLists` | the intrusive circular lists of `thread.h` as sequences |
| `Scheduler` | the scheduler |
| `FlagLock` | `InternalFlagLock` of `locks.cc`, with and without priority inheritance |
| `Mutex` | what a flag lock promises: a mutex that can be retired |
| `MessageQueue` | `queue.cc`: the ring, the two endpoint locks and the calls |
| `BoundedQueue` | what a message queue promises |
| `FutexThreads` | threads that share atomic words and sleep on them: what the libraries below are written on |
| `TicketLock`, `RecursiveMutex`, `Semaphore`, `Barrier`, `ConditionVariable`, `Once` | `lib/locks` |
| `CxxGuard` | `lib/cxxrt/guard.cc` |
| `RingBuffer` | `ring_buffer.hh` with two locks, as in `lib/thread_pool` |
| `EventGroup`, `WallClock` | `lib/event_group`, `lib/clock` |
| `EphemeralClaims` | `heap_claim_ephemeral` against the allocator's walk over the hazard slots |
| `Allocator` | owners, quotas, claims and the hazard quarantine |
| `AllocatorWait` | how an allocation waits for memory |
| `Heap` | the free store: boundary tags, small bins, tree bins |
| `Quarantine` | the quarantine, the hardware revoker and its driver |
| `Switcher` | `core/switcher/entry.S` |
| `MC...` and the `.cfg` files | instances for TLC |
| `...Proofs`, `QuarantineHeap`, `QuarantineSteps` | theorems, and the lemmas of `QuarantineProofs` |

Each specification begins with a section "Seeded faults": variants of single
definitions with a plausible slip in them. They are not part of any
specification. Replacing the original by the variant makes TLC report the
property that `PROJECT.json` names with it, so that each property is known to
depend on the code it is about.

### Scheduler

The variables are the fields of the source (`priorityList`, `waitingList`,
`expiryTime`, `futexWaitAddress`, ...), per thread where they are members of
`Thread`. Lists are sequences that start at the head.

An entry point is cut at its calls of member functions of `Thread`. `kernel.at`
says which comes next, and only when it is `"user"` can a thread, the clock or an
interrupt act; so an entry point is as indivisible as in the code, and each
action is one function (or one iteration of a loop over threads). A thread that
blocks records in `call` the locals it needs afterwards and finishes its entry
point (action `Resume`) when it is scheduled again.

| Source | Actions |
|---|---|
| `thread_sleep` | `ThreadSleep`, `Suspend`, `Yield` |
| `futex_timed_wait` | `FutexWait`, `PriorityBoost` (the owner), `Suspend`; after the sleep `Resume` recomputes the boost and the result |
| `futex_wake` | `FutexWake`, `WakeFutexWaiter` and `WakeMultiWaiter` per thread visited, `FutexWakeEnd` (the boost is dropped), `WakeYield` |
| `multiwaiter_wait`, `multiwaiter_delete`, `deallocate` | `MultiwaiterWait`, `MultiwaiterDelete`, `Destructor`, `DestroyObject` |
| `exception_entry` | `TimerInterrupt`, `ExternalInterrupt`, `InterruptWakeEnd`, `ExpireTimers`, then `Schedule` or `SkipSchedule` |
| `scheduler_entry`, thread exit | `Boot`, `Exit` |
| `Timer::update`, `ensure_tick` | `TimerFor`, part of `Schedule` and of `WakeYield` |
| the lock word of a priority-inheriting lock | `AcquireWord`, `ReleaseWord` |

Abstracted: a futex word is represented only by the owner field that priority
inheritance reads; whether `*address` equals `expected` is a nondeterministic
choice, since other threads write the word freely. Time advances only outside the
scheduler. The idle thread is `NoThread`.

### Flag lock

Every atomic access of `try_lock`, `unlock` and `upgrade_for_destruction` is an
action; `futex_timed_wait` compares and sleeps in one step, which is what the
scheduler guarantees. A timeout may happen at any moment of a wait. `Mutex` is the
abstract specification; `ImplementsMutex` is the refinement.

### Message queue

A word has three flag bits and a counter. Senders and receivers are the same
code with the ends exchanged, and are modelled once: `Own(t)` is the word of the
thread's end (the one it locks) and `Facing(t)` the other one (the one it waits
on). Loads, compare-and-exchanges, the exchange in `unlock`, `memcpy`, the
counter update and the notifications are separate actions. `counter_store` is a
compare-and-exchange loop that preserves the flag bits and is one step. `memcpy`
is one step; `RunsDisjoint` is what makes that harmless, because no one else
touches the cells. A fault in `memcpy` may leave part of a run in the buffer.

`BoundedQueue` has the elements in the queue and the run that each thread has
copied and not yet published. `ImplementsBoundedQueue` maps them to the cells
between the two counters and to the locals of the calls.

### The libraries on futexes

`FutexThreads` is the futex of `Scheduler` as its callers see it: a wait
compares and sleeps in one step, a wake makes sleepers runnable, a timeout may come
at any time of a wait with a timeout, and one that was woken may still be told that
it timed out (that is what `Scheduler` shows of the code). A library module adds
the words of its object (`mem`), its locals (`local`) and one action per atomic
access or futex call; `pc` names the access that comes next. `history` exists for
the properties and the bounds.

| Module | Actions, in the order of the code |
|---|---|
| `TicketLock` | `Take`, `Load`, `Wait`; `Unlock`, `Notify`. The counters are counted modulo `Wrap` |
| `RecursiveMutex` | `Relock` (the owner), or `FirstLock`, `LockStep`s of the flag lock and `FirstAcquired`; `RecursiveUnlock`. A composition: it extends `FlagLock` and uses its actions |
| `Semaphore` | `GetCall`, `GetLoad`, `Mark`, `Wait`, `Woken`, `Take`; `PutCall`, `PutLoad`, `Put`, `Notify` |
| `Barrier` | `Arrive`, then `Open`, or `Wait`, `Woken` and `Reload` |
| `ConditionVariable` | `WaitLoad`, `WaitUnlock`, `Wait`, `Woken`, `WaitLock`; `Notify`, `Wake`; around them callers that consume (`Consume`, `Check`) and produce (`Produce`, `Release`) under the mutex |
| `Once` | `Call`, `Exchange`, then `Callback`, `Finish`, `Notify`, or `Lost`; `Assert` |
| `CxxGuard` | `Reach`, `Acquire`, `Test`, `Construct`, `Release` |
| `RingBuffer` | `PushLock`, `PushTest`, `PushWait`, `PushWrite`, `PushWas`, `PushInc`, and the same for `Pop`; `Leave`, `Notify` |
| `EventGroup` | `WaitCall` to `Expired` for `eventgroup_wait`; `SetCall`, `Change`, `Scan`, `SetStore`, `SetNotify` for set and clear; `Destroy...` |
| `WallClock` | `Update` to `Notify` for an update, `Get` to `Use` for a reader. Uninitialised locals hold `Garbage` |

Locks inside `CxxGuard`, `RingBuffer`, `ConditionVariable`, `EventGroup` and
`WallClock` are abstract (the holder, or free): `FlagLock` is shown to be one.

### Allocator

Five modules, because five mechanisms hardly touch each other and each has its
own interleavings.

* `EphemeralClaims`: a claimer writes two slots without a lock and relies on the
  word `allocator_epoch`; a step is one access to a shared word. The word is
  modelled as what it is, an epoch in the upper and a thread ID in the lower half,
  and the test of its low bit as what that tests. The slots of a thread are
  cleared when it makes a compartment call, and `futex_timed_wait` is one.
* `Allocator`: every entry point holds the lock and touches nothing that others
  touch, so an action is a whole call. The functions of the code
  (`claim_add`, `claim_drop`, `heap_free_chunk`, `mspace_free`, `mspace_dispatch`,
  `hazard_pointers_recheck`) are operators from heap to heap and an entry point
  composes them. An allocation inside `claim_add` is the same operator as one from
  outside: it dequeues the quarantine and rechecks the hazard quarantine too.
  `AnyTime` says whether threads claim and unclaim an object that waits in the hazard
  quarantine when its ephemeral claim is over. In `system` they do not: the
  disagreement of `alloc_v_claim` then destroys the object, after which no
  statement about ownership holds.
* `AllocatorWait`: the heap is three numbers; what matters is the race between an
  allocation that fails, drops the lock and sleeps on `freeFutex`, and frees.
* `Heap`: `unlink_small_chunk`, `unlink_large_chunk`, `insert_large_chunk`,
  `tmalloc_small`, `tmalloc_large`, splitting, `mspace_free_internal` with its merges, and
  `mspace_memalign`, each an operator. Circular lists are sequences; the shape of a
  trie is kept, since which chunk replaces a removed one depends on it.
* `Quarantine`: painting, reading the epoch, filing the chunk and dequeueing are
  separate steps, because the revoker sweeps on its own, word by word, and other
  threads copy capabilities between words it has and has not visited (`Copy`, which goes
  through the load filter). The two rings use the cursors of `ds/ring_buffer.h`.
  `heap_quarantine_flush`, the retry of `malloc_internal` and
  `wait_for_completion` with its interrupt are step by step as well.

### Switcher

The stack of a thread is a row of cells; a group of registers saved together is one
cell. `cpu` is the running thread's registers (stack pointer, high water mark, where it
is, posture), `threads` what the trusted stack has of each. `Call` covers everything from the
entry of the switcher to the first instruction of the callee with its failures
(trusted stack or stack exhausted); `Return` and `ReturnEnds` are the two
halves of a return, between which an interrupt may come; `Fault` the dispatch to
the stackful or the stackless handler; `HandlerInstalls`, `HandlerUnwinds` and
`HandlerJumps` how a handler ends; `Interrupt`, `Yield` and `Schedule` the switch
of threads through the spill frame.

## What the runs check

| Run | Instance | Shows |
|---|---|---|
| `locks` | nine libraries, one per behaviour; 3 or 4 threads each | the flag lock excludes, refines `Mutex`, misses no wake, acquires nothing after destruction, and nobody sleeps for ever; a recursive mutex is owned until it is balanced; tickets are served in order and eventually, across the wrap; semaphore units are conserved and no put is missed; no thread passes a barrier early and all pass; no notification of a condition variable is lost; callbacks and constructors have ended before anybody goes on; the ring buffer is a FIFO |
| `system` | twelve instances, one per behaviour | a claimed object is not freed, a kept one is freed once; free memory is unreachable, two rings suffice, a flush drains, an interrupt will come; quotas are conserved, what is held is live, each chunk is in one place, the counters agree; sleepers on `freeFutex` are seen; boundary tags, bins and tries are consistent and requests are met; no event is missed and slots are current; a clock reading is one update; stacks are zeroed, callers' registers are kept, the count tells whether a handler runs, hazards are the activation's own; the queue with resets refines `BoundedQueue` |
| `scheduler_core` | 3 threads, two of them peers; one futex; timeouts none, one tick, for ever; 4 clock values | the queues agree with the thread states, are sorted, and `highestPriority` is right; a thread of the highest ready priority runs; the timer is armed for sleepers and for peers; an expired wait reports a timeout; every expired sleeper is made ready |
| `scheduler_pair` | two schedulers: three priorities and an inheriting futex; one multiwaiter, one interrupt futex, yields that may be cut short | boosts re-sort run queues and sleep queues correctly and wakes go by priority; the same consistency with a second sleep queue, no multiwaiter stays busy, no null entry on the list of blocked multiwaiters |
| `queue_stop` | one sender, one receiver, 2 cells, runs of 1 and 2, `queue_stop` at any moment; or the sender and `queue_reset` | refinement of `BoundedQueue`, disjoint copies, no missed element |
| `..._v_...` | | disagreements between code and documentation, below |

Components that do not interact share a run: a variable chosen in the initial
state says which one a behaviour is about (`library`, `part`, `setup`), and every
property names the one it is about.

**Bounds.** Three threads are the least with which a waiter, an owner and a
third party, or two peers below a third thread, exist. A tick is two cycles, so
an event can fall inside a tick. `MaxTime` lets a timeout expire, and a second
event happen after it. The ring of two with runs of two has every phase of
the wrap: a run that is split, a lap of each counter, full and empty in both
laps. Tickets are counted modulo 4 with 3 threads, free-running counters modulo twice
the capacity, the depth of a recursive mutex and reference counts up to 2 and 3, so
that each meets its limit. `MaxPuts`, `MaxItems`, `MaxUpdates`, `MaxClaims`, `MaxTaken`, `MaxFaults` let
everything happen again after it has happened once.

The revocation epoch starts at 28 and wraps at 32, and there are two sweeps: the comparison by signed
difference crosses the wrap. Three chunks are needed to open a third ring; two
words to carry a capability past the sweep. The heap of 18 units holds at least
four chunks with live ones between them, enough for a merge on both sides, for tries of
two levels with rings, and for padding on an aligned request; with two tree bins
sizes of different leading bits share a trie, with four they do not. Stacks of six cells hold
three nested calls with the registers of a fault; two threads with two cells
each show the switch between them. `Interchangeable` permutes chunks and
elements that nothing tells apart.

`system` follows the queue with resets as long as no two threads are inside one
lock (`CONSTRAINT Followed`), because under contention the lock does let
two threads in (see `queue_v_lock`), and nothing can be said afterwards. With one
sender and one receiver there is no contention and no constraint.

`CHECK_DEADLOCK FALSE` is used where the system may stop: threads exit, the clock
is bounded, objects are destroyed, and in `locks` and `system` a bounded
history ends.

**Fairness.** Flag lock: a thread inside `try_lock` or `unlock` takes its next
step (weak fairness: the scheduler runs it eventually, as there are no busy loops
above it), and a holder unlocks eventually (strong fairness of `Unlock`: the
caller's obligation). Ticket lock, barrier, `run_once`: weak fairness of every step
of a call, the callback and the critical section included. Scheduler: the code inside an entry
point goes on (weak fairness of `KernelStep`), and a pending timer interrupt is
taken once interrupts are enabled often enough (strong fairness, because a thread that
calls the scheduler all the time disables them again and again). No fairness is
assumed of threads there: `ExpiredSleeperWakes` holds whatever they do.

## What is proved

For all values of the constants that satisfy the named assumptions
(`PriorityAssumption`, `NoneAssumption`, `TimeAssumption`, `NoThreadAssumption`,
`PIAssumption`, `SizeAssumption`), none of which restricts more than the build does,
and for the quarantine of `Constants`, which bounds the sweeps of a behaviour.

* **`SchedulerTypeOK`, `SchedulerQueuesMatchState`** (`SchedulerProofs`): every
  suspended thread is on the waiting list, every ready thread on the run queue of
  its current priority, every sleep queue holds those that sleep on it, and
  nobody is on a list twice. `QueuesMatchState` is not inductive: removing the
  running thread from its run queue is right only because it is ready then.
  The inductive invariant `IInv` adds `KernelOK`, which says for each phase of an
  entry point what its locals are and whether the running thread is still ready.
  The argument goes by layers: `ThreadListsProofs` shows that inserting into,
  removing from and rotating a sequence changes the set of its members as
  expected and keeps them distinct; the queue lemmas (`MakeReadyQueues`,
  `LeaveRunQueue`, `SuspendQueues`, `BoostQueues`, ...) lift this to the member
  functions of `Thread`; and one lemma per action uses those.
* **`FlagLockMutualExclusion`, `FlagLockNoMissedWake`, `FlagLockImplementsMutex`**
  (`FlagLockProofs`), for any set of threads.
* **`CountersMeasureContents`, `RunsChangeContents`, `RunsFit`**
  (`MessageQueueProofs`): for every queue size the wrapped counters tell full
  from empty and count the elements, a published run changes the count by its
  length, and the run computed for a `memcpy` fits. (`queue.cc` tests seven sizes
  at compile time.)
* **`QueueRunsDisjoint`, `QueueBounded`** (`MessageQueueProofs`), for every size and
  every run length, from the assumption `OneEach` (one sender, one receiver, no
  `queue_reset`): the two copies never touch the same cell, and the ring never
  overflows. `RunsDisjoint` is not inductive, because a thread computes its run
  from a copy of the other end's counter that may be out of date. The
  inductive invariant `QInv` says what is left of that copy's truth: a sender's
  copy shows no fewer elements than there are, a receiver's no more, so both err
  on the safe side; a thread's own counter is the one it read; and the word that
  `unlock` loads and exchanges still has the right counter when it is
  written back. `OneEach` is needed: with two senders the lock lets both in
  (`queue_v_lock`).
* **`FreeUnreachable`, `TwoRingsSuffice`, `FlushIsComplete`, `NoLostInterrupt`**
  (`QuarantineHeap`, `QuarantineSteps`, `QuarantineProofs`), for any sets of threads, chunks and
  words, and any even wrap of the epoch that is more than four times the number of sweeps (`Constants`: for
  the 32-bit epoch, up to 2^30 - 2 sweeps; beyond, the signed difference of two epochs may
  mislead). `FreeIsUnreachable` says nothing of chunks that are not free yet, and so is not
  inductive. `QuarantineInv` says it of every epoch: a chunk that was painted
  before epoch e was read is in no word that the sweep after e has passed (`Cleared`), however
  threads copy capabilities meanwhile, since a load of a painted one yields none; each ring
  and each local of a call then has the epoch that justifies taking its chunks out. With it go
  that a chunk is in one place only, that the epochs of the rings in use are even, in order
  and at most one ahead of the counter (so that two rings suffice), and what each phase of a call knows of its locals.
  Epochs are compared as distances from the first one (`Since`), and the wrap
  is confined to a few lemmas.

Only model-checked: liveness (the prover has no rules for fairness and
`ENABLED`), sortedness of the queues and everything about time, the refinement of
`BoundedQueue`.

## Where code and documentation disagree

Checked by a run that TLC finds violated:

* `scheduler_v_idle`: `exception_entry` runs `expiretimers` when nothing is ready
  but, after an external interrupt that wakes nobody, does not schedule; the
  sleeper it has readied waits while the system idles (`main.cc:418`, `timer.h:63`).
* `scheduler_v_drop`: `futex_wake` decides to yield before it drops the boost
  (`main.cc:637`).
* `scheduler_v_boost_lost`: a waiter that is about to wait is not among those
  from which a boost is recomputed (`main.cc:562`).
* `queue_v_lock`: `continue` in the do-while loop of the queue's `try_lock`
  evaluates a compare-and-exchange that succeeds on a held lock (`queue.cc:321`,
  `queue.h:18`).

* `claim_v_epoch`: `heap_claim_ephemeral` waits while `epoch & 1`, which is the low
  bit of the thread ID that the allocator puts in the word, not that of the epoch
  (`claim_fast.cc:43`, `alloc.h:1084`, `alloc.h:1427`). `EphemeralClaimHolds` in
  `system` is for odd IDs.
* `alloc_v_claim`: `claim_add` allocates before it records the claim, and the
  allocation frees an object that only a past ephemeral claim had kept
  (`main.cc:747`, `alloc.h:1378`).
* `switcher_v_posture`: a preempted error handler overwrites the spill frame, from
  which `mstatus` is reloaded when it installs a context; a body that deferred interrupts
  goes on with them enabled (`entry.S:1533`, `entry.S:1154`,
  `docs/LanguageExtensions.md:50`).

Seen while modelling; the first four are stated in `MCScheduler`, the next four in
`MCLocks`, `AllocatorWait`, `WallClock` and `Heap`, and are not part of a run:

* `BlockedOnLiveObject`: `deallocate` leaves a thread that is blocked on a freed
  multiwaiter on the list (`main.cc:314`, `multiwait.h:252`).
* `WakeReported`: a futex waiter that is woken late in its last tick reports a
  timeout (`thread.h:173`, `futex.h:49`).
* `NoLeakedBoost`: a boost can outlive the last waiter (`main.cc:545`, `locks.h:153`).
* `ExpiresEveryone`: `expiretimers` wakes one thread per call, because the next one
  is then the head of the list and ends the loop (`timer.h:150`, `timer.h:122`).
* `RingWakesOnTransition`: the ring buffer reads whether it was empty before it
  advances its counter, so a transition in between is not reported
  (`ring_buffer.hh:18`).
* `NoMissedFree`: an allocation can go on sleeping although what was freed since
  would do: `heap_free_all` does not wake it when no memory was free at all (it tests
  `freeFutex > 0`, `main.cc:1113`; the word is the number of free bytes, `main.cc:384`),
  and a free before the wait is hidden when a second allocation stores the same value again.
* `ReadsPublishedTime`: a reader of the wall clock that times out while an update is in
  progress leaves the loop with what it has, which may be uninitialised (`clock-helpers.cc`).
* `BestFit`: a request may get a larger chunk than the best fitting one
  (`alloc.h`, `tmalloc_large`).
* `event.h` says the bits a waiter wants cleared are cleared before `eventgroup_wait`
  returns; a woken waiter may return earlier. A wait that times out after it was triggered
  loses the events, and forced destruction replaces the bits of a triggered waiter by none.
* `heap_claim_ephemeral` that fails with `-ETIMEDOUT` may leave its slots written,
  though "neither pointer will have been claimed".
* `trusted_stack_has_space(n)` asks for more than n frames (`entry.S:1872`;
  `switcher.h:12` says "at least").
* `docs/ErrorHandling.md` has the caller's handler invoked when a callee unwinds; the
  switcher returns to the caller.
* `multiwaiter_delete` readies a waiter of higher priority without yielding
  (`multiwait.h:262`).
* `queue_send_multiple` with more elements than the ring holds notifies the
  receiver only at its end, so both sides can wait for each other.
* `queue_stop` does not wake a thread that waits for an element or for room, and
  the load and exchange in `unlock` can overwrite its bit (`queue.cc:335`).
* `queue_reset` returns `-ETIMEDOUT` always (`queue.cc:606`).
* The lock of non-lock-free atomics does not reset its expected value after a
  failed compare-and-exchange (`sdk/include/c++-config/atomic`).

## Not modelled

* **Sequential code over data**: drivers, the C library and soft float, debug
  output and formatting, the token library, the loader. Nothing happens between their
  steps that another thread or device takes part in, and their correctness is a
  matter of encodings (capabilities, registers, floating point, image formats).
* **The software revoker**: it is called for one block at a time and sweeps it before it
  returns. `Quarantine` has the more general case.
* **Register contents and permissions in the switcher**: `Switcher` has the stacks,
  the frames and the posture. What a register may be used for is data.
* **In the allocator**: token keys, `allocate_array`, `heap_can_free` and the
  getters, which read or only check arguments before one of the modelled calls;
  the debug-only consistency checks, whose content is what the properties of `Heap` state.
* **In the libraries**: wrappers that check arguments and forward (the sealed
  queue, the FreeRTOS layer, the C++ lock classes).
* **The interrupt controller**: a claim, a futex wake and a completion; the scheduler model
  has the wake.
* **Timing**: how long a step takes. A timeout may come at any moment of a
  wait, except in `Scheduler`, which has a clock.
