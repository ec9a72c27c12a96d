------------------------------ MODULE MCSystem ------------------------------
(***************************************************************************)
(* The instances for TLC of the allocator's parts, the switcher, the event *)
(* group, the wall clock, and the queue with queue_reset.  A behaviour is  *)
(* one of one of them, chosen in the initial state (part); what the part   *)
(* does not use keeps its value.                                           *)
(***************************************************************************)
EXTENDS Integers, Sequences, TLC

CONSTANTS
    t1, t2, t3, t4,         \* threads
    c1, c2, c3,             \* chunks
    o1, o2,                 \* objects
    k1, k2,                 \* allocator capabilities
    a, b,                   \* compartments; event bits
    w1, w2,                 \* words of memory; elements of a queue
    None

VARIABLES part, mem, place, local, asleep, history, stopping

vars == <<mem, place, local, asleep, history, stopping>>
allVars == <<part, vars>>

\* Chunks and elements of a queue are interchangeable.
Interchangeable == Permutations({c1, c2})

---------------------------------------------------------------------------
(* A claimer and a thread that frees, whose thread ID is odd; and even *)

Claims(id) == INSTANCE EphemeralClaims WITH
    Threads <- {t1, t2}, Freers <- {t2}, ThreadId <- [t \in {t2} |-> id], Objects <- {o1, o2},
    Null <- None, EpochWrap <- 4, MaxClaims <- 2, pc <- place

\* One thread that allocates, frees and flushes, close to the wrap of the
\* epoch; and with a thread that flushes
Quarantines == [quarantine |-> [flushers |-> {}, chunks |-> {c1, c2, c3}, words |-> {w1}],
                flush |-> [flushers |-> {t2}, chunks |-> {c3}, words |-> {w1, w2}]]
Quar(q) == INSTANCE Quarantine WITH
    Threads <- {t1} \cup q.flushers, Flushers <- q.flushers, Chunks <- q.chunks, Words <- q.words,
    EpochWrap <- 32, FirstEpoch <- 28, MaxPasses <- 2, pc <- place

\* Two capabilities, the quota of one too small for what it may be asked for
Owners(anyTime) == INSTANCE Allocator WITH
    Caps <- {k1, k2}, FirstQuota <- (k1 :> 4) @@ (k2 :> 6), NChunks <- 4, HeapSize <- 5,
    ObjectSize <- 2, ClaimSize <- 1, HazardSlots <- 1, MaxReferences <- 3, MaxTaken <- 3,
    AnyTime <- anyTime, heap <- mem, taken <- history

Waits == INSTANCE AllocatorWait WITH
    Threads <- {t1, t2, t3}, Allocators <- {t1, t2},
    Request <- [t \in {t1, t2} |-> IF t = t1 THEN 1 ELSE 2], Held <- 3, UsesFreeAll <- TRUE,
    pc <- place

\* Two bins with large steps between them, and four
TreeBins == [bins2 |-> 2, bins4 |-> 4]
Bins(bins) == INSTANCE Heap WITH
    HeapUnits <- 18, NSmallBinsShift <- 1, NTreeBins <- bins, BitsInSize <- 5,
    Requests <- {1, 2, 5}, Alignments <- {1, 2}, heap <- mem

Events == INSTANCE EventGroup WITH
    Threads <- {t1, t2, t3, t4}, Waiters <- <<t1, t2>>, Setter <- t3, Destroyer <- t4,
    Requests <- (t1 :> {[wanted |-> {a}, all |-> FALSE, clear |-> TRUE]})
                @@ (t2 :> {[wanted |-> {a}, all |-> FALSE, clear |-> FALSE],
                           [wanted |-> {a, b}, all |-> TRUE, clear |-> TRUE]}),
    Changes <- {{a}, {b}}, pc <- place

Clock == INSTANCE WallClock WITH
    Threads <- {t1, t2, t3}, Updaters <- {t1, t2}, MaxUpdates <- 2, Garbage <- None, pc <- place

\* One thread with a deep stack, or two with stacks for one call
Switch(sizes, frames, off) == INSTANCE Switcher WITH
    Threads <- DOMAIN sizes, Compartments <- {a, b},
    Handlers <- (a :> {"stackful"}) @@ (b :> {"stackless"}), IrqOff <- off,
    MinimumStack <- (a :> 1) @@ (b :> 0), EntryPoint <- [t \in DOMAIN sizes |-> a],
    MaxFrames <- frames, StackSize <- sizes, MaxFaults <- 2, cpu <- local, threads <- mem
DeepStack == t1 :> 6
TwoStacks == (t1 :> 2) @@ (t2 :> 2)
Stacks == [deep |-> [sizes |-> DeepStack, frames |-> 3], two |-> [sizes |-> TwoStacks, frames |-> 2]]

Reset == INSTANCE MessageQueue WITH
    Senders <- {t1}, Receivers <- {t2}, Resetters <- {t3}, Size <- 1, Counts <- {1},
    Values <- {c1, c2}, Zero <- None, Stops <- FALSE, word <- mem, buffer <- history, pc <- place

Init ==
    \/ part = "claims" /\ Claims(1)!Init /\ stopping = None
    \/ \E p \in DOMAIN Quarantines : part = p /\ Quar(Quarantines[p])!Init /\ stopping = None
    \/ /\ part = "owners" /\ Owners(FALSE)!Init
       /\ place = None /\ local = None /\ asleep = None /\ stopping = None
    \/ part = "waits" /\ Waits!Init /\ stopping = None
    \/ /\ \E p \in DOMAIN TreeBins : part = p /\ Bins(TreeBins[p])!Init
       /\ place = None /\ local = None /\ asleep = None /\ history = None /\ stopping = None
    \/ part = "events" /\ Events!Init /\ stopping = None
    \/ part = "clock" /\ Clock!Init /\ stopping = None
    \/ /\ \E p \in DOMAIN Stacks : part = p /\ Switch(Stacks[p].sizes, Stacks[p].frames, {b})!Init
       /\ place = None /\ asleep = None /\ history = None /\ stopping = None
    \/ part = "reset" /\ Reset!Init

Next ==
    /\ \/ part = "claims" /\ Claims(1)!Next /\ UNCHANGED stopping
       \/ \E p \in DOMAIN Quarantines :
            part = p /\ Quar(Quarantines[p])!Next /\ UNCHANGED stopping
       \/ part = "owners" /\ Owners(FALSE)!Next /\ UNCHANGED <<place, local, asleep, stopping>>
       \/ part = "waits" /\ Waits!Next /\ UNCHANGED stopping
       \/ \E p \in DOMAIN TreeBins :
            /\ part = p /\ Bins(TreeBins[p])!Next
            /\ UNCHANGED <<place, local, asleep, history, stopping>>
       \/ part = "events" /\ Events!Next /\ UNCHANGED stopping
       \/ part = "clock" /\ Clock!Next /\ UNCHANGED stopping
       \/ \E p \in DOMAIN Stacks :
            /\ part = p /\ Switch(Stacks[p].sizes, Stacks[p].frames, {b})!Next
            /\ UNCHANGED <<place, asleep, history, stopping>>
       \/ part = "reset" /\ Reset!Next
    /\ UNCHANGED part

Spec == Init /\ [][Next]_allVars

\* The queue is followed as long as its locks exclude.
Followed == part = "reset" => Reset!MutualExclusion

---------------------------------------------------------------------------
(* Properties of the parts; each is stated where it is defined.            *)

\* What heap_claim_ephemeral claimed is not freed while the claim lasts, and
\* an object that was freed under a claim is freed later, and only once.
EphemeralClaimHolds == part = "claims" => Claims(1)!ClaimHolds /\ Claims(1)!FreedIsKept

\* Nothing that is free can be reached with a capability from before.
FreeIsUnreachable ==
    \A p \in DOMAIN Quarantines : part = p => Quar(Quarantines[p])!FreeIsUnreachable
\* Two pending rings are enough for the quarantine.
RingsSuffice ==
    \A p \in DOMAIN Quarantines : part = p => Quar(Quarantines[p])!RingsSuffice
\* heap_quarantine_flush returns when all that was freed before is free.
FlushDrains ==
    \A p \in DOMAIN Quarantines : part = p => Quar(Quarantines[p])!FlushDrains

\* Quotas are charged for what is held, once, and refunded in full.
QuotaConserved == part = "owners" => Owners(FALSE)!QuotaConserved
\* What a capability holds is not freed, nor what a hazard slot held when it
\* was freed.
HeldIsLive == part = "owners" => Owners(FALSE)!HeldIsLive /\ Owners(FALSE)!HazardIsLive

\* Chunks tile the heap, their boundary tags agree, and free ones are joined
\* and counted.
HeapTiled ==
    \A p \in DOMAIN TreeBins :
        part = p => Bins(TreeBins[p])!BoundaryTags /\ Bins(TreeBins[p])!FreeSpaceJoined
\* The bins hold the free chunks, each in the bin of its size, and the tree
\* bins are tries on the bits of the sizes.
BinsIndexTheFree ==
    \A p \in DOMAIN TreeBins :
        part = p => Bins(TreeBins[p])!BinsHoldTheFree /\ Bins(TreeBins[p])!TreesAreTries
\* A request gets what it asked for, and nothing only if there is nothing.
RequestsAreMet ==
    \A p \in DOMAIN TreeBins : part = p => Bins(TreeBins[p])!RequestsAreMet

\* No waiter of an event group sleeps while its events are there, and the
\* slot of a thread is the one of its present call.
NoMissedEvent == part = "events" => Events!NoMissedEvent /\ Events!SlotIsCurrent

\* A reader of the clock gets the two halves of one update.
ReadsOneUpdate == part = "clock" => Clock!ReadsOneUpdate

\* Compartments begin, and go on after a call, on a stack of zeroes.
StackZeroed ==
    [][\A p \in DOMAIN Stacks :
          part = p => Switch(Stacks[p].sizes, Stacks[p].frames, {b})!ZeroedStep]_allVars
\* The registers of callers stay on their stacks.
CallersAreSaved ==
    \A p \in DOMAIN Stacks :
        part = p => Switch(Stacks[p].sizes, Stacks[p].frames, {b})!CallersAreSaved
\* errorHandlerCount tells whether a handler runs, and hazard slots hold what
\* the running activation put there.
ActivationsAreOwn ==
    \A p \in DOMAIN Stacks :
        part = p => /\ Switch(Stacks[p].sizes, Stacks[p].frames, {b})!LowBitTellsHandling
                    /\ Switch(Stacks[p].sizes, Stacks[p].frames, {b})!HazardsAreOwn


---------------------------------------------------------------------------
(* Statements of the repository that the code does not meet *)

\* heap_claim_ephemeral against a thread with an even ID that frees
EvenIdSpec ==
    /\ part = "claims" /\ Claims(2)!Init /\ stopping = None
    /\ [][Claims(2)!Next /\ UNCHANGED <<part, stopping>>]_allVars
\* What heap_claim_ephemeral claimed is not freed while the claim lasts,
\* whatever the ID of the thread that frees.
EvenIdClaimHolds == Claims(2)!ClaimHolds

\* heap_claim of objects that wait in the hazard quarantine, at any time
AnyTimeSpec ==
    /\ part = "owners" /\ Owners(TRUE)!Init
    /\ place = None /\ local = None /\ asleep = None /\ stopping = None
    /\ [][Owners(TRUE)!Next /\ UNCHANGED <<part, place, local, asleep, stopping>>]_allVars
\* What a capability holds is not freed, also when heap_claim gave it to it
\* while the object waited in the hazard quarantine.
ClaimedAnyTimeIsLive == Owners(TRUE)!HeldIsLive

\* The switcher with an entry point that defers interrupts and has a handler
PostureSpec ==
    /\ part = "posture" /\ Switch(DeepStack, 3, {a})!Init
    /\ place = None /\ asleep = None /\ history = None /\ stopping = None
    /\ [][Switch(DeepStack, 3, {a})!Next
          /\ UNCHANGED <<part, place, asleep, history, stopping>>]_allVars
\* The body of a compartment runs with the interrupt posture of its entry
\* point, also after an error handler has installed a context.
PostureKept == Switch(DeepStack, 3, {a})!PostureKept
=============================================================================
