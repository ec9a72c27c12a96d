--------------------------- MODULE EphemeralClaims ---------------------------
(***************************************************************************)
(* Ephemeral claims: heap_claim_ephemeral                                   *)
(* (sdk/lib/compartment_helpers/claim_fast.cc) against the walk over the    *)
(* hazard slots in the allocator (sdk/core/allocator/alloc.h).  A claimer   *)
(* writes its slots without a lock and relies on the word allocator_epoch,  *)
(* which the allocator sets to (odd epoch, thread ID) before it looks at    *)
(* the slots and to (even epoch, 0) when it has painted what it frees.      *)
(*                                                                         *)
(* A step is one access to a shared word.  mem.epoch and mem.holder are the *)
(* upper and the lower half of allocator_epoch, mem.lock is the allocator's *)
(* lock, mem.slots the hazard slots, mem.hazardQuarantine the freed objects *)
(* that some slot kept alive, mem.painted the objects whose shadow bits are *)
(* set.  An object has one lifetime and is never the subject of heap_claim, *)
(* so its chunk has no claims; module Allocator has those.                  *)
(***************************************************************************)
EXTENDS FutexThreads, Sequences, FiniteSets

CONSTANTS
    Freers,     \* the threads that call the allocator; the others claim
    ThreadId,   \* thread_id_get() in each of them
    Objects,    \* heap objects
    Null,       \* no pointer, or one that is not into the heap
    EpochWrap,  \* the epoch has 16 bits: 2^16 in the code
    MaxClaims   \* bound: the claims of one claimer

Claimers == Threads \ Freers
Pointers == Objects \cup {Null}

\* The slots of all claimers, in the order of the walk.
SlotCount == 2 * Cardinality(Claimers)
Order == CHOOSE f \in [1 .. SlotCount -> Claimers \X {1, 2}] :
            \A i, j \in 1 .. SlotCount : f[i] = f[j] => i = j
Slot(i) == mem.slots[Order[i][1]][Order[i][2]]

Word == <<mem.epoch, mem.holder>>
Locals == [word |-> <<0, 0>>, ptr |-> Null, ptr2 |-> Null, todo |-> <<>>, kept |-> <<>>, i |-> 1]

Init ==
    /\ mem = [epoch |-> 0, holder |-> 0, lock |-> "free",
              slots |-> [t \in Claimers |-> <<Null, Null>>],
              hazardQuarantine |-> <<>>, freed |-> {}, painted |-> {}]
    /\ pc = [t \in Threads |-> "user"]
    /\ local = [t \in Threads |-> Locals]
    /\ asleep = [t \in Threads |-> "no"]
    /\ history = [t \in Claimers |-> 0]

---------------------------------------------------------------------------
(* Seeded faults *)

\* hazard_list_begin leaves the word as it is.
BeginUnguarded(t, p) ==
    /\ t \in Freers
    /\ At(t, "user")
    /\ mem.lock = "free"
    /\ mem' = [mem EXCEPT !.lock = t, !.freed = @ \cup ({p} \ {Null})]
    /\ local' = [local EXCEPT ![t] = [Locals EXCEPT !.ptr = p, !.todo = mem.hazardQuarantine]]
    /\ Goto(t, "recheck")
    /\ UNCHANGED <<asleep, history>>

---------------------------------------------------------------------------
(* heap_claim_ephemeral *)

\* The first load of the epoch.  Pointers that are not into the heap need no
\* synchronisation.
Claim(t, p, q) ==
    /\ t \in Claimers
    /\ pc[t] \in {"user", "claimed"}
    /\ history[t] < MaxClaims
    /\ history' = [history EXCEPT ![t] = @ + 1]
    /\ IF p = Null /\ q = Null
       THEN /\ mem' = [mem EXCEPT !.slots[t] = <<Null, Null>>]
            /\ Goto(t, "user")
            /\ UNCHANGED local
       ELSE /\ local' = [local EXCEPT ![t].word = Word, ![t].ptr = p, ![t].ptr2 = q]
            /\ Goto(t, "test")
            /\ UNCHANGED mem
    /\ UNCHANGED asleep

\* while (epoch & 1): the lowest bit of the word, which is one of its lower
\* half.  -ETIMEDOUT when it is set and the timeout has passed.
Test(t) ==
    /\ At(t, "test")
    /\ IF local[t].word[2] % 2 = 1 THEN Goto(t, "wait") \/ Goto(t, "user") ELSE Goto(t, "store")
    /\ UNCHANGED <<mem, local, asleep, history>>

\* One tick in futex_timed_wait (nobody wakes this futex), a cross-compartment
\* call that clears the slots, and the load after it.
Wait(t) ==
    /\ At(t, "wait")
    /\ mem' = [mem EXCEPT !.slots[t] = <<Null, Null>>]
    /\ local' = [local EXCEPT ![t].word = Word]
    /\ Goto(t, "test")
    /\ UNCHANGED <<asleep, history>>

\* hazards[0] = ptr
Store(t) ==
    /\ At(t, "store")
    /\ mem' = [mem EXCEPT !.slots[t][1] = local[t].ptr]
    /\ Goto(t, "store2")
    /\ UNCHANGED <<local, asleep, history>>

\* hazards[1] = ptr2
Store2(t) ==
    /\ At(t, "store2")
    /\ mem' = [mem EXCEPT !.slots[t][2] = local[t].ptr2]
    /\ Goto(t, "reload")
    /\ UNCHANGED <<local, asleep, history>>

\* The second load: again from the start when the epoch has changed.
Reload(t) ==
    /\ At(t, "reload")
    /\ local' = [local EXCEPT ![t].word = Word]
    /\ Goto(t, IF Word = local[t].word THEN "validate" ELSE "test")
    /\ UNCHANGED <<mem, asleep, history>>

\* A capability to a painted object lost its tag when this thread's registers
\* were restored: 0 when both are still valid, else -EINVAL.
Validate(t) ==
    /\ At(t, "validate")
    /\ IF {local[t].ptr, local[t].ptr2} \cap mem.painted = {}
       THEN Goto(t, "claimed") /\ UNCHANGED mem
       ELSE Goto(t, "user") /\ mem' = [mem EXCEPT !.slots[t] = <<Null, Null>>]
    /\ UNCHANGED <<local, asleep, history>>

\* A cross-compartment call: the switcher clears the slots.
Call(t) ==
    /\ t \in Claimers
    /\ pc[t] \in {"user", "claimed"}
    /\ mem' = [mem EXCEPT !.slots[t] = <<Null, Null>>]
    /\ Goto(t, "user")
    /\ UNCHANGED <<local, asleep, history>>

---------------------------------------------------------------------------
(* The allocator *)

\* hazard_list_begin, with the allocator's lock held: an odd epoch and the ID
\* of this thread.  p is the object to free, Null in mspace_dispatch.
Begin(t, p) ==
    /\ t \in Freers
    /\ At(t, "user")
    /\ mem.lock = "free"
    /\ mem' = [mem EXCEPT !.lock = t, !.freed = @ \cup ({p} \ {Null}),
                          !.epoch = (@ + 1) % EpochWrap, !.holder = ThreadId[t]]
    /\ local' = [local EXCEPT ![t] = [Locals EXCEPT !.ptr = p, !.todo = mem.hazardQuarantine]]
    /\ Goto(t, "recheck")
    /\ UNCHANGED <<asleep, history>>

\* heap_free by the owner; heap_free_chunk refuses a second one.
Free(t, o) == o \in Objects \ mem.freed /\ Begin(t, o)

\* mspace_dispatch looks at the slots only when something is kept.
Allocate(t) == mem.hazardQuarantine # <<>> /\ Begin(t, Null)

\* One slot of hazard_pointer_check for one object of the hazard quarantine:
\* kept when a slot holds it, freed (and painted) when none does.
Recheck(t) ==
    /\ At(t, "recheck")
    /\ local[t].todo # <<>>
    /\ LET o == Head(local[t].todo)
           i == local[t].i
       IN  IF i <= SlotCount /\ Slot(i) # o
           THEN local' = [local EXCEPT ![t].i = @ + 1] /\ UNCHANGED mem
           ELSE /\ local' = [local EXCEPT ![t].i = 1, ![t].todo = Tail(@),
                                          ![t].kept = IF i <= SlotCount THEN Append(@, o) ELSE @]
                /\ mem' = IF i <= SlotCount THEN mem ELSE [mem EXCEPT !.painted = @ \cup {o}]
    /\ UNCHANGED <<pc, asleep, history>>

\* hazardQuarantineOccupancy = insert
Rechecked(t) ==
    /\ At(t, "recheck")
    /\ local[t].todo = <<>>
    /\ mem' = [mem EXCEPT !.hazardQuarantine = local[t].kept]
    /\ Goto(t, IF local[t].ptr = Null THEN "end" ELSE "check")
    /\ UNCHANGED <<local, asleep, history>>

\* One slot of hazard_pointer_check for the object to free.
Check(t) ==
    /\ At(t, "check")
    /\ IF local[t].i <= SlotCount /\ Slot(local[t].i) # local[t].ptr
       THEN local' = [local EXCEPT ![t].i = @ + 1] /\ UNCHANGED <<mem, pc>>
       ELSE /\ mem' = IF local[t].i <= SlotCount
                      THEN [mem EXCEPT !.hazardQuarantine = Append(@, local[t].ptr)]
                      ELSE mem
            /\ Goto(t, IF local[t].i <= SlotCount THEN "end" ELSE "paint")
            /\ UNCHANGED local
    /\ UNCHANGED <<asleep, history>>

\* revoker.mark_set_range, with the epoch still odd
Paint(t) ==
    /\ At(t, "paint")
    /\ mem' = [mem EXCEPT !.painted = @ \cup {local[t].ptr}]
    /\ Goto(t, "end")
    /\ UNCHANGED <<local, asleep, history>>

\* The guard releases the epoch; the lock is released when the call returns.
End(t) ==
    /\ At(t, "end")
    /\ mem' = [mem EXCEPT !.lock = "free", !.holder = 0, !.epoch = (@ + 1) % EpochWrap]
    /\ local' = [local EXCEPT ![t] = Locals]
    /\ Goto(t, "user")
    /\ UNCHANGED <<asleep, history>>

Step(t) ==
    \/ \E p, q \in Pointers : Claim(t, p, q)
    \/ Test(t) \/ Wait(t) \/ Store(t) \/ Store2(t) \/ Reload(t) \/ Validate(t) \/ Call(t)
    \/ \E o \in Objects : Free(t, o)
    \/ Allocate(t) \/ Recheck(t) \/ Rechecked(t) \/ Check(t) \/ Paint(t) \/ End(t)

Next == \E t \in Threads : Step(t)
Spec == Init /\ [][Next]_vars

---------------------------------------------------------------------------

\* "If this function returns zero then the heap pointers are guaranteed not
\* to become invalid until either the next cross-compartment call or the next
\* call to this function" (allocator.h): whatever the interleaving of the
\* claimer's stores and loads with the allocator's walk over the slots, an
\* object that heap_claim_ephemeral has claimed is not painted.
ClaimHolds ==
    \A t \in Claimers : pc[t] = "claimed" => {mem.slots[t][1], mem.slots[t][2]} \cap mem.painted = {}

\* Nothing is forgotten: a freed object that is not painted is in the hazard
\* quarantine, once, or in the hands of the allocator that holds the lock.
FreedIsKept ==
    mem.lock = "free" =>
        \A o \in mem.freed :
            Cardinality({i \in DOMAIN mem.hazardQuarantine : mem.hazardQuarantine[i] = o})
                = IF o \in mem.painted THEN 0 ELSE 1
=============================================================================
