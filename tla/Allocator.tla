------------------------------ MODULE Allocator ------------------------------
(***************************************************************************)
(* Ownership in the allocator (sdk/core/allocator/main.cc and alloc.h):    *)
(* quotas, owners, claims, and the hazard quarantine of objects that were  *)
(* freed while some thread held an ephemeral claim.                        *)
(*                                                                         *)
(* Every entry point holds the allocator's lock, and nothing it touches    *)
(* here is touched by anyone else, so an action is a whole call.  A call   *)
(* is a composition of operators from heap to heap, one per function of    *)
(* the code; the heap is a record.  Chunks are numbered by address, and an *)
(* allocation takes the first free one: what the bins do is in module Heap,*)
(* how ephemeral claims race with the walk over the slots in               *)
(* EphemeralClaims, what the revoker does in Quarantine.  Here a sweep is  *)
(* one step, after which what is in quarantine may leave it.               *)
(***************************************************************************)
EXTENDS Integers, Sequences, FiniteSets, SequencesExt

CONSTANTS
    Caps,           \* allocator capabilities, that is, quota identifiers
    FirstQuota,     \* the quota of each
    NChunks,        \* bound: the chunks that exist at a time
    HeapSize, ObjectSize, ClaimSize,
    HazardSlots,    \* hazard slots in the system
    MaxReferences,  \* the largest reference count: 2^32 - 1 in the code
    MaxTaken,       \* bound: how often an object is taken and not given back
    AnyTime         \* whether threads claim and unclaim a freed object at any
                    \* time (see Calm)

Chunks == 1 .. NChunks
Nobody == "nobody"      \* QuotaIdentifierAllocatorOwned
NoChunk == 0            \* nullptr

VARIABLES
    heap,
    taken       \* how often each capability has allocated or claimed each
                \* object and not freed it: for the properties only

vars == <<heap, taken>>

FirstHeap ==
    [use |-> [c \in Chunks |-> "free"],         \* free, object or claim
     owner |-> [c \in Chunks |-> Nobody],
     sealed |-> [c \in Chunks |-> FALSE],
     \* The claims on a chunk: who has how many references, in which Claim.
     references |-> [c \in Chunks |-> [k \in Caps |-> 0]],
     claim |-> [c \in Chunks |-> [k \in Caps |-> NoChunk]],
     quota |-> FirstQuota,
     hazards |-> {},                            \* what the slots hold
     hazardQuarantine |-> <<>>,
     quarantine |-> <<>>,
     swept |-> 0,                               \* how many of them may leave
     heapFreeSize |-> HeapSize,
     heapQuarantineSize |-> 0]

Init ==
    /\ heap = FirstHeap
    /\ taken = [c \in Chunks |-> [k \in Caps |-> 0]]

Size(h, c) == CASE h.use[c] = "object" -> ObjectSize [] h.use[c] = "claim" -> ClaimSize [] OTHER -> 0
Claimants(h, c) == {k \in Caps : h.claim[c][k] # NoChunk}
InQuarantine(h, c) == \E i \in DOMAIN h.quarantine : h.quarantine[i] = c

---------------------------------------------------------------------------
(* Seeded faults *)

\* hazard_pointers_recheck does not look at the claims.
MayFreeUnchecked(h, c) == TRUE

\* claim_add charges the owner again when it becomes a claimant.
ChargeOwnerToo(h, k, c) == Size(h, c)

---------------------------------------------------------------------------
(* mspace_free and the hazard quarantine *)

\* mspace_qtbin_deqn
Dequeue(h, loops) ==
    LET n == IF h.swept < loops THEN h.swept ELSE loops
        leaving == {h.quarantine[i] : i \in 1 .. n}
        bytes == FoldLeft(LAMBDA sum, c : sum + Size(h, c), 0, SubSeq(h.quarantine, 1, n))
    IN  [h EXCEPT !.quarantine = SubSeq(@, n + 1, Len(@)),
                  !.swept = @ - n,
                  !.use = [c \in Chunks |-> IF c \in leaving THEN "free" ELSE @[c]],
                  !.sealed = [c \in Chunks |-> c \notin leaving /\ @[c]],
                  !.heapQuarantineSize = @ - bytes,
                  !.heapFreeSize = @ + bytes]


\* The end of mspace_free: painted, zeroed, queued.
ToQuarantine(h, c) ==
    Dequeue([h EXCEPT !.quarantine = Append(@, c), !.heapQuarantineSize = @ + Size(h, c)], 3)

\* hazard_pointer_check
IsHazard(h, c) == c \in h.hazards

\* An object of the hazard quarantine that no slot holds any more is freed
\* unless it has been claimed since.
MayFree(h, c) == Claimants(h, c) = {}

\* hazard_pointers_recheck: the heap, and whether skip was found and dropped.
Recheck(h, skip) ==
    FoldLeft(LAMBDA r, c :
                 IF IsHazard(r.heap, c)
                 THEN [r EXCEPT !.heap.hazardQuarantine = Append(@, c)]
                 ELSE IF c = skip THEN [r EXCEPT !.found = TRUE]
                 ELSE IF MayFree(r.heap, c) THEN [r EXCEPT !.heap = ToQuarantine(@, c)]
                 ELSE r,
             [heap |-> [h EXCEPT !.hazardQuarantine = <<>>], found |-> FALSE],
             h.hazardQuarantine)

\* mspace_free: kept alive by a hazard, or into the quarantine.  -EINVAL is
\* for an object that had been freed before.
MspaceFree(h, c) ==
    LET r == Recheck(h, c)
    IN  [heap |-> IF IsHazard(r.heap, c)
                  THEN [r.heap EXCEPT !.hazardQuarantine = Append(@, c)]
                  ELSE ToQuarantine(r.heap, c),
         ret |-> IF r.found THEN "EINVAL" ELSE "ok"]

\* mspace_dispatch: the hazards are looked at, the quota is tested, then the
\* quarantine is visited and the free list searched.  The new chunk is
\* NoChunk when there is none.
MspaceDispatch(h, k, use, owner, sealed) ==
    LET rechecked == IF h.hazardQuarantine = <<>> THEN h ELSE Recheck(h, NoChunk).heap
        bytes == IF use = "object" THEN ObjectSize ELSE ClaimSize
        visited == Dequeue(rechecked, 4)
        unused == {c \in Chunks : visited.use[c] = "free"}
        new == CHOOSE c \in unused : \A d \in unused : c <= d
    IN  IF bytes > h.quota[k] THEN [heap |-> rechecked, chunk |-> NoChunk]
        ELSE IF bytes > visited.heapFreeSize \/ unused = {} THEN [heap |-> visited, chunk |-> NoChunk]
        ELSE [heap |-> [visited EXCEPT !.use[new] = use, !.owner[new] = owner,
                                       !.sealed[new] = sealed,
                                       !.quota[k] = @ - bytes, !.heapFreeSize = @ - bytes],
              chunk |-> new]

---------------------------------------------------------------------------
(* Claims *)

\* Claim::reference_add
ReferenceAdd(n) == IF n = MaxReferences THEN n ELSE n + 1
\* Claim::reference_remove: a saturated count stays.
ReferenceRemove(n) == IF n = MaxReferences THEN n ELSE n - 1

\* What a new claimant pays for the object: an owner has paid.
Charge(h, k, c) == IF h.owner[c] = k THEN 0 ELSE Size(h, c)

\* claim_add, with Claim::create: another reference to an existing claim; or
\* a new claim, which is itself a chunk.  An owner becomes a claimant with
\* two references.
ClaimAdd(h, k, c) ==
    IF h.claim[c][k] # NoChunk
    THEN [h EXCEPT !.references[c][k] = ReferenceAdd(@)]
    ELSE IF h.quota[k] < Charge(h, k, c) THEN h
    ELSE LET charge == Charge(h, k, c)
             isOwner == h.owner[c] = k
             created == MspaceDispatch([h EXCEPT !.quota[k] = @ - charge], k, "claim", Nobody, FALSE)
         IN  IF created.chunk = NoChunk
             THEN [created.heap EXCEPT !.quota[k] = @ + charge]
             ELSE [created.heap EXCEPT
                      !.owner[c] = IF isOwner THEN Nobody ELSE @,
                      !.references[c][k] = IF isOwner THEN ReferenceAdd(1) ELSE 1,
                      !.claim[c][k] = created.chunk]

\* What the last reference gives back.
Refund(h, c) == Size(h, c)

\* claim_drop, with Claim::destroy: one reference, or all of them.
ClaimDrop(h, k, c, freeAll) ==
    LET left == ReferenceRemove(h.references[c][k])
        record == h.claim[c][k]
    IN  IF ~freeAll /\ left > 0
        THEN [h EXCEPT !.references[c][k] = left]
        ELSE MspaceFree([h EXCEPT !.references[c][k] = 0,
                                  !.claim[c][k] = NoChunk,
                                  !.quota[k] = @ + Refund(h, c) + Size(h, record)],
                        record).heap

---------------------------------------------------------------------------
(* The entry points *)

\* heap_free_chunk: as the owner, which needs the whole object, or as a
\* claimant.
HeapFreeChunk(h, k, c, isPrecise, freeAll) ==
    IF isPrecise /\ h.owner[c] = k
    THEN LET disowned == [h EXCEPT !.owner[c] = Nobody]
             freed == MspaceFree(disowned, c)
             refunded(g) == [g EXCEPT !.quota[k] = @ + Size(h, c)]
         IN  IF Claimants(h, c) # {} THEN [heap |-> refunded(disowned), ret |-> "ok"]
             ELSE IF freed.ret = "ok" THEN [heap |-> refunded(freed.heap), ret |-> "ok"]
             ELSE freed
    ELSE IF h.claim[c][k] # NoChunk
    THEN LET dropped == ClaimDrop(h, k, c, freeAll)
         IN  IF Claimants(dropped, c) = {} /\ dropped.owner[c] = Nobody
             THEN MspaceFree(dropped, c)
             ELSE [heap |-> dropped, ret |-> "ok"]
    ELSE [heap |-> h, ret |-> "EPERM"]

\* The pointers for which allocation_start finds a live object.
Valid == {c \in Chunks : heap.use[c] = "object" /\ ~InQuarantine(heap, c)}

\* In the hazard quarantine: freed, and kept alive by an ephemeral claim.
Kept(c) == \E i \in DOMAIN heap.hazardQuarantine : heap.hazardQuarantine[i] = c

\* The calm case, unless AnyTime: a freed object is claimed only while the
\* ephemeral claim lasts, and unclaimed only after the allocator has noticed
\* that it is over.
CalmClaim(c) == AnyTime \/ ~Kept(c) \/ c \in heap.hazards
CalmFree(k, c) == AnyTime \/ ~(Kept(c) /\ heap.claim[c][k] # NoChunk)

\* heap_allocate, and token_sealed_alloc with sealed, as far as they do not
\* wait.
HeapAllocate(k, sealed) ==
    \E r \in {MspaceDispatch(heap, k, "object", k, sealed)} :
        /\ heap' = r.heap
        /\ taken' = IF r.chunk = NoChunk THEN taken ELSE [taken EXCEPT ![r.chunk][k] = 1]

\* heap_free, and token_obj_destroy for a sealed object.
HeapFree(k, c, isPrecise) ==
    /\ c \in Valid /\ CalmFree(k, c)
    /\ \E r \in {HeapFreeChunk(heap, k, c, isPrecise, FALSE)} :
        /\ heap' = r.heap
        /\ taken' = IF r.ret = "ok" /\ taken[c][k] > 0 THEN [taken EXCEPT ![c][k] = @ - 1]
                    ELSE taken

\* heap_claim
HeapClaim(k, c) ==
    /\ c \in Valid /\ CalmClaim(c)
    /\ taken[c][k] < MaxTaken
    /\ \E h \in {ClaimAdd(heap, k, c)} :
        /\ heap' = h
        /\ taken' = IF h.claim[c][k] # NoChunk THEN [taken EXCEPT ![c][k] = @ + 1] ELSE taken

\* heap_free_all: every chunk that is in use and not sealed, by address.
HeapFreeAll(k) ==
    /\ \A c \in Chunks : CalmFree(k, c)
    /\ heap' = FoldLeft(LAMBDA h, c : IF h.use[c] = "free" \/ h.sealed[c] THEN h
                                      ELSE HeapFreeChunk(h, k, c, TRUE, TRUE).heap,
                        heap, [c \in Chunks |-> c])
    /\ taken' = [c \in Chunks |-> IF heap.sealed[c] THEN taken[c] ELSE [taken[c] EXCEPT ![k] = 0]]

\* An ephemeral claim of a valid pointer, and its end.
EphemeralClaim(c) ==
    /\ c \in Valid
    /\ Cardinality(heap.hazards) < HazardSlots
    /\ c \notin heap.hazards
    /\ heap' = [heap EXCEPT !.hazards = @ \cup {c}]
    /\ UNCHANGED taken
EphemeralEnd(c) ==
    /\ c \in heap.hazards
    /\ heap' = [heap EXCEPT !.hazards = @ \ {c}]
    /\ UNCHANGED taken

\* The revoker finishes a sweep that began after everything was painted.
Sweep ==
    /\ heap.swept < Len(heap.quarantine)
    /\ heap' = [heap EXCEPT !.swept = Len(heap.quarantine)]
    /\ UNCHANGED taken

Next ==
    \/ \E k \in Caps, sealed \in BOOLEAN : HeapAllocate(k, sealed)
    \/ \E c \in Valid, k \in Caps, isPrecise \in BOOLEAN : HeapFree(k, c, isPrecise)
    \/ \E c \in Valid, k \in Caps : HeapClaim(k, c)
    \/ \E k \in Caps : HeapFreeAll(k)
    \/ \E c \in Chunks : EphemeralClaim(c) \/ EphemeralEnd(c)
    \/ Sweep

Spec == Init /\ [][Next]_vars

---------------------------------------------------------------------------

Total(f, S) == FoldLeft(LAMBDA sum, c : sum + f[c], 0, SetToSeq(S))
SizeOf == [c \in Chunks |-> Size(heap, c)]

\* What a quota has paid for: the objects it owns, and the objects it has
\* claimed together with the claims.
Spent(k) ==
    LET claimed == {c \in Chunks : heap.claim[c][k] # NoChunk}
    IN  Total(SizeOf, {c \in Chunks : heap.owner[c] = k}) + Total(SizeOf, claimed)
          + Total([c \in Chunks |-> Size(heap, heap.claim[c][k])], claimed)

\* Quotas are exact: whatever was allocated, claimed, downgraded from owner to
\* claimant, freed one by one or all together, and whether or not hazards
\* delayed it, what is left of a quota and what it has paid for add up.
QuotaConserved == \A k \in Caps : heap.quota[k] + Spent(k) = FirstQuota[k]

\* What somebody has allocated or claimed more often than freed is alive: it
\* was freed neither by the other holders, nor by the hazard quarantine when
\* the ephemeral claim ended.
HeldIsLive ==
    \A c \in Chunks, k \in Caps :
        taken[c][k] > 0 => heap.use[c] = "object" /\ ~InQuarantine(heap, c)


\* An object in a hazard slot stays out of the quarantine.
HazardIsLive == \A c \in heap.hazards : heap.use[c] = "object" /\ ~InQuarantine(heap, c)

\* The counters that decide between waiting and failing are exact.
SizesAgree ==
    /\ heap.heapQuarantineSize = FoldLeft(LAMBDA sum, c : sum + Size(heap, c), 0, heap.quarantine)
    /\ heap.heapFreeSize = HeapSize - Total(SizeOf, Chunks)
=============================================================================
