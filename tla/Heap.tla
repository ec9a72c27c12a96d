-------------------------------- MODULE Heap --------------------------------
(***************************************************************************)
(* The free store under the allocator (sdk/core/allocator/alloc.h): chunks *)
(* with boundary tags that tile the heap, small bins with one size each,   *)
(* and tree bins, each a trie on the bits of the sizes with the chunks of  *)
(* one size in a ring.                                                     *)
(*                                                                         *)
(* The allocator's lock is held throughout, so an action is a whole call   *)
(* and a call is a composition of operators from heap to heap, one per     *)
(* function of the code.  Sizes and addresses are in units of              *)
(* MallocAlignment: a header is one unit, and the links of a free chunk    *)
(* one more.  A circular list is the sequence of its members; a ring       *)
(* starts at the member that is in the tree.                               *)
(*                                                                         *)
(* When a chunk that was handed out comes back is up to the quarantine     *)
(* (module Quarantine): here it may be any time.                           *)
(***************************************************************************)
EXTENDS Integers, Sequences, FiniteSets, SequencesExt, FiniteSetsExt

CONSTANTS
    HeapUnits,          \* the size of the heap, its footer included
    NSmallBinsShift,    \* 3 in the code
    NTreeBins,          \* 12 in the code; an even number
    BitsInSize,         \* 32 - MallocAlignShift in the code; HeapUnits < 2^BitsInSize
    Requests,           \* sizes a caller asks for
    Alignments          \* alignments, powers of two, that go with them

VARIABLE heap

Addresses == 1 .. HeapUnits
NoChunk == 0            \* nullptr
Header == 1             \* sizeof(MChunkHeader)
MinChunkSize == 2
MinRequest == MinChunkSize - Header
NSmallBins == 2 ^ NSmallBinsShift
MaxSmallSize == 2 ^ NSmallBinsShift
SmallBins == 0 .. NSmallBins - 1
TreeBins == 0 .. NTreeBins - 1

BitOf(n, i) == (n \div 2 ^ i) % 2

---------------------------------------------------------------------------
(* Seeded faults *)

\* tmalloc_large takes the left subtree it passed, not the right one.
UntakenLeft(h, t, next) == h.node[t].child[0]

\* insert_large_chunk makes a node of every chunk.
JoinsRingNever(h, t, s) == FALSE

\* mspace_memalign moves to the next aligned spot only when there is no room
\* at all for a leading chunk.
AlignPadShort(address, alignment) == alignment - (address % alignment)

---------------------------------------------------------------------------
(* Chunk headers *)

NextChunk(h, p) == p + h.chunk[p].size      \* cell_next
PrevChunk(h, p) == p - h.chunk[p].prev       \* cell_prev
SizeOf(h, p) == h.chunk[p].size
FreeChunks(h) == {p \in DOMAIN h.chunk : ~h.chunk[p].inUse}

MarkInUse(h, p) ==
    [h EXCEPT !.chunk[p].inUse = TRUE, !.chunk[NextChunk(h, p)].prevInUse = TRUE]
MarkFree(h, p) ==
    [h EXCEPT !.chunk[p].inUse = FALSE, !.chunk[NextChunk(h, p)].prevInUse = FALSE]

\* split: a new header at the offset, linked in after p, in use if p is.
Split(h, p, offset) ==
    LET new == p + offset
        size == h.chunk[p].size
        header == [prev |-> offset, size |-> size - offset,
                   prevInUse |-> h.chunk[p].inUse, inUse |-> h.chunk[p].inUse]
    IN  [h EXCEPT !.chunk = [a \in DOMAIN @ \cup {new} |->
                                CASE a = new -> header
                                  [] a = p -> [@[a] EXCEPT !.size = offset]
                                  [] a = p + size -> [@[a] EXCEPT !.prev = size - offset]
                                  [] OTHER -> @[a]]]

\* unsplit: the header p goes away and its space joins the one before.
Unsplit(h, p, previous) ==
    LET size == h.chunk[previous].size + h.chunk[p].size
    IN  [h EXCEPT !.chunk = [a \in DOMAIN @ \ {p} |->
                                CASE a = previous -> [@[a] EXCEPT !.size = size]
                                  [] a = previous + size -> [@[a] EXCEPT !.prev = size]
                                  [] OTHER -> @[a]]]

\* pad_request
PadRequest(bytes) == bytes + Header

---------------------------------------------------------------------------
(* Small bins *)

SmallIndex(s) == s - 1
IsSmall(s) == SmallIndex(s) < NSmallBins

InsertSmall(h, p, s) ==
    [h EXCEPT !.smallmap = @ \cup {SmallIndex(s)}, !.small[SmallIndex(s)] = Append(@, p)]

\* Once the bin is empty its bit goes.
SmallmapAfter(h, i) == IF h.small[i] = <<>> THEN [h EXCEPT !.smallmap = @ \ {i}] ELSE h

UnlinkSmall(h, p, s) == SmallmapAfter([h EXCEPT !.small[SmallIndex(s)] = Remove(@, p)], SmallIndex(s))

\* unlink_first_small_chunk
UnlinkFirstSmall(h, i) == SmallmapAfter([h EXCEPT !.small[i] = Tail(@)], i)

---------------------------------------------------------------------------
(* Tree bins *)

\* The number of the highest bit that is set: what clz finds.
HighestBit(x) == CHOOSE k \in 0 .. BitsInSize : 2 ^ k <= x /\ x < 2 ^ (k + 1)

\* compute_tree_index: two bins to each power of two, and all that is larger
\* in the last.
TreeIndex(s) ==
    LET x == s \div MaxSmallSize
    IN  IF x = 0 THEN 0
        ELSE IF x > 2 ^ (NTreeBins \div 2) - 1 THEN NTreeBins - 1
        ELSE 2 * HighestBit(x) + BitOf(s, HighestBit(x) + NSmallBinsShift - 1)

\* leftshift_for_tree_index and leftshifted_val_msb: the child to take at a
\* depth of the tree of bin i is a bit of the size, and 0 past the last bit.
Turn(s, i, depth) ==
    LET top == IF i = NTreeBins - 1 THEN BitsInSize - 1 ELSE (i \div 2) + NSmallBinsShift - 2
    IN  IF depth > top THEN 0 ELSE BitOf(s, top - depth)

NewNode(p, i, parent) ==
    [child |-> [d \in {0, 1} |-> NoChunk], parent |-> parent, index |-> i, ring |-> <<p>>]
WithNode(h, p, node) == [h EXCEPT !.node = [a \in DOMAIN @ \cup {p} |-> IF a = p THEN node ELSE @[a]]]
WithoutNode(h, p) == [h EXCEPT !.node = [a \in DOMAIN @ \ {p} |-> @[a]]]

\* A chunk of the size of node t joins its ring.
JoinsRing(h, t, s) == SizeOf(h, t) = s

\* The loop of insert_large_chunk, from node t at a depth.
RECURSIVE InsertBelow(_, _, _, _, _, _)
InsertBelow(h, p, s, i, t, depth) ==
    LET turn == Turn(s, i, depth)
        next == h.node[t].child[turn]
    IN  IF JoinsRing(h, t, s) THEN [h EXCEPT !.node[t].ring = Append(@, p)]
        ELSE IF next # NoChunk THEN InsertBelow(h, p, s, i, next, depth + 1)
        ELSE WithNode([h EXCEPT !.node[t].child[turn] = p], p, NewNode(p, i, t))

\* insert_large_chunk
InsertLarge(h, p, s) ==
    LET i == TreeIndex(s)
    IN  IF i \notin h.treemap
        THEN WithNode([h EXCEPT !.treemap = @ \cup {i}, !.root[i] = p], p, NewNode(p, i, NoChunk))
        ELSE InsertBelow(h, p, s, i, h.root[i], 0)

\* The leaf that takes the place of a node without a ring: the rightmost.
RECURSIVE LeafBelow(_, _)
LeafBelow(h, x) ==
    LET right == h.node[x].child[1]
        left == h.node[x].child[0]
        next == IF right # NoChunk THEN right ELSE left
    IN  IF next = NoChunk THEN x ELSE LeafBelow(h, next)

\* The leaf that replaces x, or nullptr.
Other(x, leaf) == IF leaf = x THEN NoChunk ELSE leaf
Replacement(h, x) == Other(x, LeafBelow(h, x))

\* A node hangs from its parent, or from the bin.
Rehang(h, x, r) ==
    LET parent == h.node[x].parent
        side == IF h.node[parent].child[0] = x THEN 0 ELSE 1
    IN  IF parent = NoChunk THEN [h EXCEPT !.root[h.node[x].index] = r]
        ELSE [h EXCEPT !.node[parent].child[side] = r]

\* What is left of the treemap when bin i may have lost its last node.
TreemapAfter(h, i) == IF h.root[i] = NoChunk THEN [h EXCEPT !.treemap = @ \ {i}] ELSE h

\* A child of the node that went gets the new one as its parent.
Adopt(h, r, c) == IF c = NoChunk THEN h ELSE [h EXCEPT !.node[c].parent = r]

\* r takes x's place in the tree, and x's children.
TakePlace(h, x, r) ==
    LET old == h.node[x]
    IN  WithoutNode(Adopt(Adopt([Rehang(h, x, r) EXCEPT !.node[r].parent = old.parent,
                                                        !.node[r].child = old.child],
                                r, old.child[0]), r, old.child[1]), x)

\* The last member of its ring takes the place of x.
HeirOf(h, x, ring) ==
    [NewNode(Last(ring), h.node[x].index, NoChunk) EXCEPT
        !.ring = <<Last(ring)>> \o SubSeq(ring, 2, Len(ring) - 1)]
Inherit(h, x, ring) == TakePlace(WithNode(h, Last(ring), HeirOf(h, x, ring)), x, Last(ring))

\* Without a ring, a leaf r does, or nothing.
Replace(h, x, r) ==
    IF r # NoChunk THEN TakePlace(Rehang(h, r, NoChunk), x, r)
    ELSE TreemapAfter(WithoutNode(Rehang(h, x, NoChunk), x), h.node[x].index)

\* unlink_large_chunk: from its ring, if it is not the head of one.
UnlinkLarge(h, x) ==
    IF x \notin DOMAIN h.node
    THEN [h EXCEPT !.node = [t \in DOMAIN @ |-> [@[t] EXCEPT !.ring = Remove(@, x)]]]
    ELSE IF Len(h.node[x].ring) > 1 THEN Inherit(h, x, h.node[x].ring)
    ELSE Replace(h, x, Replacement(h, x))

---------------------------------------------------------------------------
(* Allocation and free *)

InsertChunk(h, p, s) == IF IsSmall(s) THEN InsertSmall(h, p, s) ELSE InsertLarge(h, p, s)
UnlinkChunk(h, p, s) == IF IsSmall(s) THEN UnlinkSmall(h, p, s) ELSE UnlinkLarge(h, p)

\* The smallest of t and of what is below it to the left: the loop of
\* tmalloc_smallest.  A size below nb makes an enormous remainder.
RECURSIVE SmallestLeft(_, _, _, _)
SmallestLeft(h, t, v, nb) ==
    LET left == h.node[t].child[0]
        next == IF left # NoChunk THEN left ELSE h.node[t].child[1]
        better == SizeOf(h, next) >= nb /\ (SizeOf(h, v) < nb \/ SizeOf(h, next) < SizeOf(h, v))
    IN  IF next = NoChunk THEN v ELSE SmallestLeft(h, next, IF better THEN next ELSE v, nb)

\* A chunk of nb taken from chunk p, which is in no bin, and the rest put
\* back if it makes a chunk.
Carve(h, p, nb) ==
    [heap |-> MarkInUse(IF SizeOf(h, p) - nb >= MinChunkSize
                        THEN InsertChunk(Split(h, p, nb), p + nb, SizeOf(h, p) - nb) ELSE h, p),
     chunk |-> p]

\* tmalloc_smallest: a member of the ring rather than the node.
SecondOrFirst(ring) == IF Len(ring) > 1 THEN ring[2] ELSE ring[1]
CarveFrom(h, v, nb) == Carve(UnlinkLarge(h, v), v, nb)
TmallocSmallest(h, t, nb) ==
    CarveFrom(h, SecondOrFirst(h.node[SmallestLeft(h, t, t, nb)].ring), nb)

\* The right subtree at t, when the path goes elsewhere.
Untaken(h, t, next) ==
    IF h.node[t].child[1] # next THEN h.node[t].child[1] ELSE NoChunk

\* The first loop of tmalloc_large: v is the best so far on the path that the
\* bits of nb take, t in the end the last right subtree that was passed.
RECURSIVE FollowPath(_, _, _, _, _, _, _)
FollowPath(h, t, v, passed, nb, i, depth) ==
    LET fits == SizeOf(h, t) >= nb /\ (v = NoChunk \/ SizeOf(h, t) < SizeOf(h, v))
        best == IF fits THEN t ELSE v
        next == h.node[t].child[Turn(nb, i, depth)]
        right == Untaken(h, t, next)
        subtree == IF right # NoChunk THEN right ELSE passed
    IN  IF SizeOf(h, t) = nb THEN [v |-> t, t |-> t]
        ELSE IF next = NoChunk THEN [v |-> best, t |-> subtree]
        ELSE FollowPath(h, next, best, subtree, nb, i, depth + 1)

\* tmalloc_large: what the bin i of nb has, the smallest of the next bin that
\* has something, or nothing.
InBin(h, nb, i) ==
    IF h.root[i] = NoChunk THEN [v |-> NoChunk, t |-> NoChunk]
    ELSE FollowPath(h, h.root[i], NoChunk, NoChunk, nb, i, 0)
LeastRoot(h, bins) == IF bins = {} THEN NoChunk ELSE h.root[Min(bins)]
BinOrAbove(h, found, i) ==
    IF found.v # NoChunk THEN found.v
    ELSE IF found.t # NoChunk THEN found.t
    ELSE LeastRoot(h, {j \in h.treemap : j > i})
SmallestAt(h, t, nb) ==
    IF t = NoChunk THEN [heap |-> h, chunk |-> NoChunk] ELSE TmallocSmallest(h, t, nb)
TmallocLarge(h, nb) ==
    SmallestAt(h, BinOrAbove(h, InBin(h, nb, TreeIndex(nb)), TreeIndex(nb)), nb)

\* mspace_malloc_internal: the small bin of the size, the next one, the
\* smallest tree; or the trees.
CarveSmall(h, i, nb) == Carve(UnlinkFirstSmall(h, i), h.small[i][1], nb)
SmallOrTree(h, bins, nb) ==
    IF bins # {} THEN CarveSmall(h, Min(bins), nb)
    ELSE SmallestAt(h, LeastRoot(h, h.treemap), nb)
MallocInternal(h, bytes) ==
    LET nb == IF bytes < MinRequest THEN MinChunkSize ELSE PadRequest(bytes)
    IN  IF bytes <= MaxSmallSize - Header
        THEN SmallOrTree(h, {j \in h.smallmap : j >= SmallIndex(nb)}, nb)
        ELSE TmallocLarge(h, nb)

\* The chunks p and next become one; unlinked is the one that was free.
Join(h, p, next, unlinked) ==
    Unsplit(UnlinkChunk(h, unlinked, SizeOf(h, unlinked)), next, p)

\* mspace_free_internal looks back, then forward.
MergeBackward(h, p) ==
    IF h.chunk[p].prevInUse THEN [heap |-> h, chunk |-> p]
    ELSE [heap |-> Join(h, PrevChunk(h, p), p, PrevChunk(h, p)), chunk |-> PrevChunk(h, p)]
MergeForward(h, p) ==
    IF h.chunk[NextChunk(h, p)].inUse THEN h
    ELSE Join(h, p, NextChunk(h, p), NextChunk(h, p))

Rebin(h, p) == InsertChunk(MarkFree(h, p), p, SizeOf(h, p))
FreeMerged(back) == Rebin(MergeForward(back.heap, back.chunk), back.chunk)
FreeInternal(h, chunk) == FreeMerged(MergeBackward(h, chunk))

\* From the body of a chunk to the next spot that leaves a chunk in front.
AlignPad(address, alignment) ==
    LET pad == alignment - (address % alignment)
    IN  IF pad < MinChunkSize THEN pad + alignment ELSE pad

\* mspace_malloc_success
Account(h, p) == [h EXCEPT !.heapFreeSize = @ - h.chunk[p].size]

\* mspace_memalign gives back the front of a chunk, so that what is left is
\* aligned, and the end, if that makes a chunk.
TrimFront(got, pad) ==
    [heap |-> FreeInternal(Split(got.heap, got.chunk, pad), got.chunk), chunk |-> got.chunk + pad]
TrimBack(got, nb) ==
    IF SizeOf(got.heap, got.chunk) < nb + MinChunkSize THEN got
    ELSE [got EXCEPT !.heap = FreeInternal(Split(@, got.chunk, nb), got.chunk + nb)]
Aligned(got, alignment) ==
    IF (got.chunk + Header) % alignment = 0 THEN got
    ELSE TrimFront(got, AlignPad(got.chunk + Header, alignment))

Accounted(got) ==
    IF got.chunk = NoChunk THEN got ELSE [got EXCEPT !.heap = Account(@, got.chunk)]

\* For an alignment, a chunk with room to spare.
Memalign(h, bytes, alignment) ==
    LET Trimmed(got) ==
            IF got.chunk = NoChunk THEN got
            ELSE TrimBack(Aligned(got, alignment), PadRequest(bytes))
    IN  Accounted(IF alignment = 1 THEN MallocInternal(h, bytes)
                  ELSE Trimmed(MallocInternal(h, PadRequest(bytes) + alignment + MinChunkSize)))

---------------------------------------------------------------------------
(* The calls *)

\* MChunkHeader::make: one free chunk and a footer; init_bins.
Init ==
    LET size == HeapUnits - Header
        empty == [chunk |-> [a \in {1, 1 + size} |->
                     IF a = 1 THEN [prev |-> 0, size |-> size, prevInUse |-> TRUE, inUse |-> FALSE]
                     ELSE [prev |-> size, size |-> Header, prevInUse |-> FALSE, inUse |-> TRUE]],
                  smallmap |-> {}, small |-> [i \in SmallBins |-> <<>>],
                  treemap |-> {}, root |-> [i \in TreeBins |-> NoChunk],
                  node |-> [a \in {} |-> NoChunk],
                  heapFreeSize |-> size]
    IN  heap = InsertChunk(empty, 1, size)

Footer == HeapUnits - Header + 1

GiveBack(h, p) == FreeInternal([h EXCEPT !.heapFreeSize = @ + SizeOf(h, p)], p)

\* mspace_dispatch.  A chunk larger than what is left of the quota goes back
\* at once.
Dispatch(bytes, alignment, overQuota) ==
    LET Kept(got) ==
            IF got.chunk # NoChunk /\ overQuota THEN GiveBack(got.heap, got.chunk) ELSE got.heap
    IN  heap' = Kept(Memalign(heap, bytes, alignment))

\* A chunk leaves the quarantine: the end of mspace_qtbin_deqn.
Return(p) ==
    /\ p # Footer /\ heap.chunk[p].inUse
    /\ heap' = GiveBack(heap, p)

Next ==
    \/ \E bytes \in Requests, alignment \in Alignments, overQuota \in BOOLEAN :
           Dispatch(bytes, alignment, overQuota)
    \/ \E p \in DOMAIN heap.chunk : Return(p)

Spec == Init /\ [][Next]_heap

---------------------------------------------------------------------------
(* Properties *)

\* The boundary tags agree: each chunk but the footer ends where the next one
\* begins, and the next one knows its size and whether it is in use.  The
\* chunks tile the heap.
BoundaryTags ==
    /\ {1, Footer} \subseteq DOMAIN heap.chunk
    /\ heap.chunk[Footer].inUse
    /\ \A p \in DOMAIN heap.chunk \ {Footer} :
           LET next == NextChunk(heap, p)
           IN  /\ SizeOf(heap, p) >= MinChunkSize
               /\ next \in DOMAIN heap.chunk
               /\ (p + 1 .. next - 1) \cap DOMAIN heap.chunk = {}
               /\ heap.chunk[next].prev = SizeOf(heap, p)
               /\ heap.chunk[next].prevInUse = heap.chunk[p].inUse

\* No free chunk follows another: free space has been joined.  And the
\* counter that heap_allocate trusts is the free space there is.
FreeSpaceJoined ==
    /\ \A p \in FreeChunks(heap) : heap.chunk[p].prevInUse /\ heap.chunk[NextChunk(heap, p)].inUse
    /\ heap.heapFreeSize = MapThenSumSet(LAMBDA p : SizeOf(heap, p), FreeChunks(heap))

\* The nodes of the tree below t, t included.
RECURSIVE Subtree(_, _)
Subtree(h, t) ==
    IF t = NoChunk THEN {} ELSE {t} \cup UNION {Subtree(h, h.node[t].child[d]) : d \in {0, 1}}

\* What a bin holds.
InTree(h, i) == UNION {Range(h.node[t].ring) : t \in Subtree(h, h.root[i])}

\* Every free chunk is in the bin of its size and in no other, and nothing
\* else is in a bin; the bit of a bin is set exactly when there is something
\* in it.
BinsHoldTheFree ==
    /\ \A i \in SmallBins :
           /\ Range(heap.small[i]) = {p \in FreeChunks(heap) : SizeOf(heap, p) = i + 1}
           /\ IsInjective(heap.small[i])
           /\ (i \in heap.smallmap) = (heap.small[i] # <<>>)
    /\ \A i \in TreeBins :
           /\ InTree(heap, i) = {p \in FreeChunks(heap) : ~IsSmall(SizeOf(heap, p))
                                                          /\ TreeIndex(SizeOf(heap, p)) = i}
           /\ (i \in heap.treemap) = (heap.root[i] # NoChunk)

\* A tree is a trie: a node's parent links to it, a ring has one size and no
\* other node has it, and the sizes below a child have the bit of that child.
\* Searches rely on it: what is to the left is smaller than what is to the
\* right.
RECURSIVE IsTrie(_, _, _, _)
IsTrie(h, t, parent, depth) ==
    LET node == h.node[t]
        s == SizeOf(h, t)
    IN  /\ node.parent = parent
        /\ node.index = TreeIndex(s)
        /\ node.ring[1] = t /\ IsInjective(node.ring)
        /\ \A p \in Range(node.ring) : SizeOf(h, p) = s
        /\ \A d \in {0, 1} :
               LET below == Subtree(h, node.child[d])
               IN  /\ \A u \in below : SizeOf(h, u) # s /\ Turn(SizeOf(h, u), node.index, depth) = d
                   /\ below # {} => IsTrie(h, node.child[d], t, depth + 1)
TreesAreTries ==
    \A i \in TreeBins : heap.root[i] # NoChunk => IsTrie(heap, heap.root[i], NoChunk, 0)

\* What a request gets: a chunk of free space that is aligned, large enough
\* and not larger than it must be, and only of free space; and nothing only
\* if no free chunk is large enough (for an alignment, with the room
\* mspace_memalign wants).
RequestsAreMet ==
    \A bytes \in Requests, alignment \in Alignments :
        LET got == Memalign(heap, bytes, alignment)
            p == got.chunk
            nb == PadRequest(bytes)
            wanted == IF alignment = 1 THEN nb ELSE PadRequest(nb + alignment + MinChunkSize)
        IN  IF p = NoChunk
            THEN \A f \in FreeChunks(heap) : SizeOf(heap, f) < wanted
            ELSE /\ (p + Header) % alignment = 0
                 /\ SizeOf(got.heap, p) \in nb .. nb + MinChunkSize - 1
                 /\ \E f \in FreeChunks(heap) :
                        f <= p /\ NextChunk(got.heap, p) <= NextChunk(heap, f)

\* A large request is served from the chunk that fits best.
BestFit ==
    \A bytes \in Requests :
        LET nb == PadRequest(bytes)
            got == TmallocLarge(heap, nb)
        IN  ~IsSmall(nb) /\ got.chunk # NoChunk =>
                \A f \in FreeChunks(heap) :
                    SizeOf(heap, f) >= nb => SizeOf(heap, got.chunk) <= SizeOf(heap, f)

=============================================================================
