-------------------------- MODULE QuarantineProofs --------------------------
(***************************************************************************)
(* Proofs about the quarantine, third part: the steps that paint chunks,   *)
(* file them in the quarantine and take them out of it, and the theorems:  *)
(* no capability to a free chunk, two rings suffice, a flush is complete,  *)
(* no interrupt is missed; for any sets of threads, chunks and words.      *)
(***************************************************************************)
EXTENDS QuarantineSteps

\* mspace_free paints the chunk.
LEMMA PaintInv ==
    ASSUME Constants, QuarantineInv, NEW t \in Threads, Paint(t)
    PROVE  QuarantineInv'
<1>1. /\ mem \in Mem /\ Heap(mem) /\ NonEmpty(mem) /\ Sweeps /\ Filing(t) /\ Flushing(t)
      /\ pc[t] = "paint" /\ asleep[t] = "no"
  BY DEF QuarantineInv, Typed, Paint, At
<1>2. mem.lock = t /\ local[t].op = "free" /\ local[t].chunk \in Chunks \ (mem.free \cup Held(mem))
  BY <1>1 DEF Filing, Locking
<1>3. /\ mem' \in Mem /\ SameRings(mem, mem') /\ SameChunks(mem, mem') /\ SameSweep(mem, mem')
      /\ mem'.words = mem.words /\ mem'.painted = mem.painted \cup {local[t].chunk}
      /\ mem'.irq = mem.irq /\ (mem'.requested <=> mem.requested) /\ mem'.lock = t
  BY <1>1, <1>2 DEF Paint, Mem, SameRings, SameChunks, SameSweep
<1>4. Heap(mem')
  BY <1>1, <1>3, HeapPainted
<1>5. NonEmpty(mem') /\ Held(mem') = Held(mem)
      /\ \A c, e : FiledBefore(mem, c, e) => FiledBefore(mem', c, e)
  BY <1>1, <1>3 DEF NonEmpty, InUse, SameRings, SameChunks, Held, FiledBefore
<1>6. OnlyMine(t) /\ pc'[t] = "epoch" /\ local'[t] = local[t] /\ asleep'[t] = "no"
  BY <1>1, Goes DEF Paint, PCs
<1>7. history' = history /\ mem'.epoch = mem.epoch /\ mem.epoch \in Epochs
  BY <1>1, <1>3 DEF Paint, SameSweep, Mem
<1>8. Typed' /\ Sweeps' /\ SweepsOn
  <2>1. Typed' /\ Sweeps'
    BY <1>1, <1>3, <1>6, <1>7 DEF QuarantineInv, Typed, Sweeps, OnlyMine
  <2>2. Since(mem.epoch) \in Int
    BY <1>7, SinceType DEF Epochs
  <2> QED BY <1>3, <1>7, <2>1, <2>2 DEF SweepsOn, Running
<1>9. Filing(t)' /\ Flushing(t)' /\ Asking(t)'
  <2>1. Filing(t)'
    BY <1>2, <1>3, <1>5, <1>6 DEF Filing, SameChunks
  <2>2. local[t].before = {}
    BY <1>1, <1>2 DEF Flushing
  <2> QED BY <1>2, <1>6, <2>1, <2>2, FlushingNot, AskingNot
<1>10. \A u \in Threads : u # t => /\ Untouched(u) /\ asleep'[u] = asleep[u]
                                   /\ \A c \in local'[u].before :
                                            FiledBefore(mem, c, local[u].epoch)
                                              => FiledBefore(mem', c, local[u].epoch)
  BY <1>5, <1>6 DEF OnlyMine, Untouched
<1> QED BY <1>2, <1>4, <1>5, <1>8, <1>9, <1>10, LockedInv

\* An allocation succeeds: a capability to a free chunk comes to exist.
LEMMA AllocatedInv ==
    ASSUME Constants, QuarantineInv, NEW t \in Threads, mem.lock = t, asleep[t] = "no",
           NEW d \in mem.free, NEW w \in Words,
           mem' \in Mem, SameRings(mem, mem'), SameSweep(mem, mem'),
           mem'.finished = mem.finished, mem'.painted = mem.painted,
           mem'.free = mem.free \ {d}, mem'.irq = mem.irq, mem'.requested <=> mem.requested,
           mem'.words[w] = d, \A u \in Words : u # w => mem'.words[u] = mem.words[u],
           OnlyMine(t), pc'[t] = "user", local'[t] = Locals, asleep'[t] = "no",
           history' = history
    PROVE  QuarantineInv'
<1>1. mem \in Mem /\ Heap(mem) /\ NonEmpty(mem) /\ Sweeps
  BY DEF QuarantineInv, Typed
<1>2. Heap(mem')
  BY <1>1, HeapAllocated
<1>3. NonEmpty(mem') /\ \A c, e : FiledBefore(mem, c, e) => FiledBefore(mem', c, e)
  BY <1>1 DEF NonEmpty, InUse, SameRings, FiledBefore
<1>4. mem'.epoch = mem.epoch /\ mem.epoch \in Epochs
  BY <1>1 DEF SameSweep, Mem
<1>5. Typed' /\ Sweeps' /\ SweepsOn
  <2>1. Typed' /\ Sweeps'
    BY <1>1, <1>4 DEF QuarantineInv, Typed, Sweeps, OnlyMine
  <2>2. Since(mem.epoch) \in Nat
    BY <1>4, SinceNat
  <2> QED BY <1>4, <2>1, <2>2 DEF SweepsOn, Running
<1>6. Filing(t)' /\ Flushing(t)' /\ Asking(t)'
  <2>1. local'[t].before = {} /\ local'[t].op = "none"
    BY LocalsType
  <2> QED BY <2>1, FilingNot, FlushingNot, AskingNot DEF Locking
<1>7. \A u \in Threads : u # t => /\ Untouched(u) /\ asleep'[u] = asleep[u]
                                  /\ \A c \in local'[u].before :
                                            FiledBefore(mem, c, local[u].epoch)
                                              => FiledBefore(mem', c, local[u].epoch)
  BY <1>3 DEF OnlyMine, Untouched
<1> QED BY <1>2, <1>3, <1>5, <1>6, <1>7, LockedInv

\* The end of heap_allocate: a chunk, a failure, or another round.
LEMMA AllocateEndsInv ==
    ASSUME Constants, QuarantineInv, NEW t \in Threads, AllocateEnds(t)
    PROVE  QuarantineInv'
<1>1. /\ mem \in Mem /\ local[t] \in LocalVars /\ Filing(t) /\ Flushing(t) /\ pc[t] = "dequeue"
      /\ asleep[t] = "no" /\ local[t].op = "malloc" /\ asleep' = asleep /\ history' = history
  BY DEF QuarantineInv, Typed, AllocateEnds, At
<1>2. mem.lock = t /\ local[t].before = {}
  BY <1>1 DEF Filing, Locking, Flushing
<1>3. CASE /\ \E c \in mem.free, w \in Words :
                mem' = [mem EXCEPT !.free = @ \ {c}, !.words[w] = c, !.lock = "free"]
           /\ local' = [local EXCEPT ![t] = Locals]
           /\ Goto(t, "user")
  <2>1. PICK c \in mem.free, w \in Words :
               mem' = [mem EXCEPT !.free = @ \ {c}, !.words[w] = c, !.lock = "free"]
    BY <1>3
  <2>2. /\ mem' \in Mem /\ SameRings(mem, mem') /\ SameSweep(mem, mem')
        /\ mem'.finished = mem.finished /\ mem'.painted = mem.painted
        /\ mem'.free = mem.free \ {c} /\ mem'.irq = mem.irq /\ (mem'.requested <=> mem.requested)
        /\ mem'.words[w] = c /\ \A u \in Words : u # w => mem'.words[u] = mem.words[u]
    <3> DEFINE f == mem.free \ {c}
               g == [mem.words EXCEPT ![w] = c]
    <3>1. /\ f \in SUBSET Chunks /\ g \in [Words -> Chunks \cup {None}]
          /\ g[w] = c /\ \A u \in Words : u # w => g[u] = mem.words[u]
      BY <1>1 DEF Mem
    <3>2. mem' = [mem EXCEPT !.free = f, !.words = g, !.lock = "free"]
      BY <1>1, <2>1 DEF Mem
    <3> HIDE DEF f, g
    <3>3. mem' \in Mem
      BY <1>1, <3>1, <3>2 DEF Mem
    <3>4. /\ SameRings(mem, mem') /\ SameSweep(mem, mem') /\ mem'.finished = mem.finished
          /\ mem'.painted = mem.painted /\ mem'.free = f /\ mem'.irq = mem.irq
          /\ (mem'.requested <=> mem.requested) /\ mem'.words = g
      BY <1>1, <3>2 DEF Mem, SameRings, SameSweep
    <3> QED BY <3>1, <3>3, <3>4 DEF f
  <2>3. OnlyMine(t) /\ pc'[t] = "user" /\ local'[t] = Locals /\ asleep'[t] = "no"
    <3>1. /\ "user" \in PCs /\ Locals \in LocalVars /\ pc' = [pc EXCEPT ![t] = "user"]
          /\ local' = [local EXCEPT ![t] = Locals]
      BY <1>3, LocalsType DEF Goto, PCs
    <3> QED BY <1>1, <3>1, Mine
  <2> QED BY <1>1, <1>2, <2>2, <2>3, AllocatedInv
<1>4. CASE /\ mem' = [mem EXCEPT !.lock = "free"]
           /\ local' = [local EXCEPT ![t] = Locals]
           /\ Goto(t, "user")
  <2>1. Quiet(t)
    BY <1>1, <1>2, <1>4, LockQuiet
  <2> QED BY <1>1, <1>4, <2>1, ReturnInv
<1>5. CASE /\ mem' = Kicked(mem)
           /\ local' = [local EXCEPT ![t].op = "retry", ![t].loops = DequeueOnMalloc,
                                     ![t].dequeued = 0,
                                     ![t].epoch = mem.pendingEpoch[mem.ring.head]]
           /\ UNCHANGED pc
  <2> DEFINE e == mem.pendingEpoch[mem.ring.head]
             l == DequeueOnMalloc
             r == [local[t] EXCEPT !.op = "retry", !.loops = l, !.dequeued = 0, !.epoch = e]
  <2>1. e \in Epochs /\ l \in Nat
    BY <1>1, LocalsType DEF Mem
  <2>2. local' = [local EXCEPT ![t] = r]
    BY <1>5
  <2> HIDE DEF e, l
  <2>3. r \in LocalVars /\ r.op = "retry" /\ r.before = {}
    BY <1>1, <1>2, <2>1 DEF LocalVars
  <2> HIDE DEF r
  <2>4. mem' = [Kicked(mem) EXCEPT !.lock = t]
    BY <1>1, <1>2, <1>5 DEF Kicked, Mem
  <2>5. Quiet(t) /\ mem'.lock = t
    BY <1>1, <1>2, <2>4, LockQuiet
  <2>6. OnlyMine(t) /\ pc'[t] = "dequeue" /\ local'[t] = r /\ asleep'[t] = "no"
    <3>1. pc' = pc
      BY <1>5
    <3> QED BY <1>1, <2>2, <2>3, <3>1 DEF OnlyMine, QuarantineInv, Typed
  <2>7. Filing(t)' /\ Flushing(t)' /\ Asking(t)'
    BY <2>3, <2>5, <2>6, FlushingNot, AskingNot DEF Filing
  <2> QED BY <2>5, <2>6, <2>7, QuietInv
<1> QED BY <1>3, <1>4, <1>5 DEF AllocateEnds

---------------------------------------------------------------------------
(* The steps on the pending rings *)

\* What the steps on the rings leave alone.
Kept(m, n) ==
    /\ n \in Mem /\ SameSweep(m, n) /\ n.words = m.words /\ n.painted = m.painted
    /\ n.free = m.free /\ n.lock = m.lock /\ n.irq = m.irq /\ (n.requested <=> m.requested)
    /\ \A c, e : FiledBefore(m, c, e) => FiledBefore(n, c, e)

Oldest == mem.ring.head
Past == ~mem.ring.empty /\ Since(mem.epoch) > Since(mem.pendingEpoch[Oldest]) + 1

\* The test of quarantine_pending_to_finished is true exactly when the oldest
\* ring is of a past epoch.
LEMMA PastIff ==
    ASSUME Constants, QuarantineInv
    PROVE  Past <=> ~(mem.ring.empty \/ ~HasFinished(mem.pendingEpoch[mem.ring.head]))
<1>1. CASE mem.ring.empty
  BY <1>1 DEF Past
<1>2. CASE ~mem.ring.empty
  <2> DEFINE f == mem.pendingEpoch[mem.ring.head]
  <2>1. /\ mem.epoch \in Epochs /\ f \in Epochs /\ Since(mem.epoch) <= 2 * MaxPasses
        /\ Since(f) <= Since(mem.epoch) + 1
    BY <1>2 DEF QuarantineInv, Typed, Mem, Heap, Rings, InUse
  <2>2. HasFinished(f) <=> Since(mem.epoch) > Since(f) + 1
    <3> HIDE DEF f
    <3> QED BY <2>1, FinishedIff DEF HasFinished
  <2> QED BY <1>2, <2>2 DEF Past, Oldest
<1> QED BY <1>1, <1>2

\* quarantine_pending_to_finished, as facts about the fields
LEMMA ToFinishedMem ==
    ASSUME Constants, QuarantineInv, Past
    PROVE  LET n == ToFinished(mem)
           IN  /\ n \in Mem /\ SameSweep(mem, n) /\ n.words = mem.words /\ n.painted = mem.painted
               /\ n.free = mem.free /\ n.pendingEpoch = mem.pendingEpoch
               /\ n.lock = mem.lock /\ n.irq = mem.irq /\ (n.requested <=> mem.requested)
               /\ n.finished = mem.finished \o mem.pending[Oldest]
               /\ n.pending[Oldest] = <<>>
               /\ \A i \in 0 .. 1 : i # Oldest => n.pending[i] = mem.pending[i]
               /\ n.ring.tail = mem.ring.tail /\ n.ring.head = 1 - Oldest
               /\ n.ring.empty <=> Oldest = mem.ring.tail
<1> DEFINE n == ToFinished(mem)
           f == mem.finished \o mem.pending[Oldest]
           p == [mem.pending EXCEPT ![Oldest] = <<>>]
           r == HeadAdvance(mem.ring)
<1>1. mem \in Mem /\ Oldest \in 0 .. 1 /\ ~mem.ring.empty
  BY DEF QuarantineInv, Typed, Mem, Oldest, Past
<1>2. /\ mem.finished \in Seq(Chunks) /\ mem.pending \in [0 .. 1 -> Seq(Chunks)]
      /\ mem.ring \in [tail : 0 .. 1, head : 0 .. 1, empty : BOOLEAN]
  BY <1>1 DEF Mem
<1>3. n = [mem EXCEPT !.finished = f, !.pending = p, !.ring = r]
  <2>1. n = [mem EXCEPT !.finished = @ \o mem.pending[Oldest], !.pending[Oldest] = <<>>,
                        !.ring = HeadAdvance(@)]
    BY PastIff DEF ToFinished, Oldest
  <2> QED BY <1>1, <1>2, <2>1 DEF Mem
<1>4. f \in Seq(Chunks)
  BY <1>1, <1>2
<1>5. /\ p \in [0 .. 1 -> Seq(Chunks)] /\ p[Oldest] = <<>>
      /\ \A i \in 0 .. 1 : i # Oldest => p[i] = mem.pending[i]
  BY <1>1, <1>2
<1>6. /\ r \in [tail : 0 .. 1, head : 0 .. 1, empty : BOOLEAN]
      /\ r.tail = mem.ring.tail /\ r.head = 1 - Oldest
      /\ r.empty <=> Oldest = mem.ring.tail
  BY <1>1, <1>2, AdvanceOther DEF Oldest
<1> HIDE DEF n, f, p, r
<1>7. n \in Mem
  BY <1>1, <1>3, <1>4, <1>5, <1>6 DEF Mem
<1>8. /\ SameSweep(mem, n) /\ n.words = mem.words /\ n.painted = mem.painted
      /\ n.free = mem.free /\ n.pendingEpoch = mem.pendingEpoch
      /\ n.lock = mem.lock /\ n.irq = mem.irq /\ (n.requested <=> mem.requested)
      /\ n.finished = f /\ n.pending = p /\ n.ring = r
  BY <1>1, <1>3 DEF Mem, SameSweep
<1> QED BY <1>5, <1>6, <1>7, <1>8 DEF n, f

\* quarantine_pending_to_finished keeps the heap in order, whether or not it
\* moves a ring.
LEMMA ToFinishedHeap ==
    ASSUME Constants, QuarantineInv
    PROVE  LET n == ToFinished(mem)
           IN  /\ Kept(mem, n) /\ Heap(n) /\ NonEmpty(n) /\ Held(n) = Held(mem)
               /\ n.pendingEpoch = mem.pendingEpoch
               /\ ~Past => n = mem
               /\ Past => /\ n.ring.tail = mem.ring.tail /\ n.ring.head = 1 - Oldest
                          /\ n.ring.empty <=> Oldest = mem.ring.tail
                          /\ n.finished # <<>>
<1> DEFINE n == ToFinished(mem)
<1>1. mem \in Mem /\ Heap(mem) /\ NonEmpty(mem)
  BY DEF QuarantineInv, Typed
<1>2. CASE ~Past
  <2>1. n = mem
    BY <1>2, PastIff DEF ToFinished
  <2> QED BY <1>1, <1>2, <2>1 DEF Kept, SameSweep
<1>3. CASE Past
  <2>1. /\ n \in Mem /\ SameSweep(mem, n) /\ n.words = mem.words /\ n.painted = mem.painted
        /\ n.free = mem.free /\ n.pendingEpoch = mem.pendingEpoch
        /\ n.lock = mem.lock /\ n.irq = mem.irq /\ (n.requested <=> mem.requested)
        /\ n.finished = mem.finished \o mem.pending[Oldest]
        /\ n.pending[Oldest] = <<>>
        /\ \A i \in 0 .. 1 : i # Oldest => n.pending[i] = mem.pending[i]
        /\ n.ring.tail = mem.ring.tail /\ n.ring.head = 1 - Oldest
        /\ n.ring.empty <=> Oldest = mem.ring.tail
    BY <1>3, ToFinishedMem
  <2> HIDE DEF n
  <2>2. ~mem.ring.empty /\ Since(mem.epoch) > Since(mem.pendingEpoch[Oldest]) + 1
        /\ Oldest = mem.ring.head
    BY <1>3 DEF Past, Oldest
  <2>3. /\ Heap(n) /\ Held(n) = Held(mem) /\ NonEmpty(n)
        /\ \A c, e : FiledBefore(mem, c, e) => FiledBefore(n, c, e)
    <3>1. Finishes(mem, n, Oldest)
      BY <1>1, <2>1, <2>2 DEF Finishes
    <3> QED BY <1>1, <3>1, HeapToFinished
  <2>4. n.finished # <<>>
    <3>1. mem.finished \in Seq(Chunks) /\ mem.pending[Oldest] \in Seq(Chunks)
      BY <1>1, <2>2 DEF Mem
    <3>2. mem.pending[Oldest] # <<>>
      BY <1>1, <2>2 DEF Mem, NonEmpty, InUse
    <3> QED BY <2>1, <3>1, <3>2
  <2> QED BY <1>3, <2>1, <2>3, <2>4 DEF Kept, n
<1> QED BY <1>2, <1>3

\* A chunk of an epoch that is not that of the youngest ring finds room: when
\* both rings are in use, the older one is past.
LEMMA RoomMade ==
    ASSUME Constants, QuarantineInv, NEW e \in Epochs, e % 2 = 0,
           Since(e) <= Since(mem.epoch) + 1,
           ~mem.ring.empty => Since(mem.pendingEpoch[mem.ring.tail]) <= Since(e),
           mem.ring.empty \/ mem.pendingEpoch[mem.ring.tail] # e
    PROVE  LET n == ToFinished(mem)
           IN  /\ n.ring.empty \/ n.ring.head = n.ring.tail
               /\ n.ring.tail = mem.ring.tail
               /\ ~n.ring.empty => Since(n.pendingEpoch[n.ring.tail]) < Since(e)
<1> DEFINE n == ToFinished(mem)
           h == mem.ring.head
           k == mem.ring.tail
           pe == mem.pendingEpoch
<1>1. mem \in Mem /\ Heap(mem)
  BY DEF QuarantineInv, Typed
<1>2. h \in 0 .. 1 /\ k \in 0 .. 1 /\ pe \in [0 .. 1 -> Epochs] /\ mem.epoch \in Epochs
  BY <1>1 DEF Mem
<1>3. /\ pe[h] \in Epochs /\ pe[k] \in Epochs
      /\ Since(pe[h]) \in Nat /\ Since(pe[k]) \in Nat /\ Since(e) \in Nat /\ Since(mem.epoch) \in Nat
  <2>1. pe[h] \in Epochs /\ pe[k] \in Epochs
    BY <1>2
  <2>2. \A x \in Epochs : Since(x) \in Nat
    BY SinceType DEF Epochs
  <2> QED BY <1>2, <2>1, <2>2
<1>4. /\ n.pendingEpoch = pe /\ (~Past => n = mem)
      /\ Past => n.ring.tail = k /\ n.ring.head = 1 - h /\ (n.ring.empty <=> h = k)
  BY ToFinishedHeap DEF Oldest
<1>5. ~mem.ring.empty => Since(pe[k]) < Since(e)
  <2>1. ~mem.ring.empty => Since(pe[k]) # Since(e)
    BY <1>3, SinceType
  <2> QED BY <1>3, <2>1
<1>6. ~mem.ring.empty /\ h # k => Past
  <2> SUFFICES ASSUME ~mem.ring.empty, h # k PROVE Past
    OBVIOUS
  <2>1. Since(pe[h]) < Since(pe[k]) /\ pe[h] % 2 = 0 /\ pe[k] % 2 = 0
    BY <1>1, <1>2 DEF Heap, Rings, InUse
  <2>2. Since(pe[h]) % 2 = 0 /\ Since(pe[k]) % 2 = 0 /\ Since(e) % 2 = 0
    BY <1>3, <2>1, SinceType
  <2>3. Since(pe[h]) + 2 <= Since(pe[k]) /\ Since(pe[k]) + 2 <= Since(e)
    BY <1>3, <1>5, <2>1, <2>2
  <2>4. Since(mem.epoch) > Since(pe[h]) + 1
    BY <1>3, <2>3
  <2> QED BY <2>4 DEF Past, Oldest
<1>7. mem.ring.empty => ~Past
  BY DEF Past
<1>8. CASE Past
  <2>1. n.ring.tail = k /\ n.ring.head = 1 - h /\ (n.ring.empty <=> h = k) /\ n.pendingEpoch = pe
    BY <1>4, <1>8
  <2> HIDE DEF n
  <2> QED BY <1>2, <1>5, <1>7, <1>8, <2>1 DEF n
<1>9. CASE ~Past
  BY <1>4, <1>5, <1>6, <1>9
<1> QED BY <1>8, <1>9

\* quarantine_pending_push opens a ring.
LEMMA OpenedHeap ==
    ASSUME Constants, QuarantineInv, NEW e \in Epochs, e % 2 = 0,
           Since(e) <= Since(mem.epoch) + 1,
           ~mem.ring.empty => Since(mem.pendingEpoch[mem.ring.tail]) <= Since(e),
           mem.ring.empty \/ mem.pendingEpoch[mem.ring.tail] # e
    PROVE  LET n == ToFinished(mem)
               o == [n EXCEPT !.pendingEpoch[Advance(n.ring.tail)] = e, !.ring = TailAdvance(@)]
           IN  /\ Kept(mem, o) /\ Heap(o) /\ Held(o) = Held(mem)
               /\ ~o.ring.empty /\ o.pendingEpoch[o.ring.tail] = e
               /\ \A i \in 0 .. 1 : InUse(o, i) /\ i # o.ring.tail => o.pending[i] # <<>>
<1> DEFINE n == ToFinished(mem)
           o == [n EXCEPT !.pendingEpoch[Advance(n.ring.tail)] = e, !.ring = TailAdvance(@)]
<1>1. Kept(mem, n) /\ Heap(n) /\ NonEmpty(n) /\ Held(n) = Held(mem)
  BY ToFinishedHeap
<1>2. /\ n.ring.empty \/ n.ring.head = n.ring.tail
      /\ ~n.ring.empty => Since(n.pendingEpoch[n.ring.tail]) < Since(e)
  BY RoomMade
<1> HIDE DEF n
<1>3. n \in Mem /\ n.epoch = mem.epoch
  BY <1>1 DEF Kept, SameSweep
<1> DEFINE k == 1 - n.ring.tail
           pe == [n.pendingEpoch EXCEPT ![k] = e]
           r == TailAdvance(n.ring)
<1>4. /\ n.ring \in [tail : 0 .. 1, head : 0 .. 1, empty : BOOLEAN] /\ k \in 0 .. 1
      /\ n.pendingEpoch \in [0 .. 1 -> Epochs]
  BY <1>3 DEF Mem
<1>5. /\ Advance(n.ring.tail) = k
      /\ r \in [tail : 0 .. 1, head : 0 .. 1, empty : BOOLEAN]
      /\ r.tail = k /\ r.head = n.ring.head /\ ~r.empty
  BY <1>4, AdvanceOther
<1>6. o = [n EXCEPT !.pendingEpoch = pe, !.ring = r]
  BY <1>3, <1>5 DEF Mem
<1>7. /\ pe \in [0 .. 1 -> Epochs] /\ pe[k] = e
      /\ \A i \in 0 .. 1 : i # k => pe[i] = n.pendingEpoch[i]
  BY <1>4
<1> HIDE DEF pe, r, o
<1>8. o \in Mem
  BY <1>3, <1>5, <1>6, <1>7, ZenonT(60) DEF Mem
<1>9. /\ SameSweep(n, o) /\ n.words = o.words /\ o.painted = n.painted /\ o.free = n.free
      /\ o.finished = n.finished /\ o.pending = n.pending /\ o.lock = n.lock
      /\ o.irq = n.irq /\ (o.requested <=> n.requested) /\ o.pendingEpoch = pe /\ o.ring = r
  BY <1>3, <1>6 DEF Mem, SameSweep
<1>10. Opens(n, o, k, e)
  BY <1>1, <1>2, <1>3, <1>5, <1>7, <1>8, <1>9 DEF Opens
<1>11. /\ Heap(o) /\ Held(o) = Held(n)
       /\ \A i \in 0 .. 1 : InUse(o, i) /\ i # k => o.pending[i] # <<>>
       /\ \A c, f : FiledBefore(n, c, f) => FiledBefore(o, c, f)
  <2> HIDE DEF k
  <2>1. /\ Heap(o) /\ Held(o) = Held(n)
        /\ NonEmpty(n) => \A i \in 0 .. 1 : InUse(o, i) /\ i # k => o.pending[i] # <<>>
        /\ \A c, f : FiledBefore(n, c, f) => FiledBefore(o, c, f)
    BY <1>10, HeapOpened
  <2> QED BY <1>1, <2>1
<1>12. Kept(mem, o)
  BY <1>1, <1>8, <1>9, <1>11 DEF Kept, SameSweep
<1>13. ~o.ring.empty /\ o.pendingEpoch[o.ring.tail] = e /\ o.ring.tail = k
  BY <1>5, <1>7, <1>9
<1>14. /\ Kept(mem, o) /\ Heap(o) /\ Held(o) = Held(mem)
       /\ ~o.ring.empty /\ o.pendingEpoch[o.ring.tail] = e
       /\ \A i \in 0 .. 1 : InUse(o, i) /\ i # o.ring.tail => o.pending[i] # <<>>
  BY <1>1, <1>11, <1>12, <1>13
<1> QED BY <1>14 DEF n, o

\* quarantine_pending_push
LEMMA PushedHeap ==
    ASSUME Constants, QuarantineInv, NEW e \in Epochs, e % 2 = 0,
           Since(e) <= Since(mem.epoch) + 1,
           ~mem.ring.empty => Since(mem.pendingEpoch[mem.ring.tail]) <= Since(e),
           NEW c \in Chunks, c \in mem.painted, c \notin mem.free \cup Held(mem),
           Cleared(mem, c, e)
    PROVE  LET n == Pushed(mem, e, c)
           IN  Kept(mem, n) /\ Heap(n) /\ NonEmpty(n)
<1> DEFINE opening == mem.ring.empty \/ mem.pendingEpoch[mem.ring.tail] # e
           room == ToFinished(mem)
           opened == [room EXCEPT !.pendingEpoch[Advance(room.ring.tail)] = e,
                                  !.ring = TailAdvance(@)]
           ready == IF opening THEN opened ELSE mem
           k == ready.ring.tail
           n == [ready EXCEPT !.pending[k] = Append(@, c)]
<1>1. n = Pushed(mem, e, c)
  BY DEF Pushed, MakeRoom
<1>2. /\ Kept(mem, ready) /\ Heap(ready) /\ Held(ready) = Held(mem)
      /\ ~ready.ring.empty /\ ready.pendingEpoch[k] = e
      /\ \A i \in 0 .. 1 : InUse(ready, i) /\ i # k => ready.pending[i] # <<>>
  <2>1. CASE opening
    <3>1. /\ Kept(mem, opened) /\ Heap(opened) /\ Held(opened) = Held(mem)
          /\ ~opened.ring.empty /\ opened.pendingEpoch[opened.ring.tail] = e
          /\ \A i \in 0 .. 1 : InUse(opened, i) /\ i # opened.ring.tail => opened.pending[i] # <<>>
      BY <2>1, OpenedHeap
    <3> HIDE DEF opened
    <3> QED BY <2>1, <3>1
  <2>2. CASE ~opening
    <3>1. ready = mem
      BY <2>2
    <3>2. Kept(mem, mem) /\ Heap(mem) /\ NonEmpty(mem)
      BY DEF QuarantineInv, Typed, Kept, SameSweep
    <3> HIDE DEF ready
    <3> QED BY <2>2, <3>1, <3>2 DEF NonEmpty
  <2> QED BY <2>1, <2>2
<1> HIDE DEF ready
<1>3. ready \in Mem
  BY <1>2 DEF Kept
<1> DEFINE p == [ready.pending EXCEPT ![k] = Append(@, c)]
<1>4. k \in 0 .. 1 /\ ready.pending \in [0 .. 1 -> Seq(Chunks)]
  BY <1>3 DEF Mem
<1>5. /\ p \in [0 .. 1 -> Seq(Chunks)] /\ p[k] = Append(ready.pending[k], c)
      /\ \A i \in 0 .. 1 : i # k => p[i] = ready.pending[i]
  BY <1>4
<1>6. n = [ready EXCEPT !.pending = p]
  BY <1>3 DEF Mem
<1> HIDE DEF p, n
<1>7. n \in Mem
  BY <1>3, <1>5, <1>6, ZenonT(60) DEF Mem
<1>8. /\ SameSweep(ready, n) /\ n.words = ready.words /\ n.painted = ready.painted
      /\ SameChunks(ready, n) /\ n.pendingEpoch = ready.pendingEpoch /\ n.ring = ready.ring
      /\ n.lock = ready.lock /\ n.irq = ready.irq /\ (n.requested <=> ready.requested)
      /\ n.pending = p
  BY <1>3, <1>6 DEF Mem, SameSweep, SameChunks
<1>9. Cleared(ready, c, ready.pendingEpoch[k]) /\ c \in ready.painted /\ ready.free = mem.free
  BY <1>2 DEF Kept, SameSweep, Cleared
<1>10. Appends(ready, n, k, c)
  BY <1>2, <1>3, <1>5, <1>7, <1>8, <1>9 DEF Appends
<1>11. /\ Heap(n) /\ NonEmpty(n)
       /\ \A d, f : FiledBefore(ready, d, f) => FiledBefore(n, d, f)
  <2> HIDE DEF k
  <2>1. /\ Heap(n)
        /\ (\A i \in 0 .. 1 : InUse(ready, i) /\ i # k => ready.pending[i] # <<>>) => NonEmpty(n)
        /\ \A d, f : FiledBefore(ready, d, f) => FiledBefore(n, d, f)
    BY <1>10, HeapAppended
  <2> QED BY <1>2, <2>1
<1>12. Kept(mem, n)
  BY <1>2, <1>7, <1>8, <1>11 DEF Kept, SameSweep, SameChunks
<1> QED BY <1>1, <1>11, <1>12

\* The steps of t that change the rings and only t's own variables.
LEMMA KeptInv ==
    ASSUME Constants, QuarantineInv, NEW t \in Threads, mem.lock = t,
           Kept(mem, mem'), Heap(mem'), NonEmpty(mem'), OnlyMine(t), history' = history,
           (Filing(t) /\ Flushing(t) /\ Asking(t))'
    PROVE  QuarantineInv'
<1>1. mem \in Mem /\ Sweeps /\ mem.epoch \in Epochs /\ mem'.epoch = mem.epoch
  BY DEF QuarantineInv, Typed, Kept, SameSweep, Mem
<1>2. Typed' /\ Sweeps' /\ SweepsOn
  <2>1. Typed' /\ Sweeps'
    BY <1>1 DEF QuarantineInv, Typed, Sweeps, OnlyMine, Kept
  <2>2. Since(mem.epoch) \in Int
    BY <1>1, SinceType DEF Epochs
  <2> QED BY <1>1, <2>1, <2>2 DEF SweepsOn, Running, Kept
<1>3. \A u \in Threads : u # t => /\ Untouched(u) /\ asleep'[u] = asleep[u]
                                  /\ \A c \in local'[u].before :
                                            FiledBefore(mem, c, local[u].epoch)
                                              => FiledBefore(mem', c, local[u].epoch)
  BY DEF OnlyMine, Untouched, Kept
<1> QED BY <1>2, <1>3, LockedInv

\* quarantine_pending_push preserves the invariant.
LEMMA PushInv ==
    ASSUME Constants, QuarantineInv, NEW t \in Threads, Push(t)
    PROVE  QuarantineInv'
<1>1. /\ mem \in Mem /\ local[t] \in LocalVars /\ Filing(t) /\ Flushing(t)
      /\ pc[t] = "push" /\ asleep[t] = "no" /\ asleep' = asleep /\ history' = history
  BY DEF QuarantineInv, Typed, Push, At
<1> DEFINE e == local[t].epoch
           c == local[t].chunk
<1>2. /\ mem.lock = t /\ local[t].op = "free" /\ local[t].before = {}
      /\ c \in Chunks \ (mem.free \cup Held(mem)) /\ c \in mem.painted
      /\ e \in Epochs /\ e % 2 = 0 /\ Since(e) <= Since(mem.epoch) + 1
      /\ ~mem.ring.empty => Since(mem.pendingEpoch[mem.ring.tail]) <= Since(e)
      /\ Cleared(mem, c, e)
  BY <1>1 DEF Filing, Flushing, Locking, LocalVars
<1>3. Kept(mem, mem') /\ Heap(mem') /\ NonEmpty(mem')
  <2>1. mem' = Pushed(mem, e, c)
    BY DEF Push
  <2> HIDE DEF e, c
  <2> QED BY <1>2, <2>1, PushedHeap
<1> DEFINE r == [local[t] EXCEPT !.loops = DequeueOnFree]
<1>4. r \in LocalVars /\ r.op = "free" /\ r.before = {}
  <2>1. DequeueOnFree \in Nat
    BY LocalsType
  <2> QED BY <1>1, <1>2, <2>1 DEF LocalVars
<1>5. local' = [local EXCEPT ![t] = r] /\ pc' = [pc EXCEPT ![t] = "dequeue"] /\ "dequeue" \in PCs
  BY DEF Push, Goto, PCs
<1> HIDE DEF r
<1>6. OnlyMine(t) /\ pc'[t] = "dequeue" /\ local'[t] = r /\ asleep'[t] = "no"
  BY <1>1, <1>4, <1>5, Mine, ZenonT(60)
<1>7. Filing(t)' /\ Flushing(t)' /\ Asking(t)'
  <2>1. mem'.lock = t
    BY <1>2, <1>3 DEF Kept
  <2> QED BY <1>4, <1>6, <2>1, FlushingNot, AskingNot DEF Filing
<1> QED BY <1>1, <1>2, <1>3, <1>6, <1>7, KeptInv

\* What the visit of the quarantine looks at: the finished ring, after the
\* oldest pending ring was moved to it when it was empty.
Visited == IF mem.finished = <<>> THEN ToFinished(mem) ELSE mem

\* The first half of a visit keeps the heap in order.
LEMMA VisitedHeap ==
    ASSUME Constants, QuarantineInv
    PROVE  Kept(mem, Visited) /\ Heap(Visited) /\ NonEmpty(Visited)
<1>1. Kept(mem, mem) /\ Heap(mem) /\ NonEmpty(mem)
  BY DEF QuarantineInv, Typed, Kept, SameSweep
<1>2. Kept(mem, ToFinished(mem)) /\ Heap(ToFinished(mem)) /\ NonEmpty(ToFinished(mem))
  BY ToFinishedHeap
<1> QED BY <1>1, <1>2 DEF Visited

\* When the visit finds nothing, no ring of a past epoch is left.
LEMMA NothingPast ==
    ASSUME Constants, QuarantineInv, Visited.finished = <<>>, NEW e \in Epochs,
           Since(mem.epoch) > Since(e) + 1, NEW c, FiledBefore(mem, c, e)
    PROVE  FALSE
<1>1. mem \in Mem /\ Heap(mem) /\ NonEmpty(mem) /\ mem.epoch \in Epochs
      /\ mem.pendingEpoch \in [0 .. 1 -> Epochs] /\ mem.ring.head \in 0 .. 1
  BY DEF QuarantineInv, Typed, Mem
<1>2. mem.finished = <<>> /\ ~Past
  BY ToFinishedHeap DEF Visited
<1>3. PICK i \in 0 .. 1 : c \in Elements(mem.pending[i]) /\ Since(mem.pendingEpoch[i]) <= Since(e)
  BY <1>2 DEF FiledBefore, Elements
<1>4. InUse(mem, i)
  BY <1>1, <1>3 DEF Heap, Rings, Elements
<1>5. Since(mem.pendingEpoch[Oldest]) <= Since(mem.pendingEpoch[i])
  <2>1. Oldest \in 0 .. 1
    BY <1>1 DEF Oldest
  <2>2. Since(mem.pendingEpoch[Oldest]) \in Int
    BY <1>1, <2>1, SinceType DEF Epochs
  <2>3. CASE i = Oldest
    BY <2>2, <2>3
  <2>4. CASE i # Oldest
    <3>1. i = mem.ring.tail /\ ~mem.ring.empty
      BY <1>4, <2>4 DEF InUse, Oldest
    <3>2. Since(mem.pendingEpoch[mem.ring.head]) < Since(mem.pendingEpoch[mem.ring.tail])
      BY <1>1, <2>4, <3>1 DEF Heap, Rings, Oldest
    <3>3. Since(mem.pendingEpoch[i]) \in Int
      <4>1. mem.pendingEpoch[i] \in Epochs
        BY <1>1
      <4> QED BY <4>1, SinceType DEF Epochs
    <3> QED BY <2>2, <3>1, <3>2, <3>3 DEF Oldest
  <2> QED BY <2>3, <2>4
<1>6. Past
  <2>1. /\ Since(mem.pendingEpoch[Oldest]) \in Int /\ Since(mem.pendingEpoch[i]) \in Int
        /\ Since(e) \in Int /\ Since(mem.epoch) \in Int
    <3>1. \A x \in Epochs : Since(x) \in Int
      BY SinceType DEF Epochs
    <3> QED BY <1>1, <3>1 DEF Oldest
  <2>2. ~mem.ring.empty
    BY <1>4 DEF InUse
  <2>3. Since(mem.epoch) > Since(mem.pendingEpoch[Oldest]) + 1
    BY <1>3, <1>5, <2>1
  <2> QED BY <2>2, <2>3 DEF Past
<1> QED BY <1>2, <1>6

\* A visit that finds nothing.
LEMMA DequeueNothing ==
    ASSUME Constants, QuarantineInv, NEW t \in Threads, Dequeue(t), Visited.finished = <<>>
    PROVE  QuarantineInv'
<1>1. /\ mem' = Visited /\ local' = [local EXCEPT ![t].loops = 0] /\ pc' = pc /\ asleep' = asleep
      /\ history' = history /\ pc[t] = "dequeue" /\ asleep[t] = "no"
  BY DEF Dequeue, Visited, At
<1>2. mem \in Mem /\ local[t] \in LocalVars /\ Filing(t) /\ Flushing(t)
  BY DEF QuarantineInv, Typed
<1>3. Kept(mem, mem') /\ Heap(mem') /\ NonEmpty(mem') /\ mem.lock = t
  BY <1>1, <1>2, VisitedHeap DEF Filing, Locking
<1> DEFINE r == [local[t] EXCEPT !.loops = 0]
<1>4. /\ r \in LocalVars /\ r.op = local[t].op /\ r.epoch = local[t].epoch
      /\ r.before = local[t].before /\ r.dequeued = local[t].dequeued
  BY <1>2 DEF LocalVars
<1>5. local' = [local EXCEPT ![t] = r]
  BY <1>1
<1> HIDE DEF r
<1>6. OnlyMine(t) /\ pc'[t] = "dequeue" /\ local'[t] = r /\ asleep'[t] = "no"
  BY <1>1, <1>4, <1>5 DEF OnlyMine, QuarantineInv, Typed
<1>7. Filing(t)' /\ Asking(t)'
  BY <1>3, <1>6, AskingNot DEF Filing, Kept
<1>8. Flushing(t)'
  <2>1. mem'.epoch = mem.epoch /\ \A c, e : FiledBefore(mem, c, e) => FiledBefore(mem', c, e)
    BY <1>3 DEF Kept, SameSweep
  <2>2. local[t].op = "flushed" => local[t].before = {}
    <3> SUFFICES ASSUME local[t].op = "flushed", NEW c \in local[t].before PROVE FALSE
      OBVIOUS
    <3>1. Since(mem.epoch) > Since(local[t].epoch) + 1 /\ FiledBefore(mem, c, local[t].epoch)
      BY <1>2 DEF Flushing
    <3>2. local[t].epoch \in Epochs
      BY <1>2 DEF LocalVars
    <3> QED BY <3>1, <3>2, NothingPast
  <2> QED BY <1>2, <1>4, <1>6, <2>1, <2>2 DEF Flushing
<1> QED BY <1>1, <1>3, <1>6, <1>7, <1>8, KeptInv

\* A visit that finds a chunk.
LEMMA DequeueOne ==
    ASSUME Constants, QuarantineInv, NEW t \in Threads, Dequeue(t), Visited.finished # <<>>
    PROVE  QuarantineInv'
<1> DEFINE m == Visited
           d == Head(m.finished)
<1>1. /\ mem' = [m EXCEPT !.finished = Tail(@), !.painted = @ \ {d}, !.free = @ \cup {d}]
      /\ local' = [u \in Threads |->
                       [local[u] EXCEPT !.before = @ \ {d},
                                        !.loops = IF u = t THEN @ - 1 ELSE @,
                                        !.dequeued = IF u = t THEN @ + 1 ELSE @]]
      /\ pc' = pc /\ asleep' = asleep
      /\ history' = history /\ pc[t] = "dequeue" /\ asleep[t] = "no" /\ local[t].loops > 0
  BY DEF Dequeue, Visited, At
<1>2. /\ mem \in Mem /\ local \in [Threads -> LocalVars] /\ local[t] \in LocalVars
      /\ Filing(t) /\ Flushing(t) /\ Sweeps
  BY DEF QuarantineInv, Typed
<1>3. Kept(mem, m) /\ Heap(m) /\ NonEmpty(m) /\ mem.lock = t /\ m \in Mem
  BY <1>1, <1>2, VisitedHeap DEF Filing, Locking, Kept
<1> HIDE DEF m
<1>4. /\ mem' \in Mem /\ SameSweep(m, mem') /\ SameRings(m, mem') /\ mem'.words = m.words
      /\ mem'.finished = Tail(m.finished) /\ mem'.painted = m.painted \ {d}
      /\ mem'.free = m.free \cup {d} /\ mem'.lock = m.lock
      /\ mem'.irq = m.irq /\ (mem'.requested <=> m.requested)
  <2> DEFINE f == Tail(m.finished)
             p == m.painted \ {d}
             g == m.free \cup {d}
  <2>1. mem' = [m EXCEPT !.finished = f, !.painted = p, !.free = g]
    BY <1>1
  <2>2. m.finished \in Seq(Chunks) /\ m.finished # <<>>
    BY <1>3 DEF Mem, m
  <2>3. f \in Seq(Chunks) /\ d \in Chunks
    <3>1. ASSUME NEW s \in Seq(Chunks), s # <<>> PROVE Tail(s) \in Seq(Chunks) /\ Head(s) \in Chunks
      BY <3>1
    <3> QED BY <2>2, <3>1
  <2>4. p \in SUBSET Chunks /\ g \in SUBSET Chunks
    <3> HIDE DEF d
    <3> QED BY <1>3, <2>3 DEF Mem
  <2> HIDE DEF f, p, g, d
  <2>5. mem' \in Mem
    BY <1>3, <2>1, <2>3, <2>4, ZenonT(60) DEF Mem
  <2>6. /\ SameSweep(m, mem') /\ SameRings(m, mem') /\ mem'.words = m.words
        /\ mem'.finished = f /\ mem'.painted = p /\ mem'.free = g /\ mem'.lock = m.lock
        /\ mem'.irq = m.irq /\ (mem'.requested <=> m.requested)
    BY <1>3, <2>1 DEF Mem, SameSweep, SameRings
  <2> QED BY <2>5, <2>6 DEF f, p, g
<1>5. Dequeues(m, mem', d)
  BY <1>3, <1>4 DEF Dequeues, m
<1>6. /\ Heap(mem') /\ NonEmpty(mem')
      /\ \A c, e : c # d /\ FiledBefore(mem, c, e) => FiledBefore(mem', c, e)
  <2> HIDE DEF d
  <2>1. /\ Heap(mem') /\ (NonEmpty(m) => NonEmpty(mem'))
        /\ \A c, e : c # d /\ FiledBefore(m, c, e) => FiledBefore(mem', c, e)
    BY <1>5, HeapDequeued
  <2> QED BY <1>3, <2>1 DEF Kept
<1> HIDE DEF d
<1>7. ASSUME NEW u \in Threads
      PROVE  /\ local'[u] \in LocalVars /\ local'[u].before = local[u].before \ {d}
             /\ local'[u].op = local[u].op /\ local'[u].epoch = local[u].epoch
             /\ local'[u].value = local[u].value /\ local'[u].chunk = local[u].chunk
             /\ u # t => local'[u].loops = local[u].loops /\ local'[u].dequeued = local[u].dequeued
             /\ u = t => local'[u].dequeued # 0
  <2> DEFINE b == local[u].before \ {d}
             l == IF u = t THEN local[u].loops - 1 ELSE local[u].loops
             q == IF u = t THEN local[u].dequeued + 1 ELSE local[u].dequeued
  <2>1. local[u] \in LocalVars
    BY <1>2
  <2>2. b \in SUBSET Chunks /\ local[u].loops \in Nat /\ local[u].dequeued \in Nat
    BY <2>1 DEF LocalVars
  <2>3. /\ l \in Nat /\ q \in Nat /\ (u = t => q # 0)
        /\ u # t => l = local[u].loops /\ q = local[u].dequeued
    <3>1. local[t].loops > 0
      BY <1>1
    <3>2. CASE u = t
      BY <2>2, <3>1, <3>2
    <3>3. CASE u # t
      BY <2>2, <3>3
    <3> QED BY <3>2, <3>3
  <2>4. local'[u] = [local[u] EXCEPT !.before = b, !.loops = l, !.dequeued = q]
    BY <1>1
  <2> HIDE DEF b, l, q
  <2>5. /\ local'[u] \in LocalVars /\ local'[u].before = b
        /\ local'[u].op = local[u].op /\ local'[u].epoch = local[u].epoch
        /\ local'[u].value = local[u].value /\ local'[u].chunk = local[u].chunk
        /\ local'[u].loops = l /\ local'[u].dequeued = q
    BY <2>1, <2>2, <2>3, <2>4 DEF LocalVars
  <2> QED BY <2>3, <2>5 DEF b
<1>8. /\ mem'.epoch = mem.epoch /\ mem'.irq = mem.irq /\ (mem'.requested <=> mem.requested)
      /\ mem'.lock = t /\ mem.epoch \in Epochs /\ pc' = pc /\ asleep' = asleep
      /\ history' = history
  BY <1>1, <1>2, <1>3, <1>4 DEF Kept, SameSweep, Mem
<1>9. Typed' /\ Sweeps' /\ SweepsOn
  <2>1. local' \in [Threads -> LocalVars]
    BY <1>1, <1>7
  <2>2. Typed'
    BY <1>4, <1>8, <2>1 DEF QuarantineInv, Typed
  <2>3. Sweeps'
    BY <1>2, <1>8 DEF Sweeps
  <2>4. Since(mem.epoch) \in Int
    BY <1>8, SinceType DEF Epochs
  <2> QED BY <1>8, <2>2, <2>3, <2>4 DEF SweepsOn, Running
<1>10. Filing(t)' /\ Asking(t)'
  <2>1. pc'[t] = "dequeue" /\ asleep'[t] = "no"
    BY <1>1
  <2> QED BY <1>8, <2>1, AskingNot DEF Filing
<1>11. Flushing(t)'
  <2>1. pc'[t] = "dequeue" /\ pc[t] = "dequeue"
    BY <1>1
  <2> QED BY <1>2, <1>6, <1>7, <1>8, <2>1 DEF Flushing
<1>12. \A u \in Threads : u # t => /\ Untouched(u) /\ asleep'[u] = asleep[u]
                                   /\ \A c \in local'[u].before :
                                            FiledBefore(mem, c, local[u].epoch)
                                              => FiledBefore(mem', c, local[u].epoch)
  BY <1>6, <1>7, <1>8 DEF Untouched
<1> QED BY <1>3, <1>6, <1>9, <1>10, <1>11, <1>12, LockedInv
\* One round of mspace_qtbin_deqn preserves the invariant.
LEMMA DequeueInv ==
    ASSUME Constants, QuarantineInv, NEW t \in Threads, Dequeue(t)
    PROVE  QuarantineInv'
BY DequeueNothing, DequeueOne

---------------------------------------------------------------------------
(* The theorems *)

\* The invariant holds of the heap at first.
LEMMA QuarantineInit ==
    ASSUME Constants, Init
    PROVE  QuarantineInv
<1>1. /\ mem.lock = "free" /\ mem.epoch = FirstEpoch /\ mem.swept = {} /\ mem.requested = FALSE
      /\ mem.irq = 0 /\ mem.words = [w \in Words |-> None] /\ mem.painted = {}
      /\ mem.free = Chunks /\ mem.pending = [i \in 0 .. 1 |-> <<>>]
      /\ mem.pendingEpoch = [i \in 0 .. 1 |-> 0] /\ mem.ring = EmptyRing /\ mem.finished = <<>>
      /\ mem = [lock |-> "free", epoch |-> FirstEpoch, swept |-> {}, requested |-> FALSE, irq |-> 0,
                words |-> mem.words, painted |-> {}, free |-> Chunks, pending |-> mem.pending,
                pendingEpoch |-> mem.pendingEpoch, ring |-> mem.ring, finished |-> <<>>]
  BY DEF Init, QuarantineRings
<1>2. /\ mem.ring = [tail |-> 0, head |-> 1, empty |-> TRUE]
  <2>1. \A v \in 0 .. 1 : Advance(v) = 1 - v
    BY DEF Advance, QuarantineRings
  <2>2. Advance(0) = 1
    BY <2>1
  <2>3. mem.ring = EmptyRing
    BY <1>1
  <2> QED BY <2>2, <2>3 DEF EmptyRing
<1>3. 0 \in Epochs /\ FirstEpoch \in Epochs /\ FirstEpoch % 2 = 0 /\ Since(FirstEpoch) = 0
      /\ MaxPasses \in Nat
  BY DEF Constants, Epochs, Since
<1>4. mem \in Mem
  <2>1. /\ mem.words \in [Words -> Chunks \cup {None}]
        /\ mem.pending \in [0 .. 1 -> Seq(Chunks)] /\ mem.pendingEpoch \in [0 .. 1 -> Epochs]
        /\ mem.ring \in [tail : 0 .. 1, head : 0 .. 1, empty : BOOLEAN]
    BY <1>1, <1>2, <1>3
  <2>2. mem = [lock |-> "free", epoch |-> FirstEpoch, swept |-> {}, requested |-> FALSE, irq |-> 0,
               words |-> mem.words, painted |-> {}, free |-> Chunks, pending |-> mem.pending,
               pendingEpoch |-> mem.pendingEpoch, ring |-> mem.ring, finished |-> <<>>]
    BY <1>1
  <2>3. ASSUME NEW words \in [Words -> Chunks \cup {None}], NEW pending \in [0 .. 1 -> Seq(Chunks)],
               NEW pendingEpoch \in [0 .. 1 -> Epochs],
               NEW ring \in [tail : 0 .. 1, head : 0 .. 1, empty : BOOLEAN]
        PROVE  [lock |-> "free", epoch |-> FirstEpoch, swept |-> {}, requested |-> FALSE, irq |-> 0,
                words |-> words, painted |-> {}, free |-> Chunks, pending |-> pending,
                pendingEpoch |-> pendingEpoch, ring |-> ring, finished |-> <<>>] \in Mem
    BY <1>3 DEF Mem
  <2> QED BY <2>1, <2>2, <2>3
<1>5. Elements(mem.finished) = {} /\ \A i \in 0 .. 1 : mem.pending[i] = <<>> /\ Elements(mem.pending[i]) = {}
  BY <1>1 DEF Elements
<1>6. Typed
  BY <1>4, LocalsType DEF Init, Typed, PCs
<1>7. Sweeps
  <2>1. mem.epoch = FirstEpoch /\ history = 0
    BY <1>1 DEF Init
  <2> QED BY <1>3, <2>1 DEF Sweeps
<1>8. Heap(mem) /\ NonEmpty(mem)
  <2>1. Places(mem)
    BY <1>1, <1>5 DEF Places, Distinct
  <2>2. Rings(mem) /\ NonEmpty(mem)
    BY <1>1, <1>2, <1>3, <1>5 DEF Rings, InUse, NonEmpty
  <2>3. Unreachable(mem)
    BY <1>1, <1>5 DEF Unreachable, Constants
  <2> QED BY <2>1, <2>2, <2>3 DEF Heap
<1>9. ASSUME NEW t \in Threads PROVE Filing(t) /\ Flushing(t) /\ Asking(t)
  <2>1. pc[t] = "user" /\ local[t].op = "none" /\ local[t].before = {} /\ asleep[t] = "no"
    BY DEF Init, Locals
  <2> QED BY <2>1 DEF Filing, Flushing, Asking, Locking
<1> QED BY <1>6, <1>7, <1>8, <1>9 DEF QuarantineInv

\* Every step of the allocator, of the revoker and of the threads preserves
\* the invariant.
LEMMA QuarantineNext ==
    ASSUME Constants, QuarantineInv, [Next]_vars
    PROVE  QuarantineInv'
<1>1. CASE UNCHANGED vars
  BY <1>1, ZenonT(60) DEF vars, QuarantineInv, Typed, Sweeps, Filing, Flushing, Asking, Running
<1>2. ASSUME NEW t \in Threads, Step(t) PROVE QuarantineInv'
  BY <1>2, FreeInv, PaintInv, ReadEpochInv, PushInv, DequeueInv, FreeEndsInv, AllocateInv,
     AllocateEndsInv, RetryVisitedInv, FlushInv, FlushVisitedInv, FlushReturnsInv, ReadValueInv,
     LookInv, RequestInv, KickInv, SleepInv, WaitFailsInv, FailedInv, RelockInv DEF Step
<1> QED BY <1>1, <1>2, SweepInv, CopyInv, SweepEndsInv DEF Next

\* The invariant holds always.
LEMMA QuarantineAlways ==
    ASSUME Constants
    PROVE  Spec => []QuarantineInv
<1>1. Init => QuarantineInv
  BY QuarantineInit
<1>2. QuarantineInv /\ [Next]_vars => QuarantineInv'
  BY QuarantineNext
<1> QED BY <1>1, <1>2, PTL DEF Spec

\* No use after reallocation: for any number of threads, chunks and words,
\* and however capabilities are copied while the revoker sweeps, no word
\* holds a capability to a chunk of the free list.
THEOREM FreeUnreachable ==
    ASSUME Constants
    PROVE  Spec => []FreeIsUnreachable
<1>1. QuarantineInv => FreeIsUnreachable
  BY DEF QuarantineInv, Heap, Unreachable, FreeIsUnreachable
<1>2. Spec => []QuarantineInv
  BY QuarantineAlways
<1> QED BY <1>1, <1>2, PTL

\* "Failed to open epoch ring" cannot happen: quarantine_pending_push finds
\* room with two rings.
THEOREM TwoRingsSuffice ==
    ASSUME Constants
    PROVE  Spec => []RingsSuffice
<1>1. QuarantineInv => RingsSuffice
  <2> SUFFICES ASSUME QuarantineInv, NEW t \in Threads, pc[t] = "push",
                      ~mem.ring.empty, mem.pendingEpoch[mem.ring.tail] # local[t].epoch
               PROVE  HasRoom(MakeRoom(mem).ring)
    BY DEF RingsSuffice
  <2> DEFINE n == ToFinished(mem)
             e == local[t].epoch
  <2>1. /\ e \in Epochs /\ e % 2 = 0 /\ Since(e) <= Since(mem.epoch) + 1
        /\ ~mem.ring.empty => Since(mem.pendingEpoch[mem.ring.tail]) <= Since(e)
    BY DEF QuarantineInv, Typed, LocalVars, Filing
  <2>2. n.ring.empty \/ n.ring.head = n.ring.tail
    <3> HIDE DEF e
    <3>1. mem.ring.empty \/ mem.pendingEpoch[mem.ring.tail] # e
      BY DEF e
    <3> QED BY <2>1, <3>1, RoomMade
  <2>3. n.ring \in [tail : 0 .. 1, head : 0 .. 1, empty : BOOLEAN]
    BY ToFinishedHeap DEF Kept, Mem
  <2> HIDE DEF n
  <2>4. Advance(n.ring.tail) = 1 - n.ring.tail
    BY <2>3, AdvanceOther
  <2>5. HasRoom(n.ring)
    BY <2>2, <2>3, <2>4 DEF HasRoom
  <2> QED BY <2>5 DEF n, MakeRoom
<1>2. Spec => []QuarantineInv
  BY QuarantineAlways
<1> QED BY <1>1, <1>2, PTL

\* heap_quarantine_flush returns 0 only when all that was in the quarantine
\* when it was called has left it.
THEOREM FlushIsComplete ==
    ASSUME Constants
    PROVE  Spec => []FlushDrains
<1>1. QuarantineInv => FlushDrains
  BY DEF QuarantineInv, Flushing, FlushDrains
<1>2. Spec => []QuarantineInv
  BY QuarantineAlways
<1> QED BY <1>1, <1>2, PTL

\* wait_for_completion does not miss the interrupt: whoever sleeps on the
\* revoker's futex word does so while a sweep runs at whose end it will be
\* woken.
THEOREM NoLostInterrupt ==
    ASSUME Constants
    PROVE  Spec => []InterruptWillCome
<1>1. QuarantineInv => InterruptWillCome
  BY DEF QuarantineInv, Asking, InterruptWillCome
<1>2. Spec => []QuarantineInv
  BY QuarantineAlways
<1> QED BY <1>1, <1>2, PTL
=============================================================================
