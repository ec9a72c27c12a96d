-------------------------- MODULE QuarantineSteps ---------------------------
(***************************************************************************)
(* Proofs about the quarantine, second part: the inductive invariant, and  *)
(* the steps of the revoker, of the mutators, of threads that wait or      *)
(* lock, and of a flush.                                                   *)
(***************************************************************************)
EXTENDS QuarantineHeap

---------------------------------------------------------------------------
(* The threads *)

PCs == {"user", "paint", "epoch", "push", "dequeue", "value", "look", "request", "look again",
        "kick", "sleep", "failed", "relock", "done"}
LocalVars ==
    [op : {"none", "free", "malloc", "retry", "flush", "flushed"}, chunk : Chunks \cup {None},
     epoch : Epochs, value : Nat, loops : Nat, dequeued : Nat, before : SUBSET Chunks]

Typed ==
    /\ mem \in Mem
    /\ pc \in [Threads -> PCs]
    /\ local \in [Threads -> LocalVars]
    /\ asleep \in [Threads -> {"no", "irq"}]
    /\ history \in Nat

Sweeps ==
    /\ Since(mem.epoch) = 2 * history + (mem.epoch % 2)
    /\ history + (mem.epoch % 2) <= MaxPasses

\* A thread that visits the quarantine has the lock; a chunk on its way into the
\* quarantine is nowhere else, is painted before the epoch is read, and its
\* epoch is not older than that of the youngest ring.
Locking == {"paint", "epoch", "push", "dequeue"}
Filing(t) ==
    /\ pc[t] \in Locking => mem.lock = t
    /\ pc[t] \in {"paint", "epoch", "push"} =>
         /\ local[t].op = "free"
         /\ local[t].chunk \in Chunks \ (mem.free \cup Held(mem))
    /\ pc[t] \in {"epoch", "push"} => local[t].chunk \in mem.painted
    /\ pc[t] = "push" =>
         /\ local[t].epoch % 2 = 0
         /\ Since(local[t].epoch) <= Since(mem.epoch) + 1
         /\ ~mem.ring.empty => Since(mem.pendingEpoch[mem.ring.tail]) <= Since(local[t].epoch)
         /\ Cleared(mem, local[t].chunk, local[t].epoch)

\* What a flush still has to see leave is in the quarantine, under an epoch up
\* to the one it waits for; and it is done with the wait when that is past.
Flushing(t) ==
    /\ \A c \in local[t].before : FiledBefore(mem, c, local[t].epoch)
    /\ local[t].op \in {"flush", "flushed"} => Since(local[t].epoch) <= Since(mem.epoch) + 1
    /\ local[t].op \notin {"flush", "flushed"} => local[t].before = {}
    /\ local[t].op = "flushed" \/ (local[t].op = "flush" /\ pc[t] = "relock")
         => Since(mem.epoch) > Since(local[t].epoch) + 1
    /\ local[t].op = "flushed" /\ pc[t] = "dequeue" /\ local[t].loops = 0 /\ local[t].dequeued = 0
         => local[t].before = {}
    /\ pc[t] = "done" => local[t].before = {}

\* The futex word that a waiter read is not newer than the word; when it is
\* still the same, the interrupt that the waiter asked for has not come yet.
Asking(t) ==
    /\ pc[t] \in {"look", "request", "look again", "kick", "sleep"} => local[t].value <= mem.irq
    /\ pc[t] \in {"look again", "kick", "sleep"} /\ local[t].value = mem.irq => mem.requested
    /\ pc[t] = "sleep" /\ local[t].value = mem.irq => Running
    /\ asleep[t] = "irq" => Running /\ mem.requested

QuarantineInv ==
    /\ Typed /\ Sweeps /\ Heap(mem) /\ NonEmpty(mem)
    /\ \A t \in Threads : Filing(t) /\ Flushing(t) /\ Asking(t)

\* What a step of another thread, or of the revoker, leaves of a thread's own.
Untouched(u) ==
    /\ pc'[u] = pc[u]
    /\ local'[u].op = local[u].op /\ local'[u].epoch = local[u].epoch
    /\ local'[u].value = local[u].value /\ local'[u].chunk = local[u].chunk
    /\ local'[u].loops = local[u].loops /\ local'[u].dequeued = local[u].dequeued
    /\ local'[u].before \subseteq local[u].before

\* The revoker has gone on, but has not finished a sweep that was asked for.
SweepsOn ==
    /\ mem.epoch \in Epochs /\ mem'.epoch \in Epochs
    /\ Since(mem'.epoch) >= Since(mem.epoch)
    /\ mem'.irq = mem.irq
    /\ mem.requested => mem'.requested
    /\ Running => Running'

\* What heap_quarantine_flush knows survives the steps of others that take
\* chunks out of the quarantine or the revoker further.
LEMMA FlushingFrame ==
    ASSUME Constants, NEW u \in Threads, Flushing(u), Untouched(u),
           mem.epoch \in Epochs, mem'.epoch \in Epochs, local[u].epoch \in Epochs,
           Since(mem'.epoch) >= Since(mem.epoch),
           \A c \in local'[u].before : FiledBefore(mem, c, local[u].epoch)
                                          => FiledBefore(mem', c, local[u].epoch)
    PROVE  Flushing(u)'
<1>1. Since(mem'.epoch) \in Int /\ Since(mem.epoch) \in Int /\ Since(local[u].epoch) \in Int
  BY SinceType DEF Epochs
<1>2. \A c \in local'[u].before : FiledBefore(mem', c, local[u].epoch)
  BY DEF Flushing, Untouched
<1> QED BY <1>1, <1>2 DEF Flushing, Untouched

\* What a thread in wait_for_completion knows survives the steps of others
\* until the sweep ends.
LEMMA AskingFrame ==
    ASSUME NEW u \in Threads, Asking(u), Untouched(u), asleep'[u] = asleep[u], SweepsOn
    PROVE  Asking(u)'
BY DEF Asking, Untouched, SweepsOn, Running

\* Other threads while t, which has the lock or takes it, takes a step.
LEMMA LockedFrame ==
    ASSUME Constants, NEW t \in Threads, NEW u \in Threads, u # t,
           Filing(u), Flushing(u), Asking(u), Untouched(u), asleep'[u] = asleep[u], SweepsOn,
           local[u].epoch \in Epochs, mem.lock \in {"free", t},
           \A c \in local'[u].before : FiledBefore(mem, c, local[u].epoch)
                                          => FiledBefore(mem', c, local[u].epoch)
    PROVE  (Filing(u) /\ Flushing(u) /\ Asking(u))'
<1>1. pc[u] \notin Locking
  BY DEF Filing, Constants
<1>2. Filing(u)'
  BY <1>1 DEF Filing, Untouched, Locking
<1>3. Flushing(u)'
  BY FlushingFrame DEF SweepsOn
<1>4. Asking(u)'
  BY AskingFrame
<1> QED BY <1>2, <1>3, <1>4

\* A thread while the revoker, or a thread without the lock, takes a step.
LEMMA UnlockedFrame ==
    ASSUME Constants, NEW u \in Threads, Filing(u), Flushing(u), Untouched(u),
           mem.epoch \in Epochs, mem'.epoch \in Epochs, local[u].epoch \in Epochs,
           Since(mem'.epoch) >= Since(mem.epoch),
           SameRings(mem, mem'), SameChunks(mem, mem'), mem'.lock = mem.lock,
           mem'.painted = mem.painted,
           pc[u] = "push" /\ Cleared(mem, local[u].chunk, local[u].epoch)
               => Cleared(mem', local[u].chunk, local[u].epoch)
    PROVE  (Filing(u) /\ Flushing(u))'
<1>1. Since(mem'.epoch) \in Int /\ Since(mem.epoch) \in Int /\ Since(local[u].epoch) \in Int
  BY SinceType DEF Epochs
<1>2. Held(mem') = Held(mem)
  BY DEF Held, SameRings, SameChunks
<1>3. Filing(u)'
  BY <1>1, <1>2 DEF Filing, Untouched, SameRings, SameChunks
<1>4. Flushing(u)'
  BY FlushingFrame DEF FiledBefore, SameRings, SameChunks
<1> QED BY <1>3, <1>4

---------------------------------------------------------------------------
(* The steps preserve the invariant: first the revoker and the mutators *)

\* A store to memory by the revoker or by a thread, the load barrier in
\* between, preserves the invariant.
LEMMA StoreInv ==
    ASSUME Constants, QuarantineInv, NEW v \in Words, NEW w \in Words, NEW swept \in SUBSET Words,
           swept = mem.swept \/ swept = mem.swept \cup {w},
           mem' = [mem EXCEPT !.words[w] = Load(mem.words[v]), !.swept = swept],
           UNCHANGED <<pc, local, asleep, history>>
    PROVE  QuarantineInv'
<1> DEFINE x == Load(mem.words[v])
<1>1. mem \in Mem /\ mem.words \in [Words -> Chunks \cup {None}] /\ mem.epoch \in Epochs
  BY DEF QuarantineInv, Typed, Mem
<1>2. x \in Chunks \cup {None} /\ (x = None \/ (x = mem.words[v] /\ x \notin mem.painted))
  BY <1>1 DEF Load
<1> HIDE DEF x
<1> DEFINE words == [mem.words EXCEPT ![w] = x]
<1>3. words \in [Words -> Chunks \cup {None}] /\ mem' = [mem EXCEPT !.words = words, !.swept = swept]
  BY <1>1, <1>2 DEF x
<1> HIDE DEF words
<1>4. /\ mem' \in Mem /\ SameRings(mem, mem') /\ SameChunks(mem, mem') /\ mem'.epoch = mem.epoch
      /\ mem'.painted = mem.painted /\ mem'.words = words
      /\ mem'.swept = swept /\ mem'.lock = mem.lock
      /\ mem'.irq = mem.irq /\ mem'.requested = mem.requested
  BY <1>1, <1>3 DEF Mem, SameRings, SameChunks
<1>5. /\ Heap(mem')
      /\ \A c \in mem.painted \cap Chunks : \A e : Cleared(mem, c, e) => Cleared(mem', c, e)
  <2>1. Heap(mem)
    BY DEF QuarantineInv
  <2>2. mem'.words[w] = x /\ \A u \in Words : u # w => mem'.words[u] = mem.words[u]
    BY <1>1, <1>4 DEF words
  <2>3. x # None => x \notin mem.painted /\ \E y \in Words : x = mem.words[y]
    BY <1>2
  <2>4. /\ mem \in Mem /\ mem' \in Mem /\ SameRings(mem, mem') /\ SameChunks(mem, mem')
        /\ mem'.epoch = mem.epoch /\ mem'.painted = mem.painted
        /\ mem'.swept = mem.swept \/ mem'.swept = mem.swept \cup {w}
    BY <1>1, <1>4
  <2>5. mem'.words[w] # None => mem'.words[w] \notin mem.painted
                                /\ \E y \in Words : mem'.words[w] = mem.words[y]
    BY <2>2, <2>3
  <2> QED BY <2>1, <2>2, <2>4, <2>5, HeapStored
<1>6. NonEmpty(mem') /\ Typed' /\ Sweeps'
  BY <1>4 DEF QuarantineInv, Typed, Sweeps, NonEmpty, InUse, SameRings
<1>7. ASSUME NEW u \in Threads PROVE (Filing(u) /\ Flushing(u) /\ Asking(u))'
  <2>1. Filing(u) /\ Flushing(u) /\ Asking(u) /\ local[u] \in LocalVars
    BY DEF QuarantineInv, Typed
  <2>2. Untouched(u) /\ local[u].epoch \in Epochs
    BY <2>1 DEF Untouched, LocalVars
  <2>3. SweepsOn
    BY <1>1, <1>4, SinceType DEF SweepsOn, Running, Epochs
  <2>4. pc[u] = "push" => local[u].chunk \in mem.painted \cap Chunks
    BY <2>1 DEF Filing
  <2>5. (Filing(u) /\ Flushing(u))'
    BY <1>4, <1>5, <2>1, <2>2, <2>3, <2>4, UnlockedFrame DEF SweepsOn
  <2> QED BY <2>1, <2>2, <2>3, <2>5, AskingFrame
<1> QED BY <1>5, <1>6, <1>7 DEF QuarantineInv

\* Sweeping one word preserves the invariant.
LEMMA SweepInv ==
    ASSUME Constants, QuarantineInv, NEW w \in Words, Sweep(w)
    PROVE  QuarantineInv'
<1> DEFINE swept == mem.swept \cup {w}
<1>1. mem \in Mem
  BY DEF QuarantineInv, Typed
<1>2. swept \in SUBSET Words
  BY <1>1 DEF Mem
<1>3. mem' = [mem EXCEPT !.words[w] = Load(mem.words[w]), !.swept = swept]
  BY DEF Sweep
<1>4. UNCHANGED <<pc, local, asleep, history>>
  BY DEF Sweep
<1> QED BY <1>2, <1>3, <1>4, StoreInv

\* A thread that copies a capability preserves the invariant.
LEMMA CopyInv ==
    ASSUME Constants, QuarantineInv, NEW v \in Words, NEW w \in Words, Copy(v, w)
    PROVE  QuarantineInv'
<1>1. mem \in Mem
  BY DEF QuarantineInv, Typed
<1>2. mem.swept \in SUBSET Words
  BY <1>1 DEF Mem
<1>3. mem' = [mem EXCEPT !.words[w] = Load(mem.words[v]), !.swept = mem.swept]
  BY <1>1 DEF Copy, Mem
<1>4. UNCHANGED <<pc, local, asleep, history>>
  BY DEF Copy
<1> QED BY <1>2, <1>3, <1>4, StoreInv

\* The end of a sweep, with the interrupt to those who asked for it,
\* preserves the invariant.
LEMMA SweepEndsInv ==
    ASSUME Constants, QuarantineInv, SweepEnds
    PROVE  QuarantineInv'
<1>1. mem \in Mem /\ mem.epoch \in Epochs /\ mem.irq \in Nat /\ mem.epoch % 2 = 1
      /\ mem.requested \in BOOLEAN
  BY DEF QuarantineInv, Typed, Mem, SweepEnds, Running
<1>2. Since(mem.epoch) < 2 * MaxPasses /\ Since(mem.epoch) + 1 < EpochWrap /\ Since(mem.epoch) \in Nat
      /\ history \in Nat
  <2>1. Since(mem.epoch) \in Nat /\ history \in Nat
    BY <1>1, SinceType DEF QuarantineInv, Typed, Epochs
  <2>2. Since(mem.epoch) = 2 * history + 1 /\ history + 1 <= MaxPasses
    BY <1>1 DEF QuarantineInv, Sweeps
  <2> QED BY <2>1, <2>2 DEF Constants
<1> DEFINE next == (mem.epoch + 1) % EpochWrap
           irq == IF mem.requested THEN mem.irq + 1 ELSE mem.irq
<1>3. next \in Epochs /\ Since(next) = Since(mem.epoch) + 1
  BY <1>1, <1>2, SinceNext
<1>4. irq \in Nat
  BY <1>1
<1>5. mem' = [mem EXCEPT !.epoch = next, !.requested = FALSE, !.irq = irq]
  BY <1>1 DEF SweepEnds, Mem
<1> HIDE DEF next, irq
<1>6. /\ mem' \in Mem /\ SameRings(mem, mem') /\ SameChunks(mem, mem') /\ mem'.epoch = next
      /\ mem'.painted = mem.painted /\ mem'.words = mem.words
      /\ mem'.swept = mem.swept /\ mem'.lock = mem.lock
      /\ mem'.irq = irq /\ mem'.requested = FALSE
  BY <1>1, <1>3, <1>4, <1>5 DEF Mem, SameRings, SameChunks
<1>7. /\ Heap(mem')
      /\ \A c : \A e \in Epochs : e % 2 = 0 /\ Cleared(mem, c, e) => Cleared(mem', c, e)
  BY <1>1, <1>2, <1>6, HeapSweepEnds DEF QuarantineInv, SweepEnds, next
<1>8. NonEmpty(mem')
  BY <1>6 DEF QuarantineInv, NonEmpty, InUse, SameRings
<1>9. Typed'
  BY <1>6, <1>2 DEF QuarantineInv, Typed, SweepEnds, NotifyAll
<1>10. Sweeps'
  <2>1. next % 2 = 0
    <3>1. Since(next) % 2 = next % 2 /\ Since(mem.epoch) % 2 = 1
      BY <1>1, <1>3, SinceType
    <3> QED BY <1>2, <1>3, <3>1
  <2> QED BY <1>1, <1>2, <1>3, <1>6, <2>1 DEF QuarantineInv, Sweeps, SweepEnds
<1>11. ASSUME NEW u \in Threads PROVE (Filing(u) /\ Flushing(u) /\ Asking(u))'
  <2>1. Filing(u) /\ Flushing(u) /\ Asking(u) /\ local[u] \in LocalVars
    BY DEF QuarantineInv, Typed
  <2>2. local[u].epoch \in Epochs /\ local[u].value \in Nat
    BY <2>1 DEF LocalVars
  <2>3. Untouched(u) /\ local'[u] = local[u] /\ pc'[u] = pc[u]
    BY DEF Untouched, SweepEnds
  <2>4. (Filing(u) /\ Flushing(u))'
    <3>1. Since(mem'.epoch) >= Since(mem.epoch) /\ mem'.epoch \in Epochs
      BY <1>2, <1>3, <1>6
    <3>2. pc[u] = "push" => local[u].epoch % 2 = 0
      BY <2>1 DEF Filing
    <3> QED BY <1>1, <1>6, <1>7, <2>1, <2>2, <2>3, <3>1, <3>2, UnlockedFrame
  <2>5. Asking(u)'
    <3>1. CASE mem.requested
      <4>1. asleep'[u] # "irq" /\ mem'.irq = mem.irq + 1
        BY <1>6, <3>1 DEF SweepEnds, NotifyAll, irq
      <4>2. ASSUME pc[u] \in {"look", "request", "look again", "kick", "sleep"}
            PROVE  local'[u].value <= mem'.irq /\ local'[u].value # mem'.irq
        <5>1. local[u].value <= mem.irq /\ mem.irq \in Nat
          BY <1>1, <2>1, <4>2 DEF Asking
        <5> QED BY <2>2, <2>3, <4>1, <5>1
      <4> QED BY <2>3, <4>1, <4>2 DEF Asking
    <3>2. CASE ~mem.requested
      <4>1. asleep'[u] = asleep[u] /\ mem'.irq = mem.irq
        BY <1>6, <3>2 DEF SweepEnds, irq
      <4> QED BY <1>1, <2>1, <2>2, <2>3, <3>2, <4>1 DEF Asking
    <3> QED BY <3>1, <3>2
  <2> QED BY <2>4, <2>5
<1> QED BY <1>7, <1>8, <1>9, <1>10, <1>11 DEF QuarantineInv

---------------------------------------------------------------------------
(* Steps of threads *)

\* Steps that leave the quarantine and the memory as they are, but may kick the
\* revoker.
KickOrNot ==
    \/ SameSweep(mem, mem')
    \/ /\ mem.epoch % 2 = 0 /\ history < MaxPasses
       /\ mem'.epoch = (mem.epoch + 1) % EpochWrap /\ mem'.swept = {}
Quiet(t) ==
    /\ mem' \in Mem /\ SameRings(mem, mem') /\ SameChunks(mem, mem')
    /\ mem'.words = mem.words /\ mem'.painted = mem.painted
    /\ mem'.irq = mem.irq /\ (mem.requested => mem'.requested)
    /\ KickOrNot
    /\ mem'.lock = mem.lock \/ mem.lock \in {"free", t}
    /\ history' = history

\* Only t's own variables change.
OnlyMine(t) ==
    /\ pc' \in [Threads -> PCs] /\ local' \in [Threads -> LocalVars]
    /\ asleep' \in [Threads -> {"no", "irq"}]
    /\ \A u \in Threads : u # t => /\ pc'[u] = pc[u] /\ asleep'[u] = asleep[u]
                                    /\ local'[u] = local[u]

\* A step that at most takes or releases the lock, asks for the interrupt and
\* kicks the revoker keeps the heap in order.
LEMMA QuietHeap ==
    ASSUME Constants, QuarantineInv, NEW t \in Threads, Quiet(t)
    PROVE  /\ SweepsOn /\ Sweeps' /\ Heap(mem') /\ NonEmpty(mem') /\ Held(mem') = Held(mem)
           /\ \A c : \A e \in Epochs : e % 2 = 0 /\ Cleared(mem, c, e) => Cleared(mem', c, e)
           /\ \A c, e : FiledBefore(mem, c, e) => FiledBefore(mem', c, e)
<1>1. mem \in Mem /\ mem' \in Mem /\ mem.epoch \in Epochs /\ mem'.epoch \in Epochs
      /\ history \in Nat /\ history' = history
  BY DEF QuarantineInv, Typed, Mem, Quiet
<1>2. Since(mem.epoch) \in Nat /\ Since(mem'.epoch) \in Nat
  BY <1>1, SinceType DEF Epochs
<1>3. Heap(mem) /\ NonEmpty(mem) /\ Sweeps
  BY DEF QuarantineInv
<1>4. NonEmpty(mem') /\ Held(mem') = Held(mem)
  BY <1>3 DEF NonEmpty, InUse, Held, Quiet, SameRings, SameChunks
<1>5. \A c, e : FiledBefore(mem, c, e) => FiledBefore(mem', c, e)
  BY DEF FiledBefore, Quiet, SameRings, SameChunks
<1>6. CASE SameSweep(mem, mem')
  <2>1. Heap(mem') /\ \A c, e : Cleared(mem, c, e) => Cleared(mem', c, e)
    BY <1>3, <1>6, HeapSame DEF Quiet
  <2>2. SweepsOn /\ Sweeps'
    BY <1>1, <1>2, <1>3, <1>6 DEF SweepsOn, Sweeps, Running, Quiet, SameSweep
  <2> QED BY <1>4, <1>5, <2>1, <2>2
<1>7. CASE /\ mem.epoch % 2 = 0 /\ history < MaxPasses
           /\ mem'.epoch = (mem.epoch + 1) % EpochWrap /\ mem'.swept = {}
  <2>1. Since(mem.epoch) = 2 * history /\ Since(mem.epoch) < 2 * MaxPasses
    BY <1>1, <1>3, <1>7 DEF Sweeps, Constants
  <2>2. /\ Heap(mem') /\ Since(mem'.epoch) = Since(mem.epoch) + 1
        /\ \A c : \A e \in Epochs : e % 2 = 0 /\ Cleared(mem, c, e) => Cleared(mem', c, e)
    BY <1>1, <1>3, <1>7, <2>1, HeapKicked DEF Quiet
  <2>3. mem'.epoch % 2 = 1
    <3>1. Since(mem'.epoch) % 2 = mem'.epoch % 2
      BY <1>1, SinceType
    <3> QED BY <1>1, <2>1, <2>2, <3>1
  <2>4. SweepsOn
    BY <1>1, <1>2, <1>7, <2>2 DEF SweepsOn, Running, Quiet
  <2>5. Sweeps'
    BY <1>1, <1>7, <2>1, <2>2, <2>3 DEF Sweeps, Constants
  <2> QED BY <1>4, <1>5, <2>2, <2>4, <2>5
<1> QED BY <1>6, <1>7 DEF Quiet, KickOrNot

\* Such a step of one thread preserves the invariant if it preserves what
\* concerns that thread.
LEMMA QuietInv ==
    ASSUME Constants, QuarantineInv, NEW t \in Threads, Quiet(t), OnlyMine(t),
           (Filing(t) /\ Flushing(t) /\ Asking(t))'
    PROVE  QuarantineInv'
<1>1. SweepsOn /\ Sweeps' /\ Heap(mem') /\ NonEmpty(mem')
  BY QuietHeap
<1>2. Typed'
  BY DEF QuarantineInv, Typed, Quiet, OnlyMine
<1>3. ASSUME NEW u \in Threads, u # t PROVE (Filing(u) /\ Flushing(u) /\ Asking(u))'
  <2>1. Filing(u) /\ Flushing(u) /\ Asking(u) /\ local[u] \in LocalVars
    BY DEF QuarantineInv, Typed
  <2>2. Untouched(u) /\ asleep'[u] = asleep[u] /\ local[u].epoch \in Epochs
    BY <1>3, <2>1 DEF OnlyMine, Untouched, LocalVars
  <2>3. CASE mem'.lock = mem.lock
    <3>1. pc[u] = "push" => local[u].epoch % 2 = 0
      BY <2>1 DEF Filing
    <3>2. (Filing(u) /\ Flushing(u))'
      BY <1>1, <2>1, <2>2, <2>3, <3>1, QuietHeap, UnlockedFrame DEF Quiet, SweepsOn
    <3> QED BY <1>1, <2>1, <2>2, <3>2, AskingFrame
  <2>4. CASE mem.lock \in {"free", t}
    BY <1>1, <1>3, <2>1, <2>2, <2>4, QuietHeap, LockedFrame
  <2> QED BY <2>3, <2>4 DEF Quiet
<1> QED BY <1>1, <1>2, <1>3 DEF QuarantineInv

\* The same for the steps of the thread that has the lock.
LEMMA LockedInv ==
    ASSUME Constants, QuarantineInv, NEW t \in Threads, mem.lock = t,
           Typed', Sweeps', Heap(mem'), NonEmpty(mem'), SweepsOn,
           \A u \in Threads : u # t => /\ Untouched(u) /\ asleep'[u] = asleep[u]
                                       /\ \A c \in local'[u].before :
                                            FiledBefore(mem, c, local[u].epoch)
                                              => FiledBefore(mem', c, local[u].epoch),
           (Filing(t) /\ Flushing(t) /\ Asking(t))'
    PROVE  QuarantineInv'
<1>1. ASSUME NEW u \in Threads, u # t PROVE (Filing(u) /\ Flushing(u) /\ Asking(u))'
  <2>1. Filing(u) /\ Flushing(u) /\ Asking(u) /\ local[u] \in LocalVars
    BY DEF QuarantineInv, Typed
  <2>2. local[u].epoch \in Epochs
    BY <2>1 DEF LocalVars
  <2> QED BY <1>1, <2>1, <2>2, LockedFrame
<1> QED BY <1>1 DEF QuarantineInv

\* The steps that change mem.lock, and may kick the revoker.
LEMMA LockQuiet ==
    ASSUME Constants, QuarantineInv, NEW t \in Threads, NEW l \in Threads \cup {"free"},
           \/ mem' = [mem EXCEPT !.lock = l]
           \/ mem' = [Kicked(mem) EXCEPT !.lock = l],
           l = mem.lock \/ mem.lock \in {"free", t},
           history' = history
    PROVE  Quiet(t) /\ mem'.lock = l /\ mem'.requested = mem.requested
<1>1. mem \in Mem /\ mem.epoch \in Epochs /\ history \in Nat
  BY DEF QuarantineInv, Typed, Mem
<1>2. CASE mem' = [mem EXCEPT !.lock = l]
  BY <1>1, <1>2 DEF Mem, Quiet, KickOrNot, SameRings, SameChunks, SameSweep
<1>3. CASE mem' # [mem EXCEPT !.lock = l] /\ mem' = [Kicked(mem) EXCEPT !.lock = l]
  <2> DEFINE next == (mem.epoch + 1) % EpochWrap
  <2>1. /\ mem.epoch % 2 # 1 /\ ~(history >= MaxPasses)
        /\ mem' = [mem EXCEPT !.epoch = next, !.swept = {}, !.lock = l]
    BY <1>1, <1>3 DEF Kicked, Mem
  <2>2. mem.epoch % 2 = 0 /\ history < MaxPasses
    BY <1>1, <2>1 DEF Constants, Epochs
  <2>3. next \in Epochs
    <3>1. Since(mem.epoch) \in Nat /\ Since(mem.epoch) = 2 * history + 0
      BY <1>1, <2>2, SinceType DEF QuarantineInv, Sweeps, Epochs
    <3>2. Since(mem.epoch) + 1 < EpochWrap
      BY <1>1, <2>2, <3>1 DEF Constants
    <3> QED BY <1>1, <3>2, SinceNext
  <2> HIDE DEF next
  <2>4. /\ mem' \in Mem /\ SameRings(mem, mem') /\ SameChunks(mem, mem')
        /\ mem'.words = mem.words /\ mem'.painted = mem.painted
        /\ mem'.irq = mem.irq /\ mem'.requested = mem.requested
        /\ mem'.epoch = next /\ mem'.swept = {} /\ mem'.lock = l
    BY <1>1, <2>1, <2>3 DEF Mem, SameRings, SameChunks
  <2> QED BY <2>2, <2>4 DEF Quiet, KickOrNot, next
<1> QED BY <1>2, <1>3

\* A step that leaves the shared object alone is of that kind.
LEMMA UnchangedQuiet ==
    ASSUME QuarantineInv, NEW t \in Threads, mem' = mem, history' = history
    PROVE  Quiet(t)
BY DEF Quiet, KickOrNot, SameRings, SameChunks, SameSweep, QuarantineInv, Typed

\* A step of one thread to another place, with new locals, changes nothing of
\* the others.
LEMMA Mine ==
    ASSUME QuarantineInv, NEW t \in Threads, NEW p \in PCs, NEW r \in LocalVars,
           pc' = [pc EXCEPT ![t] = p], local' = [local EXCEPT ![t] = r], asleep' = asleep
    PROVE  OnlyMine(t) /\ pc'[t] = p /\ local'[t] = r /\ asleep'[t] = asleep[t]
BY DEF OnlyMine, QuarantineInv, Typed

\* Outside mspace_free and the visits there is nothing to file.
LEMMA FilingNot ==
    ASSUME NEW t, pc'[t] \notin Locking
    PROVE  Filing(t)'
BY DEF Filing, Locking

\* Outside heap_quarantine_flush there is nothing to flush.
LEMMA FlushingNot ==
    ASSUME NEW t, local'[t].before = {}, local'[t].op \notin {"flush", "flushed"}
    PROVE  Flushing(t)'
BY DEF Flushing

\* Outside wait_for_completion there is nothing to wait for.
LEMMA AskingNot ==
    ASSUME NEW t, pc'[t] \notin {"look", "request", "look again", "kick", "sleep"},
           asleep'[t] = "no"
    PROVE  Asking(t)'
BY DEF Asking

\* The two ways to say what is in the quarantine agree.
LEMMA QuarantinedHeld == Quarantined = Held(mem)
<1>1. 0 .. QuarantineRings - 1 = {0, 1}
  BY DEF QuarantineRings
<1>2. UNION {Elements(mem.pending[i]) : i \in 0 .. QuarantineRings - 1}
        = Elements(mem.pending[0]) \cup Elements(mem.pending[1])
  <2> DEFINE E(i) == Elements(mem.pending[i])
  <2> HIDE DEF E
  <2>1. UNION {E(i) : i \in 0 .. QuarantineRings - 1} = E(0) \cup E(1)
    BY <1>1
  <2> QED BY <2>1 DEF E
<1> QED BY <1>2 DEF Quarantined, Held

\* A call begins with locals of their types.
LEMMA LocalsType ==
    ASSUME Constants
    PROVE  /\ Locals \in LocalVars /\ Locals.before = {} /\ Locals.op = "none"
           /\ Locals.loops = 0 /\ Locals.dequeued = 0
           /\ DequeueOnMalloc = 4 /\ DequeueOnFree = 3
<1>1. 0 \in Epochs
  BY DEF Constants, Epochs
<1> QED BY <1>1 DEF Locals, LocalVars, DequeueOnMalloc, DequeueOnFree

\* heap_free takes the lock for a chunk that is in no other place.
LEMMA FreeInv ==
    ASSUME Constants, QuarantineInv, NEW t \in Threads, NEW c \in Chunks, Free(t, c)
    PROVE  QuarantineInv'
<1> DEFINE r == [Locals EXCEPT !.op = "free", !.chunk = c]
<1>1. r \in LocalVars /\ r.op = "free" /\ r.chunk = c /\ r.before = {}
  BY LocalsType DEF LocalVars
<1>2. Quiet(t) /\ mem'.lock = t
  BY LockQuiet, ZenonT(60) DEF Free
<1>3. OnlyMine(t) /\ pc'[t] = "paint" /\ local'[t] = r /\ asleep'[t] = "no"
  BY <1>1, Mine DEF Free, Goto, At, PCs
<1> HIDE DEF r
<1>4. c \notin mem.free \cup Held(mem)
  BY QuarantinedHeld DEF Free, Allocated
<1>5. Filing(t)'
  <2>1. mem'.free = mem.free /\ Held(mem') = Held(mem)
    BY <1>2, QuietHeap DEF Quiet, SameChunks
  <2> QED BY <1>1, <1>2, <1>3, <1>4, <2>1 DEF Filing
<1>6. Flushing(t)' /\ Asking(t)'
  BY <1>1, <1>3, FlushingNot, AskingNot
<1> QED BY <1>2, <1>3, <1>5, <1>6, QuietInv

\* heap_allocate takes the lock and visits the quarantine.
LEMMA AllocateInv ==
    ASSUME Constants, QuarantineInv, NEW t \in Threads, Allocate(t)
    PROVE  QuarantineInv'
<1> DEFINE r == [Locals EXCEPT !.op = "malloc", !.loops = DequeueOnMalloc]
<1>1. r \in LocalVars /\ r.op = "malloc" /\ r.before = {}
  <2>1. DequeueOnMalloc \in Nat
    BY LocalsType
  <2> QED BY <2>1, LocalsType DEF LocalVars
<1>2. Quiet(t) /\ mem'.lock = t
  BY LockQuiet, ZenonT(60) DEF Allocate
<1>3. OnlyMine(t) /\ pc'[t] = "dequeue" /\ local'[t] = r /\ asleep'[t] = "no"
  BY <1>1, Mine DEF Allocate, Goto, At, PCs
<1> HIDE DEF r
<1>4. Filing(t)'
  BY <1>2, <1>3 DEF Filing
<1>5. Flushing(t)' /\ Asking(t)'
  BY <1>1, <1>3, FlushingNot, AskingNot
<1> QED BY <1>2, <1>3, <1>4, <1>5, QuietInv

\* A call returns, and the thread's locals die.
LEMMA ReturnInv ==
    ASSUME Constants, QuarantineInv, NEW t \in Threads, Quiet(t), asleep[t] = "no",
           local' = [local EXCEPT ![t] = Locals], Goto(t, "user"), asleep' = asleep
    PROVE  QuarantineInv'
<1>1. OnlyMine(t) /\ pc'[t] = "user" /\ local'[t] = Locals /\ asleep'[t] = "no"
  BY LocalsType, Mine DEF Goto, PCs
<1>2. Filing(t)' /\ Flushing(t)' /\ Asking(t)'
  <2>1. local'[t].before = {} /\ local'[t].op = "none"
    BY <1>1, LocalsType
  <2> QED BY <1>1, <2>1, FilingNot, FlushingNot, AskingNot DEF Locking
<1> QED BY <1>1, <1>2, QuietInv

\* A caller of heap_quarantine_flush goes on with what it has to see leave.
LEMMA FlushingMoves ==
    ASSUME Constants, QuarantineInv, NEW t \in Threads, Quiet(t),
           local'[t].op = local[t].op, local'[t].epoch = local[t].epoch,
           local'[t].before = local[t].before,
           pc'[t] \notin {"relock", "done"}, pc'[t] = "dequeue" => local'[t].loops # 0
    PROVE  Flushing(t)'
<1>1. Flushing(t) /\ local[t].epoch \in Epochs
  BY DEF QuarantineInv, Typed, LocalVars
<1>2. /\ mem.epoch \in Epochs /\ mem'.epoch \in Epochs /\ Since(mem'.epoch) >= Since(mem.epoch)
      /\ \A c, e : FiledBefore(mem, c, e) => FiledBefore(mem', c, e)
  BY QuietHeap DEF SweepsOn
<1>3. Since(mem.epoch) \in Int /\ Since(mem'.epoch) \in Int /\ Since(local[t].epoch) \in Int
  BY <1>1, <1>2, SinceType DEF Epochs
<1> QED BY <1>1, <1>2, <1>3 DEF Flushing

\* The end of mspace_free, with or without a kick.
LEMMA FreeEndsInv ==
    ASSUME Constants, QuarantineInv, NEW t \in Threads, FreeEnds(t)
    PROVE  QuarantineInv'
<1>1. mem.lock = t
  BY DEF FreeEnds, At, QuarantineInv, Filing, Locking
<1>2. Quiet(t)
  BY <1>1, LockQuiet DEF FreeEnds
<1> QED BY <1>2, ReturnInv DEF FreeEnds, At

\* heap_quarantine_flush returns.
LEMMA FlushReturnsInv ==
    ASSUME Constants, QuarantineInv, NEW t \in Threads, FlushReturns(t)
    PROVE  QuarantineInv'
BY UnchangedQuiet, ReturnInv DEF FlushReturns, At

\* A call whose wait has failed returns.
LEMMA FailedInv ==
    ASSUME Constants, QuarantineInv, NEW t \in Threads, Failed(t)
    PROVE  QuarantineInv'
BY UnchangedQuiet, ReturnInv, ZenonT(60) DEF Failed, At

\* wait_for_completion reads the futex word.
LEMMA ReadValueInv ==
    ASSUME Constants, QuarantineInv, NEW t \in Threads, ReadValue(t)
    PROVE  QuarantineInv'
<1> DEFINE r == [local[t] EXCEPT !.value = mem.irq]
<1>1. /\ r \in LocalVars /\ r.op = local[t].op /\ r.epoch = local[t].epoch
      /\ r.before = local[t].before /\ r.value = mem.irq /\ mem.irq \in Nat
  <2>1. local[t] \in LocalVars /\ mem.irq \in Nat
    BY DEF QuarantineInv, Typed, Mem
  <2> QED BY <2>1 DEF LocalVars
<1>2. local' = [local EXCEPT ![t] = r]
  BY DEF ReadValue
<1> HIDE DEF r
<1>3. Quiet(t) /\ mem' = mem
  BY UnchangedQuiet DEF ReadValue
<1>4. OnlyMine(t) /\ pc'[t] = "look" /\ local'[t] = r /\ asleep'[t] = "no"
  BY <1>1, <1>2, Mine DEF ReadValue, Goto, At, PCs
<1>5. Filing(t)' /\ Flushing(t)'
  BY <1>1, <1>3, <1>4, FilingNot, FlushingMoves DEF Locking
<1>6. Asking(t)'
  BY <1>1, <1>3, <1>4 DEF Asking
<1> QED BY <1>3, <1>4, <1>5, <1>6, QuietInv

\* A step that goes on without a change of the locals.
LEMMA Goes ==
    ASSUME QuarantineInv, NEW t \in Threads, NEW p \in PCs,
           Goto(t, p), local' = local, asleep' = asleep
    PROVE  OnlyMine(t) /\ pc'[t] = p /\ local'[t] = local[t] /\ asleep'[t] = asleep[t]
BY DEF OnlyMine, QuarantineInv, Typed, Goto

\* It compares the epochs; going on to lock, a flush knows that its epoch is
\* past.
LEMMA LookInv ==
    ASSUME Constants, QuarantineInv, NEW t \in Threads, Look(t)
    PROVE  QuarantineInv'
<1>1. Quiet(t) /\ mem' = mem
  BY UnchangedQuiet DEF Look
<1>2. PICK p \in {"relock", "request", "kick"} :
        /\ p = "relock" <=> HasFinished(local[t].epoch)
        /\ p = "kick" => pc[t] = "look again"
        /\ Goto(t, p)
  BY DEF Look
<1>3. OnlyMine(t) /\ pc'[t] = p /\ local'[t] = local[t] /\ asleep'[t] = "no"
  BY <1>2, Goes DEF Look, PCs
<1>4. Filing(t)'
  BY <1>2, <1>3, FilingNot DEF Locking
<1>5. Asking(t)'
  BY <1>1, <1>2, <1>3 DEF QuarantineInv, Asking, Look
<1>6. Flushing(t)'
  <2>1. CASE p # "relock"
    BY <1>1, <1>2, <1>3, <2>1, FlushingMoves
  <2>2. CASE p = "relock"
    <3>1. Flushing(t) /\ local[t].epoch \in Epochs /\ mem.epoch \in Epochs
          /\ Since(mem.epoch) <= 2 * MaxPasses
      BY DEF QuarantineInv, Typed, LocalVars, Mem, Heap, Rings
    <3>2. local[t].op = "flush" => Since(mem.epoch) > Since(local[t].epoch) + 1
      BY <1>2, <2>2, <3>1, FinishedIff DEF Flushing, HasFinished
    <3> QED BY <1>1, <1>3, <2>2, <3>1, <3>2 DEF Flushing
  <2> QED BY <2>1, <2>2
<1> QED BY <1>1, <1>3, <1>4, <1>5, <1>6, QuietInv

\* It asks for the interrupt.
LEMMA RequestInv ==
    ASSUME Constants, QuarantineInv, NEW t \in Threads, Request(t)
    PROVE  QuarantineInv'
<1>1. mem \in Mem
  BY DEF QuarantineInv, Typed
<1>2. /\ Quiet(t) /\ mem'.requested /\ mem'.irq = mem.irq
  BY <1>1 DEF Request, Mem, Quiet, KickOrNot, SameRings, SameChunks, SameSweep
<1>3. OnlyMine(t) /\ pc'[t] = "look again" /\ local'[t] = local[t] /\ asleep'[t] = "no"
  BY Goes DEF Request, At, PCs
<1>4. Filing(t)' /\ Flushing(t)'
  BY <1>2, <1>3, FilingNot, FlushingMoves DEF Locking
<1>5. Asking(t)'
  BY <1>2, <1>3 DEF QuarantineInv, Asking, Request, At
<1> QED BY <1>2, <1>3, <1>4, <1>5, QuietInv

\* It kicks the revoker: when the interrupt is still to come, a sweep is
\* running.
LEMMA KickInv ==
    ASSUME Constants, QuarantineInv, NEW t \in Threads, Kick(t)
    PROVE  QuarantineInv'
<1>1. mem \in Mem /\ mem.epoch \in Epochs /\ history \in Nat
  BY DEF QuarantineInv, Typed, Mem
<1>2. mem' = [Kicked(mem) EXCEPT !.lock = mem.lock]
  BY <1>1 DEF Kick, Kicked, Mem
<1>3. Quiet(t) /\ mem'.requested = mem.requested /\ mem'.irq = mem.irq
  <2>1. mem.lock \in Threads \cup {"free"} /\ history' = history
    BY <1>1 DEF Mem, Kick
  <2> QED BY <1>2, <2>1, LockQuiet DEF Quiet
<1>4. Running'
  <2>1. CASE mem.epoch % 2 = 1
    BY <2>1 DEF Kick, Kicked, Running
  <2>2. CASE mem.epoch % 2 # 1
    <3>1. history < MaxPasses /\ mem.epoch % 2 = 0
      BY <1>1, <2>2 DEF Kick, Running, Epochs, Constants
    <3>2. mem'.epoch = (mem.epoch + 1) % EpochWrap
      BY <1>1, <2>2, <3>1 DEF Kick, Kicked, Mem, Constants
    <3>3. Since(mem.epoch) \in Nat /\ Since(mem.epoch) + 1 < EpochWrap
      <4>1. Since(mem.epoch) \in Nat /\ Since(mem.epoch) = 2 * history + 0
        BY <1>1, <3>1, SinceType DEF QuarantineInv, Sweeps, Epochs
      <4> QED BY <1>1, <3>1, <4>1 DEF Constants
    <3>4. mem'.epoch \in Epochs /\ Since(mem'.epoch) = Since(mem.epoch) + 1
      BY <1>1, <3>2, <3>3, SinceNext
    <3>5. Since(mem'.epoch) % 2 = mem'.epoch % 2 /\ Since(mem.epoch) % 2 = 0
      BY <1>1, <3>1, <3>4, SinceType
    <3> QED BY <3>3, <3>4, <3>5 DEF Running
  <2> QED BY <2>1, <2>2
<1>5. OnlyMine(t) /\ pc'[t] = "sleep" /\ local'[t] = local[t] /\ asleep'[t] = "no"
  BY Goes DEF Kick, At, PCs
<1>6. Filing(t)' /\ Flushing(t)'
  BY <1>3, <1>5, FilingNot, FlushingMoves DEF Locking
<1>7. Asking(t)'
  BY <1>3, <1>4, <1>5 DEF QuarantineInv, Asking, Kick, At
<1> QED BY <1>3, <1>5, <1>6, <1>7, QuietInv

\* It sleeps only if the futex word has not changed, so that the interrupt is
\* still to come.
LEMMA SleepInv ==
    ASSUME Constants, QuarantineInv, NEW t \in Threads, Sleep(t)
    PROVE  QuarantineInv'
<1>1. Quiet(t) /\ mem' = mem
  BY UnchangedQuiet DEF Sleep
<1>2. /\ OnlyMine(t) /\ pc'[t] = "value" /\ local'[t] = local[t]
      /\ asleep'[t] = "irq" => mem.irq = local[t].value
  BY DEF Sleep, FutexWait, Goto, At, OnlyMine, QuarantineInv, Typed, PCs
<1>3. Filing(t)' /\ Flushing(t)'
  BY <1>1, <1>2, FilingNot, FlushingMoves DEF Locking
<1>4. Asking(t)'
  BY <1>1, <1>2 DEF QuarantineInv, Asking, Sleep, At, Running
<1> QED BY <1>1, <1>2, <1>3, <1>4, QuietInv

\* Its timeout passes.
LEMMA WaitFailsInv ==
    ASSUME Constants, QuarantineInv, NEW t \in Threads, WaitFails(t)
    PROVE  QuarantineInv'
<1>1. Quiet(t)
  BY UnchangedQuiet DEF WaitFails, TimesOut
<1>2. OnlyMine(t) /\ pc'[t] = "failed" /\ local'[t] = local[t] /\ asleep'[t] = "no"
  BY DEF WaitFails, TimesOut, Goto, OnlyMine, QuarantineInv, Typed, PCs
<1>3. Filing(t)' /\ Flushing(t)' /\ Asking(t)'
  BY <1>1, <1>2, FilingNot, FlushingMoves, AskingNot DEF Locking
<1> QED BY <1>1, <1>2, <1>3, QuietInv

\* It takes the allocator's lock again, or fails to.
LEMMA RelockInv ==
    ASSUME Constants, QuarantineInv, NEW t \in Threads, Relock(t)
    PROVE  QuarantineInv'
<1>1. CASE mem.lock = "free"
  <2> DEFINE r == [local[t] EXCEPT !.loops = DequeueOnMalloc, !.dequeued = 0,
                                   !.op = IF @ = "flush" THEN "flushed" ELSE @]
  <2>1. local[t] \in LocalVars /\ DequeueOnMalloc = 4
    BY LocalsType DEF QuarantineInv, Typed
  <2>2. /\ r \in LocalVars /\ r.epoch = local[t].epoch /\ r.before = local[t].before
        /\ r.op = (IF local[t].op = "flush" THEN "flushed" ELSE local[t].op) /\ r.loops = 4
    BY <2>1 DEF LocalVars
  <2>3. local' = [local EXCEPT ![t] = r] /\ Goto(t, "dequeue")
        /\ mem' = [mem EXCEPT !.lock = t]
    BY <1>1 DEF Relock
  <2> HIDE DEF r
  <2>4. Quiet(t) /\ mem'.lock = t
    BY <1>1, <2>3, LockQuiet DEF Relock
  <2>5. OnlyMine(t) /\ pc'[t] = "dequeue" /\ local'[t] = r /\ asleep'[t] = "no"
    BY <2>2, <2>3, Mine DEF Relock, Goto, At, PCs
  <2>6. Filing(t)' /\ Asking(t)'
    BY <2>4, <2>5, AskingNot DEF Filing
  <2>7. Flushing(t)'
    <3>1. mem'.epoch = mem.epoch
      BY <2>3 DEF QuarantineInv, Typed, Mem
    <3>2. Flushing(t) /\ pc[t] = "relock"
      BY DEF QuarantineInv, Relock, At
    <3>3. \A c, e : FiledBefore(mem, c, e) => FiledBefore(mem', c, e)
      BY <2>4, QuietHeap
    <3> QED BY <2>2, <2>5, <3>1, <3>2, <3>3 DEF Flushing
  <2> QED BY <2>4, <2>5, <2>6, <2>7, QuietInv
<1>2. CASE mem.lock # "free"
  <2>1. Quiet(t)
    BY <1>2, UnchangedQuiet DEF Relock
  <2>2. OnlyMine(t) /\ pc'[t] = "failed" /\ local'[t] = local[t] /\ asleep'[t] = "no"
    BY <1>2, Goes DEF Relock, At, PCs
  <2>3. Filing(t)' /\ Flushing(t)' /\ Asking(t)'
    BY <2>1, <2>2, FilingNot, FlushingMoves, AskingNot DEF Locking
  <2> QED BY <2>1, <2>2, <2>3, QuietInv
<1> QED BY <1>1, <1>2

\* The epoch of the system rounded up, by a call of free or of flush.
LEMMA RoundedEpoch ==
    ASSUME Constants, QuarantineInv
    PROVE  LET e == RoundUp(mem.epoch)
           IN  /\ e \in Epochs /\ e % 2 = 0 /\ e = RoundFlush(mem.epoch)
               /\ Since(mem.epoch) <= Since(e) /\ Since(e) <= Since(mem.epoch) + 1
               /\ \A i \in 0 .. 1 : InUse(mem, i) => Since(mem.pendingEpoch[i]) <= Since(e)
<1> DEFINE e == RoundUp(mem.epoch)
<1>1. mem.epoch \in Epochs /\ mem.pendingEpoch \in [0 .. 1 -> Epochs] /\ Heap(mem)
  BY DEF QuarantineInv, Typed, Mem
<1>2. Since(mem.epoch) \in Nat /\ Since(mem.epoch) + 1 < EpochWrap
  <2>1. Since(mem.epoch) \in Nat
    BY <1>1, SinceType DEF Epochs
  <2>2. Since(mem.epoch) <= 2 * MaxPasses
    BY <1>1 DEF Heap, Rings
  <2> QED BY <2>1, <2>2 DEF Constants
<1>3. mem.epoch % 2 = 0 \/ mem.epoch % 2 = 1
  BY <1>1 DEF Epochs, Constants
<1>4. e = RoundFlush(mem.epoch)
  <2>1. CASE mem.epoch % 2 = 0
    <3>1. (mem.epoch + 1) % 2 = 1
      BY <1>1, <2>1 DEF Epochs, Constants
    <3>2. (mem.epoch + 1) - 1 = mem.epoch + 0
      BY <1>1 DEF Epochs, Constants
    <3> QED BY <2>1, <3>1, <3>2 DEF RoundUp, RoundFlush
  <2>2. CASE mem.epoch % 2 = 1
    <3>1. (mem.epoch + 1) % 2 = 0
      BY <1>1, <2>2 DEF Epochs, Constants
    <3>2. (mem.epoch + 1) - 0 = mem.epoch + 1
      BY <1>1 DEF Epochs, Constants
    <3> QED BY <2>2, <3>1, <3>2 DEF RoundUp, RoundFlush
  <2> QED BY <1>3, <2>1, <2>2
<1>5. /\ e \in Epochs
      /\ mem.epoch % 2 = 0 => e = mem.epoch
      /\ mem.epoch % 2 = 1 => Since(e) = Since(mem.epoch) + 1
  BY <1>1, <1>2, SinceRoundUp
<1> HIDE DEF e
<1>6. Since(e) \in Nat /\ Since(e) % 2 = e % 2 /\ Since(mem.epoch) % 2 = mem.epoch % 2
  BY <1>1, <1>5, SinceType DEF Epochs
<1>7. e % 2 = 0 /\ Since(mem.epoch) <= Since(e) /\ Since(e) <= Since(mem.epoch) + 1
  BY <1>2, <1>3, <1>5, <1>6
<1>8. ASSUME NEW i \in 0 .. 1, InUse(mem, i) PROVE Since(mem.pendingEpoch[i]) <= Since(e)
  <2>1. /\ mem.pendingEpoch[i] \in Epochs /\ mem.pendingEpoch[i] % 2 = 0
        /\ Since(mem.pendingEpoch[i]) <= Since(mem.epoch) + 1
    BY <1>1, <1>8 DEF Heap, Rings
  <2>2. Since(mem.pendingEpoch[i]) \in Nat /\ Since(mem.pendingEpoch[i]) % 2 = 0
    BY <2>1, SinceType DEF Epochs
  <2> QED BY <1>2, <1>3, <1>5, <1>6, <1>7, <2>1, <2>2
<1> QED BY <1>4, <1>5, <1>7, <1>8 DEF e

\* mspace_free reads the epoch after painting and rounds it up: the chunk
\* cannot be cleared later than that epoch says.
LEMMA ReadEpochInv ==
    ASSUME Constants, QuarantineInv, NEW t \in Threads, ReadEpoch(t)
    PROVE  QuarantineInv'
<1> DEFINE e == RoundUp(mem.epoch)
           r == [local[t] EXCEPT !.epoch = e]
<1>1. /\ e \in Epochs /\ e % 2 = 0 /\ Since(mem.epoch) <= Since(e) /\ Since(e) <= Since(mem.epoch) + 1
      /\ \A i \in 0 .. 1 : InUse(mem, i) => Since(mem.pendingEpoch[i]) <= Since(e)
  BY RoundedEpoch
<1>2. local' = [local EXCEPT ![t] = r]
  BY DEF ReadEpoch
<1> HIDE DEF e
<1>3. local[t] \in LocalVars /\ mem \in Mem /\ Filing(t) /\ Flushing(t) /\ mem.epoch \in Epochs
  BY DEF QuarantineInv, Typed, Mem
<1>4. /\ r \in LocalVars /\ r.op = local[t].op /\ r.before = local[t].before
      /\ r.epoch = e /\ r.chunk = local[t].chunk
  BY <1>1, <1>3 DEF LocalVars
<1> HIDE DEF r
<1>5. Quiet(t) /\ mem' = mem
  BY UnchangedQuiet DEF ReadEpoch
<1>6. OnlyMine(t) /\ pc'[t] = "push" /\ local'[t] = r /\ asleep'[t] = "no" /\ pc[t] = "epoch"
  BY <1>2, <1>4, Mine DEF ReadEpoch, Goto, At, PCs
<1>7. Filing(t)'
  <2>1. ~mem.ring.empty => Since(mem.pendingEpoch[mem.ring.tail]) <= Since(e)
    BY <1>1, <1>3 DEF InUse, Mem
  <2>2. Cleared(mem, r.chunk, e)
    <3>1. Since(mem.epoch) \in Int /\ Since(e) \in Int
      BY <1>1, <1>3, SinceType DEF Epochs
    <3> QED BY <1>1, <3>1 DEF Cleared
  <2> QED BY <1>1, <1>3, <1>4, <1>5, <1>6, <2>1, <2>2 DEF Filing, Locking
<1>8. Flushing(t)' /\ Asking(t)'
  <2>1. local[t].op = "free" /\ local[t].before = {}
    BY <1>3, <1>6 DEF Filing, Flushing
  <2> QED BY <1>4, <1>6, <2>1, FlushingNot, AskingNot
<1> QED BY <1>5, <1>6, <1>7, <1>8, QuietInv

\* What is in the quarantine are chunks.
LEMMA HeldChunks ==
    ASSUME NEW m \in Mem PROVE Held(m) \subseteq Chunks
BY DEF Mem, Held, Elements

\* heap_quarantine_flush begins: all that is in the quarantine is filed under
\* epochs up to the one it will wait for.
LEMMA FlushInv ==
    ASSUME Constants, QuarantineInv, NEW t \in Threads, Flush(t)
    PROVE  QuarantineInv'
<1> DEFINE e == RoundFlush(mem.epoch)
           r == [Locals EXCEPT !.op = "flush", !.loops = DequeueOnMalloc, !.epoch = e,
                               !.before = Quarantined]
<1>1. /\ e \in Epochs /\ Since(e) <= Since(mem.epoch) + 1
      /\ \A i \in 0 .. 1 : InUse(mem, i) => Since(mem.pendingEpoch[i]) <= Since(e)
  BY RoundedEpoch
<1>2. local' = [local EXCEPT ![t] = r]
  BY DEF Flush
<1> HIDE DEF e
<1>3. mem \in Mem /\ Heap(mem)
  BY DEF QuarantineInv, Typed
<1>4. /\ r \in LocalVars /\ r.op = "flush" /\ r.before = Held(mem) /\ r.epoch = e /\ r.loops = 4
  <2>1. Quarantined = Held(mem) /\ Held(mem) \subseteq Chunks
    BY <1>3, HeldChunks, QuarantinedHeld
  <2> DEFINE q == Quarantined
             l == DequeueOnMalloc
  <2>2. q = Held(mem) /\ q \in SUBSET Chunks /\ l = 4 /\ l \in Nat
    BY <2>1, LocalsType
  <2>3. r = [Locals EXCEPT !.op = "flush", !.loops = l, !.epoch = e, !.before = q]
    OBVIOUS
  <2> HIDE DEF q, l, r
  <2> QED BY <1>1, <2>2, <2>3, LocalsType DEF LocalVars
<1> HIDE DEF r
<1>5. Quiet(t) /\ mem'.lock = t
  BY LockQuiet DEF Flush
<1>6. OnlyMine(t) /\ pc'[t] = "dequeue" /\ local'[t] = r /\ asleep'[t] = "no"
  <2>1. pc' = [pc EXCEPT ![t] = "dequeue"] /\ asleep' = asleep /\ asleep[t] = "no"
    BY DEF Flush, Goto, At
  <2>2. "dequeue" \in PCs /\ r \in LocalVars
    BY <1>4 DEF PCs
  <2> QED BY <1>2, <2>1, <2>2, Mine, ZenonT(60)
<1>7. Filing(t)' /\ Asking(t)'
  BY <1>5, <1>6, AskingNot DEF Filing
<1>8. Flushing(t)'
  <2>1. /\ \A c : FiledBefore(mem, c, e) => FiledBefore(mem', c, e)
        /\ mem.epoch \in Epochs /\ mem'.epoch \in Epochs /\ Since(mem'.epoch) >= Since(mem.epoch)
    BY <1>5, QuietHeap DEF SweepsOn
  <2>2. Since(e) <= Since(mem'.epoch) + 1
    <3>1. Since(e) \in Int /\ Since(mem.epoch) \in Int /\ Since(mem'.epoch) \in Int
      BY <1>1, <2>1, SinceType DEF Epochs
    <3> QED BY <1>1, <2>1, <3>1
  <2>3. ASSUME NEW c \in Held(mem) PROVE FiledBefore(mem, c, e)
    <3>1. ASSUME NEW i \in 0 .. 1, c \in Elements(mem.pending[i])
          PROVE  Since(mem.pendingEpoch[i]) <= Since(e)
      <4>1. mem.pending[i] # <<>>
        BY <3>1 DEF Elements
      <4> QED BY <1>1, <1>3, <4>1 DEF Heap, Rings
    <3> QED BY <3>1 DEF FiledBefore, Held
  <2> QED BY <1>4, <1>6, <2>1, <2>2, <2>3 DEF Flushing
<1> QED BY <1>5, <1>6, <1>7, <1>8, QuietInv

\* heap_allocate tries again at once, or goes to wait.
LEMMA RetryVisitedInv ==
    ASSUME Constants, QuarantineInv, NEW t \in Threads, RetryVisited(t)
    PROVE  QuarantineInv'
<1> DEFINE l == IF local[t].dequeued > 0 THEN DequeueOnMalloc ELSE 0
           r == [local[t] EXCEPT !.op = "malloc", !.loops = l]
<1>1. local' = [local EXCEPT ![t] = r]
  BY DEF RetryVisited
<1>2. l \in Nat
  BY LocalsType
<1> HIDE DEF l
<1>3. /\ local[t] \in LocalVars /\ Filing(t) /\ Flushing(t)
      /\ pc[t] = "dequeue" /\ asleep[t] = "no" /\ local[t].op = "retry"
  BY DEF QuarantineInv, Typed, RetryVisited, At
<1>4. r \in LocalVars /\ r.op = "malloc" /\ r.before = {}
  BY <1>2, <1>3 DEF LocalVars, Flushing
<1> HIDE DEF r
<1>5. mem.lock = t
  BY <1>3 DEF Filing, Locking
<1>6. CASE local[t].dequeued > 0
  <2>1. Quiet(t) /\ mem' = mem
    BY <1>6, UnchangedQuiet DEF RetryVisited
  <2>2. OnlyMine(t) /\ pc'[t] = "dequeue" /\ local'[t] = r /\ asleep'[t] = "no"
    BY <1>1, <1>3, <1>4, <1>6 DEF RetryVisited, OnlyMine, QuarantineInv, Typed
  <2>3. Filing(t)' /\ Flushing(t)' /\ Asking(t)'
    BY <1>4, <1>5, <2>1, <2>2, FlushingNot, AskingNot DEF Filing
  <2> QED BY <2>1, <2>2, <2>3, QuietInv
<1>7. CASE ~(local[t].dequeued > 0)
  <2>1. Quiet(t)
    BY <1>5, <1>7, LockQuiet DEF RetryVisited
  <2>2. OnlyMine(t) /\ pc'[t] = "value" /\ local'[t] = r /\ asleep'[t] = "no"
    BY <1>1, <1>3, <1>4, <1>7, Mine DEF RetryVisited, Goto, PCs
  <2>3. Filing(t)' /\ Flushing(t)' /\ Asking(t)'
    BY <1>4, <2>2, FilingNot, FlushingNot, AskingNot DEF Locking
  <2> QED BY <2>1, <2>2, <2>3, QuietInv
<1> QED BY <1>6, <1>7

\* A visit of heap_quarantine_flush has come to its end.
LEMMA FlushVisitedInv ==
    ASSUME Constants, QuarantineInv, NEW t \in Threads, FlushVisited(t)
    PROVE  QuarantineInv'
<1>1. /\ local[t] \in LocalVars /\ Filing(t) /\ Flushing(t)
      /\ pc[t] = "dequeue" /\ asleep[t] = "no" /\ local[t].loops = 0
      /\ local[t].op \in {"flush", "flushed"}
  BY DEF QuarantineInv, Typed, FlushVisited, At
<1>2. mem.lock = t
  BY <1>1 DEF Filing, Locking
<1>3. CASE local[t].dequeued > 0
  <2> DEFINE r == [local[t] EXCEPT !.loops = DequeueOnMalloc, !.dequeued = 0]
  <2>1. local' = [local EXCEPT ![t] = r]
    BY <1>3 DEF FlushVisited
  <2>2. /\ r \in LocalVars /\ r.op = local[t].op /\ r.epoch = local[t].epoch
        /\ r.before = local[t].before /\ r.loops # 0
    <3>1. DequeueOnMalloc \in Nat /\ DequeueOnMalloc # 0
      BY LocalsType
    <3> QED BY <1>1, <3>1 DEF LocalVars
  <2> HIDE DEF r
  <2>3. Quiet(t) /\ mem' = mem
    BY <1>3, UnchangedQuiet DEF FlushVisited
  <2>4. OnlyMine(t) /\ pc'[t] = "dequeue" /\ local'[t] = r /\ asleep'[t] = "no"
    BY <1>1, <1>3, <2>1, <2>2 DEF FlushVisited, OnlyMine, QuarantineInv, Typed
  <2>5. Filing(t)' /\ Flushing(t)' /\ Asking(t)'
    BY <1>2, <2>2, <2>3, <2>4, FlushingMoves, AskingNot DEF Filing
  <2> QED BY <2>3, <2>4, <2>5, QuietInv
<1>4. CASE ~(local[t].dequeued > 0)
  <2>1. PICK p \in {"value", "done"} :
          /\ p = "done" => local[t].op = "flushed" \/ Quarantined = {}
          /\ Goto(t, p)
    BY <1>1, <1>4 DEF FlushVisited
  <2>2. mem' = [mem EXCEPT !.lock = "free"] /\ local' = local /\ asleep' = asleep
        /\ history' = history
    BY <1>4 DEF FlushVisited
  <2>3. Quiet(t)
    BY <1>2, <2>2, LockQuiet, ZenonT(60)
  <2>4. OnlyMine(t) /\ pc'[t] = p /\ local'[t] = local[t] /\ asleep'[t] = "no"
    BY <1>1, <2>1, <2>2, Goes DEF PCs
  <2>5. Filing(t)' /\ Asking(t)'
    BY <2>1, <2>4, FilingNot, AskingNot DEF Locking
  <2>6. Flushing(t)'
    <3>1. CASE p = "value"
      BY <2>3, <2>4, <3>1, FlushingMoves
    <3>2. CASE p = "done"
      <4>1. local[t].before = {}
        <5>1. CASE local[t].op = "flushed"
          <6>1. local[t].dequeued = 0
            BY <1>1, <1>4 DEF LocalVars
          <6> QED BY <1>1, <5>1, <6>1 DEF Flushing
        <5>2. CASE Quarantined = {}
          BY <1>1, <5>2, QuarantinedHeld DEF Flushing, FiledBefore, Held
        <5> QED BY <2>1, <3>2, <5>1, <5>2
      <4>2. mem'.epoch = mem.epoch
        BY <2>2 DEF QuarantineInv, Typed, Mem
      <4> QED BY <1>1, <2>4, <3>2, <4>1, <4>2 DEF Flushing
    <3> QED BY <2>1, <3>1, <3>2
  <2> QED BY <2>3, <2>4, <2>5, <2>6, QuietInv
<1> QED BY <1>3, <1>4
=============================================================================
