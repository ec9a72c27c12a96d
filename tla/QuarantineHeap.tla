--------------------------- MODULE QuarantineHeap ---------------------------
(***************************************************************************)
(* Proofs about the quarantine, first part: epochs, rings and chunks.      *)
(*                                                                         *)
(* The argument counts sweeps from the first epoch (Since), so that the    *)
(* wrap of the counter appears in a few lemmas and nowhere else. Its heart *)
(* is Cleared: a chunk that was painted before epoch e was read and        *)
(* rounded up is in no word that the sweep after e has passed, and in no   *)
(* word at all once that sweep is over. The load barrier makes it stable,  *)
(* painting before the epoch is read gives it to the chunks of a ring, and *)
(* the comparison with the epoch takes it to the free list.                *)
(***************************************************************************)
EXTENDS Quarantine, TLAPS

\* An even wrap, and fewer sweeps than make the signed difference of two epochs
\* ambiguous: with 32 bits, 2^30 - 2 of them.
Constants ==
    /\ EpochWrap \in Nat /\ EpochWrap % 2 = 0
    /\ MaxPasses \in Nat /\ 4 * MaxPasses + 4 < EpochWrap
    /\ FirstEpoch \in 0 .. EpochWrap - 1 /\ FirstEpoch % 2 = 0
    /\ None \notin Chunks
    /\ "free" \notin Threads

Epochs == 0 .. EpochWrap - 1

\* How far epoch e is from the first one.
Since(e) == IF e >= FirstEpoch THEN e - FirstEpoch ELSE e - FirstEpoch + EpochWrap

\* A number below the wrap is itself modulo the wrap.
LEMMA ModInRange ==
    ASSUME NEW w \in Nat, NEW x \in 0 .. w - 1
    PROVE  x % w = x
BY SMT

\* Past the wrap of the epoch counter, modulo takes the wrap off.
LEMMA ModAbove ==
    ASSUME NEW w \in Nat, NEW x \in w .. 2 * w - 1
    PROVE  x % w = x - w
BY SMT

\* Below zero, as in the difference of two epochs, modulo adds the wrap.
LEMMA ModBelow ==
    ASSUME NEW w \in Nat, NEW x \in Int, x + w \in 0 .. w - 1
    PROVE  x % w = x + w
BY SMT

\* Sweeps are counted by epochs: the distance from the first epoch has the
\* parity of the epoch, which tells whether a sweep is running, and
\* determines it.
LEMMA SinceType ==
    ASSUME Constants, NEW e \in Epochs
    PROVE  /\ Since(e) \in Epochs
           /\ Since(e) % 2 = e % 2
           /\ \A f \in Epochs : Since(e) = Since(f) => e = f
BY DEF Constants, Epochs, Since

\* The distances between epochs are numbers.
LEMMA SinceNat ==
    ASSUME Constants
    PROVE  \A e \in Epochs : Since(e) \in Nat
BY SinceType DEF Epochs

\* Starting or finishing a sweep takes the epoch one further, across the wrap
\* of the 32-bit counter.
LEMMA SinceNext ==
    ASSUME Constants, NEW e \in Epochs, Since(e) + 1 < EpochWrap
    PROVE  /\ (e + 1) % EpochWrap \in Epochs
           /\ Since((e + 1) % EpochWrap) = Since(e) + 1
<1>1. CASE e + 1 < EpochWrap
  <2>1. (e + 1) % EpochWrap = e + 1
    BY <1>1, ModInRange DEF Constants, Epochs
  <2> QED BY <1>1, <2>1 DEF Constants, Epochs, Since
<1>2. CASE e + 1 = EpochWrap
  <2>1. (e + 1) % EpochWrap = 0
    BY <1>2, ModAbove DEF Constants, Epochs
  <2> QED BY <1>2, <2>1 DEF Constants, Epochs, Since
<1> QED BY <1>1, <1>2 DEF Constants, Epochs

\* Rounding an epoch up (`epoch += epoch & 1' in mspace_free) leaves an even
\* one and takes an odd one to the end of its sweep.
LEMMA SinceRoundUp ==
    ASSUME Constants, NEW e \in Epochs, Since(e) + 1 < EpochWrap
    PROVE  /\ RoundUp(e) \in Epochs
           /\ e % 2 = 0 => RoundUp(e) = e
           /\ e % 2 = 1 => Since(RoundUp(e)) = Since(e) + 1
<1>1. CASE e % 2 = 0
  <2>1. RoundUp(e) = e
    BY <1>1, ModInRange DEF Constants, Epochs, RoundUp
  <2> QED BY <1>1, <2>1
<1>2. CASE e % 2 = 1
  <2>1. RoundUp(e) = (e + 1) % EpochWrap
    BY <1>2 DEF RoundUp
  <2> QED BY <1>2, <2>1, SinceNext
<1> QED BY <1>1, <1>2 DEF Epochs, Constants

\* has_revocation_finished_for_epoch, which compares by signed difference,
\* says yes exactly when a whole sweep has begun and ended since, as long as
\* less than half the range of the counter has gone by.
LEMMA FinishedIff ==
    ASSUME Constants, NEW e \in Epochs, NEW f \in Epochs,
           Since(f) <= Since(e) + 1, Since(e) <= 2 * MaxPasses
    PROVE  LET distance == (e - f) % EpochWrap
           IN  (1 < distance /\ distance < EpochWrap \div 2) <=> Since(e) > Since(f) + 1
<1> DEFINE d == (e - f) % EpochWrap
<1>1. CASE e >= f
  <2>1. d = e - f
    BY <1>1, ModInRange DEF Constants, Epochs
  <2> HIDE DEF d
  <2>2. (1 < d /\ d < EpochWrap \div 2) <=> Since(e) > Since(f) + 1
    BY <1>1, <2>1 DEF Constants, Epochs, Since
  <2> QED BY <2>2 DEF d
<1>2. CASE e < f
  <2>1. d = e - f + EpochWrap
    BY <1>2, ModBelow DEF Constants, Epochs
  <2> HIDE DEF d
  <2>2. (1 < d /\ d < EpochWrap \div 2) <=> Since(e) > Since(f) + 1
    BY <1>2, <2>1 DEF Constants, Epochs, Since
  <2> QED BY <2>2 DEF d
<1> QED BY <1>1, <1>2 DEF Epochs, Constants

---------------------------------------------------------------------------
(* Sequences without repetition *)

Distinct(s) == \A i, j \in DOMAIN s : s[i] = s[j] => i = j

\* Appending to a ring of the quarantine adds one chunk, and no repetition.
LEMMA AppendElements ==
    ASSUME NEW S, NEW s \in Seq(S), NEW c \in S
    PROVE  /\ Append(s, c) \in Seq(S)
           /\ Elements(Append(s, c)) = Elements(s) \cup {c}
           /\ Distinct(s) /\ c \notin Elements(s) => Distinct(Append(s, c))
<1> DEFINE u == Append(s, c)
<1>1. /\ u \in Seq(S) /\ Len(u) = Len(s) + 1 /\ u[Len(s) + 1] = c
      /\ \A i \in 1 .. Len(s) : u[i] = s[i]
  OBVIOUS
<1>2. DOMAIN s = 1 .. Len(s) /\ DOMAIN u = 1 .. Len(s) + 1 /\ Len(s) \in Nat
  BY <1>1
<1> HIDE DEF u
<1>3. Elements(u) = Elements(s) \cup {c}
  <2>1. \A x \in Elements(u) : x \in Elements(s) \cup {c}
    BY <1>1, <1>2 DEF Elements
  <2>2. \A x \in Elements(s) : x \in Elements(u)
    BY <1>1, <1>2 DEF Elements
  <2>3. c \in Elements(u)
    BY <1>1, <1>2 DEF Elements
  <2> QED BY <2>1, <2>2, <2>3
<1>4. Distinct(s) /\ c \notin Elements(s) => Distinct(u)
  BY <1>1, <1>2 DEF Elements, Distinct
<1> QED BY <1>1, <1>3, <1>4 DEF u

\* Appending one ring to another joins their chunks; disjoint rings without
\* repetition make one without repetition.
LEMMA ConcatElements ==
    ASSUME NEW S, NEW s \in Seq(S), NEW u \in Seq(S)
    PROVE  /\ s \o u \in Seq(S)
           /\ Elements(s \o u) = Elements(s) \cup Elements(u)
           /\ Distinct(s) /\ Distinct(u) /\ Elements(s) \cap Elements(u) = {}
                => Distinct(s \o u)
<1> DEFINE v == s \o u
<1>1. /\ v \in Seq(S) /\ Len(v) = Len(s) + Len(u)
      /\ \A i \in 1 .. Len(s) : v[i] = s[i]
      /\ \A i \in 1 .. Len(v) : i > Len(s) => v[i] = u[i - Len(s)]
  OBVIOUS
<1>2. /\ DOMAIN s = 1 .. Len(s) /\ DOMAIN u = 1 .. Len(u) /\ DOMAIN v = 1 .. Len(v)
      /\ Len(s) \in Nat /\ Len(u) \in Nat
  BY <1>1
<1> HIDE DEF v
<1>3. ASSUME NEW i \in 1 .. Len(u)
      PROVE  v[Len(s) + i] = u[i] /\ Len(s) + i \in DOMAIN v
  <2>1. Len(s) + i \in 1 .. Len(v) /\ Len(s) + i > Len(s) /\ (Len(s) + i) - Len(s) = i
    BY <1>1, <1>2
  <2> QED BY <1>1, <1>2, <2>1
<1>4. Elements(v) = Elements(s) \cup Elements(u)
  <2>1. ASSUME NEW i \in DOMAIN v PROVE v[i] \in Elements(s) \cup Elements(u)
    <3>1. CASE i <= Len(s)
      BY <1>1, <1>2, <3>1 DEF Elements
    <3>2. CASE i > Len(s)
      <4>1. i - Len(s) \in DOMAIN u /\ v[i] = u[i - Len(s)]
        BY <1>1, <1>2, <3>2
      <4> QED BY <4>1 DEF Elements
    <3> QED BY <1>2, <3>1, <3>2
  <2>2. \A x \in Elements(s) : x \in Elements(v)
    BY <1>1, <1>2 DEF Elements
  <2>3. \A x \in Elements(u) : x \in Elements(v)
    BY <1>2, <1>3 DEF Elements
  <2> QED BY <2>1, <2>2, <2>3 DEF Elements
<1>5. ASSUME Distinct(s), Distinct(u), Elements(s) \cap Elements(u) = {}
      PROVE  Distinct(v)
  <2> SUFFICES ASSUME NEW i \in DOMAIN v, NEW j \in DOMAIN v, v[i] = v[j]
               PROVE  i = j
    BY DEF Distinct
  <2>1. \A k \in DOMAIN v :
          \/ k <= Len(s) /\ k \in DOMAIN s /\ v[k] = s[k] /\ v[k] \in Elements(s)
          \/ k > Len(s) /\ k - Len(s) \in DOMAIN u /\ v[k] = u[k - Len(s)]
             /\ v[k] \in Elements(u)
    BY <1>1, <1>2 DEF Elements
  <2>2. CASE i <= Len(s) /\ j <= Len(s)
    BY <1>2, <1>5, <2>1, <2>2 DEF Distinct
  <2>3. CASE i > Len(s) /\ j > Len(s)
    <3>1. u[i - Len(s)] = u[j - Len(s)] /\ i - Len(s) \in DOMAIN u /\ j - Len(s) \in DOMAIN u
      BY <1>2, <2>1, <2>3
    <3>2. i - Len(s) = j - Len(s)
      BY <1>5, <3>1 DEF Distinct
    <3> QED BY <1>2, <3>2
  <2> QED BY <1>2, <1>5, <2>1, <2>2, <2>3
<1> QED BY <1>1, <1>4, <1>5 DEF v

\* Taking the first chunk off a ring leaves the others.
LEMMA TailElements ==
    ASSUME NEW S, NEW s \in Seq(S), s # <<>>, Distinct(s)
    PROVE  /\ Tail(s) \in Seq(S) /\ Distinct(Tail(s))
           /\ Head(s) \in Elements(s) /\ Head(s) \in S
           /\ Elements(Tail(s)) = Elements(s) \ {Head(s)}
<1> DEFINE u == Tail(s)
<1>1. /\ u \in Seq(S) /\ Len(u) = Len(s) - 1 /\ Head(s) = s[1] /\ Len(s) > 0
      /\ \A i \in 1 .. Len(u) : u[i] = s[i + 1]
  OBVIOUS
<1>2. /\ DOMAIN s = 1 .. Len(s) /\ DOMAIN u = 1 .. Len(u) /\ Len(s) \in Nat
      /\ \A i \in DOMAIN s : s[i] \in S
  BY <1>1
<1> HIDE DEF u
<1>3. Distinct(u)
  BY <1>1, <1>2 DEF Distinct
<1>4. Elements(u) = Elements(s) \ {Head(s)}
  <2>1. ASSUME NEW i \in DOMAIN u PROVE u[i] \in Elements(s) \ {Head(s)}
    BY <1>1, <1>2 DEF Elements, Distinct
  <2>2. ASSUME NEW i \in DOMAIN s, s[i] # Head(s) PROVE s[i] \in Elements(u)
    <3>1. i - 1 \in DOMAIN u /\ u[i - 1] = s[i]
      BY <1>1, <1>2, <2>2
    <3> QED BY <3>1 DEF Elements
  <2> QED BY <2>1, <2>2 DEF Elements
<1>5. Head(s) \in Elements(s) /\ Head(s) \in S
  BY <1>1, <1>2 DEF Elements
<1> QED BY <1>1, <1>3, <1>4, <1>5 DEF u

---------------------------------------------------------------------------
(* The inductive invariant *)

\* The types of the shared object.
Mem == [lock : Threads \cup {"free"}, epoch : Epochs, swept : SUBSET Words,
        requested : BOOLEAN, irq : Nat, words : [Words -> Chunks \cup {None}],
        painted : SUBSET Chunks, free : SUBSET Chunks, pending : [0 .. 1 -> Seq(Chunks)],
        pendingEpoch : [0 .. 1 -> Epochs],
        ring : [tail : 0 .. 1, head : 0 .. 1, empty : BOOLEAN], finished : Seq(Chunks)]

\* What is known of a chunk that was painted before epoch e was read and rounded
\* up: the sweep after it removes every capability to it.
Cleared(m, c, e) ==
    /\ Since(m.epoch) = Since(e) + 1 => \A w \in m.swept : m.words[w] # c
    /\ Since(m.epoch) > Since(e) + 1 => \A w \in Words : m.words[w] # c

\* A chunk is in one place.
Places(m) ==
    /\ Distinct(m.finished) /\ \A i \in 0 .. 1 : Distinct(m.pending[i])
    /\ Elements(m.pending[0]) \cap Elements(m.pending[1]) = {}
    /\ \A i \in 0 .. 1 : Elements(m.pending[i]) \cap (m.free \cup Elements(m.finished)) = {}
    /\ m.free \cap Elements(m.finished) = {}

InUse(m, i) == ~m.ring.empty /\ (i = m.ring.head \/ i = m.ring.tail)

\* The rings in use have even epochs that have begun or are about to, the older
\* ring the smaller one.
Rings(m) ==
    /\ Since(m.epoch) <= 2 * MaxPasses
    /\ m.ring.empty => m.ring.head # m.ring.tail
    /\ \A i \in 0 .. 1 :
         /\ ~InUse(m, i) => m.pending[i] = <<>>
         /\ InUse(m, i) => /\ m.pendingEpoch[i] % 2 = 0
                           /\ Since(m.pendingEpoch[i]) <= Since(m.epoch) + 1
    /\ ~m.ring.empty /\ m.ring.head # m.ring.tail
         => Since(m.pendingEpoch[m.ring.head]) < Since(m.pendingEpoch[m.ring.tail])

Unreachable(m) ==
    /\ \A i \in 0 .. 1 : \A c \in Elements(m.pending[i]) :
         c \in m.painted /\ Cleared(m, c, m.pendingEpoch[i])
    /\ \A c \in m.free \cup Elements(m.finished), w \in Words : m.words[w] # c

Heap(m) == Places(m) /\ Rings(m) /\ Unreachable(m)

\* The chunks of the quarantine.
Held(m) == Elements(m.pending[0]) \cup Elements(m.pending[1]) \cup Elements(m.finished)

\* The chunk was in the quarantine, under an epoch up to e.
FiledBefore(m, c, e) ==
    \/ c \in Elements(m.finished)
    \/ \E i \in 0 .. 1 : c \in Elements(m.pending[i]) /\ Since(m.pendingEpoch[i]) <= Since(e)

\* A ring is opened for a chunk.
NonEmpty(m) == \A i \in 0 .. 1 : InUse(m, i) => m.pending[i] # <<>>

---------------------------------------------------------------------------
(* What the steps of the revoker and of the allocator do to it *)

\* The fields that Heap depends on, and those of the revoker and of the memory
SameRings(m, n) ==
    n.pending = m.pending /\ n.pendingEpoch = m.pendingEpoch /\ n.ring = m.ring
SameChunks(m, n) == n.free = m.free /\ n.finished = m.finished
SameSweep(m, n) == n.epoch = m.epoch /\ n.swept = m.swept

\* A step that leaves the quarantine, the sweep and memory alone keeps the
\* heap in order.
LEMMA HeapSame ==
    ASSUME NEW m, NEW n, Heap(m), SameRings(m, n), SameChunks(m, n), SameSweep(m, n),
           n.words = m.words, n.painted = m.painted
    PROVE  /\ Heap(n)
           /\ \A c, e : Cleared(m, c, e) => Cleared(n, c, e)
BY DEF Heap, Places, Rings, Unreachable, InUse, Cleared, SameRings, SameChunks, SameSweep

\* So does painting more (mark_set_range).
LEMMA HeapPainted ==
    ASSUME NEW m, NEW n, Heap(m), SameRings(m, n), SameChunks(m, n), SameSweep(m, n),
           n.words = m.words, m.painted \subseteq n.painted
    PROVE  /\ Heap(n)
           /\ \A c, e : Cleared(m, c, e) => Cleared(n, c, e)
BY DEF Heap, Places, Rings, Unreachable, InUse, Cleared, SameRings, SameChunks, SameSweep

\* A kick starts a sweep: nothing is swept yet, and what was cleared stays
\* so.
LEMMA HeapKicked ==
    ASSUME Constants, NEW m \in Mem, NEW n \in Mem, Heap(m), SameRings(m, n), SameChunks(m, n),
           n.words = m.words, n.painted = m.painted, n.swept = {},
           m.epoch % 2 = 0, Since(m.epoch) < 2 * MaxPasses,
           n.epoch = (m.epoch + 1) % EpochWrap
    PROVE  /\ Heap(n)
           /\ Since(n.epoch) = Since(m.epoch) + 1
           /\ \A c : \A e \in Epochs : e % 2 = 0 /\ Cleared(m, c, e) => Cleared(n, c, e)
<1>1. m.epoch \in Epochs /\ m.pendingEpoch \in [0 .. 1 -> Epochs]
  BY DEF Mem
<1>2. Since(m.epoch) \in Nat /\ Since(m.epoch) % 2 = 0
  BY <1>1, SinceType DEF Epochs
<1>3. Since(n.epoch) = Since(m.epoch) + 1
  BY <1>1, <1>2, SinceNext DEF Constants
<1>4. ASSUME NEW c, NEW e \in Epochs, e % 2 = 0, Cleared(m, c, e)
      PROVE  Cleared(n, c, e)
  <2>1. Since(e) \in Nat /\ Since(e) % 2 = 0
    BY <1>4, SinceType DEF Epochs
  <2>2. Since(n.epoch) > Since(e) + 1 => Since(m.epoch) > Since(e) + 1
    BY <1>2, <1>3, <2>1
  <2> QED BY <1>4, <2>2 DEF Cleared
<1>5. Rings(n)
  <2>1. \A i \in 0 .. 1 : Since(m.pendingEpoch[i]) \in Nat
    BY <1>1, SinceType DEF Epochs
  <2>2. MaxPasses \in Nat
    BY DEF Constants
  <2> QED BY <1>2, <1>3, <2>1, <2>2 DEF Heap, Rings, InUse, SameRings
<1>6. Unreachable(n)
  <2>1. ASSUME NEW i \in 0 .. 1, NEW c \in Elements(m.pending[i])
        PROVE  Cleared(n, c, n.pendingEpoch[i])
    <3>1. m.pending[i] # <<>>
      BY DEF Elements
    <3>2. m.pendingEpoch[i] \in Epochs /\ m.pendingEpoch[i] % 2 = 0
      BY <1>1, <3>1 DEF Heap, Rings
    <3> QED BY <1>4, <3>2 DEF Heap, Unreachable, SameRings
  <2> QED BY <2>1 DEF Heap, Unreachable, SameRings, SameChunks
<1> QED BY <1>3, <1>4, <1>5, <1>6 DEF Heap, Places, SameRings, SameChunks

\* The end of a sweep: whatever was painted before it began is in no word.
LEMMA HeapSweepEnds ==
    ASSUME Constants, NEW m \in Mem, NEW n \in Mem, Heap(m), SameRings(m, n), SameChunks(m, n),
           n.words = m.words, n.painted = m.painted, n.swept = m.swept, m.swept = Words,
           m.epoch % 2 = 1, Since(m.epoch) < 2 * MaxPasses,
           n.epoch = (m.epoch + 1) % EpochWrap
    PROVE  /\ Heap(n)
           /\ Since(n.epoch) = Since(m.epoch) + 1
           /\ \A c : \A e \in Epochs : e % 2 = 0 /\ Cleared(m, c, e) => Cleared(n, c, e)
<1>1. m.epoch \in Epochs /\ m.pendingEpoch \in [0 .. 1 -> Epochs]
  BY DEF Mem
<1>2. Since(m.epoch) \in Nat /\ Since(m.epoch) % 2 = 1
  BY <1>1, SinceType DEF Epochs
<1>3. Since(n.epoch) = Since(m.epoch) + 1
  BY <1>1, <1>2, SinceNext DEF Constants
<1>4. ASSUME NEW c, NEW e \in Epochs, e % 2 = 0, Cleared(m, c, e)
      PROVE  Cleared(n, c, e)
  <2>1. Since(e) \in Nat /\ Since(e) % 2 = 0
    BY <1>4, SinceType DEF Epochs
  <2>2. /\ Since(n.epoch) # Since(e) + 1
        /\ Since(n.epoch) > Since(e) + 1 =>
             Since(m.epoch) > Since(e) + 1 \/ Since(m.epoch) = Since(e) + 1
    BY <1>2, <1>3, <2>1
  <2> QED BY <1>4, <2>2 DEF Cleared
<1>5. Rings(n)
  <2>1. \A i \in 0 .. 1 : Since(m.pendingEpoch[i]) \in Nat
    BY <1>1, SinceType DEF Epochs
  <2>2. MaxPasses \in Nat
    BY DEF Constants
  <2> QED BY <1>2, <1>3, <2>1, <2>2 DEF Heap, Rings, InUse, SameRings
<1>6. Unreachable(n)
  <2>1. ASSUME NEW i \in 0 .. 1, NEW c \in Elements(m.pending[i])
        PROVE  Cleared(n, c, n.pendingEpoch[i])
    <3>1. m.pending[i] # <<>>
      BY DEF Elements
    <3>2. m.pendingEpoch[i] \in Epochs /\ m.pendingEpoch[i] % 2 = 0
      BY <1>1, <3>1 DEF Heap, Rings
    <3> QED BY <1>4, <3>2 DEF Heap, Unreachable, SameRings
  <2> QED BY <2>1 DEF Heap, Unreachable, SameRings, SameChunks
<1> QED BY <1>3, <1>4, <1>5, <1>6 DEF Heap, Places, SameRings, SameChunks

\* A store of a capability that came through the load barrier, by the revoker
\* or by a thread: no capability to painted memory is spread.
LEMMA HeapStored ==
    ASSUME Constants, NEW m \in Mem, NEW n \in Mem, Heap(m), SameRings(m, n), SameChunks(m, n),
           n.epoch = m.epoch, n.painted = m.painted,
           NEW w \in Words, \A u \in Words : u # w => n.words[u] = m.words[u],
           n.words[w] # None => n.words[w] \notin m.painted /\ \E v \in Words : n.words[w] = m.words[v],
           n.swept = m.swept \/ n.swept = m.swept \cup {w}
    PROVE  /\ Heap(n)
           /\ \A c \in m.painted \cap Chunks : \A e : Cleared(m, c, e) => Cleared(n, c, e)
<1>1. /\ m.words \in [Words -> Chunks \cup {None}] /\ m.swept \subseteq Words
      /\ m.painted \subseteq Chunks /\ m.free \subseteq Chunks /\ m.finished \in Seq(Chunks)
      /\ None \notin Chunks
  BY DEF Mem, Constants
<1>2. ASSUME NEW c \in m.painted \cap Chunks, NEW e, Cleared(m, c, e)
      PROVE  Cleared(n, c, e)
  BY <1>1, <1>2 DEF Cleared
<1>3. ASSUME NEW c \in m.free \cup Elements(m.finished), NEW u \in Words
      PROVE  n.words[u] # c
  <2>1. c \in Chunks
    BY <1>1 DEF Elements
  <2> QED BY <1>1, <2>1 DEF Heap, Unreachable
<1>4. Unreachable(n)
  BY <1>1, <1>2, <1>3 DEF Heap, Unreachable, SameRings, SameChunks
<1> QED BY <1>2, <1>4 DEF Heap, Places, Rings, InUse, SameRings, SameChunks

\* heap_allocate hands out a free chunk: the one new capability is to a chunk
\* that is not in the quarantine any more.
LEMMA HeapAllocated ==
    ASSUME Constants, NEW m \in Mem, NEW n \in Mem, Heap(m), SameRings(m, n), SameSweep(m, n),
           n.finished = m.finished, n.painted = m.painted,
           NEW d \in m.free, NEW w \in Words,
           n.free = m.free \ {d},
           n.words[w] = d, \A u \in Words : u # w => n.words[u] = m.words[u]
    PROVE  /\ Heap(n)
           /\ \A c, e : c \notin m.free /\ Cleared(m, c, e) => Cleared(n, c, e)
<1>1. m.words \in [Words -> Chunks \cup {None}] /\ m.swept \subseteq Words
  BY DEF Mem
<1>2. ASSUME NEW c, NEW e, c \notin m.free, Cleared(m, c, e)
      PROVE  Cleared(n, c, e)
  BY <1>1, <1>2 DEF Cleared, SameSweep
<1>3. Places(n)
  BY DEF Heap, Places, SameRings
<1>4. \A i \in 0 .. 1 : \A c \in Elements(m.pending[i]) : c \notin m.free
  BY DEF Heap, Places
<1>5. Unreachable(n)
  <2>1. \A i \in 0 .. 1 : \A c \in Elements(n.pending[i]) :
          c \in n.painted /\ Cleared(n, c, n.pendingEpoch[i])
    BY <1>2, <1>4 DEF Heap, Unreachable, SameRings
  <2>2. \A c \in n.free \cup Elements(n.finished) : c # d /\ c \in m.free \cup Elements(m.finished)
    BY DEF Heap, Places
  <2>3. \A c \in n.free \cup Elements(n.finished), u \in Words : n.words[u] # c
    BY <1>1, <2>2 DEF Heap, Unreachable
  <2> QED BY <2>1, <2>3 DEF Unreachable
<1> QED BY <1>2, <1>3, <1>5 DEF Heap, Rings, InUse, SameRings, SameSweep

\* With two rings, head_advance and tail_advance of the ring cursors go to
\* the other one, and there is room unless both are in use.
LEMMA AdvanceOther ==
    ASSUME NEW r \in [tail : 0 .. 1, head : 0 .. 1, empty : BOOLEAN]
    PROVE  /\ Advance(r.tail) = 1 - r.tail
           /\ HeadAdvance(r) \in [tail : 0 .. 1, head : 0 .. 1, empty : BOOLEAN]
           /\ HeadAdvance(r).tail = r.tail /\ HeadAdvance(r).head = 1 - r.head
           /\ HeadAdvance(r).empty <=> r.empty \/ r.head = r.tail
           /\ TailAdvance(r) \in [tail : 0 .. 1, head : 0 .. 1, empty : BOOLEAN]
           /\ TailAdvance(r).tail = 1 - r.tail /\ TailAdvance(r).head = r.head
           /\ ~TailAdvance(r).empty
           /\ HasRoom(r) <=> r.empty \/ r.head = r.tail
<1>1. \A v \in 0 .. 1 : Advance(v) = 1 - v /\ Advance(v) \in 0 .. 1
  BY DEF Advance, QuarantineRings
<1>2. r.tail \in 0 .. 1 /\ r.head \in 0 .. 1 /\ r.empty \in BOOLEAN
  OBVIOUS
<1>3. (r.empty \/ r.head = r.tail) \in BOOLEAN
  OBVIOUS
<1>4. /\ HeadAdvance(r) \in [tail : 0 .. 1, head : 0 .. 1, empty : BOOLEAN]
      /\ HeadAdvance(r).tail = r.tail /\ HeadAdvance(r).head = 1 - r.head
  BY <1>1, <1>2, <1>3 DEF HeadAdvance
<1>5. HeadAdvance(r).empty <=> r.empty \/ r.head = r.tail
  BY <1>1, <1>2 DEF HeadAdvance
<1>6. /\ TailAdvance(r) \in [tail : 0 .. 1, head : 0 .. 1, empty : BOOLEAN]
      /\ TailAdvance(r).tail = 1 - r.tail /\ TailAdvance(r).head = r.head
      /\ ~TailAdvance(r).empty
  BY <1>1, <1>2 DEF TailAdvance
<1>7. HasRoom(r) <=> r.empty \/ r.head = r.tail
  BY <1>1, <1>2 DEF HasRoom
<1> QED BY <1>1, <1>2, <1>4, <1>5, <1>6, <1>7

\* The oldest ring, whose epoch is past, is appended to the finished one.
Finishes(m, n, h) ==
    /\ m \in Mem /\ n \in Mem /\ Heap(m) /\ SameSweep(m, n)
    /\ n.words = m.words /\ n.painted = m.painted /\ n.free = m.free
    /\ n.pendingEpoch = m.pendingEpoch
    /\ ~m.ring.empty /\ h = m.ring.head
    /\ Since(m.epoch) > Since(m.pendingEpoch[h]) + 1
    /\ n.finished = m.finished \o m.pending[h]
    /\ n.pending[h] = <<>> /\ \A i \in 0 .. 1 : i # h => n.pending[i] = m.pending[i]
    /\ n.ring.tail = m.ring.tail /\ n.ring.head = 1 - h /\ (n.ring.empty <=> h = m.ring.tail)

\* quarantine_pending_to_finished moves a ring whose epoch is past: what was
\* in it is unreachable, and the heap stays in order.
LEMMA HeapToFinished ==
    ASSUME Constants, NEW m, NEW n, NEW h, Finishes(m, n, h)
    PROVE  /\ Heap(n) /\ Held(n) = Held(m)
           /\ NonEmpty(m) => NonEmpty(n)
           /\ \A c, e : FiledBefore(m, c, e) => FiledBefore(n, c, e)
<1> USE DEF Finishes
<1>1. /\ m.pending \in [0 .. 1 -> Seq(Chunks)] /\ m.finished \in Seq(Chunks)
      /\ h \in 0 .. 1 /\ m.ring.tail \in 0 .. 1
  BY DEF Mem
<1>2. Elements(<<>>) = {} /\ Distinct(<<>>)
  BY DEF Elements, Distinct
<1>3. /\ Elements(n.finished) = Elements(m.finished) \cup Elements(m.pending[h])
      /\ Distinct(n.finished)
  BY <1>1, ConcatElements DEF Heap, Places
<1>4. n.pending[h] = <<>> /\ n.pending[1 - h] = m.pending[1 - h] /\ 1 - h \in 0 .. 1
  BY <1>1
<1>5. Held(n) = Held(m)
  BY <1>1, <1>2, <1>3, <1>4 DEF Held
<1>6. Places(n)
  BY <1>1, <1>2, <1>3, <1>4 DEF Heap, Places
<1>7. Rings(n)
  <2>2. \A i \in 0 .. 1 : InUse(n, i) <=> (h # m.ring.tail /\ i = 1 - h)
    BY <1>1 DEF InUse
  <2>3. \A i \in 0 .. 1 : InUse(m, i) <=> (i = h \/ i = m.ring.tail)
    BY DEF InUse
  <2>4. \A i \in 0 .. 1 : ~InUse(n, i) => n.pending[i] = <<>>
    BY <1>1, <1>4, <2>2, <2>3 DEF Heap, Rings
  <2> QED BY <1>1, <2>2, <2>3, <2>4 DEF Heap, Rings, SameSweep
<1>8. Unreachable(n)
  <2>1. \A c \in Elements(m.pending[h]), w \in Words : m.words[w] # c
    BY <1>1 DEF Heap, Unreachable, Cleared
  <2>2. \A c, e : Cleared(m, c, e) => Cleared(n, c, e)
    BY DEF Cleared, SameSweep
  <2>3. \A i \in 0 .. 1 : \A c \in Elements(n.pending[i]) : c \in Elements(m.pending[i])
    BY <1>1, <1>2, <1>4
  <2> QED BY <1>3, <2>1, <2>2, <2>3 DEF Heap, Unreachable
<1>9. NonEmpty(m) => NonEmpty(n)
  BY <1>1, <1>4 DEF NonEmpty, InUse
<1>10. \A c, e : FiledBefore(m, c, e) => FiledBefore(n, c, e)
  BY <1>1, <1>3, <1>4 DEF FiledBefore
<1> QED BY <1>5, <1>6, <1>7, <1>8, <1>9, <1>10 DEF Heap

\* A ring is opened for a younger epoch.
Opens(m, n, k, e) ==
    /\ m \in Mem /\ n \in Mem /\ Heap(m) /\ SameSweep(m, n)
    /\ n.words = m.words /\ n.painted = m.painted /\ n.free = m.free
    /\ n.finished = m.finished /\ n.pending = m.pending
    /\ m.ring.empty \/ m.ring.head = m.ring.tail
    /\ e \in Epochs /\ e % 2 = 0 /\ Since(e) <= Since(m.epoch) + 1
    /\ ~m.ring.empty => Since(m.pendingEpoch[m.ring.tail]) < Since(e)
    /\ k = 1 - m.ring.tail
    /\ n.pendingEpoch[k] = e /\ \A i \in 0 .. 1 : i # k => n.pendingEpoch[i] = m.pendingEpoch[i]
    /\ n.ring.tail = k /\ n.ring.head = m.ring.head /\ ~n.ring.empty

\* Opening a ring for a later epoch keeps the rings in the order of their
\* epochs.
LEMMA HeapOpened ==
    ASSUME Constants, NEW m, NEW n, NEW k, NEW e, Opens(m, n, k, e)
    PROVE  /\ Heap(n) /\ Held(n) = Held(m)
           /\ NonEmpty(m) => \A i \in 0 .. 1 : InUse(n, i) /\ i # k => n.pending[i] # <<>>
           /\ \A c, f : FiledBefore(m, c, f) => FiledBefore(n, c, f)
<1> USE DEF Opens
<1>1. /\ m.pendingEpoch \in [0 .. 1 -> Epochs] /\ k \in 0 .. 1
      /\ m.ring.tail \in 0 .. 1 /\ m.ring.head \in 0 .. 1
  BY DEF Mem
<1>2. n.pendingEpoch[k] = e /\ n.pendingEpoch[1 - k] = m.pendingEpoch[1 - k]
  BY <1>1
<1>4. m.pending[k] = <<>>
  BY <1>1 DEF Heap, Rings, InUse
<1>5. Rings(n)
  <2>1. \A i \in 0 .. 1 : InUse(n, i) <=> (i = k \/ i = m.ring.head)
    BY DEF InUse
  <2>2. \A i \in 0 .. 1 : ~InUse(n, i) => n.pending[i] = <<>>
    BY <1>1, <2>1 DEF Heap, Rings, InUse
  <2>3. \A i \in 0 .. 1 : i # k /\ InUse(n, i) => InUse(m, i) /\ n.pendingEpoch[i] = m.pendingEpoch[i]
    BY <1>1, <2>1 DEF Heap, Rings, InUse
  <2>4. \A i \in 0 .. 1 :
          InUse(n, i) => /\ n.pendingEpoch[i] % 2 = 0
                         /\ Since(n.pendingEpoch[i]) <= Since(n.epoch) + 1
    BY <1>2, <2>3 DEF Heap, Rings, SameSweep
  <2>5. m.ring.head # k => ~m.ring.empty /\ m.ring.head = m.ring.tail
    BY <1>1 DEF Heap, Rings
  <2> QED BY <1>1, <1>2, <2>2, <2>4, <2>5 DEF Heap, Rings, SameSweep
<1>6. Unreachable(n)
  <2>1. \A c, f : Cleared(m, c, f) => Cleared(n, c, f)
    BY DEF Cleared, SameSweep
  <2>2. \A i \in 0 .. 1 : \A c \in Elements(n.pending[i]) :
          c \in Elements(m.pending[i]) /\ n.pendingEpoch[i] = m.pendingEpoch[i]
    BY <1>1, <1>4 DEF Elements
  <2> QED BY <2>1, <2>2 DEF Heap, Unreachable
<1>7. ASSUME NEW i \in 0 .. 1, NonEmpty(m), InUse(n, i), i # k
      PROVE  n.pending[i] # <<>>
  <2>1. InUse(m, i)
    BY <1>1, <1>7 DEF Heap, Rings, InUse
  <2> QED BY <1>7, <2>1 DEF NonEmpty
<1>8. ASSUME NEW c, NEW f, FiledBefore(m, c, f)
      PROVE  FiledBefore(n, c, f)
  <2>1. \A i \in 0 .. 1 : c \in Elements(m.pending[i]) => n.pendingEpoch[i] = m.pendingEpoch[i]
    BY <1>1, <1>4 DEF Elements
  <2> QED BY <1>8, <2>1 DEF FiledBefore
<1> QED BY <1>5, <1>6, <1>7, <1>8 DEF Heap, Places, Held

\* A painted chunk is appended to the youngest ring.
Appends(m, n, k, c) ==
    /\ m \in Mem /\ n \in Mem /\ Heap(m) /\ SameSweep(m, n)
    /\ n.words = m.words /\ n.painted = m.painted /\ SameChunks(m, n)
    /\ n.pendingEpoch = m.pendingEpoch /\ n.ring = m.ring /\ ~m.ring.empty
    /\ c \in Chunks /\ c \in m.painted /\ c \notin m.free \cup Held(m)
    /\ k = m.ring.tail /\ Cleared(m, c, m.pendingEpoch[k])
    /\ n.pending[k] = Append(m.pending[k], c)
    /\ \A i \in 0 .. 1 : i # k => n.pending[i] = m.pending[i]

\* A painted chunk of the epoch of the youngest ring is filed there.
LEMMA HeapAppended ==
    ASSUME Constants, NEW m, NEW n, NEW k, NEW c, Appends(m, n, k, c)
    PROVE  /\ Heap(n) /\ Held(n) = Held(m) \cup {c}
           /\ (\A i \in 0 .. 1 : InUse(m, i) /\ i # k => m.pending[i] # <<>>) => NonEmpty(n)
           /\ \A d, f : FiledBefore(m, d, f) => FiledBefore(n, d, f)
<1> USE DEF Appends
<1>1. m.pending \in [0 .. 1 -> Seq(Chunks)] /\ k \in 0 .. 1
  BY DEF Mem
<1>2. c \notin Elements(m.pending[0]) /\ c \notin Elements(m.pending[1])
      /\ c \notin Elements(m.finished) /\ c \notin m.free
  BY DEF Held
<1>3. /\ Elements(n.pending[k]) = Elements(m.pending[k]) \cup {c}
      /\ Distinct(n.pending[k])
  BY <1>1, <1>2, AppendElements DEF Heap, Places
<1>4. Places(n)
  <2>1. CASE k = 0
    <3>1. n.pending[1] = m.pending[1]
      BY <2>1
    <3> QED BY <1>2, <1>3, <2>1, <3>1 DEF Heap, Places, SameChunks
  <2>2. CASE k = 1
    <3>1. n.pending[0] = m.pending[0]
      BY <2>2
    <3> QED BY <1>2, <1>3, <2>2, <3>1 DEF Heap, Places, SameChunks
  <2> QED BY <1>1, <2>1, <2>2
<1>5. Rings(n)
  <2>1. \A i \in 0 .. 1 : (InUse(n, i) <=> InUse(m, i)) /\ InUse(m, k)
    BY DEF InUse
  <2>2. \A i \in 0 .. 1 : ~InUse(n, i) => n.pending[i] = <<>>
    BY <1>1, <2>1 DEF Heap, Rings
  <2> QED BY <2>1, <2>2 DEF Heap, Rings, SameSweep
<1>6. Unreachable(n)
  <2>1. \A d, f : Cleared(m, d, f) => Cleared(n, d, f)
    BY DEF Cleared, SameSweep
  <2>2. \A i \in 0 .. 1 : \A d \in Elements(n.pending[i]) :
          d \in Elements(m.pending[i]) \/ (d = c /\ i = k)
    BY <1>1, <1>3
  <2> QED BY <2>1, <2>2 DEF Heap, Unreachable, SameChunks
<1>7. Held(n) = Held(m) \cup {c}
  <2>1. CASE k = 0
    <3>1. n.pending[1] = m.pending[1]
      BY <2>1
    <3> QED BY <1>3, <2>1, <3>1 DEF Held, SameChunks
  <2>2. CASE k = 1
    <3>1. n.pending[0] = m.pending[0]
      BY <2>2
    <3> QED BY <1>3, <2>2, <3>1 DEF Held, SameChunks
  <2> QED BY <1>1, <2>1, <2>2
<1>8. (\A i \in 0 .. 1 : InUse(m, i) /\ i # k => m.pending[i] # <<>>) => NonEmpty(n)
  <2>1. c \in Elements(n.pending[k]) /\ Elements(<<>>) = {}
    BY <1>3 DEF Elements
  <2>2. n.pending[k] # <<>>
    BY <2>1
  <2> QED BY <1>1, <2>2 DEF NonEmpty, InUse
<1>9. \A d, f : FiledBefore(m, d, f) => FiledBefore(n, d, f)
  BY <1>1, <1>3 DEF FiledBefore, SameChunks
<1> QED BY <1>4, <1>5, <1>6, <1>7, <1>8, <1>9 DEF Heap

\* The first chunk of the finished ring goes to the free list.
Dequeues(m, n, d) ==
    /\ m \in Mem /\ n \in Mem /\ Heap(m) /\ SameSweep(m, n) /\ SameRings(m, n)
    /\ n.words = m.words /\ m.finished # <<>> /\ d = Head(m.finished)
    /\ n.finished = Tail(m.finished) /\ n.painted = m.painted \ {d} /\ n.free = m.free \cup {d}

\* A chunk leaves the finished ring for the free list, unpainted (the end of
\* mspace_qtbin_deqn): no word holds a capability to it.
LEMMA HeapDequeued ==
    ASSUME Constants, NEW m, NEW n, NEW d, Dequeues(m, n, d)
    PROVE  /\ Heap(n) /\ Held(n) = Held(m) \ {d} /\ d \in Held(m) /\ d \in Chunks
           /\ NonEmpty(m) => NonEmpty(n)
           /\ \A c, e : c # d /\ FiledBefore(m, c, e) => FiledBefore(n, c, e)
<1> USE DEF Dequeues
<1>1. m.finished \in Seq(Chunks)
  BY DEF Mem
<1>2. /\ Elements(n.finished) = Elements(m.finished) \ {d} /\ Distinct(n.finished)
      /\ d \in Elements(m.finished) /\ d \in Chunks
  BY <1>1, TailElements DEF Heap, Places
<1>3. Places(n)
  BY <1>2 DEF Heap, Places, SameRings
<1>4. Held(n) = Held(m) \ {d} /\ d \in Held(m)
  BY <1>2 DEF Heap, Places, SameRings, Held
<1>5. Unreachable(n)
  <2>1. \A c, f : Cleared(m, c, f) => Cleared(n, c, f)
    BY DEF Cleared, SameSweep
  <2>2. \A i \in 0 .. 1 : d \notin Elements(m.pending[i])
    BY <1>2 DEF Heap, Places
  <2> QED BY <1>2, <2>1, <2>2 DEF Heap, Unreachable, SameRings
<1>6. NonEmpty(m) => NonEmpty(n)
  BY DEF NonEmpty, InUse, SameRings
<1>7. \A c, e : c # d /\ FiledBefore(m, c, e) => FiledBefore(n, c, e)
  BY <1>2 DEF FiledBefore, SameRings
<1> QED BY <1>2, <1>3, <1>4, <1>5, <1>6, <1>7 DEF Heap, Rings, InUse, SameRings, SameSweep
=============================================================================
