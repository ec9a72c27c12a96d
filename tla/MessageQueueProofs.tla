------------------------- MODULE MessageQueueProofs -------------------------
(***************************************************************************)
(* What the counters of MessageQueue mean, for every queue size.            *)
(***************************************************************************)
EXTENDS MessageQueue, TLAPS

Counters == 0 .. 2 * Size - 1

\* add_and_wrap stays among the counters, and items_remaining undoes it: a
\* producer that is n elements ahead of the consumer is reported to be, the
\* queue counts as full exactly when n is its size and as empty exactly when n
\* is zero.  (CheckIsFull in queue.cc tries seven sizes at compile time.)
THEOREM CountersMeasureContents ==
    ASSUME NEW consumer \in Counters, NEW n \in 0 .. Size
    PROVE  LET producer == AddAndWrap(consumer, n)
           IN  /\ producer \in Counters
               /\ ItemsRemaining(producer, consumer) = n
               /\ IsFull(producer, consumer) <=> n = Size
               /\ IsEmpty(producer, consumer) <=> n = 0
BY SizeAssumption DEF Counters, AddAndWrap, ItemsRemaining, IsFull, IsEmpty

\* Any two counters whose distance is at most the size are of that form.
LEMMA ProducerFromItems ==
    ASSUME NEW producer \in Counters, NEW consumer \in Counters
    PROVE  /\ ItemsRemaining(producer, consumer) \in 0 .. 2 * Size - 1
           /\ ItemsRemaining(producer, consumer) <= Size =>
                producer = AddAndWrap(consumer, ItemsRemaining(producer, consumer))
BY SizeAssumption DEF Counters, AddAndWrap, ItemsRemaining

\* counter_store of a run of k elements by a sender that found room for them
\* adds k elements; by a receiver that found them there it removes k.
THEOREM RunsChangeContents ==
    ASSUME NEW producer \in Counters, NEW consumer \in Counters, NEW k \in 0 .. Size,
           ItemsRemaining(producer, consumer) <= Size
    PROVE  /\ ItemsRemaining(producer, consumer) + k <= Size =>
                ItemsRemaining(AddAndWrap(producer, k), consumer)
                    = ItemsRemaining(producer, consumer) + k
           /\ k <= ItemsRemaining(producer, consumer) =>
                ItemsRemaining(producer, AddAndWrap(consumer, k))
                    = ItemsRemaining(producer, consumer) - k
BY SizeAssumption DEF Counters, AddAndWrap, ItemsRemaining

\* The room that queue_send_multiple takes for one memcpy lies inside the
\* buffer and does not exceed the free space; the elements that
\* queue_receive_multiple takes do not exceed what is there.
THEOREM RunsFit ==
    ASSUME NEW t \in Threads, t \in Senders \cup Receivers,
           local[t].own \in Counters, local[t].seen.counter \in Counters,
           local[t].count \in Nat \ {0},
           ItemsRemaining(IF t \in Senders THEN local[t].own ELSE local[t].seen.counter,
                          IF t \in Senders THEN local[t].seen.counter ELSE local[t].own)
               <= Size,
           ~MustWait(t, local[t].own, local[t].seen.counter)
    PROVE  /\ RunLength(t) \in 1 .. Size /\ RunLength(t) <= local[t].count
           /\ IndexAt(local[t].own) + RunLength(t) <= Size
           /\ t \in Senders =>
                ItemsRemaining(local[t].own, local[t].seen.counter) + RunLength(t) <= Size
           /\ t \in Receivers =>
                RunLength(t) <= ItemsRemaining(local[t].seen.counter, local[t].own)
<1> DEFINE own == local[t].own
           seen == local[t].seen.counter
           count == local[t].count
<1>1. own \in Counters /\ seen \in Counters /\ count \in Nat \ {0}
  OBVIOUS
<1>2. CASE t \in Senders
  <2>1. /\ ItemsRemaining(own, seen) <= Size /\ ~IsFull(own, seen)
        /\ t \notin Receivers
    BY <1>2, SizeAssumption DEF MustWait
  <2> HIDE DEF own, seen, count
  <2>2. RunLength(t) = LET start == IndexAt(own)
                           facing == IndexAt(seen)
                           limit == IF facing <= start THEN Size ELSE facing
                       IN  IF count < limit - start THEN count ELSE limit - start
    BY DEF RunLength, own, seen, count
  <2>3. /\ RunLength(t) \in 1 .. Size /\ RunLength(t) <= count
        /\ IndexAt(own) + RunLength(t) <= Size
        /\ ItemsRemaining(own, seen) + RunLength(t) <= Size
    BY <1>1, <2>1, <2>2, SizeAssumption DEF Counters, IndexAt, ItemsRemaining, IsFull
  <2> QED
    BY <2>1, <2>3 DEF own, seen, count
<1>3. CASE t \in Receivers
  <2>1. /\ ItemsRemaining(seen, own) <= Size /\ ~IsEmpty(seen, own)
        /\ t \notin Senders
    BY <1>3, SizeAssumption DEF MustWait
  <2> HIDE DEF own, seen, count
  <2>2. RunLength(t) = LET start == IndexAt(own)
                           facing == IndexAt(seen)
                           limit == IF facing <= start THEN Size ELSE facing
                       IN  IF count < limit - start THEN count ELSE limit - start
    BY DEF RunLength, own, seen, count
  <2>3. /\ RunLength(t) \in 1 .. Size /\ RunLength(t) <= count
        /\ IndexAt(own) + RunLength(t) <= Size
        /\ RunLength(t) <= ItemsRemaining(seen, own)
    BY <1>1, <2>1, <2>2, SizeAssumption DEF Counters, IndexAt, ItemsRemaining, IsEmpty
  <2> QED
    BY <2>1, <2>3 DEF own, seen, count
<1> QED
  BY <1>2, <1>3

---------------------------------------------------------------------------
(* One sender and one receiver *)

\* What a cell may hold.
Elements == Values \cup {Zero}

\* The locals of a call.
Locals ==
    [end : Ends, value : Words, own : Counters, seen : Words, count : Nat,
     run : Seq(Elements), wake : BOOLEAN]

\* The types of the variables.
QTypes ==
    /\ word \in [Ends -> Words]
    /\ buffer \in [0 .. Size - 1 -> Elements]
    /\ pc \in [Threads -> Phases]
    /\ local \in [Threads -> Locals]

\* The elements in the queue as the thread's own counter and the other end's
\* counter, given, tell.
Items(t, own, facing) ==
    IF t \in Senders THEN ItemsRemaining(own, facing) ELSE ItemsRemaining(facing, own)

\* The phases in which `own' and `seen' have been loaded.
Loaded == {"datawait", "datawoken", "datareload", "copy", "store"}

\* What a thread's locals have to do with the words.  The number of elements
\* that follows from a stale copy of the other end's counter errs on the safe
\* side: a sender sees too many, a receiver too few.
ThreadOK(t) ==
    LET own == local[t].own
        seen == local[t].seen.counter
        facing == word[Facing(t)].counter
        n == Len(local[t].run)
    IN  /\ pc[t] \notin {"resetproducer", "resetconsumer"}
        /\ pc[t] # "idle" => local[t].end = Own(t)
        /\ pc[t] \in {"loop"} \cup (Loaded \ {"store"}) => local[t].count > 0
        /\ pc[t] \in Loaded =>
             /\ own = word[Own(t)].counter
             /\ Items(t, own, seen) <= Size
             /\ t \in Senders => Items(t, own, facing) <= Items(t, own, seen)
             /\ t \in Receivers => Items(t, own, seen) <= Items(t, own, facing)
        /\ pc[t] = "copy" => ~MustWait(t, own, seen)
        /\ pc[t] = "store" =>
             /\ n \in 1 .. Size /\ n <= local[t].count
             /\ t \in Senders => Items(t, own, facing) + n <= Size
             /\ t \in Receivers => n <= Items(t, own, facing)
        /\ pc[t] = "unlock" => local[t].value.counter = word[Own(t)].counter

\* The counters are never more than one length of the ring apart.
Bounded == ItemsRemaining(word["producer"].counter, word["consumer"].counter) <= Size

\* The inductive invariant.
QInv == QTypes /\ Bounded /\ \A t \in Threads : ThreadOK(t)

\* One thread at each end of the queue, and no queue_reset.
OneEach ==
    /\ \A s1, s2 \in Senders : s1 = s2
    /\ \A r1, r2 \in Receivers : r1 = r2
    /\ Resetters = {}

\* A step of thread t that changes no counter and no other thread's locals
\* keeps the invariant if it keeps what concerns t.
LEMMA StepOfOne ==
    ASSUME QInv, QTypes', NEW t \in Threads, ThreadOK(t)',
           \A e \in Ends : word'[e].counter = word[e].counter,
           \A u \in Threads : u # t => pc'[u] = pc[u] /\ local'[u] = local[u]
    PROVE  QInv'
<1>1. Bounded'
  BY DEF QInv, Bounded, Ends
<1>2. ASSUME NEW u \in Threads, u # t PROVE ThreadOK(u)'
  <2>1. /\ pc'[u] = pc[u] /\ local'[u] = local[u]
        /\ word'[Own(u)].counter = word[Own(u)].counter
        /\ word'[Facing(u)].counter = word[Facing(u)].counter
    BY <1>2 DEF Own, Facing, Ends
  <2>2. ThreadOK(u)
    BY DEF QInv
  <2> QED
    BY <2>1, <2>2 DEF ThreadOK, Items, MustWait
<1> QED
  BY <1>1, <1>2 DEF QInv

\* What the provers need to know of the types.
LEMMA TypesOf ==
    ASSUME QTypes, NEW t \in Threads
    PROVE  /\ pc[t] \in Phases
           /\ local[t] \in Locals
           /\ Own(t) \in Ends /\ Facing(t) \in Ends
           /\ word[Own(t)] \in Words /\ word[Facing(t)] \in Words
           /\ word["producer"] \in Words /\ word["consumer"] \in Words
           /\ ZeroWord \in Words /\ Fresh \in Locals
BY SizeAssumption DEF QTypes, Own, Facing, Ends, ZeroWord, Fresh, Locals, Words, Counters

\* queue_create: both words are zero, the queue is empty and nobody is inside a call.
LEMMA InitQInv ==
    ASSUME OneEach
    PROVE  Init => QInv
<1> SUFFICES ASSUME Init PROVE QInv
  OBVIOUS
<1>1. ZeroWord \in Words /\ Fresh \in Locals
  BY SizeAssumption DEF ZeroWord, Fresh, Locals, Words, Ends, Counters
<1>2. QTypes
  BY <1>1 DEF Init, QTypes, Phases, Elements
<1>3. Bounded
  BY SizeAssumption DEF Init, Bounded, ItemsRemaining, Ends, ZeroWord
<1>4. ASSUME NEW t \in Threads PROVE ThreadOK(t)
  BY DEF Init, ThreadOK, Loaded
<1> QED
  BY <1>2, <1>3, <1>4 DEF QInv

\* A step of thread t in terms of where it goes and what its locals become.
LEMMA StepTypes ==
    ASSUME QTypes, NEW t \in Threads, NEW phase \in Phases, NEW l \in Locals,
           pc' = [pc EXCEPT ![t] = phase], local' = [local EXCEPT ![t] = l],
           word' \in [Ends -> Words], buffer' \in [0 .. Size - 1 -> Elements]
    PROVE  /\ QTypes' /\ pc'[t] = phase /\ local'[t] = l
           /\ \A u \in Threads : u # t => pc'[u] = pc[u] /\ local'[u] = local[u]
BY DEF QTypes

\* The phases in which ThreadOK asks for no more than the right end.
Free == {"lockload", "lockwaiters", "lockwait", "lockwoken", "lockcas", "checkwake",
         "unlockload", "unlocknotify", "notify"}

\* A step into one of them, to the top of the loop, or out of the call.
LEMMA FreeStep ==
    ASSUME QInv, NEW t \in Threads, NEW phase \in Free \cup {"idle", "loop"},
           NEW l \in Locals, phase = "idle" \/ l.end = Own(t),
           phase = "loop" => l.count > 0,
           pc' = [pc EXCEPT ![t] = phase], local' = [local EXCEPT ![t] = l],
           word' \in [Ends -> Words], buffer' = buffer,
           \A e \in Ends : word'[e].counter = word[e].counter
    PROVE  QInv'
<1>1. phase \in Phases /\ QTypes
  BY DEF Free, Phases, QInv
<1>2. /\ QTypes' /\ pc'[t] = phase /\ local'[t] = l
      /\ \A u \in Threads : u # t => pc'[u] = pc[u] /\ local'[u] = local[u]
  BY <1>1, StepTypes DEF QTypes
<1>3. ThreadOK(t)'
  BY <1>2 DEF ThreadOK, Free, Loaded
<1> QED
  BY <1>2, <1>3, StepOfOne

\* try_lock reads the word and decides; no counter changes.
LEMMA LockLoadStep ==
    ASSUME OneEach, QInv, NEW t \in Threads, LockLoad(t)
    PROVE  QInv'
<1> DEFINE w == word[local[t].end]
           l == [local[t] EXCEPT !.value = w]
<1>1. QTypes /\ ThreadOK(t) /\ t \notin Resetters
  BY DEF QInv, OneEach
<1>2. /\ local[t] \in Locals /\ Fresh \in Locals /\ local[t].end = Own(t)
      /\ w \in Words /\ word' \in [Ends -> Words]
  BY <1>1, TypesOf DEF ThreadOK, LockLoad, QTypes
<1>3. l \in Locals /\ l.end = Own(t)
  BY <1>2 DEF Locals
<1>4. CASE w.destruct
  <2>1. pc' = [pc EXCEPT ![t] = "idle"] /\ local' = [local EXCEPT ![t] = Fresh]
    BY <1>1, <1>4 DEF LockLoad, LockFails, Goto
  <2> QED
    BY <1>2, <2>1, FreeStep DEF LockLoad, Free
<1>5. CASE ~w.destruct
  <2>1. \E phase \in Free : pc' = [pc EXCEPT ![t] = phase]
    BY <1>5 DEF LockLoad, Goto, Free
  <2>2. local' = [local EXCEPT ![t] = l]
    BY <1>5 DEF LockLoad
  <2> HIDE DEF l
  <2> QED
    BY <1>2, <1>3, <2>1, <2>2, FreeStep DEF LockLoad, Free
<1> QED
  BY <1>4, <1>5

\* try_lock sets the waiters bit by compare-and-exchange and keeps the counter.
LEMMA LockAddWaitersStep ==
    ASSUME OneEach, QInv, NEW t \in Threads, LockAddWaiters(t)
    PROVE  QInv'
<1> DEFINE e == local[t].end
           w == [word[e] EXCEPT !.waiters = TRUE]
           l == [local[t] EXCEPT !.value = word[e]]
<1>1. QTypes /\ ThreadOK(t)
  BY DEF QInv
<1>2. local[t] \in Locals /\ e = Own(t) /\ e \in Ends /\ word[e] \in Words
  BY <1>1, TypesOf DEF ThreadOK, LockAddWaiters
<1>3. l \in Locals /\ l.end = Own(t) /\ w \in Words /\ w.counter = word[e].counter
  BY <1>2 DEF Locals, Words
<1>4. CASE word[e] = local[t].value
  <2>1. /\ pc' = [pc EXCEPT ![t] = "lockwait"] /\ local' = [local EXCEPT ![t] = local[t]]
        /\ word' = [word EXCEPT ![e] = w] /\ buffer' = buffer
    BY <1>1, <1>2, <1>4 DEF LockAddWaiters, Goto, QTypes
  <2> HIDE DEF w, e
  <2>2. /\ word' \in [Ends -> Words]
        /\ \A f \in Ends : word'[f].counter = word[f].counter
    BY <1>1, <1>2, <1>3, <2>1 DEF QTypes
  <2> QED
    BY <1>2, <2>1, <2>2, FreeStep DEF Free, e
<1>5. CASE word[e] # local[t].value
  <2>1. /\ pc' = [pc EXCEPT ![t] = "lockcas"] /\ local' = [local EXCEPT ![t] = l]
        /\ word' = word /\ buffer' = buffer
    BY <1>5 DEF LockAddWaiters, Goto
  <2> HIDE DEF l
  <2> QED
    BY <1>1, <1>3, <2>1, FreeStep DEF Free, QTypes
<1> QED
  BY <1>4, <1>5

\* try_lock sleeps on the word; only the program counter changes.
LEMMA LockWaitStep ==
    ASSUME OneEach, QInv, NEW t \in Threads, LockWait(t)
    PROVE  QInv'
<1>1. QTypes /\ ThreadOK(t)
  BY DEF QInv
<1>2. local[t] \in Locals /\ local[t].end = Own(t)
  BY <1>1, TypesOf DEF ThreadOK, LockWait
<1>3. \E phase \in Free : pc' = [pc EXCEPT ![t] = phase]
  BY DEF LockWait, Goto, Free
<1>4. local' = [local EXCEPT ![t] = local[t]] /\ word' = word /\ buffer' = buffer
  BY <1>1 DEF LockWait, QTypes
<1> QED
  BY <1>1, <1>2, <1>3, <1>4, FreeStep DEF Free, QTypes

\* The compare-and-exchange that takes the lock keeps the counter, and the
\* thread goes on to its loop with elements left to move.
LEMMA LockCasStep ==
    ASSUME OneEach, QInv, NEW t \in Threads, LockCas(t)
    PROVE  QInv'
<1> DEFINE e == local[t].end
           w == [word[e] EXCEPT !.locked = TRUE]
           l == [local[t] EXCEPT !.value = ZeroWord]
           phase == Continue(local[t].count)
<1>1. QTypes /\ ThreadOK(t) /\ t \notin Resetters
  BY DEF QInv, OneEach
<1>2. /\ local[t] \in Locals /\ e = Own(t) /\ e \in Ends /\ word[e] \in Words
      /\ ZeroWord \in Words
  BY <1>1, TypesOf DEF ThreadOK, LockCas
<1>3. /\ l \in Locals /\ l.end = Own(t) /\ l.count = local[t].count
      /\ w \in Words /\ w.counter = word[e].counter
  BY <1>2 DEF Locals, Words
<1>4. phase \in Free \cup {"loop"} /\ (phase = "loop" => l.count > 0)
  BY <1>2, <1>3 DEF Continue, Free, Locals
<1>5. CASE word[e] = local[t].value
  <2>1. /\ pc' = [pc EXCEPT ![t] = phase] /\ local' = [local EXCEPT ![t] = l]
        /\ word' = [word EXCEPT ![e] = w] /\ buffer' = buffer
    BY <1>1, <1>2, <1>5 DEF LockCas, LockSucceeds, Goto, QTypes
  <2> HIDE DEF w, e, l, phase
  <2>2. /\ word' \in [Ends -> Words]
        /\ \A f \in Ends : word'[f].counter = word[f].counter
    BY <1>1, <1>2, <1>3, <2>1 DEF QTypes
  <2> QED
    BY <1>3, <1>4, <2>1, <2>2, FreeStep
<1>6. CASE word[e] # local[t].value
  <2>1. /\ pc' = [pc EXCEPT ![t] = "lockload"] /\ local' = [local EXCEPT ![t] = l]
        /\ word' = word /\ buffer' = buffer
    BY <1>6 DEF LockCas, Goto
  <2> HIDE DEF l
  <2> QED
    BY <1>1, <1>3, <2>1, FreeStep DEF Free, QTypes
<1> QED
  BY <1>5, <1>6

\* unlock has a copy of the word whose counter stays right: only the holder of
\* an end's lock changes its counter, and there is nobody else at that end.
LEMMA UnlockLoadStep ==
    ASSUME OneEach, QInv, NEW t \in Threads, UnlockLoad(t)
    PROVE  QInv'
<1> DEFINE l == [local[t] EXCEPT !.value = word[local[t].end]]
<1>1. QTypes /\ ThreadOK(t)
  BY DEF QInv
<1>2. /\ local[t] \in Locals /\ local[t].end = Own(t) /\ word[Own(t)] \in Words
      /\ "unlock" \in Phases
  BY <1>1, TypesOf DEF ThreadOK, UnlockLoad, Phases
<1>3. l \in Locals /\ l.end = Own(t) /\ l.value = word[Own(t)]
  BY <1>2 DEF Locals
<1>4. /\ pc' = [pc EXCEPT ![t] = "unlock"] /\ local' = [local EXCEPT ![t] = l]
      /\ word' = word /\ buffer' = buffer
  BY DEF UnlockLoad, Goto
<1> HIDE DEF l
<1>5. /\ QTypes' /\ pc'[t] = "unlock" /\ local'[t] = l
      /\ \A u \in Threads : u # t => pc'[u] = pc[u] /\ local'[u] = local[u]
  BY <1>1, <1>2, <1>3, <1>4, StepTypes DEF QTypes
<1>6. ThreadOK(t)'
  BY <1>3, <1>4, <1>5 DEF ThreadOK, Loaded
<1> QED
  BY <1>4, <1>5, <1>6, StepOfOne

\* unlock exchanges the word for the value it loaded, whose counter is still
\* that of the word: with one thread at this end nobody else has moved it.
LEMMA UnlockStep ==
    ASSUME OneEach, QInv, NEW t \in Threads, Unlock(t)
    PROVE  QInv'
<1> DEFINE e == local[t].end
           w == [local[t].value EXCEPT !.locked = FALSE]
           l == [local[t] EXCEPT !.value = ZeroWord]
<1>1. QTypes /\ ThreadOK(t) /\ t \notin Resetters
  BY DEF QInv, OneEach
<1>2. /\ local[t] \in Locals /\ e = Own(t) /\ e \in Ends /\ ZeroWord \in Words
      /\ local[t].value.counter = word[e].counter
  BY <1>1, TypesOf DEF ThreadOK, Unlock
<1>3. /\ l \in Locals /\ l.end = Own(t)
      /\ w \in Words /\ w.counter = word[e].counter
  BY <1>2 DEF Locals, Words
<1>4. word' = [word EXCEPT ![e] = w] /\ buffer' = buffer
  BY DEF Unlock
<1>5. \/ pc' = [pc EXCEPT ![t] = "unlocknotify"] /\ local' = [local EXCEPT ![t] = local[t]]
      \/ pc' = [pc EXCEPT ![t] = "notify"] /\ local' = [local EXCEPT ![t] = l]
  BY <1>1 DEF Unlock, Unlocked, Goto, QTypes
<1> HIDE DEF e, w, l
<1>6. /\ word' \in [Ends -> Words]
      /\ \A f \in Ends : word'[f].counter = word[f].counter
  BY <1>1, <1>2, <1>3, <1>4 DEF QTypes
<1>7. local[t].end = Own(t) /\ {"unlocknotify", "notify"} \subseteq Free
  BY <1>2 DEF e, Free
<1> QED
  BY <1>2, <1>3, <1>4, <1>5, <1>6, <1>7, FreeStep

\* unlock wakes those who wait for the lock; only the program counter changes.
LEMMA UnlockNotifyStep ==
    ASSUME OneEach, QInv, NEW t \in Threads, UnlockNotify(t)
    PROVE  QInv'
<1> DEFINE l == [local[t] EXCEPT !.value = ZeroWord]
<1>1. QTypes /\ ThreadOK(t) /\ t \notin Resetters
  BY DEF QInv, OneEach
<1>2. local[t] \in Locals /\ local[t].end = Own(t) /\ ZeroWord \in Words
  BY <1>1, TypesOf DEF ThreadOK, UnlockNotify
<1>3. l \in Locals /\ l.end = Own(t)
  BY <1>2 DEF Locals
<1>4. /\ pc' = [pc EXCEPT ![t] = "notify"] /\ local' = [local EXCEPT ![t] = l]
      /\ word' = word /\ buffer' = buffer
  BY <1>1 DEF UnlockNotify, Unlocked, Goto
<1> HIDE DEF l
<1> QED
  BY <1>1, <1>3, <1>4, FreeStep DEF Free, QTypes

\* The number of elements is a number, and the ring has room for them.
LEMMA ItemsNow ==
    ASSUME OneEach, QInv, NEW t \in Threads
    PROVE  /\ \A own, facing \in Counters : Items(t, own, facing) \in Nat
           /\ Items(t, word[Own(t)].counter, word[Facing(t)].counter) <= Size
           /\ word[Own(t)].counter \in Counters /\ word[Facing(t)].counter \in Counters
<1>1. QTypes /\ Bounded
  BY DEF QInv
<1>2. ASSUME NEW own \in Counters, NEW facing \in Counters PROVE Items(t, own, facing) \in Nat
  BY ProducerFromItems DEF Items
<1>3. word[Own(t)].counter \in Counters /\ word[Facing(t)].counter \in Counters
  BY <1>1, TypesOf DEF Words, Counters
<1>4. \/ t \in Senders /\ t \notin Receivers
      \/ t \in Receivers /\ t \notin Senders
  BY SizeAssumption DEF OneEach, Threads
<1>5. Items(t, word[Own(t)].counter, word[Facing(t)].counter) <= Size
  BY <1>1, <1>4 DEF Items, Own, Facing, Bounded
<1> QED
  BY <1>2, <1>3, <1>5

\* A step that loads the other end's word and knows our own counter.
LEMMA LoadedStep ==
    ASSUME OneEach, QInv, NEW t \in Threads, NEW phase \in {"datawait", "copy"},
           NEW l \in Locals, l.end = Own(t), l.count > 0,
           l.own = word[Own(t)].counter, l.seen = word[Facing(t)],
           phase = "copy" => ~MustWait(t, l.own, l.seen.counter),
           pc' = [pc EXCEPT ![t] = phase], local' = [local EXCEPT ![t] = l],
           word' = word, buffer' = buffer
    PROVE  QInv'
<1>1. phase \in Phases /\ QTypes
  BY DEF Phases, QInv
<1>2. /\ QTypes' /\ pc'[t] = phase /\ local'[t] = l
      /\ \A u \in Threads : u # t => pc'[u] = pc[u] /\ local'[u] = local[u]
  BY <1>1, StepTypes DEF QTypes
<1> DEFINE items == Items(t, l.own, l.seen.counter)
<1>3. items \in Nat /\ items <= Size
  BY ItemsNow
<1>4. items <= items
  BY <1>3
<1>5. ThreadOK(t)'
  BY <1>2, <1>3, <1>4 DEF ThreadOK, Loaded
<1> QED
  BY <1>2, <1>5, StepOfOne

\* The transfer loop loads both words: the copies are exact at this moment.
LEMMA LoopStep ==
    ASSUME OneEach, QInv, NEW t \in Threads, Loop(t)
    PROVE  QInv'
<1> DEFINE own == word[Own(t)].counter
           seen == word[Facing(t)]
           l == [local[t] EXCEPT !.own = own, !.seen = seen]
           phase == IF MustWait(t, own, seen.counter) THEN "datawait" ELSE "copy"
<1>1. QTypes /\ ThreadOK(t)
  BY DEF QInv
<1>2. /\ local[t] \in Locals /\ local[t].end = Own(t) /\ local[t].count > 0
      /\ seen \in Words /\ own \in Counters
  BY <1>1, TypesOf, ItemsNow DEF ThreadOK, Loop
<1>3. /\ l \in Locals /\ l.end = Own(t) /\ l.count > 0 /\ l.own = own /\ l.seen = seen
  BY <1>2 DEF Locals
<1>4. /\ pc' = [pc EXCEPT ![t] = phase] /\ local' = [local EXCEPT ![t] = l]
      /\ word' = word /\ buffer' = buffer
  BY DEF Loop, Goto
<1>5. phase \in {"datawait", "copy"} /\ (phase = "copy" => ~MustWait(t, own, seen.counter))
  OBVIOUS
<1> HIDE DEF l, phase
<1> QED
  BY <1>3, <1>4, <1>5, LoadedStep

\* After a wait the other end's word is loaded again, and is exact again.
LEMMA DataReloadStep ==
    ASSUME OneEach, QInv, NEW t \in Threads, DataReload(t)
    PROVE  QInv'
<1> DEFINE own == word[Own(t)].counter
           seen == word[Facing(t)]
           l == [local[t] EXCEPT !.seen = seen]
           phase == IF MustWait(t, local[t].own, seen.counter) THEN "datawait" ELSE "copy"
<1>1. QTypes /\ ThreadOK(t)
  BY DEF QInv
<1>2. /\ local[t] \in Locals /\ local[t].end = Own(t) /\ local[t].count > 0
      /\ seen \in Words /\ local[t].own = own
  BY <1>1, TypesOf DEF ThreadOK, DataReload, Loaded
<1>3. /\ l \in Locals /\ l.end = Own(t) /\ l.count > 0 /\ l.own = own /\ l.seen = seen
  BY <1>2 DEF Locals
<1>4. /\ pc' = [pc EXCEPT ![t] = phase] /\ local' = [local EXCEPT ![t] = l]
      /\ word' = word /\ buffer' = buffer
  BY DEF DataReload, Goto
<1>5. phase \in {"datawait", "copy"} /\ (phase = "copy" => ~MustWait(t, own, seen.counter))
  BY <1>2
<1> HIDE DEF l, phase
<1> QED
  BY <1>3, <1>4, <1>5, LoadedStep

\* Waiting for room or for an element changes no counter.
LEMMA DataWaitStep ==
    ASSUME OneEach, QInv, NEW t \in Threads, DataWait(t)
    PROVE  QInv'
<1>1. QTypes /\ ThreadOK(t)
  BY DEF QInv
<1>2. PICK phase \in {"datawoken", "datareload"} : pc' = [pc EXCEPT ![t] = phase]
  BY DEF DataWait, Goto
<1>3. /\ local' = [local EXCEPT ![t] = local[t]] /\ word' = word /\ buffer' = buffer
      /\ local[t] \in Locals /\ phase \in Phases
  BY <1>1, TypesOf DEF DataWait, QTypes, Phases
<1>4. /\ QTypes' /\ pc'[t] = phase /\ local'[t] = local[t]
      /\ \A u \in Threads : u # t => pc'[u] = pc[u] /\ local'[u] = local[u]
  BY <1>1, <1>2, <1>3, StepTypes DEF QTypes
<1>5. ThreadOK(t)'
  BY <1>1, <1>3, <1>4 DEF DataWait, ThreadOK, Loaded
<1> QED
  BY <1>3, <1>4, <1>5, StepOfOne

\* A timeout leaves the call by way of unlock, or without it if the lock
\* was not taken; no counter changes.
LEMMA TimeOutStep ==
    ASSUME OneEach, QInv, NEW t \in Threads, TimeOut(t)
    PROVE  QInv'
<1>1. QTypes /\ ThreadOK(t) /\ t \notin Resetters
  BY DEF QInv, OneEach
<1>2. local[t] \in Locals /\ Fresh \in Locals /\ local[t].end = Own(t)
  BY <1>1, TypesOf DEF ThreadOK, TimeOut
<1>3. word' = word /\ buffer' = buffer /\ word' \in [Ends -> Words]
  BY <1>1 DEF TimeOut, QTypes
<1>4. \/ pc' = [pc EXCEPT ![t] = "idle"] /\ local' = [local EXCEPT ![t] = Fresh]
      \/ pc' = [pc EXCEPT ![t] = "unlockload"] /\ local' = [local EXCEPT ![t] = local[t]]
  BY <1>1 DEF TimeOut, LockFails, Goto, QTypes
<1> QED
  BY <1>2, <1>3, <1>4, FreeStep DEF Free

\* In front of memcpy the run fits.
LEMMA CopyFits ==
    ASSUME OneEach, QInv, NEW t \in Threads, pc[t] = "copy"
    PROVE  /\ RunLength(t) \in 1 .. Size /\ RunLength(t) <= local[t].count
           /\ IndexAt(local[t].own) \in 0 .. Size - 1
           /\ IndexAt(local[t].own) + RunLength(t) <= Size
           /\ t \in Senders =>
                Items(t, local[t].own, word[Facing(t)].counter) + RunLength(t) <= Size
           /\ t \in Receivers =>
                RunLength(t) <= Items(t, local[t].own, word[Facing(t)].counter)
<1> DEFINE own == local[t].own
           seen == local[t].seen.counter
           facing == word[Facing(t)].counter
<1>1. QTypes /\ ThreadOK(t)
  BY DEF QInv
<1>2. /\ own \in Counters /\ seen \in Counters /\ facing \in Counters
      /\ local[t].count \in Nat
  BY <1>1, TypesOf, ItemsNow DEF Locals, Words, Counters
<1>3. /\ local[t].count > 0 /\ Items(t, own, seen) <= Size
      /\ t \in Senders => Items(t, own, facing) <= Items(t, own, seen)
      /\ t \in Receivers => Items(t, own, seen) <= Items(t, own, facing)
      /\ ~MustWait(t, own, seen)
  BY <1>1 DEF ThreadOK, Loaded
<1>4. /\ t \in Senders \cup Receivers
      /\ t \in Receivers => t \notin Senders
  BY SizeAssumption DEF OneEach, Threads
<1>5. /\ RunLength(t) \in 1 .. Size /\ RunLength(t) <= local[t].count
      /\ IndexAt(own) + RunLength(t) <= Size
      /\ t \in Senders => ItemsRemaining(own, seen) + RunLength(t) <= Size
      /\ t \in Receivers => RunLength(t) <= ItemsRemaining(seen, own)
  BY <1>2, <1>3, <1>4, RunsFit DEF Items
<1>6. Items(t, own, seen) \in Nat /\ Items(t, own, facing) \in Nat
  BY <1>2, ItemsNow
<1>7. IndexAt(own) \in 0 .. Size - 1
  BY <1>2, SizeAssumption DEF IndexAt, Counters
<1> HIDE DEF own, seen, facing
<1>8. CASE t \in Senders
  <2>1. Items(t, own, seen) = ItemsRemaining(own, seen) /\ t \notin Receivers
    BY <1>4, <1>8 DEF Items
  <2>2. Items(t, own, facing) + RunLength(t) <= Size
    BY <1>3, <1>5, <1>6, <1>8, <2>1, SizeAssumption
  <2> QED
    BY <1>5, <1>7, <2>1, <2>2 DEF own, facing
<1>9. CASE t \in Receivers
  <2>1. Items(t, own, seen) = ItemsRemaining(seen, own) /\ t \notin Senders
    BY <1>4, <1>9 DEF Items
  <2>2. RunLength(t) <= Items(t, own, facing)
    BY <1>3, <1>5, <1>6, <1>9, <2>1, SizeAssumption
  <2> QED
    BY <1>5, <1>7, <2>1, <2>2 DEF own, facing
<1> QED
  BY <1>4, <1>8, <1>9

\* What memcpy writes are elements.
LEMMA WrittenType ==
    ASSUME QTypes, NEW start \in 0 .. Size - 1, NEW n \in Nat, NEW run \in [1 .. n -> Values]
    PROVE  Written(start, run) \in [0 .. Size - 1 -> Elements]
<1>1. buffer \in [0 .. Size - 1 -> Elements] /\ DOMAIN run = 1 .. n
  BY DEF QTypes
<1> QED
  BY <1>1 DEF Written, Elements

\* memcpy of a run that fits in what the possibly stale copy promises, hence in
\* what there is.
LEMMA CopyStep ==
    ASSUME OneEach, QInv, NEW t \in Threads, Copy(t)
    PROVE  QInv'
<1> DEFINE start == IndexAt(local[t].own)
           n == RunLength(t)
<1>1. QTypes /\ ThreadOK(t) /\ local[t] \in Locals /\ pc[t] = "copy" /\ "store" \in Phases
  BY TypesOf DEF QInv, Copy, Phases
<1>2. /\ n \in 1 .. Size /\ n <= local[t].count
      /\ start \in 0 .. Size - 1 /\ start + n <= Size
      /\ t \in Senders => Items(t, local[t].own, word[Facing(t)].counter) + n <= Size
      /\ t \in Receivers => n <= Items(t, local[t].own, word[Facing(t)].counter)
  BY <1>1, CopyFits
<1>3. Size \in Nat /\ n \in Nat
  BY <1>2, SizeAssumption
<1>4. \E run \in [1 .. n -> Elements] :
        /\ local' = [local EXCEPT ![t].run = run]
        /\ buffer' \in [0 .. Size - 1 -> Elements]
  <2>1. CASE t \in Senders
    <3>1. PICK run \in [1 .. n -> Values] :
            /\ buffer' = Written(start, run)
            /\ local' = [local EXCEPT ![t].run = run]
      BY <2>1, SizeAssumption DEF Copy
    <3>2. buffer' \in [0 .. Size - 1 -> Elements]
      BY <1>1, <1>2, <1>3, <3>1, WrittenType
    <3>3. run \in [1 .. n -> Elements]
      BY DEF Elements
    <3> QED
      BY <3>1, <3>2, <3>3
  <2>2. CASE t \in Receivers
    <3> DEFINE run == [i \in 1 .. n |-> buffer[start + i - 1]]
    <3>1. buffer' = buffer /\ local' = [local EXCEPT ![t].run = run]
      BY <2>2, SizeAssumption DEF Copy
    <3>2. \A i \in 1 .. n : start + i - 1 \in 0 .. Size - 1
      BY <1>2, <1>3
    <3>3. run \in [1 .. n -> Elements]
      BY <1>1, <3>2 DEF QTypes
    <3> QED
      BY <1>1, <3>1, <3>3 DEF QTypes
  <2> QED
    BY <2>1, <2>2 DEF OneEach, Threads
<1>5. PICK run \in [1 .. n -> Elements] :
        /\ local' = [local EXCEPT ![t].run = run]
        /\ buffer' \in [0 .. Size - 1 -> Elements]
  BY <1>4
<1>6. run \in Seq(Elements) /\ Len(run) = n
  BY <1>3
<1> DEFINE l == [local[t] EXCEPT !.run = run]
<1>7. /\ l \in Locals /\ l.run = run /\ l.end = local[t].end /\ l.own = local[t].own
      /\ l.seen = local[t].seen /\ l.count = local[t].count
  BY <1>1, <1>6 DEF Locals
<1>8. pc' = [pc EXCEPT ![t] = "store"] /\ local' = [local EXCEPT ![t] = l] /\ word' = word
  BY <1>5 DEF Copy, Goto
<1> HIDE DEF l, n, start
<1>9. /\ QTypes' /\ pc'[t] = "store" /\ local'[t] = l
      /\ \A u \in Threads : u # t => pc'[u] = pc[u] /\ local'[u] = local[u]
  BY <1>1, <1>5, <1>7, <1>8, StepTypes DEF QTypes
<1>10. ThreadOK(t)'
  BY <1>1, <1>2, <1>6, <1>7, <1>8, <1>9 DEF ThreadOK, Loaded
<1> QED
  BY <1>8, <1>9, <1>10, StepOfOne

\* A fault in memcpy leaves the counters, and what is published, alone.
LEMMA CopyFaultsStep ==
    ASSUME OneEach, QInv, NEW t \in Threads, CopyFaults(t)
    PROVE  QInv'
<1>1. /\ QTypes /\ ThreadOK(t) /\ local[t] \in Locals /\ pc[t] = "copy"
      /\ "unlockload" \in Phases
  BY TypesOf DEF QInv, CopyFaults, Phases
<1>2. buffer' \in [0 .. Size - 1 -> Elements]
  <2>1. IndexAt(local[t].own) \in 0 .. Size - 1 /\ RunLength(t) \in Nat
    BY <1>1, CopyFits, SizeAssumption
  <2>2. CASE buffer' = buffer
    BY <1>1, <2>2 DEF QTypes
  <2>3. CASE buffer' # buffer
    <3>1. PICK m \in 0 .. RunLength(t) - 1 : \E run \in [1 .. m -> Values] :
            buffer' = Written(IndexAt(local[t].own), run)
      BY <2>3 DEF CopyFaults
    <3>2. m \in Nat
      BY <2>1
    <3> QED
      BY <1>1, <2>1, <3>1, <3>2, WrittenType
  <2> QED
    BY <2>2, <2>3
<1>3. /\ pc' = [pc EXCEPT ![t] = "unlockload"] /\ local' = [local EXCEPT ![t] = local[t]]
      /\ word' = word
  BY <1>1 DEF CopyFaults, Goto, QTypes
<1>4. /\ QTypes' /\ pc'[t] = "unlockload" /\ local'[t] = local[t]
      /\ \A u \in Threads : u # t => pc'[u] = pc[u] /\ local'[u] = local[u]
  BY <1>1, <1>2, <1>3, StepTypes DEF QTypes
<1>5. ThreadOK(t)'
  BY <1>1, <1>3, <1>4 DEF ThreadOK, Loaded
<1> QED
  BY <1>3, <1>4, <1>5, StepOfOne

\* counter_store: the other end's stale copy of our counter still errs on the
\* safe side.
LEMMA StoreStep ==
    ASSUME OneEach, QInv, NEW t \in Threads, Store(t)
    PROVE  QInv'
<1> DEFINE own == local[t].own
           facing == word[Facing(t)].counter
           n == Len(local[t].run)
           c == AddAndWrap(own, n)
           w == [word[Own(t)] EXCEPT !.counter = c]
           left == local[t].count - n
           l == [local[t] EXCEPT !.count = left, !.run = <<>>]
<1>1. QTypes /\ ThreadOK(t) /\ local[t] \in Locals /\ "checkwake" \in Phases
  BY TypesOf DEF QInv, Phases
<1>2. /\ own = word[Own(t)].counter /\ own \in Counters /\ facing \in Counters
      /\ n \in 1 .. Size /\ n <= local[t].count /\ local[t].end = Own(t)
      /\ Items(t, own, facing) <= Size
      /\ t \in Senders => Items(t, own, facing) + n <= Size
      /\ t \in Receivers => n <= Items(t, own, facing)
  BY <1>1, ItemsNow DEF ThreadOK, Store, Loaded
<1>3. Size \in Nat /\ n \in 0 .. Size /\ local[t].count \in Nat /\ local[t].count - n \in Nat
  BY <1>1, <1>2, SizeAssumption DEF Locals
<1>4. c \in Counters
  BY <1>2, <1>3, CountersMeasureContents
<1>5. /\ w \in Words /\ w.counter = c
      /\ Own(t) \in Ends /\ Facing(t) \in Ends
  BY <1>1, <1>4, TypesOf DEF Words, Counters
<1>6. l \in Locals /\ l.end = Own(t)
  <2>1. left \in Nat /\ <<>> \in Seq(Elements)
    BY <1>3
  <2> HIDE DEF left
  <2> QED
    BY <1>1, <1>2, <2>1 DEF Locals
<1>7. /\ pc' = [pc EXCEPT ![t] = "checkwake"] /\ local' = [local EXCEPT ![t] = l]
      /\ word' = [word EXCEPT ![Own(t)] = w] /\ buffer' = buffer
  BY DEF Store, Goto
<1> HIDE DEF l, w, n, c
<1>8. /\ word' \in [Ends -> Words] /\ word'[Own(t)].counter = c
      /\ \A e \in Ends : e # Own(t) => word'[e] = word[e]
  BY <1>1, <1>5, <1>7 DEF QTypes
<1>9. /\ QTypes' /\ pc'[t] = "checkwake" /\ local'[t] = l
      /\ \A u \in Threads : u # t => pc'[u] = pc[u] /\ local'[u] = local[u]
  BY <1>1, <1>6, <1>7, <1>8, StepTypes DEF QTypes
<1>10. ThreadOK(t)'
  BY <1>6, <1>9 DEF ThreadOK, Loaded
<1>11. CASE t \in Senders
  <2>1. /\ t \notin Receivers /\ Own(t) = "producer" /\ Facing(t) = "consumer"
    BY <1>11, SizeAssumption DEF Own, Facing
  <2>2. /\ ItemsRemaining(own, facing) <= Size
        /\ ItemsRemaining(own, facing) + n <= Size
        /\ ItemsRemaining(c, facing) = ItemsRemaining(own, facing) + n
    BY <1>2, <1>3, <1>11, RunsChangeContents DEF Items, c
  <2>3. word'["producer"].counter = c /\ word'["consumer"].counter = facing
    BY <1>8, <2>1 DEF Ends
  <2>4. Bounded'
    BY <2>2, <2>3 DEF Bounded
  <2>5. ASSUME NEW u \in Threads, u # t PROVE ThreadOK(u)'
    <3>1. /\ u \in Receivers /\ u \notin Senders
          /\ Own(u) = "consumer" /\ Facing(u) = "producer"
      BY <1>11, <2>5, SizeAssumption DEF OneEach, Threads, Own, Facing
    <3>2. ThreadOK(u) /\ pc'[u] = pc[u] /\ local'[u] = local[u] /\ local[u] \in Locals
      BY <1>1, <1>9, <2>5, TypesOf DEF QInv
    <3>3. /\ word'[Own(u)].counter = word[Own(u)].counter
          /\ word[Own(u)].counter = facing
          /\ word[Facing(u)].counter = own /\ word'[Facing(u)].counter = c
      BY <1>2, <2>1, <2>3, <3>1
    <3>4. /\ Items(u, facing, c) = Items(u, facing, own) + n
          /\ Items(u, facing, own) \in Nat
      BY <1>2, <2>2, <3>1, ItemsNow DEF Items
    <3>5. /\ Items(u, local[u].own, local[u].seen.counter) \in Nat
          /\ Len(local[u].run) \in Nat
      <4>1. /\ local[u].seen.counter \in Counters /\ local[u].own \in Counters
            /\ local[u].run \in Seq(Elements)
        BY <3>2 DEF Locals, Words, Counters
      <4>2. Items(u, local[u].own, local[u].seen.counter) \in Nat
        BY <4>1, ItemsNow
      <4> QED
        BY <4>1, <4>2
    <3> HIDE DEF own, facing
    <3> QED
      BY <1>3, <3>1, <3>2, <3>3, <3>4, <3>5 DEF ThreadOK, Loaded
  <2> QED
    BY <1>9, <1>10, <2>4, <2>5 DEF QInv
<1>12. CASE t \in Receivers
  <2>1. /\ t \notin Senders /\ Own(t) = "consumer" /\ Facing(t) = "producer"
    BY <1>12, SizeAssumption DEF Own, Facing
  <2>2. /\ ItemsRemaining(facing, own) <= Size
        /\ n <= ItemsRemaining(facing, own)
        /\ ItemsRemaining(facing, c) = ItemsRemaining(facing, own) - n
    BY <1>2, <1>3, <1>12, <2>1, RunsChangeContents DEF Items, c
  <2>3. word'["consumer"].counter = c /\ word'["producer"].counter = facing
    BY <1>8, <2>1 DEF Ends
  <2>4. ItemsRemaining(facing, own) \in Nat
    BY <1>2, ProducerFromItems
  <2>5. Bounded'
    BY <1>3, <2>2, <2>3, <2>4 DEF Bounded
  <2>6. ASSUME NEW u \in Threads, u # t PROVE ThreadOK(u)'
    <3>1. /\ u \in Senders /\ u \notin Receivers
          /\ Own(u) = "producer" /\ Facing(u) = "consumer"
      BY <1>12, <2>6, SizeAssumption DEF OneEach, Threads, Own, Facing
    <3>2. ThreadOK(u) /\ pc'[u] = pc[u] /\ local'[u] = local[u] /\ local[u] \in Locals
      BY <1>1, <1>9, <2>6, TypesOf DEF QInv
    <3>3. /\ word'[Own(u)].counter = word[Own(u)].counter
          /\ word[Own(u)].counter = facing
          /\ word[Facing(u)].counter = own /\ word'[Facing(u)].counter = c
      BY <1>2, <2>1, <2>3, <3>1
    <3>4. /\ Items(u, facing, c) = Items(u, facing, own) - n
          /\ Items(u, facing, own) \in Nat
      BY <2>2, <2>4, <3>1 DEF Items
    <3>5. /\ Items(u, local[u].own, local[u].seen.counter) \in Nat
          /\ Len(local[u].run) \in Nat
      <4>1. /\ local[u].seen.counter \in Counters /\ local[u].own \in Counters
            /\ local[u].run \in Seq(Elements)
        BY <3>2 DEF Locals, Words, Counters
      <4>2. Items(u, local[u].own, local[u].seen.counter) \in Nat
        BY <4>1, ItemsNow
      <4> QED
        BY <4>1, <4>2
    <3> HIDE DEF own, facing
    <3> QED
      BY <1>3, <3>1, <3>2, <3>3, <3>4, <3>5 DEF ThreadOK, Loaded
  <2> QED
    BY <1>9, <1>10, <2>5, <2>6 DEF QInv
<1> QED
  BY <1>11, <1>12 DEF OneEach, Threads

\* The test whether the other end must be notified changes no counter.
LEMMA CheckWakeStep ==
    ASSUME OneEach, QInv, NEW t \in Threads, CheckWake(t)
    PROVE  QInv'
<1> DEFINE wake == ShouldWake(t)
           l == [local[t] EXCEPT !.wake = wake, !.own = 0, !.seen = ZeroWord]
           phase == Continue(local[t].count)
<1>1. QTypes /\ ThreadOK(t)
  BY DEF QInv
<1>2. local[t] \in Locals /\ local[t].end = Own(t) /\ ZeroWord \in Words /\ 0 \in Counters
  BY <1>1, TypesOf, SizeAssumption DEF ThreadOK, CheckWake, Counters
<1>3. wake \in BOOLEAN
  BY DEF ShouldWake, IsEmpty, IsFull
<1>4. /\ pc' = [pc EXCEPT ![t] = phase] /\ local' = [local EXCEPT ![t] = l]
      /\ word' = word /\ buffer' = buffer
  BY DEF CheckWake, Goto
<1> HIDE DEF wake
<1>5. l \in Locals /\ l.end = Own(t) /\ l.count = local[t].count
  BY <1>2, <1>3 DEF Locals
<1>6. phase \in Free \cup {"loop"} /\ (phase = "loop" => l.count > 0)
  BY <1>2, <1>5 DEF Continue, Free, Locals
<1> HIDE DEF l, phase
<1> QED
  BY <1>1, <1>4, <1>5, <1>6, FreeStep DEF QTypes

\* Notifying the other end changes only the program counter.
LEMMA NotifyStep ==
    ASSUME OneEach, QInv, NEW t \in Threads, Notify(t)
    PROVE  QInv'
<1>1. QTypes /\ Fresh \in Locals
  BY TypesOf DEF QInv
<1>2. /\ pc' = [pc EXCEPT ![t] = "idle"] /\ local' = [local EXCEPT ![t] = Fresh]
      /\ word' = word /\ buffer' = buffer
  BY DEF Notify, Goto
<1> QED
  BY <1>1, <1>2, FreeStep DEF QTypes

\* A call starts with fresh locals at the end of its thread.
LEMMA CallStep ==
    ASSUME OneEach, QInv, NEW t \in Threads, NEW n \in Counts, Call(t, n)
    PROVE  QInv'
<1> DEFINE l == [Fresh EXCEPT !.end = Own(t), !.count = n]
<1>1. QTypes /\ Fresh \in Locals /\ Own(t) \in Ends /\ n \in Nat
  BY TypesOf, SizeAssumption DEF QInv
<1>2. l \in Locals /\ l.end = Own(t)
  BY <1>1 DEF Locals, Fresh
<1>3. /\ pc' = [pc EXCEPT ![t] = "lockload"] /\ local' = [local EXCEPT ![t] = l]
      /\ word' = word /\ buffer' = buffer
  BY DEF Call, Goto
<1> HIDE DEF l
<1> QED
  BY <1>1, <1>2, <1>3, FreeStep DEF Free, QTypes

\* queue_stop touches only the flags.
LEMMA StopSetStep ==
    ASSUME OneEach, QInv, NEW e \in Ends, StopSet(e)
    PROVE  QInv'
<1> DEFINE w == [word[e] EXCEPT !.destruct = TRUE]
<1>1. QTypes /\ word[e] \in Words
  BY DEF QInv, QTypes
<1>2. w \in Words /\ w.counter = word[e].counter
  BY <1>1 DEF Words
<1>3. word' = [word EXCEPT ![e] = w] /\ buffer' = buffer /\ pc' = pc /\ local' = local
  BY DEF StopSet
<1> HIDE DEF w
<1>4. QTypes' /\ \A f \in Ends : word'[f].counter = word[f].counter
  BY <1>1, <1>2, <1>3 DEF QTypes
<1>5. Bounded'
  BY <1>4 DEF QInv, Bounded, Ends
<1>6. ASSUME NEW t \in Threads PROVE ThreadOK(t)'
  BY <1>3, <1>4 DEF QInv, ThreadOK, Own, Facing, Ends, Items, MustWait
<1> QED
  BY <1>4, <1>5, <1>6 DEF QInv

\* A stuttering step keeps the invariant.
LEMMA UnchangedStep ==
    ASSUME QInv, UNCHANGED <<word, buffer, pc, local>>
    PROVE  QInv'
BY DEF QInv, QTypes, Bounded, ThreadOK, Own, Facing, Items, MustWait

\* Every step of the queue with one sender and one receiver keeps the invariant.
LEMMA NextQInv ==
    ASSUME OneEach, QInv, [Next]_vars
    PROVE  QInv'
<1>1. ASSUME NEW t \in Threads, ThreadStep(t) PROVE QInv'
  <2>1. ~ResetProducer(t) /\ ~ResetConsumer(t)
    BY DEF QInv, ThreadOK, ResetProducer, ResetConsumer
  <2> QED
    BY <1>1, <2>1, LockLoadStep, LockAddWaitersStep, LockWaitStep, LockCasStep,
       UnlockLoadStep, UnlockStep, UnlockNotifyStep, LoopStep, DataWaitStep,
       DataReloadStep, TimeOutStep, CopyStep, CopyFaultsStep, StoreStep, CheckWakeStep,
       NotifyStep DEF ThreadStep
<1>2. ASSUME NEW t \in Threads, CallReset(t) PROVE QInv'
  BY <1>2 DEF CallReset, OneEach
<1>3. ASSUME NEW t \in Threads, NEW n \in Counts, Call(t, n) PROVE QInv'
  BY <1>3, CallStep
<1>4. ASSUME NEW e \in Ends, StopSet(e) PROVE QInv'
  BY <1>4, StopSetStep
<1>5. ASSUME NEW e \in Ends, StopNotify(e) PROVE QInv'
  BY <1>5, UnchangedStep DEF StopNotify
<1>6. CASE UNCHANGED vars
  BY <1>6, UnchangedStep DEF vars
<1> QED
  BY <1>1, <1>2, <1>3, <1>4, <1>5, <1>6 DEF Next

\* The room in front of the producer and the elements behind it are different
\* cells.
LEMMA CellsDisjoint ==
    ASSUME NEW producer \in Counters, NEW consumer \in Counters,
           NEW k \in Nat, NEW j \in Nat,
           ItemsRemaining(producer, consumer) + k <= Size,
           j <= ItemsRemaining(producer, consumer),
           IndexAt(producer) + k <= Size, IndexAt(consumer) + j <= Size,
           NEW x \in IndexAt(producer) .. IndexAt(producer) + k - 1,
           NEW y \in IndexAt(consumer) .. IndexAt(consumer) + j - 1
    PROVE  x # y
BY SizeAssumption DEF Counters, ItemsRemaining, IndexAt

\* With one sender and one receiver, whatever the size of the ring, the sender
\* never overwrites a cell that the receiver is reading.
LEMMA QInvRunsDisjoint ==
    ASSUME OneEach, QInv
    PROVE  RunsDisjoint
<1> SUFFICES ASSUME NEW s \in Senders, NEW r \in Receivers, pc[s] = "copy", pc[r] = "copy",
                    NEW x \in Cells(s), NEW y \in Cells(r)
             PROVE  x # y
  BY DEF RunsDisjoint
<1> DEFINE producer == word["producer"].counter
           consumer == word["consumer"].counter
<1>1. /\ s \in Threads /\ r \in Threads /\ s \notin Receivers /\ r \notin Senders
      /\ Own(s) = "producer" /\ Facing(s) = "consumer"
      /\ Own(r) = "consumer" /\ Facing(r) = "producer"
  BY SizeAssumption DEF Threads, Own, Facing
<1>2. local[s].own = producer /\ local[r].own = consumer
  BY <1>1 DEF QInv, ThreadOK, Loaded
<1>3. producer \in Counters /\ consumer \in Counters
  BY <1>1, ItemsNow
<1>4. /\ RunLength(s) \in Nat /\ RunLength(r) \in Nat
      /\ ItemsRemaining(producer, consumer) + RunLength(s) <= Size
      /\ RunLength(r) <= ItemsRemaining(producer, consumer)
      /\ IndexAt(producer) + RunLength(s) <= Size
      /\ IndexAt(consumer) + RunLength(r) <= Size
  BY <1>1, <1>2, CopyFits, SizeAssumption DEF Items
<1> HIDE DEF producer, consumer
<1> QED
  BY <1>2, <1>3, <1>4, CellsDisjoint DEF Cells

\* RunsDisjoint is an invariant for every size of the ring, all counts and any
\* elements, with timeouts, faults and queue_stop at any moment, when there is
\* one sender and one receiver.
THEOREM QueueRunsDisjoint ==
    ASSUME OneEach
    PROVE  Spec => []RunsDisjoint
<1>1. Init => QInv
  BY InitQInv
<1>2. QInv /\ [Next]_vars => QInv'
  BY NextQInv
<1>3. QInv => RunsDisjoint
  BY QInvRunsDisjoint
<1> QED
  BY <1>1, <1>2, <1>3, PTL DEF Spec

\* Nor do the counters ever claim more elements than the ring has cells.
THEOREM QueueBounded ==
    ASSUME OneEach
    PROVE  Spec => []Bounded
<1>1. Init => QInv
  BY InitQInv
<1>2. QInv /\ [Next]_vars => QInv'
  BY NextQInv
<1>3. QInv => Bounded
  BY DEF QInv
<1> QED
  BY <1>1, <1>2, <1>3, PTL DEF Spec
=============================================================================
