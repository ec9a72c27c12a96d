-------------------------- MODULE FlagLockProofs --------------------------
(***************************************************************************)
(* For any set of threads and both variants of the flag lock: mutual       *)
(* exclusion, no missed wake-up, and that FlagLock implements Mutex.       *)
(***************************************************************************)
EXTENDS FlagLock, TLAPS

\* What a thread's local copy of the word says while it uses it, and that
\* the word never says both Locked and LockedWithWaiters.
OldOK ==
    /\ ~({"Locked", "LockedWithWaiters"} \subseteq lockWord.flags)
    /\ \A t \in Threads :
        /\ pc[t] = "add" => old[t].flags = {"Locked"}
        /\ pc[t] = "wait" => old[t].flags = {"LockedWithWaiters"}

\* The inductive invariant.  Mutual exclusion needs to know that a word
\* equal to Unlocked means an empty holding; no missed wake needs to know
\* that a thread goes to sleep only on a word with the waiters flag and
\* without the destruction bit.
IInv ==
    /\ TypeOK
    /\ MutualExclusion
    /\ WordTellsHolder
    /\ OldOK
    /\ NoMissedWake

\* The conjuncts that speak of the holder.
HolderOK == MutualExclusion /\ WordTellsHolder

---------------------------------------------------------------------------

\* The initial state satisfies the invariant.
LEMMA InitIInv == Init => IInv
  BY NoThreadAssumption
     DEF Init, IInv, TypeOK, MutualExclusion, WordTellsHolder, OldOK,
         NoMissedWake, Unlocked, Words, HasWaiters, InDestructMode, Flags, Timeouts, Places

\* Every step keeps the variables in their types.
LEMMA TypeStep == TypeOK /\ [Next]_vars => TypeOK'
  <1> SUFFICES ASSUME TypeOK, [Next]_vars PROVE TypeOK'
    OBVIOUS
  <1> USE DEF TypeOK, Words, Flags, Timeouts, Places, Unlocked
  <1>1. ASSUME NEW t \in Threads, TryLock(t) PROVE TypeOK'
    BY <1>1, PIAssumption DEF TryLock, Goto
  <1>2. ASSUME NEW t \in Threads, Acquire(t) PROVE TypeOK'
    BY <1>2 DEF Acquire, Return, Goto, Desired
  <1>3. ASSUME NEW t \in Threads, AcquireFails(t) PROVE TypeOK'
    BY <1>3 DEF AcquireFails, Return, Goto, HasWaiters, InDestructMode
  <1>4. ASSUME NEW t \in Threads, AddWaiters(t) PROVE TypeOK'
    BY <1>4 DEF AddWaiters, Retry, Goto
  <1>5. ASSUME NEW t \in Threads, Wait(t) PROVE TypeOK'
    BY <1>5 DEF Wait, Retry, Return, Goto
  <1>6. ASSUME NEW t \in Threads, TimeOut(t) PROVE TypeOK'
    BY <1>6 DEF TimeOut, Return, Goto
  <1>7. ASSUME NEW t \in Threads, Resume(t) PROVE TypeOK'
    BY <1>7 DEF Resume, Retry, Return, Goto
  <1>8. ASSUME NEW t \in Threads, Unlock(t) PROVE TypeOK'
    BY <1>8 DEF Unlock, Goto
  <1>9. ASSUME NEW t \in Threads, Upgrade(t) PROVE TypeOK'
    BY <1>9 DEF Upgrade, Goto
  <1>10. ASSUME NEW t \in Threads, UpgradeLoad(t) PROVE TypeOK'
    BY <1>10 DEF UpgradeLoad, Goto
  <1>11. ASSUME NEW t \in Threads, NotifyAll(t) PROVE TypeOK'
    BY <1>11 DEF NotifyAll
  <1>12. CASE UNCHANGED vars
    BY <1>12 DEF vars
  <1> QED
    BY <1>1, <1>2, <1>3, <1>4, <1>5, <1>6, <1>7, <1>8, <1>9, <1>10, <1>11,
       <1>12 DEF Next, Step, Call

\* The word records the holder, and there is at most one.
LEMMA WordStep ==
    TypeOK /\ MutualExclusion /\ WordTellsHolder /\ OldOK /\ [Next]_vars
        => HolderOK'
  <1> SUFFICES ASSUME TypeOK, MutualExclusion, WordTellsHolder, OldOK, [Next]_vars
               PROVE  HolderOK'
    OBVIOUS
  <1> USE NoThreadAssumption, PIAssumption
      DEF TypeOK, Words, Flags, Timeouts, Places, Unlocked, HasWaiters,
      InDestructMode, HolderOK, MutualExclusion, WordTellsHolder, OldOK
  <1>1. ASSUME NEW t \in Threads, TryLock(t) PROVE HolderOK'
    BY <1>1 DEF TryLock, Goto
  <1>2. ASSUME NEW t \in Threads, Acquire(t) PROVE HolderOK'
    BY <1>2 DEF Acquire, Return, Goto, Desired
  <1>3. ASSUME NEW t \in Threads, AcquireFails(t) PROVE HolderOK'
    BY <1>3 DEF AcquireFails, Return, Goto
  <1>4. ASSUME NEW t \in Threads, AddWaiters(t) PROVE HolderOK'
    <2>1. holding' = holding
      BY <1>4 DEF AddWaiters
    <2>2. CASE lockWord' = lockWord
      BY <2>1, <2>2
    <2>3. CASE lockWord = old[t] /\ lockWord' = [lockWord EXCEPT !.flags = {"LockedWithWaiters"}]
      <3>1. lockWord.flags = {"Locked"}
        BY <1>4, <2>3 DEF AddWaiters
      <3>2. lockWord'.flags = {"LockedWithWaiters"} /\ lockWord'.owner = lockWord.owner
        BY <2>3
      <3>3. holding # {}
        BY <3>1
      <3> QED
        BY <2>1, <3>2, <3>3
    <2> QED
      BY <1>4, <2>2, <2>3 DEF AddWaiters
  <1>5. ASSUME NEW t \in Threads, Wait(t) PROVE HolderOK'
    BY <1>5 DEF Wait, Retry, Return, Goto
  <1>6. ASSUME NEW t \in Threads, TimeOut(t) PROVE HolderOK'
    BY <1>6 DEF TimeOut, Return, Goto
  <1>7. ASSUME NEW t \in Threads, Resume(t) PROVE HolderOK'
    BY <1>7 DEF Resume, Retry, Return, Goto
  <1>8. ASSUME NEW t \in Threads, Unlock(t) PROVE HolderOK'
    BY <1>8 DEF Unlock, Goto
  <1>9. ASSUME NEW t \in Threads, Upgrade(t) PROVE HolderOK'
    BY <1>9 DEF Upgrade, Goto
  <1>10. ASSUME NEW t \in Threads, UpgradeLoad(t) PROVE HolderOK'
    BY <1>10 DEF UpgradeLoad, Goto
  <1>11. ASSUME NEW t \in Threads, NotifyAll(t) PROVE HolderOK'
    BY <1>11 DEF NotifyAll
  <1>12. CASE UNCHANGED vars
    BY <1>12 DEF vars
  <1> QED
    BY <1>1, <1>2, <1>3, <1>4, <1>5, <1>6, <1>7, <1>8, <1>9, <1>10, <1>11,
       <1>12 DEF Next, Step, Call

\* The local copies stay what try_lock tested them to be.
LEMMA OldStep == TypeOK /\ WordTellsHolder /\ OldOK /\ [Next]_vars => OldOK'
  <1> SUFFICES ASSUME TypeOK, WordTellsHolder, OldOK, [Next]_vars PROVE OldOK'
    OBVIOUS
  <1> USE PIAssumption DEF TypeOK, Words, Flags, Timeouts, Places, Unlocked, HasWaiters, InDestructMode, OldOK, WordTellsHolder
  <1>1. ASSUME NEW t \in Threads, TryLock(t) PROVE OldOK'
    BY <1>1 DEF TryLock, Goto
  <1>2. ASSUME NEW t \in Threads, Acquire(t) PROVE OldOK'
    BY <1>2 DEF Acquire, Return, Goto, Desired
  <1>3. ASSUME NEW t \in Threads, AcquireFails(t) PROVE OldOK'
    <2>1. CASE ~InDestructMode(lockWord) /\ ~HasWaiters(lockWord)
      <3>1. lockWord.flags \in {{}, {"Locked"}}
        BY <2>1
      <3>2. lockWord.flags # {}
        BY <3>1, <1>3 DEF AcquireFails
      <3> QED
        BY <1>3, <2>1, <3>1, <3>2 DEF AcquireFails, Return, Goto
    <2>2. CASE ~InDestructMode(lockWord) /\ HasWaiters(lockWord)
      <3>1. lockWord.flags = {"LockedWithWaiters"}
        BY <2>2
      <3> QED
        BY <1>3, <2>2, <3>1 DEF AcquireFails, Return, Goto
    <2>3. CASE InDestructMode(lockWord)
      BY <1>3, <2>3 DEF AcquireFails, Return, Goto
    <2> QED
      BY <2>1, <2>2, <2>3
  <1>4. ASSUME NEW t \in Threads, AddWaiters(t) PROVE OldOK'
    BY <1>4 DEF AddWaiters, Retry, Goto
  <1>5. ASSUME NEW t \in Threads, Wait(t) PROVE OldOK'
    BY <1>5 DEF Wait, Retry, Return, Goto
  <1>6. ASSUME NEW t \in Threads, TimeOut(t) PROVE OldOK'
    BY <1>6 DEF TimeOut, Return, Goto
  <1>7. ASSUME NEW t \in Threads, Resume(t) PROVE OldOK'
    BY <1>7 DEF Resume, Retry, Return, Goto
  <1>8. ASSUME NEW t \in Threads, Unlock(t) PROVE OldOK'
    BY <1>8 DEF Unlock, Goto
  <1>9. ASSUME NEW t \in Threads, Upgrade(t) PROVE OldOK'
    BY <1>9 DEF Upgrade, Goto
  <1>10. ASSUME NEW t \in Threads, UpgradeLoad(t) PROVE OldOK'
    BY <1>10 DEF UpgradeLoad, Goto
  <1>11. ASSUME NEW t \in Threads, NotifyAll(t) PROVE OldOK'
    BY <1>11 DEF NotifyAll
  <1>12. CASE UNCHANGED vars
    BY <1>12 DEF vars
  <1> QED
    BY <1>1, <1>2, <1>3, <1>4, <1>5, <1>6, <1>7, <1>8, <1>9, <1>10, <1>11,
       <1>12 DEF Next, Step, Call

\* No step leaves a sleeper without somebody to wake it.
LEMMA WakeStep == TypeOK /\ WordTellsHolder /\ OldOK /\ NoMissedWake /\ [Next]_vars => NoMissedWake'
  <1> SUFFICES ASSUME TypeOK, WordTellsHolder, OldOK, NoMissedWake, [Next]_vars PROVE NoMissedWake'
    OBVIOUS
  <1> USE PIAssumption DEF TypeOK, Words, Flags, Timeouts, Places, Unlocked, HasWaiters, InDestructMode,
      OldOK, WordTellsHolder, NoMissedWake
  <1>1. ASSUME NEW t \in Threads, TryLock(t) PROVE NoMissedWake'
    BY <1>1 DEF TryLock, Goto
  <1>2. ASSUME NEW t \in Threads, Acquire(t) PROVE NoMissedWake'
    BY <1>2 DEF Acquire, Return, Goto, Desired
  <1>3. ASSUME NEW t \in Threads, AcquireFails(t) PROVE NoMissedWake'
    BY <1>3 DEF AcquireFails, Return, Goto
  <1>4. ASSUME NEW t \in Threads, AddWaiters(t) PROVE NoMissedWake'
    BY <1>4 DEF AddWaiters, Retry, Goto
  <1>5. ASSUME NEW t \in Threads, Wait(t) PROVE NoMissedWake'
    BY <1>5 DEF Wait, Retry, Return, Goto
  <1>6. ASSUME NEW t \in Threads, TimeOut(t) PROVE NoMissedWake'
    BY <1>6 DEF TimeOut, Return, Goto
  <1>7. ASSUME NEW t \in Threads, Resume(t) PROVE NoMissedWake'
    BY <1>7 DEF Resume, Retry, Return, Goto
  <1>8. ASSUME NEW t \in Threads, Unlock(t) PROVE NoMissedWake'
    BY <1>8 DEF Unlock, Goto
  <1>9. ASSUME NEW t \in Threads, Upgrade(t) PROVE NoMissedWake'
    BY <1>9 DEF Upgrade, Goto
  <1>10. ASSUME NEW t \in Threads, UpgradeLoad(t) PROVE NoMissedWake'
    BY <1>10 DEF UpgradeLoad, Goto
  <1>11. ASSUME NEW t \in Threads, NotifyAll(t) PROVE NoMissedWake'
    BY <1>11 DEF NotifyAll
  <1>12. CASE UNCHANGED vars
    BY <1>12 DEF vars
  <1> QED
    BY <1>1, <1>2, <1>3, <1>4, <1>5, <1>6, <1>7, <1>8, <1>9, <1>10, <1>11,
       <1>12 DEF Next, Step, Call

\* IInv is inductive.
LEMMA Invariance == Spec => []IInv
  <1>1. IInv /\ [Next]_vars => IInv'
    BY TypeStep, WordStep, OldStep, WakeStep DEF IInv, HolderOK
  <1> QED
    BY InitIInv, <1>1, PTL DEF Spec

\* At most one thread holds the lock, for any number of threads.
THEOREM FlagLockMutualExclusion == Spec => []MutualExclusion
  BY Invariance, PTL DEF IInv

\* No thread sleeps on the lock word without a notify_all still to come.
THEOREM FlagLockNoMissedWake == Spec => []NoMissedWake
  BY Invariance, PTL DEF IInv

\* A step of the flag lock is a step of the abstract mutex or a stutter.
LEMMA MutexStep == IInv /\ [Next]_vars => [M!Next]_M!vars
  <1> SUFFICES ASSUME IInv, [Next]_vars PROVE [M!Next]_M!vars
    OBVIOUS
  <1> USE NoThreadAssumption DEF IInv, TypeOK, M!vars
  <1>0. ASSUME NEW t \in Threads PROVE (CHOOSE u \in {t} : TRUE) = t
    OBVIOUS
  <1>1. ASSUME NEW t \in Threads, Acquire(t) PROVE M!Acquire(t)
    <2>1. holding = {} /\ holding' = {t} /\ ~InDestructMode(lockWord)
      BY <1>1 DEF Acquire, Unlocked, WordTellsHolder, InDestructMode
    <2>2. ~InDestructMode(lockWord')
      BY <1>1 DEF Acquire, Desired, InDestructMode
    <2> QED
      BY <2>1, <2>2, <1>0 DEF M!Acquire, InDestructMode
  <1>2. ASSUME NEW t \in Threads, Unlock(t) PROVE M!Release(t)
    <2>1. holding = {t} /\ holding' = {}
      BY <1>2 DEF Unlock, MutualExclusion
    <2>2. InDestructMode(lockWord') <=> InDestructMode(lockWord)
      BY <1>2 DEF Unlock, InDestructMode
    <2> QED
      BY <2>1, <2>2, <1>0 DEF M!Release, InDestructMode
  <1>3. ASSUME NEW t \in Threads, Upgrade(t) PROVE M!Destroy
    BY <1>3 DEF Upgrade, InDestructMode, Words, M!Destroy
  <1>4. ASSUME NEW t \in Threads, AddWaiters(t) PROVE UNCHANGED M!vars
    <2>1. UNCHANGED holding
      BY <1>4 DEF AddWaiters
    <2>2. InDestructMode(lockWord') <=> InDestructMode(lockWord)
      BY <1>4 DEF AddWaiters, Retry, Goto, OldOK, InDestructMode, Words
    <2> QED
      BY <2>1, <2>2 DEF InDestructMode
  <1>5. ASSUME UNCHANGED <<lockWord, holding>> PROVE UNCHANGED M!vars
    BY <1>5 DEF InDestructMode
  <1>6. ASSUME NEW t \in Threads,
               \/ TryLock(t) \/ AcquireFails(t) \/ Wait(t) \/ TimeOut(t)
               \/ Resume(t) \/ UpgradeLoad(t) \/ NotifyAll(t)
        PROVE  UNCHANGED <<lockWord, holding>>
    BY <1>6 DEF TryLock, AcquireFails, Wait, TimeOut, Resume, UpgradeLoad, NotifyAll
  <1>7. CASE UNCHANGED vars
    BY <1>5, <1>7 DEF vars
  <1> QED
    BY <1>1, <1>2, <1>3, <1>4, <1>5, <1>6, <1>7 DEF Next, Step, Call, M!Next

\* The flag lock, its races and its sleepers included, implements Mutex.
THEOREM FlagLockImplementsMutex == Spec => ImplementsMutex
  <1>1. Init => M!Init
    BY DEF Init, M!Init, Unlocked, InDestructMode
  <1> QED
    BY <1>1, Invariance, MutexStep, PTL DEF Spec, M!Spec, ImplementsMutex
===========================================================================
