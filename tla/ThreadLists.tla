---------------------------- MODULE ThreadLists ----------------------------
(***************************************************************************)
(* The circular lists of threads in sdk/core/scheduler/thread.h, as         *)
(* sequences that start at the head.                                        *)
(***************************************************************************)
EXTENDS Integers, Sequences, SequencesExt

---------------------------------------------------------------------------
(* Seeded faults: plausible slips that the properties of Scheduler detect. *)

\* list_insert ignores the priorities.
ListAppend(list, t, priority) == Append(list, t)

\* timer_list_insert ignores the expiry times.
TimerListAppend(list, t, expiry) == Append(list, t)

\* list_remove does not clear the head when the last thread leaves.
ListRemoveKeepsLast(list, t) ==
    IF Len(list) = 1 THEN list ELSE RemoveAt(list, SelectInSeq(list, LAMBDA u : u = t))

---------------------------------------------------------------------------

\* list_insert: go back from the tail, stop at the first thread whose
\* priority is at least ours, and go in behind it.
ListInsert(list, t, priority) ==
    InsertAt(list,
             SelectLastInSeq(list, LAMBDA u : priority[u] >= priority[t]) + 1, t)

\* timer_list_insert: the same, sorted on the expiry time.
TimerListInsert(list, t, expiry) ==
    InsertAt(list,
             SelectLastInSeq(list, LAMBDA u : expiry[u] <= expiry[t]) + 1, t)

\* list_remove and timer_list_remove.
ListRemove(list, t) == RemoveAt(list, SelectInSeq(list, LAMBDA u : u = t))

\* Make t->next the head.
Rotate(list, t) ==
    LET i == SelectInSeq(list, LAMBDA u : u = t)
    IN  SubSeq(list, i + 1, Len(list)) \o SubSeq(list, 1, i)

\* A list has no thread twice and holds exactly the threads of a set.
Holds(list, threads) ==
    /\ ToSet(list) = threads
    /\ \A i, j \in 1 .. Len(list) : list[i] = list[j] => i = j
=============================================================================
