---------------------------- MODULE BoundedQueue ----------------------------
(***************************************************************************)
(* What a message queue promises (sdk/include/queue.h): a first-in          *)
(* first-out queue of at most Size elements, with any number of senders and *)
(* receivers.  Elements go in and come out in runs.  A run is copied first  *)
(* and counts as sent or received only when that is complete.               *)
(***************************************************************************)
EXTENDS Integers, Sequences

CONSTANTS Senders, Receivers, Resetters, Size, Values

VARIABLES
    items,      \* the elements in the queue, oldest first
    moving      \* the run that a thread has copied and not yet sent or received

vars == <<items, moving>>

Runs == UNION {[1 .. n -> Values] : n \in 1 .. Size}
Nobody(threads) == \A t \in threads : moving[t] = <<>>

Init ==
    /\ items = <<>>
    /\ moving = [t \in Senders \cup Receivers \cup Resetters |-> <<>>]

CopyIn(s) ==
    /\ Nobody(Senders)
    /\ \E run \in Runs :
         /\ Len(items) + Len(run) <= Size
         /\ moving' = [moving EXCEPT ![s] = run]
    /\ UNCHANGED items

Send(s) ==
    /\ moving[s] # <<>>
    /\ items' = items \o moving[s]
    /\ moving' = [moving EXCEPT ![s] = <<>>]

CopyOut(r) ==
    /\ Nobody(Receivers)
    /\ \E n \in 1 .. Len(items) : moving' = [moving EXCEPT ![r] = SubSeq(items, 1, n)]
    /\ UNCHANGED items

Receive(r) ==
    /\ moving[r] # <<>>
    /\ items' = SubSeq(items, Len(moving[r]) + 1, Len(items))
    /\ moving' = [moving EXCEPT ![r] = <<>>]

Reset ==
    /\ Nobody(Senders \cup Receivers)
    /\ items' = <<>>
    /\ UNCHANGED moving

Next ==
    \/ \E s \in Senders : CopyIn(s) \/ Send(s)
    \/ \E r \in Receivers : CopyOut(r) \/ Receive(r)
    \/ Resetters # {} /\ Reset

Spec == Init /\ [][Next]_vars
=============================================================================
