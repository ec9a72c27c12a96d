--------------------------- MODULE MCMessageQueue ---------------------------
(***************************************************************************)
(* Instances of MessageQueue for TLC: a sender and a receiver with         *)
(* queue_stop, or a sender with queue_reset (MCSystem has all three with   *)
(* a smaller ring); and two senders.                                       *)
(***************************************************************************)
EXTENDS MessageQueue, TLC

CONSTANTS s1, s2, r1, x1, v1, v2

VARIABLE part       \* what the sender meets: "stop" or "reset"

\* The queue does not look into its elements.
Elements == Permutations(Values)

PartInit == Init /\ part \in {"stop", "reset"}

PartNext ==
    /\ Next
    /\ part = "stop" => \A x \in Resetters : pc'[x] = "idle"
    /\ part = "reset" => stopping' = "no" /\ \A r \in Receivers : pc'[r] = "idle"
    /\ UNCHANGED part

PartSpec == PartInit /\ [][PartNext]_<<vars, part>>

\* Behaviours are followed as long as the locks exclude (queue_v_lock has the
\* others); a sender and a receiver have a lock each.
Followed == part = "reset" => MutualExclusion
=============================================================================
