---------------------------- MODULE EventLedger ----------------------------
(***************************************************************************)
(* What the local queue promises the terminals and the Device Service      *)
(* (DS), without batches, calls or crashes: an event that was recorded     *)
(* stays queued until the DS holds it or its retention is over, and only   *)
(* an event the DS holds is settled.                                       *)
(***************************************************************************)
CONSTANT Keys

VARIABLES
    seen,      \* every event ever recorded
    queued,    \* recorded, not yet settled
    settled,   \* known to have been taken by the DS
    due,       \* retention is over
    held       \* events the DS holds

vars == <<seen, queued, settled, due, held>>

TypeOK ==
    /\ seen \subseteq Keys
    /\ queued \subseteq seen
    /\ settled \subseteq seen \ queued
    /\ due \subseteq queued \cup settled
    /\ held \subseteq seen

Init == seen = {} /\ queued = {} /\ settled = {} /\ due = {} /\ held = {}

Record(k) ==
    /\ k \in Keys \ (queued \cup settled)
    /\ seen' = seen \cup {k}
    /\ queued' = queued \cup {k}
    /\ UNCHANGED <<settled, due, held>>

Take(S) ==
    /\ S \subseteq seen
    /\ held' = held \cup S
    /\ UNCHANGED <<seen, queued, settled, due>>

Settle(S) ==
    /\ S \subseteq queued \cap held
    /\ queued' = queued \ S
    /\ settled' = settled \cup S
    /\ UNCHANGED <<seen, due, held>>

GrowOld(S) ==
    /\ S \subseteq queued \cup settled
    /\ due' = due \cup S
    /\ UNCHANGED <<seen, queued, settled, held>>

Drop(S) ==
    /\ S \subseteq due
    /\ queued' = queued \ S
    /\ settled' = settled \ S
    /\ due' = due \ S
    /\ UNCHANGED <<seen, held>>

Next ==
    \/ \E k \in Keys : Record(k)
    \/ \E S \in SUBSET Keys : Take(S) \/ Settle(S) \/ GrowOld(S) \/ Drop(S)

Spec == Init /\ [][Next]_vars
=============================================================================
