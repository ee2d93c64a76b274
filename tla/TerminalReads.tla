--------------------------- MODULE TerminalReads ----------------------------
(***************************************************************************)
(* The two ways of reading a terminal, over one assignment registry        *)
(* (src/src/app/adapter-runtime.ts, constructor).  The services share      *)
(* nothing else, so a run may look at one of them alone.                   *)
(***************************************************************************)
EXTENDS Backfill, IdentityRead

CONSTANT Workloads   \* what the DS may ask for: "events", "people" or both

ASSUME WorkloadsAssumption == Workloads \subseteq SUBSET {"events", "people"}

VARIABLE asks        \* what it asks for in this run

vars == <<asks, lease, backfillVars, readVars>>

\* The terminals whose assignments the services look at.
Read == {d \in Devices : "people" \in asks \/ d = Terminal}

Init ==
    /\ asks \in Workloads
    /\ lease \in {l \in Leases : \A d \in Devices \ Read : l[d] = "none"}
    /\ BackfillInit /\ ReadInit

Events == "events" \in asks /\ BackfillNext /\ UNCHANGED <<asks, lease, readVars>>
Reads == "people" \in asks /\ ReadNext /\ UNCHANGED <<asks, lease, backfillVars>>
Assigns == LeaseChanges(Read) /\ UNCHANGED <<asks, backfillVars, readVars>>

Next == Events \/ Reads \/ Assigns

Fairness ==
    /\ WF_vars("events" \in asks /\ (\E n \in Limits : Fetch(n)) /\ UNCHANGED <<asks, lease, readVars>>)
    /\ WF_vars("events" \in asks /\ Answers /\ UNCHANGED <<asks, lease, readVars>>)
    /\ WF_vars("people" \in asks /\ (OpenDevice \/ Answered) /\ UNCHANGED <<asks, lease, backfillVars>>)

Spec == Init /\ [][Next]_vars /\ Fairness
=============================================================================
