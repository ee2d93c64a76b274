---------------------------- MODULE Assignments -----------------------------
(***************************************************************************)
(* The assignment registry (src/src/app/assignment-registry.ts) *)
(* as the services that only read it see it: between any two of their      *)
(* steps a lease may have replaced it.  Module AdapterLease models how.    *)
(***************************************************************************)
CONSTANT Devices

VARIABLE lease   \* is a device assigned, and do its settings parse?

Leases == [Devices -> {"none", "valid", "unparsable"}]

Assigned == {d \in Devices : lease[d] # "none"}

\* A lease that replaces several assignments at once is a run of these: a reader
\* looks at one assignment after the other.
LeaseChanges(ds) ==
    \E d \in ds, s \in {"none", "valid", "unparsable"} :
        /\ s # lease[d]
        /\ lease' = [lease EXCEPT ![d] = s]
=============================================================================
