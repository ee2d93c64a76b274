--------------------------- MODULE MCAdapterLease ---------------------------
(* Small instances of AdapterLease for TLC. *)
EXTENDS AdapterLease
=============================================================================
