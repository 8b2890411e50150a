--------------------------- MODULE MCReplication ---------------------------
(***************************************************************************)
(* Replication on a small instance: the deltas its journal can hold.       *)
(***************************************************************************)
EXTENDS Replication

MCChanges == Changed

=============================================================================
