---------------------------- MODULE MCReplication ----------------------------
(* Instances of the primary and the replica for TLC. *)
EXTENDS Replication, MCQuotas
=============================================================================
