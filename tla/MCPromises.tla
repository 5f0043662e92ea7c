----------------------------- MODULE MCPromises ------------------------------
(* Instances of the limiter, without the auditor's history, for TLC. *)
EXTENDS Promises, Buckets, MCQuotas
=============================================================================
