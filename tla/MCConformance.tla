---------------------------- MODULE MCConformance ----------------------------
(* Instances of the audited limiter for TLC. *)
EXTENDS Conformance, Buckets, MCQuotas, TLC

\* Which limiter is which makes no difference.
Symmetry == Permutations(Limiters)
=============================================================================
