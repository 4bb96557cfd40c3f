-------------------------- MODULE MCPublishEngine --------------------------
(* PublishEngine for TLC.                                                  *)
EXTENDS PublishEngine, TLC

CONSTANTS n1, n2, t1, t2

Symmetry == Permutations({n1, n2}) \cup Permutations({t1, t2})
=============================================================================
