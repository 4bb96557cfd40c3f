------------------------ MODULE MCMysqlConfigStore ------------------------
(* MysqlConfigStore for TLC.                                               *)
EXTENDS MysqlConfigStore, TLC

CONSTANTS v1, v2, t1, t2, t3

OneNamespace == {<<"n1">>}
OneKey == {<<"k">>}

Symmetry == Permutations({v1, v2}) \cup Permutations({t1, t2, t3})
=============================================================================
