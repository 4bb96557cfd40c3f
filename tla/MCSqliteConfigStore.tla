------------------------ MODULE MCSqliteConfigStore ------------------------
(* SqliteConfigStore for TLC.                                              *)
EXTENDS SqliteConfigStore, TLC

CONSTANTS v1, v2, t1, t2

OneNamespace == {<<"n1">>}
TwoNamespaces == {<<"n1">>, <<"n2">>}
OneKey == {<<"k">>}

Symmetry == Permutations({v1, v2}) \cup Permutations({t1, t2})
=============================================================================
