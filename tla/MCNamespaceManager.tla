------------------------- MODULE MCNamespaceManager -------------------------
(* NamespaceManager for TLC.                                               *)
EXTENDS NamespaceManager

CONSTANTS t1, t2

Scope(app, name) ==
    [app_id |-> app, env |-> <<"DEV">>, cluster |-> <<"default">>, name |-> name]

(* An application and a shared one, with the namespaces of their clusters. *)
TwoApps == {Scope(<<"a">>, <<"application">>), Scope(<<"b">>, <<"application">>)}

Shared == {<<"b", "DEV", "default", "application">>}
=============================================================================
