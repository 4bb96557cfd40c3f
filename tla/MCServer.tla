------------------------------ MODULE MCServer ------------------------------
(* Server for TLC.                                                         *)
EXTENDS Server

CONSTANTS c1, c2, s1

RouteWords ==
    [namespaces |-> {"namespaces", "namespaces-old"}, publish |-> {"publish", "publish-rate"},
     releases |-> {"releases"}]

app == <<"orders">>
ns == <<"orders", "DEV", "default", "application">>

(* One request per handler, keys that look like routes, and names that the *)
(* routing does not tell from its words.                                   *)
Requests ==
    LET good(op, args) == [call |-> Call(op, args), body |-> "good"]
        bad(op, args, body) == [call |-> Call(op, args), body |-> body]
    IN  {good(op, <<>>) : op \in {"handleHealth", "handleLogin", "handleCreateApp",
                                  "handleListApps", "handleCreateNamespace",
                                  "handleNotifications", "longPoll"}}
        \cup {good(op, <<app>>) : op \in {"handleGetApp", "handleDeleteApp",
                                          "handleListNamespaces"}}
        \cup {good(op, <<ns>>) : op \in {"handlePublish", "handleGetReleases"}}
        \cup {good("handleGetConfig", <<ns, key>>) :
                 key \in {<<"timeout">>, <<"db", "url">>, <<"publish-rate">>, <<"keys", "x">>}}
        \cup {good(op, <<ns, <<"releases">>>>) : op \in {"handleSetConfig", "handleDeleteConfig"}}
        \cup {good("handleGetReleases", <<Append(ns, "publish-rate")>>),
              good("handleGetApp", <<<<"a", "namespaces-old">>>>)}
        \cup {bad("handleCreateApp", <<>>, "incomplete"),
              bad("handlePublish", <<ns>>, "malformed"),
              bad("handleSetConfig", <<ns, <<"timeout">>>>, "incomplete")}

(* One client asks for anything, the other one stands for its neighbours.  *)
WantedBy == [c \in Connections |->
                IF c = c1 THEN Requests
                ELSE {[call |-> Call("handleHealth", <<>>), body |-> "good"]}]

File(opens, converts, given) == [opens |-> opens, converts |-> converts, given |-> given]

SomeFiles ==
    {File(FALSE, TRUE, [http_threads |-> 1]),
     File(TRUE, FALSE, [http_threads |-> 1]),
     File(TRUE, TRUE, [backend |-> "mysql"]),
     File(TRUE, TRUE, [http_threads |-> 1]),
     File(TRUE, TRUE, [http_threads |-> -1]),
     File(TRUE, TRUE, [http_threads |-> 2, grpc_port |-> 8080])}
=============================================================================
