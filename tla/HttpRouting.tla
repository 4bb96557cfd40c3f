---------------------------- MODULE HttpRouting ----------------------------
(***************************************************************************)
(* Which handler HttpSession::handleRequest calls, and with which names.   *)
(*                                                                         *)
(* A target is the sequence of the segments between its slashes, so that   *)
(* find("/x") finds a segment that begins with x, and find("/x/") the      *)
(* segment x when another one follows.  A name in a path (an application,  *)
(* a namespace, a key) is one segment or several; <<>> is the empty one.   *)
(***************************************************************************)
EXTENDS Naturals, Sequences, FiniteSetsExt

CONSTANT Begins       \* word -> the segments that begin with it

(* Of the words in the documented targets, one begins with itself only.    *)
ASSUME RoutingAssumption ==
    \A word \in {"namespaces", "publish", "releases"} :
        /\ word \in DOMAIN Begins
        /\ Begins[word] \cap {"api", "v1", "apps", "namespaces", "publish", "releases"} = {word}

Health == <<"health">>
Login == <<"api", "v1", "auth", "login">>
Apps == <<"api", "v1", "apps">>
Namespaces == <<"api", "v1", "namespaces">>
Notifications == <<"api", "v1", "notifications">>

(* target.find(prefix + "/") == 0                                          *)
Under(target, prefix) ==
    /\ Len(target) > Len(prefix)
    /\ SubSeq(target, 1, Len(prefix)) = prefix

(* Where "/word" and "/keys/" are found, from a segment on.                *)
Word(target, word, from) == {i \in from..Len(target) : target[i] \in Begins[word]}

Keys(target, from) == {i \in from..Len(target) - 1 : target[i] = "keys"}

From(target, i) == SubSeq(target, i, Len(target))

(* extractPathParam: from the fourth segment, where the prefixes end, up   *)
(* to the first place where the suffix is found; its slash cannot be the   *)
(* last one of the prefix.                                                 *)
LastSuffix(target, ends) == IF ends = {} THEN <<>> ELSE SubSeq(target, 4, Max(ends) - 1)  \* mistaken
extractPathParam(target, ends) ==
    IF ends = {} THEN <<>> ELSE SubSeq(target, 4, Min(ends) - 1)

-----------------------------------------------------------------------------
Call(op, args) == [op |-> op, args |-> args]

(* A route: its condition, the handler of each method, the names it takes  *)
(* from the target.                                                        *)
Entry(on, handlers, args) == [on |-> on, handlers |-> handlers, args |-> args]

Methods == {"GET", "POST", "PUT", "DELETE"}

AnyMethod(op) == [m \in Methods |-> op]

Routes(method, target) ==
    LET ofApp == Under(target, Apps)
        ofNamespace == Under(target, Namespaces)
    IN  << Entry(target = Health, AnyMethod("handleHealth"), <<>>),
           Entry(target = Login /\ method = "POST", AnyMethod("handleLogin"), <<>>),
           Entry(target = Apps,
                 [POST |-> "handleCreateApp", GET |-> "handleListApps"], <<>>),
           Entry(ofApp /\ Word(target, "namespaces", 1) = {},
                 [GET |-> "handleGetApp", DELETE |-> "handleDeleteApp"],
                 <<From(target, 4)>>),
           Entry(ofApp /\ Word(target, "namespaces", 1) # {},
                 [GET |-> "handleListNamespaces"],
                 <<extractPathParam(target, Word(target, "namespaces", 5))>>),
           Entry(target = Namespaces /\ method = "POST",
                 AnyMethod("handleCreateNamespace"), <<>>),
           Entry(ofNamespace /\ Keys(target, 1) # {},
                 [GET |-> "handleGetConfig", PUT |-> "handleSetConfig",
                  DELETE |-> "handleDeleteConfig"],
                 <<extractPathParam(target, Keys(target, 5)),
                   IF Keys(target, 1) = {} THEN <<>> ELSE From(target, Min(Keys(target, 1)) + 1)>>),
           Entry(ofNamespace /\ Word(target, "publish", 1) # {}, AnyMethod("handlePublish"),
                 <<extractPathParam(target, Word(target, "publish", 5))>>),
           Entry(ofNamespace /\ Word(target, "releases", 1) # {}, AnyMethod("handleGetReleases"),
                 <<extractPathParam(target, Word(target, "releases", 5))>>),
           Entry(target = Notifications, AnyMethod("handleNotifications"), <<>>),
           Entry(TRUE, AnyMethod("notFound"), <<>>) >>

(* The first route whose condition holds; without a handler for the method *)
(* its answer is null.                                                     *)
route(method, target) ==
    LET routes == Routes(method, target)
        r == routes[Min({i \in DOMAIN routes : routes[i].on})]
    IN  IF method \in DOMAIN r.handlers THEN Call(r.handlers[method], r.args)
        ELSE Call("null", <<>>)

-----------------------------------------------------------------------------
(* What a handler answers: the code in the body, 0 for none.               *)
Codes(op) ==
    CASE op = "handleCreateApp" -> {0, 409}
      [] op \in {"handleGetApp", "handleGetConfig"} -> {0, 404}
      [] op = "handleCreateNamespace" -> {0, 400}
      [] op = "handlePublish" -> {0, 500}
      [] op \in {"handleLogin", "handleNotifications"} -> {501}
      [] op = "notFound" -> {404}
      [] OTHER -> {0}

Parses == {"handleLogin", "handleCreateApp", "handleCreateNamespace", "handleSetConfig",
           "handlePublish"}

(* A body that is no JSON, and one without the members that are read       *)
(* unchecked, make the handler throw.                                      *)
Throws(op, body) ==
    \/ body = "malformed" /\ op \in Parses
    \/ body = "incomplete" /\ op \in {"handleCreateNamespace", "handleSetConfig"}

(* The codes a handler that does not throw may answer.                     *)
Answers(op, body) ==
    IF op = "handleCreateApp" /\ body = "incomplete" THEN {400} ELSE Codes(op)

(* sendResponse: the HTTP status.                                          *)
Status(op) == IF op = "notFound" THEN 404 ELSE 200

-----------------------------------------------------------------------------
(* The calls that the documentation names, with the names they take.       *)
Name == Seq(STRING) \ {<<>>}

Nameless == {"handleHealth", "handleLogin", "handleCreateApp", "handleListApps",
             "handleCreateNamespace", "handleNotifications", "longPoll"}
OfApp == {"handleGetApp", "handleDeleteApp", "handleListNamespaces"}
OfNamespace == {"handlePublish", "handleGetReleases"}
OfKey == {"handleGetConfig", "handleSetConfig", "handleDeleteConfig"}

Documented ==
    {call \in [op : STRING, args : Seq(Name)] :
        \/ call.op \in Nameless /\ Len(call.args) = 0
        \/ call.op \in OfApp \cup OfNamespace /\ Len(call.args) = 1
        \/ call.op \in OfKey /\ Len(call.args) = 2}

(* The request that the documentation gives for a call.  That for a long   *)
(* poll has a query string, which is part of the last segment; a client    *)
(* reaches handleNotifications without it.                                 *)
Request(method, target) == [method |-> method, target |-> target]

DocumentedRequest(call) ==
    LET a == call.args
        ofKey(method) == Request(method, Namespaces \o a[1] \o <<"keys">> \o a[2])
    IN  CASE call.op = "handleHealth" -> Request("GET", Health)
          [] call.op = "handleLogin" -> Request("POST", Login)
          [] call.op = "handleCreateApp" -> Request("POST", Apps)
          [] call.op = "handleListApps" -> Request("GET", Apps)
          [] call.op = "handleGetApp" -> Request("GET", Apps \o a[1])
          [] call.op = "handleDeleteApp" -> Request("DELETE", Apps \o a[1])
          [] call.op = "handleListNamespaces" -> Request("GET", Apps \o a[1] \o <<"namespaces">>)
          [] call.op = "handleCreateNamespace" -> Request("POST", Namespaces)
          [] call.op = "handleGetConfig" -> ofKey("GET")
          [] call.op = "handleSetConfig" -> ofKey("PUT")
          [] call.op = "handleDeleteConfig" -> ofKey("DELETE")
          [] call.op = "handlePublish" -> Request("POST", Namespaces \o a[1] \o <<"publish">>)
          [] call.op = "handleGetReleases" -> Request("GET", Namespaces \o a[1] \o <<"releases">>)
          [] call.op = "handleNotifications" -> Request("GET", Notifications)
          [] call.op = "longPoll" -> Request("GET", <<"api", "v1", "notifications?timeout=60">>)

(* The names that tell routes apart by chance: no segment of an            *)
(* application or a namespace begins with the word of a route.  A key may  *)
(* be anything.                                                            *)
PlainNames(call) ==
    call.args # <<>> =>
        \A i \in DOMAIN call.args[1] :
            /\ call.args[1][i] # "keys"
            /\ \A word \in DOMAIN Begins : call.args[1][i] \notin Begins[word]
=============================================================================
