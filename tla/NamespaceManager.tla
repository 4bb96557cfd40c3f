-------------------------- MODULE NamespaceManager --------------------------
(***************************************************************************)
(* NamespaceManager: applications, namespaces and their inheritance.       *)
(*                                                                         *)
(* The manager has no lock: a method makes one to three calls of the       *)
(* store, each of them atomic, and other threads act in between.  A        *)
(* deployment has one of two stores: the tables of MySQL have foreign keys *)
(* (cascade), those of SQLite have none.                                   *)
(*                                                                         *)
(* A part of a namespace's scope is a sequence of segments, so that        *)
(* "a/b" is <<"a", "b">> and joining with "/" is concatenation.  One key   *)
(* stands for all keys.                                                    *)
(***************************************************************************)
EXTENDS Naturals, Sequences, FiniteSets

CONSTANTS Scopes,          \* [app_id, env, cluster, name] records
          Public,          \* ids of the namespaces others inherit from
          Threads,
          NoParent

Apps == {s.app_id : s \in Scopes}

makeNamespaceId(s) == s.app_id \o s.env \o s.cluster \o s.name

Ids == {makeNamespaceId(s) : s \in Scopes}

(* What callers create.                                                    *)
Things == ({"application"} \X Apps) \cup ({"namespace"} \X Ids)

ASSUME NamespaceAssumption == /\ Scopes # {}
                              /\ Public \subseteq Ids
                              /\ NoParent \notin Ids

VARIABLES applications,   \* set of registered application ids
          namespaces,     \* partial function from ids to rows
          live,           \* the namespaces in which the key is live
          pc, local,      \* where each thread is, and its arguments
          cascade,        \* the tables have foreign keys with ON DELETE CASCADE
          checked,        \* callers inherit from Public namespaces only
          wins            \* history: callers told they created an application or
                          \* namespace that still exists

(* What never changes during a run of the server.                          *)
setup == <<cascade, checked>>

vars == <<applications, namespaces, live, pc, local, setup, wins>>

Namespace == [scope : Scopes, parent_namespace_id : Ids \cup {NoParent}]

(* During a lookup, id is the namespace whose turn it is.                  *)
Local == [scope : Scopes, parent : Ids \cup {NoParent}, id : Ids]

Labels == {"idle", "createApplication", "listNamespaces", "createNamespace",
           "getConfig", "getNamespace"}

TypeOK ==
    /\ applications \subseteq Apps
    /\ DOMAIN namespaces \subseteq Ids
    /\ \A id \in DOMAIN namespaces :
          namespaces[id] \in Namespace /\ makeNamespaceId(namespaces[id].scope) = id
    /\ live \subseteq Ids
    /\ pc \in [Threads -> Labels]
    /\ local \in [Threads -> Local]
    /\ cascade \in BOOLEAN
    /\ checked \in BOOLEAN
    /\ wins \in [Things -> Nat]

Call(s, parent, id) == [scope |-> s, parent |-> parent, id |-> id]

NoCall == LET s == CHOOSE s \in Scopes : TRUE IN Call(s, NoParent, makeNamespaceId(s))

Init ==
    /\ applications = {}
    /\ namespaces = [id \in {} |-> NoCall]
    /\ live = {}
    /\ pc = [t \in Threads |-> "idle"]
    /\ local = [t \in Threads |-> NoCall]
    /\ cascade \in BOOLEAN
    /\ checked \in BOOLEAN
    /\ wins = [x \in Things |-> 0]

Goto(t, label, call) ==
    /\ pc' = [pc EXCEPT ![t] = label]
    /\ local' = [local EXCEPT ![t] = call]

Return(t) == Goto(t, "idle", NoCall)

-----------------------------------------------------------------------------
(* The store's queries.                                                    *)
getApplication(app) == app \in applications

getNamespace(id) == id \in DOMAIN namespaces

listNamespaces(app, env, cluster) ==
    {id \in DOMAIN namespaces : LET s == namespaces[id].scope IN
        s.app_id = app /\ s.env = env /\ s.cluster = cluster}

(* registerApplication: getApplication, then createApplication, whose      *)
(* INSERT fails on an id that exists.                                      *)
registerApplication(t, app) ==
    /\ pc[t] = "idle"
    /\ ~getApplication(app)
    /\ \E s \in Scopes : s.app_id = app /\ Goto(t, "createApplication", Call(s, NoParent, NoCall.id))
    /\ UNCHANGED <<applications, namespaces, live, wins, setup>>

ReplaceApplication(t) ==                                      \* mistaken
    LET app == local[t].scope.app_id
    IN  /\ pc[t] = "createApplication"
        /\ applications' = applications \cup {app}
        /\ wins' = [wins EXCEPT ![<<"application", app>>] = @ + 1]
        /\ Return(t)
        /\ UNCHANGED <<namespaces, live, setup>>

createApplication(t) ==
    LET app == local[t].scope.app_id
    IN  /\ pc[t] = "createApplication"
        /\ applications' = applications \cup {app}
        /\ wins' = IF app \in applications THEN wins
                   ELSE [wins EXCEPT ![<<"application", app>>] = @ + 1]
        /\ Return(t)
        /\ UNCHANGED <<namespaces, live, setup>>

(* The rows that go with those of the namespaces in gone.                  *)
DeleteNamespaces(gone) ==
    /\ namespaces' = [id \in DOMAIN namespaces \ gone |-> namespaces[id]]
    /\ live' = IF cascade THEN live \ gone ELSE live

removeApplication(t, app) ==
    LET gone == IF cascade THEN {id \in DOMAIN namespaces : namespaces[id].scope.app_id = app}
                           ELSE {}
    IN  /\ pc[t] = "idle"
        /\ applications' = applications \ {app}
        /\ DeleteNamespaces(gone)
        /\ wins' = [x \in Things |->
                      IF x = <<"application", app>> \/ x \in {"namespace"} \X gone
                      THEN 0 ELSE wins[x]]
        /\ UNCHANGED <<pc, local, setup>>

-----------------------------------------------------------------------------
(* createNamespace: getApplication, then the INSERT.                       *)
Parents(id) ==
    CASE ~checked -> Ids \cup {NoParent}
      [] checked /\ id \in Public -> {NoParent}
      [] OTHER -> Public \cup {NoParent}

createNamespace(t, s, parent) ==
    /\ pc[t] = "idle"
    /\ getApplication(s.app_id)
    /\ Goto(t, "createNamespace", Call(s, parent, NoCall.id))
    /\ UNCHANGED <<applications, namespaces, live, wins, setup>>

(* createCluster: a cluster is there when one of its namespaces is; if     *)
(* not, its namespace "application" is created.                            *)
createCluster(t, s) ==
    /\ pc[t] = "idle"
    /\ s.name = <<"application">>
    /\ getApplication(s.app_id)
    /\ Goto(t, "listNamespaces", Call(s, NoParent, NoCall.id))
    /\ UNCHANGED <<applications, namespaces, live, wins, setup>>

createClusterList(t) ==
    LET s == local[t].scope
    IN  /\ pc[t] = "listNamespaces"
        /\ \/ listNamespaces(s.app_id, s.env, s.cluster) # {} /\ Return(t)
           \/ /\ listNamespaces(s.app_id, s.env, s.cluster) = {}
              /\ Goto(t, "createNamespace", local[t])
        /\ UNCHANGED <<applications, namespaces, live, wins, setup>>

(* The INSERT fails when the id exists, and when a foreign key is wanting. *)
NoKeyCheck(s) == makeNamespaceId(s) \notin DOMAIN namespaces  \* mistaken

Insertable(s) ==
    /\ makeNamespaceId(s) \notin DOMAIN namespaces
    /\ cascade => s.app_id \in applications

insertNamespace(t) ==
    LET s == local[t].scope
        id == makeNamespaceId(s)
        row == [scope |-> s, parent_namespace_id |-> local[t].parent]
    IN  /\ pc[t] = "createNamespace"
        /\ \/ /\ Insertable(s)
              /\ namespaces' = [i \in DOMAIN namespaces \cup {id} |->
                                   IF i = id THEN row ELSE namespaces[i]]
              /\ wins' = [wins EXCEPT ![<<"namespace", id>>] = @ + 1]
           \/ ~Insertable(s) /\ UNCHANGED <<namespaces, wins>>
        /\ Return(t)
        /\ UNCHANGED <<applications, live, setup>>

deleteNamespace(t, id) ==
    /\ pc[t] = "idle"
    /\ DeleteNamespaces({id})
    /\ wins' = [wins EXCEPT ![<<"namespace", id>>] = 0]
    /\ UNCHANGED <<applications, pc, local, setup>>

(* The key goes live (a publication) or is hidden (an edit).               *)
publishKey(id) ==
    /\ cascade => id \in DOMAIN namespaces
    /\ live' = live \cup {id}
    /\ UNCHANGED <<applications, namespaces, pc, local, wins, setup>>

editKey(id) ==
    /\ live' = live \ {id}
    /\ UNCHANGED <<applications, namespaces, pc, local, wins, setup>>

-----------------------------------------------------------------------------
(* resolveConfig: getConfig of the namespace, then getNamespace, and the   *)
(* same for its parent.                                                    *)
resolveConfig(t, id) ==
    /\ pc[t] = "idle"
    /\ Goto(t, "getConfig", [NoCall EXCEPT !.id = id])
    /\ UNCHANGED <<applications, namespaces, live, wins, setup>>

resolveGetConfig(t) ==
    /\ pc[t] = "getConfig"
    /\ IF local[t].id \in live THEN Return(t) ELSE Goto(t, "getNamespace", local[t])
    /\ UNCHANGED <<applications, namespaces, live, wins, setup>>

KeepsAsking(t) ==                                             \* mistaken
    /\ pc[t] = "getNamespace"
    /\ Goto(t, "getConfig", local[t])
    /\ UNCHANGED <<applications, namespaces, live, wins, setup>>

resolveGetNamespace(t) ==
    LET id == local[t].id
    IN  /\ pc[t] = "getNamespace"
        /\ IF getNamespace(id) /\ namespaces[id].parent_namespace_id # NoParent
           THEN Goto(t, "getConfig", [local[t] EXCEPT !.id = namespaces[id].parent_namespace_id])
           ELSE Return(t)
        /\ UNCHANGED <<applications, namespaces, live, wins, setup>>

-----------------------------------------------------------------------------
Request(t) ==
    \/ \E app \in Apps : registerApplication(t, app) \/ removeApplication(t, app)
    \/ \E s \in Scopes :
        \/ \E parent \in Parents(makeNamespaceId(s)) : createNamespace(t, s, parent)
        \/ createCluster(t, s)
    \/ \E id \in Ids : deleteNamespace(t, id) \/ resolveConfig(t, id)

Step(t) ==
    \/ createApplication(t)
    \/ createClusterList(t) \/ insertNamespace(t)
    \/ resolveGetConfig(t) \/ resolveGetNamespace(t)

Next ==
    \/ \E t \in Threads : Request(t) \/ Step(t)
    \/ \E id \in Ids : publishKey(id) \/ editKey(id)

Spec == Init /\ [][Next]_vars

(* A thread in the middle of a method goes on.                             *)
FairSpec == Spec /\ \A t \in Threads : WF_vars(Step(t))

-----------------------------------------------------------------------------
(* Of the callers that race to register one application, or to create one  *)
(* namespace, at most one is told that it did, though all of them saw that *)
(* it did not exist.                                                       *)
OneWinner == \A x \in Things : wins[x] <= 1

(* With the foreign keys of MySQL, a namespace has its application and a   *)
(* live key its namespace, though createNamespace looked the application   *)
(* up in a call of its own and it may have been removed since.  (The       *)
(* tables of SQLite keep such orphans.)                                    *)
NoOrphans ==
    cascade => /\ \A id \in DOMAIN namespaces : namespaces[id].scope.app_id \in applications
               /\ live \subseteq DOMAIN namespaces

(* Every lookup through the parents ends, whatever is created and deleted  *)
(* meanwhile, when namespaces inherit from public ones only.  (When        *)
(* callers name any parent, nothing keeps them from making a cycle.)       *)
LookupReturns ==
    checked => \A t \in Threads : pc[t] \in {"getConfig", "getNamespace"} ~> pc[t] = "idle"
=============================================================================
