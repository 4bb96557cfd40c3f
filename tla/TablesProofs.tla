---------------------------- MODULE TablesProofs ----------------------------
(***************************************************************************)
(* Proofs about the tables that are read while others write them: those of *)
(* applications and namespaces, and the two histories.                     *)
(*                                                                         *)
(* OneWinner and NoOrphans hold for any applications, namespaces and       *)
(* threads, on either store.  The manager looks before it inserts, in two  *)
(* calls of the store: what it saw plays no part here.  What decides is    *)
(* that the INSERT refuses an id that is there, and that those who won are *)
(* counted for what is there only (Won).                                   *)
(*                                                                         *)
(* The pages of the histories: Rank, which counts rows, is shown to number *)
(* them from 0 without gaps; a page then holds what its number says        *)
(* (PageHolds), and rows that are added only raise ranks (RankGrows).  On  *)
(* this rest the inductive invariants HistoryInv and ChangesInv: what a    *)
(* reader has not seen of what it began with is ahead of it.               *)
(***************************************************************************)
EXTENDS NamespaceManager, ReleaseHistory, ChangeHistory, Integers, FiniteSetTheorems, TLAPS

-----------------------------------------------------------------------------
(* Applications and namespaces.                                            *)

Calls == pc \in [Threads -> Labels] /\ local \in [Threads -> Local]

Types ==
    /\ applications \subseteq Apps
    /\ DOMAIN namespaces \subseteq Ids
    /\ namespaces \in [DOMAIN namespaces -> Namespace]
    /\ \A id \in DOMAIN namespaces : makeNamespaceId(namespaces[id].scope) = id
    /\ live \subseteq Ids
    /\ Calls
    /\ cascade \in BOOLEAN /\ checked \in BOOLEAN
    /\ wins \in [Things -> Nat]

(* At most one for what is there, nobody for what is not.                  *)
Won ==
    /\ \A app \in Apps :
          wins[<<"application", app>>] <= IF app \in applications THEN 1 ELSE 0
    /\ \A id \in Ids :
          wins[<<"namespace", id>>] <= IF id \in DOMAIN namespaces THEN 1 ELSE 0

ManagerInv == Types /\ Won /\ NoOrphans

-----------------------------------------------------------------------------
(* The idle call is a call.                                                *)
LEMMA NoCallType == NoCall \in Local
<1> DEFINE s == CHOOSE s \in Scopes : TRUE
<1>1. s \in Scopes
  BY NamespaceAssumption
<1>2. makeNamespaceId(s) \in Ids
  BY <1>1, Zenon DEF Ids
<1>3. NoCall = [scope |-> s, parent |-> NoParent, id |-> makeNamespaceId(s)]
  BY DEF NoCall, Call
<1> QED
  BY <1>1, <1>2, <1>3 DEF Local

(* Moving on with a call keeps the types.                                  *)
LEMMA GotoTypes ==
    ASSUME Calls, NEW t \in Threads, NEW label \in Labels, NEW call \in Local,
           Goto(t, label, call)
    PROVE  Calls'
BY DEF Goto, Calls

(* A return keeps the types.                                               *)
LEMMA ReturnTypes ==
    ASSUME Calls, NEW t \in Threads, Return(t)
    PROVE  Calls'
BY GotoTypes, NoCallType, Zenon DEF Return, Labels

(* The fields of a call and of a row.                                      *)
LEMMA CallFields ==
    ASSUME NEW call \in Local
    PROVE  /\ call.scope \in Scopes
           /\ call.scope.app_id \in Apps
           /\ makeNamespaceId(call.scope) \in Ids
           /\ call.parent \in Ids \cup {NoParent}
BY DEF Local, Apps, Ids

(* A step that only moves a thread on keeps the invariant.                 *)
LEMMA QuietKeeps ==
    ASSUME ManagerInv, UNCHANGED <<applications, namespaces, wins, setup>>, Calls',
           \/ live' = live
           \/ \E id \in Ids : live' = live \cup {id} /\ (cascade => id \in DOMAIN namespaces)
           \/ \E id \in Ids : live' = live \ {id}
    PROVE  ManagerInv'
<1>1. Types'
  BY DEF ManagerInv, Types, setup
<1>2. Won'
  BY DEF ManagerInv, Won
<1>3. NoOrphans'
  BY DEF ManagerInv, NoOrphans, setup
<1> QED
  BY <1>1, <1>2, <1>3 DEF ManagerInv

-----------------------------------------------------------------------------
(* createApplication preserves the invariant.                              *)
LEMMA CreateApplicationKeeps ==
    ASSUME ManagerInv, NEW t \in Threads, createApplication(t)
    PROVE  ManagerInv'
<1> DEFINE app == local[t].scope.app_id
<1>1. app \in Apps
  BY CallFields DEF ManagerInv, Types, Calls
<1>2. <<"application", app>> \in Things
  BY <1>1 DEF Things
<1>3. Calls'
  BY ReturnTypes DEF ManagerInv, Types, createApplication
<1>4. /\ applications' = applications \cup {app}
      /\ wins' = IF app \in applications THEN wins
                 ELSE [wins EXCEPT ![<<"application", app>>] = @ + 1]
      /\ UNCHANGED <<namespaces, live, setup>>
  BY DEF createApplication
<1> HIDE DEF app
<1>5. Types'
  BY <1>1, <1>2, <1>3, <1>4 DEF ManagerInv, Types, setup
<1>6. ASSUME NEW a \in Apps
      PROVE  wins'[<<"application", a>>] <= IF a \in applications' THEN 1 ELSE 0
  <2>1. <<"application", a>> \in Things
    BY DEF Things
  <2>2. wins[<<"application", a>>] <= IF a \in applications THEN 1 ELSE 0
    BY DEF ManagerInv, Won
  <2>3. wins[<<"application", a>>] \in Nat
    BY <2>1 DEF ManagerInv, Types
  <2>4. CASE a = app
    <3>1. CASE app \in applications
      BY <1>4, <2>2, <2>4, <3>1
    <3>2. CASE app \notin applications
      <4>1. wins'[<<"application", a>>] = wins[<<"application", a>>] + 1
        BY <1>2, <1>4, <2>4, <3>2 DEF ManagerInv, Types
      <4> QED
        BY <1>4, <2>2, <2>3, <2>4, <3>2, <4>1
    <3> QED
      BY <3>1, <3>2
  <2>5. CASE a # app
    <3>1. wins'[<<"application", a>>] = wins[<<"application", a>>]
      BY <1>2, <1>4, <2>1, <2>5 DEF ManagerInv, Types
    <3> QED
      BY <1>4, <2>2, <2>5, <3>1
  <2> QED
    BY <2>4, <2>5
<1>7. ASSUME NEW id \in Ids
      PROVE  wins'[<<"namespace", id>>] <= IF id \in DOMAIN namespaces' THEN 1 ELSE 0
  <2>1. <<"namespace", id>> \in Things
    BY DEF Things
  <2>2. wins'[<<"namespace", id>>] = wins[<<"namespace", id>>]
    BY <1>2, <1>4, <2>1 DEF ManagerInv, Types
  <2> QED
    BY <1>4, <2>2 DEF ManagerInv, Won
<1>8. NoOrphans'
  BY <1>4 DEF ManagerInv, NoOrphans, setup
<1> QED
  BY <1>5, <1>6, <1>7, <1>8 DEF ManagerInv, Won

(* What is deleted, and who won it, are gone together.                     *)
LEMMA DeleteKeeps ==
    ASSUME ManagerInv, NEW gone \in SUBSET Ids, NEW apps \in SUBSET Apps,
           DeleteNamespaces(gone),
           applications' = applications \ apps,
           cascade => \A id \in DOMAIN namespaces :
                         namespaces[id].scope.app_id \in apps => id \in gone,
           wins' = [x \in Things |->
                       IF x \in {"application"} \X apps \/ x \in {"namespace"} \X gone
                       THEN 0 ELSE wins[x]],
           UNCHANGED <<pc, local, setup>>
    PROVE  ManagerInv'
<1>1. /\ namespaces' = [id \in DOMAIN namespaces \ gone |-> namespaces[id]]
      /\ live' = IF cascade THEN live \ gone ELSE live
  BY DEF DeleteNamespaces
<1>2. DOMAIN namespaces' = DOMAIN namespaces \ gone
  BY <1>1
<1>3. wins' \in [Things -> Nat]
  BY DEF ManagerInv, Types
<1>4. namespaces' \in [DOMAIN namespaces' -> Namespace]
  BY <1>1 DEF ManagerInv, Types
<1>5. Types'
  BY <1>1, <1>2, <1>3, <1>4 DEF ManagerInv, Types, Calls, setup
<1>6. ASSUME NEW a \in Apps
      PROVE  wins'[<<"application", a>>] <= IF a \in applications' THEN 1 ELSE 0
  <2>1. <<"application", a>> \in Things
    BY DEF Things
  <2>2. wins[<<"application", a>>] <= IF a \in applications THEN 1 ELSE 0
    BY DEF ManagerInv, Won
  <2>3. CASE a \in apps
    BY <2>1, <2>3
  <2>4. CASE a \notin apps
    <3>1. wins'[<<"application", a>>] = wins[<<"application", a>>]
      BY <2>1, <2>4
    <3> QED
      BY <2>2, <2>4, <3>1
  <2> QED
    BY <2>3, <2>4
<1>7. ASSUME NEW id \in Ids
      PROVE  wins'[<<"namespace", id>>] <= IF id \in DOMAIN namespaces' THEN 1 ELSE 0
  <2>1. <<"namespace", id>> \in Things
    BY DEF Things
  <2>2. wins[<<"namespace", id>>] <= IF id \in DOMAIN namespaces THEN 1 ELSE 0
    BY DEF ManagerInv, Won
  <2>3. CASE id \in gone
    BY <1>2, <2>1, <2>3
  <2>4. CASE id \notin gone
    <3>1. wins'[<<"namespace", id>>] = wins[<<"namespace", id>>]
      BY <2>1, <2>4
    <3> QED
      BY <1>2, <2>2, <2>4, <3>1
  <2> QED
    BY <2>3, <2>4
<1>8. NoOrphans'
  BY <1>1, <1>2 DEF ManagerInv, NoOrphans, setup
<1> QED
  BY <1>5, <1>6, <1>7, <1>8 DEF ManagerInv, Won

(* removeApplication preserves the invariant.                              *)
LEMMA RemoveApplicationKeeps ==
    ASSUME ManagerInv, NEW t \in Threads, NEW app \in Apps, removeApplication(t, app)
    PROVE  ManagerInv'
<1> DEFINE gone == IF cascade THEN {id \in DOMAIN namespaces : namespaces[id].scope.app_id = app}
                              ELSE {}
<1>1. gone \in SUBSET Ids /\ {app} \in SUBSET Apps
  BY DEF ManagerInv, Types
<1>2. /\ applications' = applications \ {app}
      /\ DeleteNamespaces(gone)
      /\ wins' = [x \in Things |->
                    IF x = <<"application", app>> \/ x \in {"namespace"} \X gone
                    THEN 0 ELSE wins[x]]
      /\ UNCHANGED <<pc, local, setup>>
  BY DEF removeApplication
<1>3. cascade => \A id \in DOMAIN namespaces :
                    namespaces[id].scope.app_id \in {app} => id \in gone
  OBVIOUS
<1> HIDE DEF gone
<1>4. \A x : x \in {"application"} \X {app} <=> x = <<"application", app>>
  OBVIOUS
<1>5. wins' = [x \in Things |->
                 IF x \in {"application"} \X {app} \/ x \in {"namespace"} \X gone
                 THEN 0 ELSE wins[x]]
  BY <1>2, <1>4
<1> QED
  BY <1>1, <1>2, <1>3, <1>5, DeleteKeeps, Zenon

(* deleteNamespace preserves the invariant.                                *)
LEMMA DeleteNamespaceKeeps ==
    ASSUME ManagerInv, NEW t \in Threads, NEW id \in Ids, deleteNamespace(t, id)
    PROVE  ManagerInv'
<1>1. /\ DeleteNamespaces({id})
      /\ wins' = [wins EXCEPT ![<<"namespace", id>>] = 0]
      /\ applications' = applications \ {}
      /\ UNCHANGED <<pc, local, setup>>
  BY DEF deleteNamespace
<1>2. {id} \in SUBSET Ids /\ {} \in SUBSET Apps
  OBVIOUS
<1>3. \A x : ~(x \in {"application"} \X {})
  OBVIOUS
<1>4. \A x : x \in {"namespace"} \X {id} <=> x = <<"namespace", id>>
  OBVIOUS
<1>5. wins' = [x \in Things |->
                 IF x \in {"application"} \X {} \/ x \in {"namespace"} \X {id}
                 THEN 0 ELSE wins[x]]
  <2>1. wins \in [Things -> Nat]
    BY DEF ManagerInv, Types
  <2>2. wins' = [x \in Things |-> IF x = <<"namespace", id>> THEN 0 ELSE wins[x]]
    BY <1>1, <2>1, Zenon
  <2>3. \A x : (x \in {"application"} \X {} \/ x \in {"namespace"} \X {id})
                   <=> x = <<"namespace", id>>
    BY <1>3, <1>4
  <2> QED
    BY <2>2, <2>3
<1>6. \A i \in DOMAIN namespaces : namespaces[i].scope.app_id \in {} => i \in {id}
  OBVIOUS
<1> QED
  BY <1>1, <1>2, <1>5, <1>6, DeleteKeeps, Zenon

(* The INSERT: one more row, and one more winner, where there was none.    *)
LEMMA InsertKeeps ==
    ASSUME ManagerInv, NEW t \in Threads, insertNamespace(t)
    PROVE  ManagerInv'
<1> DEFINE s == local[t].scope
           id == makeNamespaceId(s)
           row == [scope |-> s, parent_namespace_id |-> local[t].parent]
<1>1. local[t] \in Local
  BY DEF ManagerInv, Types, Calls
<1>2. s \in Scopes /\ id \in Ids /\ s.app_id \in Apps /\ local[t].parent \in Ids \cup {NoParent}
  BY <1>1, CallFields
<1>3. row \in Namespace /\ row.scope = s /\ row.scope.app_id = s.app_id
  BY <1>2 DEF Namespace
<1>4. Calls'
  BY ReturnTypes DEF ManagerInv, Types, insertNamespace
<1>5. UNCHANGED <<applications, live, setup>>
  BY DEF insertNamespace
<1>6. CASE UNCHANGED <<namespaces, wins>>
  BY <1>4, <1>5, <1>6, QuietKeeps, Zenon
<1>7. CASE /\ Insertable(s)
           /\ namespaces' = [i \in DOMAIN namespaces \cup {id} |->
                                IF i = id THEN row ELSE namespaces[i]]
           /\ wins' = [wins EXCEPT ![<<"namespace", id>>] = @ + 1]
  <2>1. id \notin DOMAIN namespaces /\ (cascade => s.app_id \in applications)
    BY <1>7 DEF Insertable
  <2>0. makeNamespaceId(row.scope) = id
    BY <1>3
  <2> HIDE DEF s, id, row
  <2>2. DOMAIN namespaces' = DOMAIN namespaces \cup {id}
    BY <1>7
  <2>3. namespaces' \in [DOMAIN namespaces' -> Namespace]
    BY <1>3, <1>7, <2>2 DEF ManagerInv, Types
  <2>4. <<"namespace", id>> \in Things
    BY <1>2 DEF Things
  <2>5. Types'
    BY <1>2, <1>4, <1>5, <1>7, <2>0, <2>2, <2>3, <2>4 DEF ManagerInv, Types, setup
  <2>6. ASSUME NEW a \in Apps
        PROVE  wins'[<<"application", a>>] <= IF a \in applications' THEN 1 ELSE 0
    <3>1. <<"application", a>> \in Things
      BY DEF Things
    <3>2. wins'[<<"application", a>>] = wins[<<"application", a>>]
      BY <1>7, <2>4, <3>1 DEF ManagerInv, Types
    <3> QED
      BY <1>5, <3>2 DEF ManagerInv, Won
  <2>7. ASSUME NEW i \in Ids
        PROVE  wins'[<<"namespace", i>>] <= IF i \in DOMAIN namespaces' THEN 1 ELSE 0
    <3>1. <<"namespace", i>> \in Things
      BY DEF Things
    <3>2. wins[<<"namespace", i>>] <= IF i \in DOMAIN namespaces THEN 1 ELSE 0
      BY DEF ManagerInv, Won
    <3>3. wins[<<"namespace", i>>] \in Nat
      BY <3>1 DEF ManagerInv, Types
    <3>4. CASE i = id
      <4>1. wins'[<<"namespace", i>>] = wins[<<"namespace", i>>] + 1
        BY <1>7, <2>4, <3>4 DEF ManagerInv, Types
      <4> QED
        BY <2>1, <2>2, <3>2, <3>3, <3>4, <4>1
    <3>5. CASE i # id
      <4>1. wins'[<<"namespace", i>>] = wins[<<"namespace", i>>]
        BY <1>7, <2>4, <3>1, <3>5 DEF ManagerInv, Types
      <4> QED
        BY <2>2, <3>2, <3>5, <4>1
    <3> QED
      BY <3>4, <3>5
  <2>8. NoOrphans'
    BY <1>3, <1>5, <1>7, <2>1, <2>2 DEF ManagerInv, NoOrphans, setup
  <2> QED
    BY <2>5, <2>6, <2>7, <2>8 DEF ManagerInv, Won
<1> QED
  BY <1>6, <1>7 DEF insertNamespace

-----------------------------------------------------------------------------
(* The invariant holds at first.                                           *)
LEMMA ManagerInitial == Init => ManagerInv
<1> SUFFICES ASSUME Init PROVE ManagerInv
  OBVIOUS
<1>1. DOMAIN namespaces = {}
  BY DEF Init
<1>2. wins \in [Things -> Nat] /\ \A x \in Things : wins[x] = 0
  BY DEF Init
<1>3. Calls
  BY NoCallType DEF Init, Calls, Labels
<1>4. namespaces \in [DOMAIN namespaces -> Namespace]
  BY DEF Init
<1>5. Types
  BY <1>1, <1>2, <1>3, <1>4 DEF Init, Types
<1>6. Won
  BY <1>1, <1>2 DEF Init, Won, Things
<1>7. NoOrphans
  BY <1>1 DEF Init, NoOrphans
<1> QED
  BY <1>5, <1>6, <1>7 DEF ManagerInv

(* Every step preserves the invariant.                                     *)
LEMMA ManagerInductive == ManagerInv /\ [Next]_vars => ManagerInv'
<1> SUFFICES ASSUME ManagerInv, [Next]_vars PROVE ManagerInv'
  OBVIOUS
<1>0. /\ Calls /\ local \in [Threads -> Local] /\ DOMAIN namespaces \subseteq Ids
      /\ namespaces \in [DOMAIN namespaces -> Namespace]
  BY DEF ManagerInv, Types, Calls
<1>1. ASSUME UNCHANGED <<applications, namespaces, live, wins, setup>>,
             NEW t \in Threads, NEW label \in Labels, NEW call \in Local,
             Goto(t, label, call)
      PROVE  ManagerInv'
  BY <1>0, <1>1, GotoTypes, QuietKeeps, Zenon
<1>2. ASSUME UNCHANGED <<applications, namespaces, live, wins, setup>>,
             NEW t \in Threads, Return(t)
      PROVE  ManagerInv'
  BY <1>1, <1>2, NoCallType, Zenon DEF Return, Labels
<1>3. NoCall.id \in Ids
  BY NoCallType DEF Local
<1>4. ASSUME NEW s \in Scopes, NEW parent \in Ids \cup {NoParent}, NEW id \in Ids
      PROVE  Call(s, parent, id) \in Local
  BY DEF Call, Local
<1>5. ASSUME NEW t \in Threads, NEW app \in Apps, registerApplication(t, app) PROVE ManagerInv'
  <2>1. PICK s \in Scopes : Goto(t, "createApplication", Call(s, NoParent, NoCall.id))
    BY <1>5 DEF registerApplication
  <2>2. Call(s, NoParent, NoCall.id) \in Local
    BY <1>3, <1>4, Zenon
  <2> QED
    BY <1>1, <1>5, <2>1, <2>2, Zenon DEF registerApplication, Labels
<1>6. ASSUME NEW t \in Threads, NEW s \in Scopes, NEW parent \in Ids \cup {NoParent},
             createNamespace(t, s, parent) \/ createCluster(t, s)
      PROVE  ManagerInv'
  <2>1. Call(s, parent, NoCall.id) \in Local /\ Call(s, NoParent, NoCall.id) \in Local
    BY <1>3, <1>4
  <2> QED
    BY <1>1, <1>6, <2>1, Zenon DEF createNamespace, createCluster, Labels
<1>7. ASSUME NEW t \in Threads, NEW id \in Ids, resolveConfig(t, id) PROVE ManagerInv'
  <2>1. [NoCall EXCEPT !.id = id] \in Local
    BY NoCallType DEF Local
  <2> QED
    BY <1>1, <1>7, <2>1, Zenon DEF resolveConfig, Labels
<1>8. ASSUME NEW t \in Threads,
             createClusterList(t) \/ resolveGetConfig(t)
      PROVE  ManagerInv'
  <2>1. local[t] \in Local
    BY <1>0
  <2> QED
    BY <1>1, <1>2, <1>8, <2>1, Zenon DEF createClusterList, resolveGetConfig, Labels
<1>9. ASSUME NEW t \in Threads, resolveGetNamespace(t) PROVE ManagerInv'
  <2> DEFINE id == local[t].id
             call == [local[t] EXCEPT !.id = namespaces[id].parent_namespace_id]
  <2>1. CASE getNamespace(id) /\ namespaces[id].parent_namespace_id # NoParent
    <3>1. namespaces[id].parent_namespace_id \in Ids
      BY <1>0, <2>1 DEF getNamespace, Namespace
    <3>2. call \in Local
      BY <1>0, <3>1 DEF Local
    <3>3. Goto(t, "getConfig", call)
      BY <1>9, <2>1 DEF resolveGetNamespace
    <3> QED
      BY <1>1, <1>9, <3>2, <3>3, Zenon DEF resolveGetNamespace, Labels
  <2>2. CASE ~(getNamespace(id) /\ namespaces[id].parent_namespace_id # NoParent)
    BY <1>2, <1>9, <2>2, Zenon DEF resolveGetNamespace
  <2> QED
    BY <2>1, <2>2
<1>10. ASSUME NEW id \in Ids, publishKey(id) \/ editKey(id) PROVE ManagerInv'
  BY <1>0, <1>10, QuietKeeps DEF publishKey, editKey, Calls
<1>11. CASE UNCHANGED vars
  <2>1. Calls'
    BY <1>0, <1>11 DEF vars, Calls
  <2> QED
    BY <1>11, <2>1, QuietKeeps, Zenon DEF vars
<1>12. \A id \in Ids : Parents(id) \subseteq Ids \cup {NoParent}
  BY NamespaceAssumption DEF Parents
<1>13. \A s \in Scopes : makeNamespaceId(s) \in Ids
  BY DEF Ids
<1>14. ASSUME NEW t \in Threads, Request(t) PROVE ManagerInv'
  BY <1>5, <1>6, <1>7, <1>12, <1>13, <1>14, RemoveApplicationKeeps, DeleteNamespaceKeeps,
     NamespaceAssumption
     DEF Request
<1>15. ASSUME NEW t \in Threads, Step(t) PROVE ManagerInv'
  BY <1>8, <1>9, <1>15, CreateApplicationKeeps, InsertKeeps, Zenon DEF Step
<1> QED
  BY <1>10, <1>11, <1>14, <1>15, Zenon DEF Next

(* The types: a row is stored under the id that makeNamespaceId gives its  *)
(* scope, and a lookup in progress is at a namespace, never beyond a root. *)
THEOREM ManagerTypes == Spec => []TypeOK
<1>1. ManagerInv => TypeOK
  BY DEF ManagerInv, Types, Calls, TypeOK
<1> QED
  BY <1>1, ManagerInitial, ManagerInductive, PTL DEF Spec

(* OneWinner: of the callers of registerApplication and createNamespace    *)
(* that race for one id, at most one is told that it created it.           *)
THEOREM OneWinnerAlways == Spec => []OneWinner
<1>1. ManagerInv => OneWinner
  <2> SUFFICES ASSUME ManagerInv, NEW x \in Things PROVE wins[x] <= 1
    BY DEF OneWinner
  <2>1. wins[x] \in Nat
    BY DEF ManagerInv, Types
  <2> QED
    BY <2>1 DEF ManagerInv, Won, Things
<1> QED
  BY <1>1, ManagerInitial, ManagerInductive, PTL DEF Spec

(* NoOrphans: with the foreign keys of MySQL the window between looking    *)
(* the application up and inserting the namespace is closed.               *)
THEOREM NoOrphansEver == Spec => []NoOrphans
<1>1. ManagerInv => NoOrphans
  BY DEF ManagerInv
<1> QED
  BY <1>1, ManagerInitial, ManagerInductive, PTL DEF Spec

-----------------------------------------------------------------------------
(* Pages.                                                                  *)

(* Rows are numbers, finitely many, and have a time each.                  *)
Table(rows, created_at) ==
    /\ rows \subseteq Nat
    /\ IsFiniteSet(rows)
    /\ \A i \in rows : created_at[i] \in Nat

(* ORDER BY is a total order of the rows.                                  *)
LEMMA BeforeIsTotalOrder ==
    ASSUME NEW rows, NEW created_at, Table(rows, created_at), NEW i \in rows, NEW j \in rows
    PROVE  /\ ~Before(created_at, i, i)
           /\ i # j => Before(created_at, i, j) \/ Before(created_at, j, i)
           /\ ~(Before(created_at, i, j) /\ Before(created_at, j, i))
           /\ \A k \in rows : Before(created_at, k, j) /\ Before(created_at, j, i) =>
                                  Before(created_at, k, i)
  BY DEF Table, Before

(* A row's rank is a number below that of the rows, and orders them.       *)
LEMMA RankOrders ==
    ASSUME NEW rows, NEW created_at, Table(rows, created_at), NEW i \in rows
    PROVE  /\ Cardinality(rows) \in Nat
           /\ Rank(rows, created_at, i) \in 0..Cardinality(rows) - 1
           /\ \A j \in rows : Rank(rows, created_at, j) < Rank(rows, created_at, i) <=>
                                  Before(created_at, j, i)
<1> DEFINE above(k) == {j \in rows : Before(created_at, j, k)}
<1>1. IsFiniteSet(rows) /\ Cardinality(rows) \in Nat
  BY FS_CardinalityType DEF Table
<1>2. ASSUME NEW k \in rows
      PROVE  /\ IsFiniteSet(above(k)) /\ Cardinality(above(k)) \in Nat
             /\ Cardinality(above(k)) < Cardinality(rows)
  <2>1. above(k) \in SUBSET rows /\ k \notin above(k)
    BY BeforeIsTotalOrder
  <2>2. above(k) # rows
    BY <2>1, <1>2, Zenon
  <2> HIDE DEF above
  <2>3. /\ IsFiniteSet(above(k)) /\ Cardinality(above(k)) <= Cardinality(rows)
        /\ Cardinality(rows) # Cardinality(above(k))
    BY <1>1, <2>1, <2>2, FS_Subset
  <2>4. Cardinality(above(k)) \in Nat
    BY <2>3, FS_CardinalityType
  <2> QED
    BY <1>1, <2>3, <2>4
<1>3. ASSUME NEW j \in rows, NEW k \in rows, Before(created_at, j, k)
      PROVE  Cardinality(above(j)) < Cardinality(above(k))
  <2>1. above(j) \in SUBSET above(k) /\ j \in above(k) /\ j \notin above(j)
    BY <1>3, BeforeIsTotalOrder
  <2>2. above(j) # above(k)
    BY <2>1, Zenon
  <2> HIDE DEF above
  <2>3. Cardinality(above(j)) <= Cardinality(above(k)) /\ Cardinality(above(k)) # Cardinality(above(j))
    BY <1>2, <2>1, <2>2, FS_Subset
  <2> QED
    BY <1>2, <2>3
<1>4. \A k : Rank(rows, created_at, k) = Cardinality(above(k))
  BY DEF Rank
<1> HIDE DEF above
<1>5. ASSUME NEW j \in rows, Cardinality(above(j)) < Cardinality(above(i))
      PROVE  Before(created_at, j, i)
  <2>1. CASE j = i
    BY <1>2, <1>5, <2>1
  <2>2. CASE Before(created_at, i, j)
    BY <1>2, <1>3, <1>5, <2>2
  <2> QED
    BY <2>1, <2>2, BeforeIsTotalOrder
<1> QED
  BY <1>1, <1>2, <1>3, <1>4, <1>5

(* A rank is a number.                                                     *)
LEMMA RankIsNatural ==
    ASSUME NEW rows, NEW created_at, Table(rows, created_at), NEW i \in rows
    PROVE  Rank(rows, created_at, i) \in Nat
<1>1. Cardinality(rows) \in Nat /\ Rank(rows, created_at, i) \in 0..Cardinality(rows) - 1
  BY RankOrders
<1> QED
  BY <1>1

(* There are n numbers below n.                                            *)
LEMMA NumbersBelow ==
    ASSUME NEW n \in Nat
    PROVE  IsFiniteSet(0..n - 1) /\ Cardinality(0..n - 1) = n
<1>1. 0 \in Int /\ n - 1 \in Int /\ (IF 0 > n - 1 THEN 0 ELSE n - 1 - 0 + 1) = n
  OBVIOUS
<1>2. /\ IsFiniteSet(0..n - 1)
      /\ Cardinality(0..n - 1) = IF 0 > n - 1 THEN 0 ELSE n - 1 - 0 + 1
  BY <1>1, FS_Interval, Zenon
<1> QED
  BY <1>1, <1>2

(* The ranks are all the numbers below that of the rows, each once.        *)
LEMMA RankBijects ==
    ASSUME NEW rows, NEW created_at, Table(rows, created_at)
    PROVE  /\ Cardinality(rows) \in Nat
           /\ \A i, j \in rows : Rank(rows, created_at, i) = Rank(rows, created_at, j) => i = j
           /\ \A n \in 0..Cardinality(rows) - 1 : \E i \in rows : Rank(rows, created_at, i) = n
<1> DEFINE N == Cardinality(rows)
           f == [i \in rows |-> Rank(rows, created_at, i)]
<1>1. IsFiniteSet(rows) /\ N \in Nat
  BY FS_CardinalityType DEF Table
<1>2. \A i \in rows : Rank(rows, created_at, i) \in 0..N - 1
  BY RankOrders
<1>3. ASSUME NEW i \in rows, NEW j \in rows,
             Rank(rows, created_at, i) = Rank(rows, created_at, j)
      PROVE  i = j
  <2>1. ~Before(created_at, i, j) /\ ~Before(created_at, j, i)
    BY <1>2, <1>3, RankOrders
  <2> QED
    BY <2>1, BeforeIsTotalOrder
<1>4. f \in Injection(rows, 0..N - 1)
  BY <1>2, <1>3 DEF Injection, IsInjective
<1> HIDE DEF N
<1>5. IsFiniteSet(0..N - 1) /\ Cardinality(0..N - 1) = N
  BY <1>1, NumbersBelow, Zenon
<1>6. f \in Surjection(rows, 0..N - 1)
  <2>1. \A S, T, g : g \in Injection(S, T) /\ IsFiniteSet(T) /\ Cardinality(S) = Cardinality(T)
                        => g \in Surjection(S, T)
    BY FS_Injection
  <2> HIDE DEF f
  <2> QED
    BY <1>4, <1>5, <2>1 DEF N
<1>7. \A n \in 0..N - 1 : \E i \in rows : Rank(rows, created_at, i) = n
  BY <1>6, Zenon DEF Surjection
<1> QED
  BY <1>1, <1>3, <1>7 DEF N

(* The offsets of two pages in a row are a page apart.                     *)
LEMMA OffsetNext ==
    ASSUME NEW p \in Nat \ {0}
    PROVE  Offset(p) \in Nat /\ Offset(p + 1) = Offset(p) + PageSize
<1>1. PageSize \in Nat
  BY PagesAssumption
<1>2. PICK q \in Nat : q = p - 1
  OBVIOUS
<1>3. Offset(p) = q * PageSize /\ Offset(p + 1) = (q + 1) * PageSize
  BY <1>2 DEF Offset
<1> QED
  BY <1>1, <1>3

(* pg holds the rows of the ranks from the offset of page p on, in their   *)
(* order, page_size of them unless the rows end there.                     *)
HoldsPage(pg, rows, created_at, p) ==
    /\ pg \in Seq(rows)
    /\ Len(pg) <= PageSize
    /\ \A n \in DOMAIN pg : Rank(rows, created_at, pg[n]) = Offset(p) + n - 1
    /\ \A i \in rows : Rank(rows, created_at, i) >= Offset(p) =>
           /\ pg # <<>>
           /\ \/ Rank(rows, created_at, i) >= Offset(p + 1)
              \/ \E n \in DOMAIN pg : pg[n] = i

(* A page is what its number says.                                         *)
LEMMA PageHolds ==
    ASSUME NEW rows, NEW created_at, Table(rows, created_at), NEW p \in Nat \ {0}
    PROVE  HoldsPage(Page(rows, created_at, p), rows, created_at, p)
<1> DEFINE R(i) == Rank(rows, created_at, i)
           N == Cardinality(rows)
           m == Offset(p)
           on == {i \in rows : R(i) >= m /\ R(i) < m + PageSize}
           hi == IF m + PageSize <= N THEN m + PageSize ELSE N
           size == IF hi >= m THEN hi - m ELSE 0
<1>1. PageSize \in Nat /\ PageSize > 0 /\ m \in Nat /\ Offset(p + 1) = m + PageSize
  BY OffsetNext, PagesAssumption
<1>2. /\ N \in Nat
      /\ \A i \in rows : R(i) \in 0..N - 1
      /\ \A i, j \in rows : R(i) = R(j) => i = j
      /\ \A n \in 0..N - 1 : \E i \in rows : R(i) = n
  BY RankBijects, RankOrders
<1>3. Page(rows, created_at, p) =
         [n \in 1..Cardinality(on) |-> CHOOSE i \in on : R(i) = m + n - 1]
  BY DEF Page, Limit
<1> HIDE DEF R, N, m
<1>4. Cardinality(on) = size /\ size \in Nat
  <2> DEFINE f == [n \in 1..size |-> CHOOSE i \in on : R(i) = m + n - 1]
  <2>1. size \in Nat
    BY <1>1, <1>2
  <2>2. \A n \in 1..size : m + n - 1 \in 0..N - 1 /\ m + n - 1 >= m /\ m + n - 1 < m + PageSize
    BY <1>1, <1>2
  <2>3. \A n \in 1..size : \E i \in on : R(i) = m + n - 1
    BY <1>2, <2>2
  <2>4. \A n \in 1..size : f[n] \in on /\ R(f[n]) = m + n - 1
    BY <2>3
  <2>5. \A i \in on : R(i) - m + 1 \in 1..size
    BY <1>1, <1>2
  <2> HIDE DEF size
  <2>6. f \in [1..size -> on]
    BY <2>4
  <2>7. \A n \in 1..size : n = R(f[n]) - m + 1
    BY <1>1, <2>1, <2>4
  <2>8. \A i \in on : \E n \in 1..size : f[n] = i
    <3> SUFFICES ASSUME NEW i \in on PROVE \E n \in 1..size : f[n] = i
      OBVIOUS
    <3> DEFINE n == R(i) - m + 1
    <3>1. n \in 1..size
      BY <2>5
    <3>2. R(f[n]) = m + n - 1 /\ f[n] \in on
      BY <2>4, <3>1
    <3>3. R(i) = m + n - 1
      BY <1>1, <1>2
    <3>4. f[n] = i
      BY <1>2, <3>2, <3>3
    <3> QED
      BY <3>1, <3>4
  <2> HIDE DEF f, on
  <2>9. f \in Bijection(1..size, on)
    BY <2>6, <2>7, <2>8 DEF Bijection, Injection, Surjection, IsInjective
  <2>10. ExistsBijection(1..size, on)
    BY <2>9 DEF ExistsBijection
  <2> QED
    BY <2>1, <2>10, FS_CountingElements
<1>5. \A n \in 1..size : \E i \in on : R(i) = m + n - 1
  <2>1. \A n \in 1..size : m + n - 1 \in 0..N - 1 /\ m + n - 1 >= m /\ m + n - 1 < m + PageSize
    BY <1>1, <1>2
  <2> QED
    BY <1>2, <2>1
<1> DEFINE pg == [n \in 1..size |-> CHOOSE i \in on : R(i) = m + n - 1]
<1>6. Page(rows, created_at, p) = pg
  BY <1>3, <1>4
<1>7. \A n \in 1..size : pg[n] \in on /\ R(pg[n]) = m + n - 1
  BY <1>5
<1>8. size <= PageSize
  BY <1>1, <1>2
<1>9. ASSUME NEW i \in rows, R(i) >= m
      PROVE  size > 0 /\ (R(i) >= m + PageSize \/ (i \in on /\ R(i) - m + 1 \in 1..size))
  BY <1>1, <1>2, <1>9
<1> HIDE DEF size
<1>10. pg \in Seq(rows) /\ Len(pg) = size /\ DOMAIN pg = 1..size
  BY <1>4, <1>7
<1>11. ASSUME NEW i \in rows, R(i) >= m
       PROVE  pg # <<>> /\ (R(i) >= m + PageSize \/ \E n \in DOMAIN pg : pg[n] = i)
  <2>1. pg # <<>>
    BY <1>4, <1>9, <1>10, <1>11
  <2>2. CASE R(i) >= m + PageSize
    BY <2>1, <2>2
  <2>3. CASE i \in on /\ R(i) - m + 1 \in 1..size
    <3> DEFINE n == R(i) - m + 1
    <3>1. R(pg[n]) = m + n - 1 /\ pg[n] \in rows
      BY <1>7, <2>3
    <3>2. R(i) = m + n - 1
      BY <1>1, <1>2
    <3>3. pg[n] = i
      BY <1>2, <3>1, <3>2
    <3> QED
      BY <1>10, <2>1, <2>3, <3>3
  <2> QED
    BY <1>9, <1>11, <2>2, <2>3
<1> HIDE DEF pg
<1> QED
  BY <1>1, <1>6, <1>7, <1>8, <1>10, <1>11 DEF R, m, HoldsPage

(* The rows of a page are in the order of the query.                       *)
LEMMA RowsInOrder ==
    ASSUME NEW rows, NEW created_at, Table(rows, created_at), NEW p \in Nat \ {0},
           NEW pg, HoldsPage(pg, rows, created_at, p)
    PROVE  \A m, n \in DOMAIN pg : m < n => Before(created_at, pg[m], pg[n])
<1>1. /\ pg \in Seq(rows)
      /\ \A n \in DOMAIN pg : Rank(rows, created_at, pg[n]) = Offset(p) + n - 1
  BY DEF HoldsPage
<1>2. Offset(p) \in Nat
  BY OffsetNext
<1> SUFFICES ASSUME NEW m \in DOMAIN pg, NEW n \in DOMAIN pg, m < n
             PROVE  Before(created_at, pg[m], pg[n])
  OBVIOUS
<1>3. pg[m] \in rows /\ pg[n] \in rows /\ m \in Nat /\ n \in Nat
  BY <1>1
<1>4. Rank(rows, created_at, pg[m]) < Rank(rows, created_at, pg[n])
  BY <1>1, <1>2, <1>3
<1> QED
  BY <1>3, <1>4, RankOrders

(* Rows that are added move no row to an earlier rank.                     *)
LEMMA RankGrows ==
    ASSUME NEW rows, NEW created_at, Table(rows, created_at),
           NEW rows2, NEW created_at2, Table(rows2, created_at2),
           rows \subseteq rows2, \A i \in rows : created_at2[i] = created_at[i],
           NEW i \in rows
    PROVE  Rank(rows2, created_at2, i) >= Rank(rows, created_at, i)
<1> DEFINE above == {j \in rows : Before(created_at, j, i)}
           above2 == {j \in rows2 : Before(created_at2, j, i)}
<1>1. above \in SUBSET above2
  BY DEF Before
<1>2. above2 \in SUBSET rows2 /\ above \in SUBSET rows /\ IsFiniteSet(rows) /\ IsFiniteSet(rows2)
  BY DEF Table
<1>3. Rank(rows2, created_at2, i) = Cardinality(above2) /\ Rank(rows, created_at, i) = Cardinality(above)
  BY DEF Rank
<1> HIDE DEF above, above2
<1>4. IsFiniteSet(above2) /\ IsFiniteSet(above)
  BY <1>2, FS_Subset
<1>5. Cardinality(above) <= Cardinality(above2)
  BY <1>1, <1>4, FS_Subset
<1>6. Cardinality(above) \in Nat /\ Cardinality(above2) \in Nat
  BY <1>4, FS_CardinalityType
<1> QED
  BY <1>3, <1>5, <1>6

(* A table that is a sequence of times.                                    *)
LEMMA TimesAreTable ==
    ASSUME NEW times \in Seq(Nat), NEW rows \in SUBSET DOMAIN times
    PROVE  Table(rows, times)
<1>1. Len(times) \in Nat /\ DOMAIN times = 1..Len(times)
  OBVIOUS
<1>2. IsFiniteSet(1..Len(times))
  BY <1>1, FS_Interval
<1>3. IsFiniteSet(rows)
  BY <1>1, <1>2, FS_Subset
<1> QED
  BY <1>1, <1>3 DEF Table

-----------------------------------------------------------------------------
(* The release history.                                                    *)

(* The answers and what was seen, one of each reader.                      *)
ReaderFunctions ==
    /\ answer \in [Readers -> Seq(DOMAIN releases)]
    /\ seen \in [Readers -> SUBSET DOMAIN releases]

(* The rows of an answer are in the order of the query.                    *)
AnswersOrdered ==
    \A r \in Readers : \A m, n \in DOMAIN answer[r] :
        m < n => Before(releases, answer[r][m], answer[r][n])

(* Releases that are all stamped are stamped in the order of their ids.    *)
StampsGrow ==
    /\ \A i \in DOMAIN releases : releases[i] <= now
    /\ stamped => \A i, j \in DOMAIN releases : i < j => releases[i] <= releases[j]

(* What a reader has not seen of the releases it began with is ahead of    *)
(* it: on the page it asks for next, or on a later one.                    *)
RestAhead ==
    \A r \in Readers :
        /\ next[r] = 1 => start[r] = 0
        /\ start[r] <= Len(releases)
        /\ \A i \in 1..start[r] :
              i \in seen[r] \/ (/\ next[r] # 0
                                /\ Rank(DOMAIN releases, releases, i) >= Offset(next[r]))

HistoryInv ==
    HistoryTypeOK /\ ReaderFunctions /\ AnswersOrdered /\ StampsGrow /\ RestAhead

(* Adding a release, stamped or not, keeps HistoryInv.                     *)
LEMMA AddKeeps ==
    ASSUME HistoryInv, NEW t \in 0..now, stamped => t = now,
           releases' = Append(releases, t),
           UNCHANGED <<stamped, now, next, start, answer, seen>>
    PROVE  HistoryInv'
<1> USE DEF HistoryInv
<1>1. /\ releases \in Seq(0..MaxTime) /\ MaxTime \in Nat /\ now \in 1..MaxTime
      /\ Len(releases) \in Nat /\ DOMAIN releases = 1..Len(releases)
  BY HistoryAssumption DEF HistoryTypeOK
<1>2. t \in 0..MaxTime
  BY <1>1
<1>3. /\ releases' \in Seq(0..MaxTime) /\ Len(releases') = Len(releases) + 1
      /\ DOMAIN releases' = 1..Len(releases) + 1
      /\ \A i \in DOMAIN releases : releases'[i] = releases[i]
      /\ releases'[Len(releases) + 1] = t
  BY <1>1, <1>2
<1>4. DOMAIN releases \subseteq DOMAIN releases'
  BY <1>1, <1>3
<1>5. ReaderFunctions'
  <2>1. Seq(DOMAIN releases) \subseteq Seq(DOMAIN releases')
    BY <1>4
  <2> QED
    BY <1>4, <2>1 DEF ReaderFunctions
<1>6. HistoryTypeOK'
  BY <1>3, <1>5 DEF HistoryTypeOK, ReaderFunctions
<1>7. AnswersOrdered'
  <2> SUFFICES ASSUME NEW r \in Readers, NEW m \in DOMAIN answer[r], NEW n \in DOMAIN answer[r],
                      m < n
               PROVE  Before(releases', answer[r][m], answer[r][n])
    BY DEF AnswersOrdered
  <2>1. answer[r] \in Seq(DOMAIN releases)
    BY DEF ReaderFunctions
  <2>2. answer[r][m] \in DOMAIN releases /\ answer[r][n] \in DOMAIN releases
    BY <2>1
  <2>3. Before(releases, answer[r][m], answer[r][n])
    BY DEF AnswersOrdered
  <2> QED
    BY <1>3, <2>2, <2>3, Zenon DEF Before
<1>8. StampsGrow'
  <2>1. \A i \in DOMAIN releases' : releases'[i] <= now'
    BY <1>1, <1>3 DEF StampsGrow
  <2>2. ASSUME stamped', NEW i \in DOMAIN releases', NEW j \in DOMAIN releases', i < j
        PROVE  releases'[i] <= releases'[j]
    <3>1. CASE j = Len(releases) + 1
      BY <1>3, <2>1, <2>2, <3>1
    <3>2. CASE j # Len(releases) + 1
      <4>1. i \in DOMAIN releases /\ j \in DOMAIN releases
        BY <1>1, <1>3, <2>2, <3>2, SMTT(30)
      <4> QED
        BY <1>3, <2>2, <4>1 DEF StampsGrow
    <3> QED
      BY <3>1, <3>2
  <2> QED
    BY <2>1, <2>2 DEF StampsGrow
<1>9. RestAhead'
  <2>1. releases \in Seq(Nat) /\ releases' \in Seq(Nat)
    BY <1>1, <1>3
  <2>2. /\ Table(DOMAIN releases, releases) /\ Table(DOMAIN releases', releases')
    BY <2>1, TimesAreTable, Zenon
  <2> SUFFICES ASSUME NEW r \in Readers
               PROVE  /\ next[r] = 1 => start[r] = 0
                      /\ start[r] <= Len(releases')
                      /\ \A i \in 1..start[r] :
                            i \in seen[r] \/ (/\ next[r] # 0
                                              /\ Rank(DOMAIN releases', releases', i) >= Offset(next[r]))
    BY DEF RestAhead
  <2>3. start[r] \in Nat /\ start[r] <= Len(releases) /\ (next[r] = 1 => start[r] = 0) /\ next[r] \in Nat
    BY DEF RestAhead, HistoryTypeOK
  <2>4. ASSUME NEW i \in 1..start[r], i \notin seen[r]
        PROVE  next[r] # 0 /\ Rank(DOMAIN releases', releases', i) >= Offset(next[r])
    <3>1. next[r] # 0 /\ Rank(DOMAIN releases, releases, i) >= Offset(next[r])
      BY <2>4 DEF RestAhead
    <3>2. i \in DOMAIN releases /\ i \in DOMAIN releases'
      BY <1>1, <1>4, <2>3, SMTT(30)
    <3>3. Rank(DOMAIN releases', releases', i) >= Rank(DOMAIN releases, releases, i)
      BY <1>3, <1>4, <2>2, <3>2, RankGrows, Zenon
    <3>4. Rank(DOMAIN releases', releases', i) \in Nat /\ Rank(DOMAIN releases, releases, i) \in Nat
      BY <2>2, <3>2, RankIsNatural
    <3>5. Offset(next[r]) \in Nat
      BY <2>3, <3>1, OffsetNext, Zenon
    <3> QED
      BY <3>1, <3>3, <3>4, <3>5
  <2> QED
    BY <1>1, <1>3, <2>3, <2>4
<1> QED
  BY <1>5, <1>6, <1>7, <1>8, <1>9

(* A reader's page keeps HistoryInv: what it holds is seen, what it does   *)
(* not hold is ahead, and when it is empty nothing is ahead.               *)
LEMMA ReadKeeps ==
    ASSUME HistoryInv, NEW r \in Readers, GetReleaseHistory(r)
    PROVE  HistoryInv'
<1> USE DEF HistoryInv
<1> DEFINE p == next[r]
           rows == getReleases(p)
           D == DOMAIN releases
<1>1. /\ p # 0
      /\ answer' = [answer EXCEPT ![r] = rows]
      /\ seen' = [seen EXCEPT ![r] = @ \cup {rows[n] : n \in DOMAIN rows}]
      /\ start' = [start EXCEPT ![r] = IF p = 1 THEN Len(releases) ELSE @]
      /\ next' = [next EXCEPT ![r] = IF rows = <<>> THEN 0 ELSE @ + 1]
      /\ UNCHANGED <<stamped, now, releases>>
  BY DEF GetReleaseHistory
<1>2. /\ releases \in Seq(0..MaxTime) /\ MaxTime \in Nat /\ releases \in Seq(Nat)
      /\ Len(releases) \in Nat /\ D = 1..Len(releases) /\ p \in Nat \ {0}
  BY <1>1, HistoryAssumption DEF HistoryTypeOK
<1>3. Table(D, releases)
  BY <1>2, TimesAreTable
<1>12. HoldsPage(rows, D, releases, p)
  BY <1>2, <1>3, PageHolds, Zenon DEF getReleases
<1> HIDE DEF rows
<1>4. /\ rows \in Seq(D) /\ Len(rows) <= PageSize
      /\ \A i \in D : Rank(D, releases, i) >= Offset(p) =>
             /\ rows # <<>>
             /\ Rank(D, releases, i) >= Offset(p + 1) \/ \E n \in DOMAIN rows : rows[n] = i
  BY <1>12 DEF HoldsPage
<1>5. \A m, n \in DOMAIN rows : m < n => Before(releases, rows[m], rows[n])
  BY <1>2, <1>3, <1>12, RowsInOrder, Zenon
<1>6. Offset(p) \in Nat
  BY <1>2, OffsetNext, Zenon
<1>7. \A i \in D : Rank(D, releases, i) \in Nat
  BY <1>3, RankIsNatural
<1>8. ReaderFunctions'
  <2>1. {rows[n] : n \in DOMAIN rows} \subseteq D
    BY <1>4
  <2> QED
    BY <1>1, <1>4, <2>1 DEF ReaderFunctions
<1>9. HistoryTypeOK'
  <2>1. next' \in [Readers -> Nat] /\ start' \in [Readers -> Nat]
    BY <1>1, <1>2 DEF HistoryTypeOK
  <2>2. \A s \in Readers : Len(answer'[s]) <= PageSize
    BY <1>1, <1>4 DEF HistoryTypeOK, ReaderFunctions
  <2> QED
    BY <1>1, <1>8, <2>1, <2>2 DEF HistoryTypeOK, ReaderFunctions
<1>10. AnswersOrdered'
  <2> SUFFICES ASSUME NEW s \in Readers
               PROVE  \A m, n \in DOMAIN answer'[s] :
                          m < n => Before(releases, answer'[s][m], answer'[s][n])
    BY <1>1 DEF AnswersOrdered
  <2>1. CASE s = r
    <3>1. answer'[s] = rows
      BY <1>1, <2>1 DEF ReaderFunctions
    <3> QED
      BY <1>5, <3>1
  <2>2. CASE s # r
    <3>1. answer'[s] = answer[s]
      BY <1>1, <2>2 DEF ReaderFunctions
    <3> QED
      BY <3>1 DEF AnswersOrdered
  <2> QED
    BY <2>1, <2>2
<1>11. RestAhead'
  <2> SUFFICES ASSUME NEW s \in Readers
               PROVE  /\ next'[s] = 1 => start'[s] = 0
                      /\ start'[s] <= Len(releases)
                      /\ \A i \in 1..start'[s] :
                            i \in seen'[s] \/ (/\ next'[s] # 0
                                               /\ Rank(D, releases, i) >= Offset(next'[s]))
    BY <1>1, SMTT(30) DEF RestAhead
  <2>1. CASE s # r
    <3>1. next'[s] = next[s] /\ start'[s] = start[s] /\ seen'[s] = seen[s]
      BY <1>1, <2>1, SMTT(30) DEF HistoryTypeOK, ReaderFunctions
    <3> QED
      BY <3>1 DEF RestAhead
  <2>2. CASE s = r
    <3>1. /\ next'[r] = IF rows = <<>> THEN 0 ELSE p + 1
          /\ start'[r] = IF p = 1 THEN Len(releases) ELSE start[r]
          /\ seen'[r] = seen[r] \cup {rows[n] : n \in DOMAIN rows}
      BY <1>1 DEF HistoryTypeOK, ReaderFunctions
    <3>2. next'[r] # 1 /\ start'[r] \in Nat /\ start'[r] <= Len(releases)
      BY <1>2, <3>1 DEF RestAhead, HistoryTypeOK
    <3>3. ASSUME NEW i \in 1..start'[r], i \notin seen'[r]
          PROVE  next'[r] # 0 /\ Rank(D, releases, i) >= Offset(next'[r])
      <4>1. i \in D /\ i \notin seen[r] /\ ~\E n \in DOMAIN rows : rows[n] = i
        BY <1>2, <3>1, <3>2, <3>3
      <4>2. Rank(D, releases, i) >= Offset(p)
        <5>1. CASE p = 1
          <6>1. Offset(p) = 0
            BY <5>1, PagesAssumption, SMTT(30) DEF Offset
          <6> QED
            BY <1>7, <4>1, <6>1
        <5>2. CASE p # 1
          BY <3>1, <3>3, <4>1, <5>2, SMTT(30) DEF RestAhead
        <5> QED
          BY <5>1, <5>2
      <4>3. rows # <<>> /\ Rank(D, releases, i) >= Offset(p + 1)
        BY <1>4, <4>1, <4>2, SMTT(30)
      <4>4. next'[r] = p + 1
        BY <3>1, <4>3, SMTT(30)
      <4> QED
        BY <1>2, <4>3, <4>4, SMTT(30)
    <3> QED
      BY <2>2, <3>2, <3>3
  <2> QED
    BY <2>1, <2>2, SMTT(30)
<1> QED
  BY <1>1, <1>8, <1>9, <1>10, <1>11 DEF StampsGrow

(* handleGetReleases keeps HistoryInv.                                     *)
LEMMA FirstPageKeeps ==
    ASSUME HistoryInv, NEW r \in Readers, handleGetReleases(r)
    PROVE  HistoryInv'
<1> USE DEF HistoryInv
<1> DEFINE rows == getReleases(1)
           D == DOMAIN releases
<1>1. /\ answer' = [answer EXCEPT ![r] = rows]
      /\ UNCHANGED <<stamped, now, releases, next, start, seen>>
  BY DEF handleGetReleases
<1>2. releases \in Seq(Nat)
  BY HistoryAssumption DEF HistoryTypeOK
<1>3. Table(D, releases) /\ 1 \in Nat \ {0}
  BY <1>2, TimesAreTable
<1>4. HoldsPage(rows, D, releases, 1)
  BY <1>3, PageHolds, Zenon DEF getReleases
<1> HIDE DEF rows
<1>5. \A m, n \in DOMAIN rows : m < n => Before(releases, rows[m], rows[n])
  BY <1>3, <1>4, RowsInOrder, Zenon
<1>6. rows \in Seq(D) /\ Len(rows) <= PageSize
  BY <1>4 DEF HoldsPage
<1>7. ReaderFunctions'
  BY <1>1, <1>6 DEF ReaderFunctions
<1>8. \A s \in Readers : answer'[s] = IF s = r THEN rows ELSE answer[s]
  BY <1>1 DEF ReaderFunctions
<1>9. HistoryTypeOK'
  BY <1>1, <1>6, <1>7, <1>8, SMTT(30) DEF HistoryTypeOK, ReaderFunctions
<1>10. AnswersOrdered'
  <2> SUFFICES ASSUME NEW s \in Readers
               PROVE  \A m, n \in DOMAIN answer'[s] :
                          m < n => Before(releases, answer'[s][m], answer'[s][n])
    BY <1>1 DEF AnswersOrdered
  <2> QED
    BY <1>5, <1>8 DEF AnswersOrdered
<1> QED
  BY <1>1, <1>7, <1>9, <1>10 DEF StampsGrow, RestAhead

(* The history begins with HistoryInv.                                     *)
LEMMA HistoryBegins ==
    ASSUME HistoryInit
    PROVE  HistoryInv
<1>1. 1 \in 1..MaxTime /\ PageSize \in Nat
  BY HistoryAssumption, PagesAssumption
<1>2. ReaderFunctions
  BY DEF HistoryInit, ReaderFunctions
<1>3. HistoryTypeOK
  BY <1>1, <1>2 DEF HistoryInit, HistoryTypeOK, ReaderFunctions
<1>4. AnswersOrdered /\ StampsGrow
  BY DEF HistoryInit, AnswersOrdered, StampsGrow
<1>5. RestAhead
  BY DEF HistoryInit, RestAhead
<1> QED
  BY <1>2, <1>3, <1>4, <1>5 DEF HistoryInv

(* Every step of the history keeps HistoryInv.                             *)
LEMMA HistoryStep ==
    ASSUME HistoryInv, [HistoryNext]_historyVars
    PROVE  HistoryInv'
<1>1. now \in Nat /\ MaxTime \in Nat /\ now \in 1..MaxTime
  BY HistoryAssumption DEF HistoryInv, HistoryTypeOK
<1>2. CASE tick
  <2>1. now' \in 1..MaxTime /\ now <= now' /\ UNCHANGED <<stamped, releases, next, start, answer, seen>>
    BY <1>1, <1>2, SMTT(30) DEF tick
  <2>2. \A i \in DOMAIN releases : releases[i] \in Nat /\ releases[i] <= now
    BY <1>1 DEF HistoryInv, HistoryTypeOK, StampsGrow
  <2>3. \A i \in DOMAIN releases : releases[i] <= now'
    BY <1>1, <2>1, <2>2
  <2>4. StampsGrow'
    BY <2>1, <2>3 DEF HistoryInv, StampsGrow
  <2> QED
    BY <2>1, <2>4 DEF HistoryInv, HistoryTypeOK, ReaderFunctions, AnswersOrdered, RestAhead
<1>3. CASE publishRelease
  <2>1. now \in 0..now
    BY <1>1
  <2> QED
    BY <1>3, <2>1, AddKeeps DEF publishRelease
<1>4. CASE createRelease
  <2>1. CreatedAt \in 0..now /\ (stamped => CreatedAt = now)
    BY <1>1, SMTT(30) DEF CreatedAt
  <2> QED
    BY <1>4, <2>1, AddKeeps DEF createRelease
<1>5. CASE UNCHANGED historyVars
  BY <1>5 DEF historyVars, HistoryInv, HistoryTypeOK, ReaderFunctions, AnswersOrdered,
              StampsGrow, RestAhead
<1> QED
  BY <1>2, <1>3, <1>4, <1>5, ReadKeeps, FirstPageKeeps DEF HistoryNext, HistoryDone

(* HistoryInv always holds.                                                *)
LEMMA HistoryAlwaysOrdered == HistorySpec => []HistoryInv
  BY HistoryBegins, HistoryStep, PTL DEF HistorySpec

(* The table and the pages that readers have got stay well-formed, for any *)
(* readers and page size: a page has at most PageSize rows, all of them in *)
(* the table.                                                              *)
THEOREM HistoryTypes == HistorySpec => []HistoryTypeOK
<1>1. HistoryInv => HistoryTypeOK
  BY DEF HistoryInv
<1> QED
  BY <1>1, HistoryAlwaysOrdered, PTL

(* NothingSkipped, for every page size, any number of readers and of       *)
(* releases: GetReleaseHistory, called until a page is empty, has given    *)
(* every release there was at the first call.                              *)
THEOREM NothingEverSkipped == HistorySpec => []NothingSkipped
<1>1. HistoryInv => NothingSkipped
  BY SMTT(30) DEF HistoryInv, RestAhead, NothingSkipped
<1> QED
  BY <1>1, HistoryAlwaysOrdered, PTL

(* NewestFirst, likewise: the answers of both handlers are in reverse      *)
(* chronological order in a store that stamps every release.               *)
THEOREM AlwaysNewestFirst == HistorySpec => []NewestFirst
<1>1. HistoryInv => NewestFirst
  <2> SUFFICES ASSUME HistoryInv, stamped, NEW r \in Readers,
                      NEW m \in DOMAIN answer[r], NEW n \in DOMAIN answer[r],
                      m < n, releases[answer[r][m]] # releases[answer[r][n]]
               PROVE  answer[r][m] > answer[r][n]
    BY DEF NewestFirst
  <2>1. answer[r] \in Seq(DOMAIN releases) /\ releases \in Seq(Nat)
    BY HistoryAssumption DEF HistoryInv, HistoryTypeOK, ReaderFunctions
  <2>2. PICK i \in DOMAIN releases : i = answer[r][m]
    BY <2>1
  <2>3. PICK j \in DOMAIN releases : j = answer[r][n]
    BY <2>1, SMTT(30)
  <2>4. Before(releases, i, j) /\ releases[i] # releases[j]
    BY <2>2, <2>3 DEF HistoryInv, AnswersOrdered
  <2>5. releases[i] > releases[j]
    BY <2>4 DEF Before
  <2>6. i < j => releases[i] <= releases[j]
    BY SMTT(30) DEF HistoryInv, StampsGrow
  <2> QED
    BY <2>1, <2>2, <2>3, <2>4, <2>5, <2>6, SMTT(30)
<1> QED
  BY <1>1, HistoryAlwaysOrdered, PTL

-----------------------------------------------------------------------------
(* The change history.                                                     *)

(* The rows that a query asks for, and the times of all rows.              *)
Asked == {i \in DOMAIN changes : Matches(query, changes[i])}

Times == [i \in DOMAIN changes |-> changes[i].created_at]

(* The WHERE clause selects the changes of the scope and the period.       *)
LEMMA WhereSelectsWanted ==
    ASSUME NEW q \in Queries, NEW row \in [entry : Logged, created_at : 1..MaxSeconds]
    PROVE  Matches(q, row) <=> Wanted(q, row)
<1> DEFINE n == row.entry[1]
           k == row.entry[2]
           t == row.created_at
           from == IF Given(q, "time_from") THEN q.time_from ELSE 1
           to == IF Given(q, "time_to") THEN q.time_to ELSE MaxSeconds
           names == IF Given(q, "namespace_id") THEN {q["namespace_id"]} ELSE {n}
           keys == IF Given(q, "key") THEN {q["key"]} ELSE {k}
<1>1. row.entry = <<n, k>> /\ t \in 1..MaxSeconds /\ MaxSeconds \in Nat
  BY ChangesAssumption
<1>2. from \in Nat /\ to \in Nat
  BY ChangesAssumption DEF Given
<1>3. t \in from..to <=> /\ (Given(q, "time_from") => t >= q.time_from)
                        /\ (Given(q, "time_to") => t <= q.time_to)
  BY <1>1, <1>2
<1>4. row.entry \in names \X keys <=> /\ (Given(q, "namespace_id") => n = q.namespace_id)
                                      /\ (Given(q, "key") => k = q.key)
  BY <1>1
<1>5. Wanted(q, row) <=> row.entry \in names \X keys /\ t \in from..to
  BY DEF Wanted
<1> QED
  BY <1>3, <1>4, <1>5 DEF Matches

(* What was asked for at page 1 and not got is ahead of the reader.        *)
ChangesAhead ==
    /\ page = 1 => had = {}
    /\ \A i \in had \cup got : Wanted(query, changes[i])
    /\ \A i \in had : i \in got \/ (page # 0 /\ Rank(Asked, Times, i) >= Offset(page))

ChangesInv == ChangesTypeOK /\ ChangesAhead

(* The rows of a query are a table.                                        *)
LEMMA AskedIsTable ==
    ASSUME ChangesTypeOK
    PROVE  /\ Table(Asked, Times)
           /\ \A i \in DOMAIN changes : i \in Asked <=> Wanted(query, changes[i])
<1> DEFINE Row == [entry : Logged, created_at : 1..MaxSeconds]
<1>1. changes \in Seq(Row) /\ MaxSeconds \in Nat /\ query \in Queries
  BY ChangesAssumption DEF ChangesTypeOK
<1>2. \A row \in Row : row.created_at \in Nat
  BY <1>1
<1> HIDE DEF Row
<1>3. \A i \in DOMAIN changes : changes[i] \in Row
  BY <1>1
<1>4. Times \in Seq(Nat) /\ DOMAIN Times = DOMAIN changes /\ Asked \subseteq DOMAIN changes
  <2>1. Len(changes) \in Nat /\ DOMAIN changes = 1..Len(changes)
    BY <1>1
  <2>2. \A i \in 1..Len(changes) : changes[i].created_at \in Nat
    BY <1>2, <1>3, <2>1
  <2> QED
    BY <2>1, <2>2 DEF Times, Asked
<1>5. \A i \in DOMAIN changes : i \in Asked <=> Wanted(query, changes[i])
  BY <1>1, <1>3, WhereSelectsWanted, Zenon DEF Asked, Row
<1> QED
  BY <1>4, <1>5, TimesAreTable

(* A logged change, of whatever second, keeps ChangesInv.                  *)
LEMMA LogKeeps ==
    ASSUME ChangesInv, NEW entry \in Logged, NEW created_at \in 1..MaxSeconds,
           logChange(entry, created_at)
    PROVE  ChangesInv'
<1> DEFINE row == [entry |-> entry, created_at |-> created_at]
<1>1. changes' = Append(changes, row) /\ UNCHANGED <<second, query, page, had, got>>
  BY DEF logChange
<1>2. row \in [entry : Logged, created_at : 1..MaxSeconds]
  OBVIOUS
<1>3. changes \in Seq([entry : Logged, created_at : 1..MaxSeconds])
  BY DEF ChangesInv, ChangesTypeOK
<1> HIDE DEF row
<1>4. /\ changes' \in Seq([entry : Logged, created_at : 1..MaxSeconds])
      /\ DOMAIN changes \subseteq DOMAIN changes'
      /\ \A i \in DOMAIN changes : changes'[i] = changes[i]
  BY <1>1, <1>2, <1>3
<1>5. ChangesTypeOK'
  BY <1>1, <1>4 DEF ChangesInv, ChangesTypeOK
<1>6. Table(Asked, Times) /\ \A i \in DOMAIN changes : i \in Asked <=> Wanted(query, changes[i])
  BY AskedIsTable DEF ChangesInv
<1>7. Table(Asked', Times')
  <2>1. ChangesTypeOK => Table(Asked, Times)
    BY AskedIsTable
  <2>2. (ChangesTypeOK => Table(Asked, Times))'
    BY AskedIsTable, PTL
  <2> QED
    BY <1>5, <2>2
<1>8. Asked \subseteq Asked' /\ \A i \in Asked : Times'[i] = Times[i]
  BY <1>1, <1>4 DEF Asked, Times
<1>9. ASSUME NEW i \in had, i \notin got
      PROVE  page # 0 /\ Rank(Asked', Times', i) >= Offset(page)
  <2>1. /\ page # 0 /\ Rank(Asked, Times, i) >= Offset(page) /\ i \in DOMAIN changes
        /\ Wanted(query, changes[i]) /\ page \in Nat
    BY <1>9, SMTT(30) DEF ChangesInv, ChangesAhead, ChangesTypeOK
  <2>2. i \in Asked /\ i \in Asked'
    BY <1>6, <1>8, <2>1, SMTT(30)
  <2>3. Rank(Asked', Times', i) >= Rank(Asked, Times, i)
    BY <1>6, <1>7, <1>8, <2>2, RankGrows
  <2>4. Rank(Asked', Times', i) \in Nat /\ Rank(Asked, Times, i) \in Nat
    BY <1>6, <1>7, <2>2, RankIsNatural
  <2>5. Offset(page) \in Nat
    BY <2>1, OffsetNext
  <2> QED
    BY <2>1, <2>3, <2>4, <2>5
<1>10. \A i \in had \cup got : Wanted(query', changes'[i])
  <2>1. \A i \in had \cup got : i \in DOMAIN changes /\ Wanted(query, changes[i])
    BY DEF ChangesInv, ChangesAhead, ChangesTypeOK
  <2> QED
    BY <1>1, <1>4, <2>1, Zenon
<1> QED
  BY <1>1, <1>5, <1>9, <1>10, Zenon DEF ChangesInv, ChangesAhead

(* A page of the change log keeps ChangesInv.                              *)
LEMMA ReadPageKeeps ==
    ASSUME ChangesInv, readPage
    PROVE  ChangesInv'
<1> DEFINE rows == getChangeHistory(query, page)
<1>1. /\ page # 0
      /\ had' = IF page = 1 THEN {i \in DOMAIN changes : Wanted(query, changes[i])} ELSE had
      /\ got' = got \cup {rows[n] : n \in DOMAIN rows}
      /\ page' = IF rows = <<>> THEN 0 ELSE page + 1
      /\ UNCHANGED <<second, changes, query>>
  BY SMTT(30) DEF readPage
<1>2. page \in Nat \ {0} /\ had \subseteq DOMAIN changes /\ got \subseteq DOMAIN changes
  BY <1>1 DEF ChangesInv, ChangesTypeOK
<1>3. Table(Asked, Times) /\ \A i \in DOMAIN changes : i \in Asked <=> Wanted(query, changes[i])
  BY AskedIsTable DEF ChangesInv
<1>4. rows = Page(Asked, Times, page)
  BY DEF getChangeHistory, Asked, Times
<1>5. HoldsPage(rows, Asked, Times, page)
  BY <1>2, <1>3, <1>4, PageHolds, SMTT(30)
<1> HIDE DEF rows
<1>6. /\ rows \in Seq(Asked)
      /\ \A i \in Asked : Rank(Asked, Times, i) >= Offset(page) =>
             /\ rows # <<>>
             /\ Rank(Asked, Times, i) >= Offset(page + 1) \/ \E n \in DOMAIN rows : rows[n] = i
  BY <1>5 DEF HoldsPage
<1>7. Asked \subseteq DOMAIN changes /\ {rows[n] : n \in DOMAIN rows} \subseteq Asked
  BY <1>6 DEF Asked
<1>8. Asked' = Asked /\ Times' = Times
  BY <1>1 DEF Asked, Times
<1>9. page' \in Nat /\ page' # 1
  BY <1>1, <1>2
<1>10. had' \subseteq DOMAIN changes /\ got' \subseteq DOMAIN changes
  BY <1>1, <1>2, <1>7
<1>11. ChangesTypeOK'
  BY <1>1, <1>9, <1>10 DEF ChangesInv, ChangesTypeOK
<1>12. \A i \in had' \cup got' : Wanted(query, changes[i])
  <2>1. \A i \in had' : Wanted(query, changes[i])
    BY <1>1, SMTT(30) DEF ChangesInv, ChangesAhead
  <2>2. \A i \in got' : Wanted(query, changes[i])
    BY <1>1, <1>3, <1>7 DEF ChangesInv, ChangesAhead
  <2> QED
    BY <2>1, <2>2
<1>13. ASSUME NEW i \in had', i \notin got'
       PROVE  page' # 0 /\ Rank(Asked, Times, i) >= Offset(page')
  <2>1. i \in Asked /\ i \notin got /\ ~\E n \in DOMAIN rows : rows[n] = i
    BY <1>1, <1>3, <1>10, <1>12, <1>13
  <2>2. Rank(Asked, Times, i) >= Offset(page)
    <3>1. CASE page = 1
      <4>1. Offset(page) = 0
        BY <3>1, PagesAssumption, SMTT(30) DEF Offset
      <4>2. Rank(Asked, Times, i) \in Nat
        BY <1>3, <2>1, RankIsNatural
      <4> QED
        BY <4>1, <4>2
    <3>2. CASE page # 1
      BY <1>1, <1>13, <2>1, <3>2 DEF ChangesInv, ChangesAhead
    <3> QED
      BY <3>1, <3>2
  <2>3. rows # <<>> /\ Rank(Asked, Times, i) >= Offset(page + 1)
    BY <1>6, <2>1, <2>2
  <2>4. page' = page + 1
    BY <1>1, <2>3
  <2> QED
    BY <1>2, <2>3, <2>4
<1> QED
  BY <1>1, <1>8, <1>9, <1>11, <1>12, <1>13, SMTT(30) DEF ChangesInv, ChangesAhead

(* The log begins with ChangesInv.                                         *)
LEMMA ChangesBegin ==
    ASSUME ChangesInit
    PROVE  ChangesInv
<1>1. 1 \in 1..MaxSeconds
  BY ChangesAssumption
<1>2. ChangesTypeOK
  BY <1>1 DEF ChangesInit, ChangesTypeOK
<1>3. ChangesAhead
  BY DEF ChangesInit, ChangesAhead
<1> QED
  BY <1>2, <1>3 DEF ChangesInv

(* Every step of the log and its reader keeps ChangesInv.                  *)
LEMMA ChangesStep ==
    ASSUME ChangesInv, [ChangesNext]_changesVars
    PROVE  ChangesInv'
<1>1. CASE passSecond
  <2>1. second' \in 1..MaxSeconds /\ UNCHANGED <<changes, query, page, had, got>>
    BY <1>1, ChangesAssumption, SMTT(30) DEF passSecond, ChangesInv, ChangesTypeOK
  <2> QED
    BY <2>1 DEF ChangesInv, ChangesTypeOK, ChangesAhead, Asked, Times
<1>2. CASE UNCHANGED changesVars
  BY <1>2 DEF changesVars, ChangesInv, ChangesTypeOK, ChangesAhead, Asked, Times
<1> QED
  BY <1>1, <1>2, LogKeeps, ReadPageKeeps, SMTT(30) DEF ChangesNext, ChangesDone

(* The log stays well-formed, and what a reader has got is in it, for all  *)
(* queries.                                                                *)
THEOREM ChangesTypes == ChangesSpec => []ChangesTypeOK
<1>1. ChangesInv => ChangesTypeOK
  BY DEF ChangesInv
<1> QED
  BY <1>1, ChangesBegin, ChangesStep, PTL DEF ChangesSpec

(* ChangesFound, for every page size, all queries and any number of rows,  *)
(* of any seconds: getChangeHistory, called until a page is empty, has     *)
(* given the changes there were at the first call, and no others.          *)
THEOREM ChangesAlwaysFound == ChangesSpec => []ChangesFound
<1>1. ChangesInv => ChangesFound
  BY DEF ChangesInv, ChangesAhead, ChangesFound
<1> QED
  BY <1>1, ChangesBegin, ChangesStep, PTL DEF ChangesSpec
=============================================================================
