--------------------------- MODULE PublishEngine ---------------------------
(***************************************************************************)
(* PublishEngine over the SQLite store: publications, grayscale            *)
(* publications, full rollouts and approvals, beside writers of keys.      *)
(*                                                                         *)
(* All threads share one database connection.  A method of the store holds *)
(* mutex_ throughout, but beginTransaction and rollbackTransaction do not  *)
(* take it, and publishGrayscale calls them from outside: while its        *)
(* transaction is open, whatever any thread writes is part of it.          *)
(*                                                                         *)
(* A namespace has one key, of which only the version number is kept.      *)
(***************************************************************************)
EXTENDS Naturals, Sequences, FiniteSets

CONSTANTS Namespaces, Threads, NoThread,
          MaxVersion,      \* bound: writes to the key of a namespace
          MaxReleases,     \* bound: rows of releases
          MaxApprovals,    \* bound: rows of approvals
          MaxGrayscales,   \* bound: calls of publishGrayscale
          MaxFailures      \* bound: publications that fail, and crashes

ASSUME PublishAssumption == /\ Namespaces # {}
                            /\ IsFiniteSet(Threads) /\ NoThread \notin Threads
                            /\ {MaxVersion, MaxReleases, MaxApprovals} \subseteq Nat
                            /\ {MaxGrayscales, MaxFailures} \subseteq Nat

VARIABLES db,         \* the tables as the connection sees them
          saved,      \* the tables as of BEGIN of the open transaction
          open,       \* a transaction is open on the connection
          mutex_,     \* the thread that holds it
          pc, arg,    \* where each thread is; its namespace and release id
          grayscales, \* number of calls of publishGrayscale so far
          failures,   \* number of publications that failed and of crashes so far
          acked,      \* history: what callers were told is done, while no
                      \* grayscale transaction was open
          cutOff      \* history: number of rollouts that a crash ended half-way

vars == <<db, saved, open, mutex_, pc, arg, grayscales, failures, acked, cutOff>>

Release == [namespace_id : Namespaces, release_version : Nat,
            status : {"active", "retired"}, rollout : BOOLEAN]

Approval == [namespace_id : Namespaces, status : {"pending", "approved", "rejected"}]

(* The ids of releases and approvals are their places in the sequence: the *)
(* tables only grow, and a rollback also takes back the ids it handed out. *)
Tables == [configs : [Namespaces -> Nat],
           config_versions : [Namespaces -> SUBSET Nat],
           releases : Seq(Release),
           approvals : Seq(Approval)]

Labels == {"idle", "insertVersion", "publish", "grayscale", "rollback", "retire", "create"}

Arg == [ns : Namespaces, id : Nat]

NoArg == [ns |-> CHOOSE ns \in Namespaces : TRUE, id |-> 0]

(* What a caller may rely on: the version of a write, the ids of a release *)
(* and of an approval.                                                     *)
Facts(tables) ==
    (UNION {{<<"version", ns, v>> : v \in tables.config_versions[ns]} : ns \in Namespaces})
    \cup {<<"release", tables.releases[i].namespace_id, i>> : i \in DOMAIN tables.releases}
    \cup {<<"approval", tables.approvals[i].namespace_id, i>> : i \in DOMAIN tables.approvals}

TypeOK ==
    /\ db \in Tables
    /\ saved \in Tables
    /\ open \in BOOLEAN
    /\ mutex_ \in Threads \cup {NoThread}
    /\ pc \in [Threads -> Labels]
    /\ arg \in [Threads -> Arg]
    /\ grayscales \in Nat
    /\ {failures, cutOff} \subseteq Nat
    /\ acked \subseteq {"version", "release", "approval"} \X Namespaces \X Nat

NoTables == [configs |-> [ns \in Namespaces |-> 0],
             config_versions |-> [ns \in Namespaces |-> {}],
             releases |-> <<>>, approvals |-> <<>>]

Init ==
    /\ db = NoTables
    /\ saved = NoTables
    /\ open = FALSE
    /\ mutex_ = NoThread
    /\ pc = [t \in Threads |-> "idle"]
    /\ arg = [t \in Threads |-> NoArg]
    /\ grayscales = 0
    /\ failures = 0
    /\ cutOff = 0
    /\ acked = {}

-----------------------------------------------------------------------------
Goto(t, label, a) ==
    /\ pc' = [pc EXCEPT ![t] = label]
    /\ arg' = [arg EXCEPT ![t] = a]

Return(t) == Goto(t, "idle", NoArg)

(* std::lock_guard around a single statement.                              *)
Locked == mutex_ = NoThread /\ UNCHANGED mutex_

Lock(t) == mutex_ = NoThread /\ mutex_' = t

Unlock(t) == mutex_ = t /\ mutex_' = NoThread

begin_transaction ==
    /\ ~open
    /\ open' = TRUE
    /\ saved' = db

commit ==
    /\ open' = FALSE
    /\ saved' = NoTables

rollback ==
    /\ db' = saved
    /\ open' = FALSE
    /\ saved' = NoTables

InGrayscale(t) == pc[t] \in {"grayscale", "rollback"}

Acknowledge(fact) ==
    acked' = IF \E t \in Threads : InGrayscale(t) THEN acked ELSE acked \cup {fact}

-----------------------------------------------------------------------------
(* A write to the key (createConfig, updateConfig): the row, the version.  *)
updateConfig(t, ns) ==
    /\ pc[t] = "idle"
    /\ Lock(t)
    /\ db.configs[ns] < MaxVersion
    /\ db' = [db EXCEPT !.configs[ns] = @ + 1]
    /\ Goto(t, "insertVersion", [ns |-> ns, id |-> db.configs[ns] + 1])
    /\ UNCHANGED <<saved, open, grayscales, failures, acked, cutOff>>

insertVersion(t) ==
    /\ pc[t] = "insertVersion"
    /\ Unlock(t)
    /\ db' = [db EXCEPT !.config_versions[arg[t].ns] = @ \cup {arg[t].id}]
    /\ Acknowledge(<<"version", arg[t].ns, arg[t].id>>)
    /\ Return(t)
    /\ UNCHANGED <<saved, open, grayscales, failures, cutOff>>

(* publish is publishRelease of the store.  BEGIN throws in an open        *)
(* transaction; it comes before the try block, so nothing is rolled back,  *)
(* and the lock_guard lets go of mutex_.                                   *)
publish(t, ns) ==
    /\ pc[t] = "idle"
    /\ Lock(t)
    /\ Len(db.releases) < MaxReleases
    /\ begin_transaction
    /\ Goto(t, "publish", [ns |-> ns, id |-> 0])
    /\ UNCHANGED <<db, grayscales, failures, acked, cutOff>>

(* The highest release_version of a namespace, 0 if it has no release.     *)
LatestVersion(ns) ==                                          \* mistaken
    LET ids == {i \in DOMAIN db.releases : db.releases[i].namespace_id = ns}
    IN  IF ids = {} THEN 0
        ELSE db.releases[CHOOSE i \in ids : \A j \in ids : j <= i].release_version

maxVersion(ns) ==
    LET versions == {db.releases[i].release_version :
                        i \in {j \in DOMAIN db.releases : db.releases[j].namespace_id = ns}}
    IN  IF versions = {} THEN 0
        ELSE CHOOSE v \in versions : \A w \in versions : w <= v

NewRelease(ns, version, rollout) ==
    [namespace_id |-> ns, release_version |-> version, status |-> "active",
     rollout |-> rollout]

publishBody(t) ==
    LET ns == arg[t].ns
    IN  /\ pc[t] = "publish"
        /\ Unlock(t)
        /\ db' = [db EXCEPT !.releases = Append(@, NewRelease(ns, maxVersion(ns) + 1, FALSE))]
        /\ commit
        /\ Acknowledge(<<"release", ns, Len(db.releases) + 1>>)
        /\ Return(t)
        /\ UNCHANGED <<grayscales, failures, cutOff>>

(* A statement of it throws: rollback, and false.                          *)
RollbackUnlocked(t) ==                                        \* mistaken
    /\ pc[t] = "publish"
    /\ \/ /\ failures < MaxFailures
          /\ failures' = failures + 1
          /\ Unlock(t)
          /\ UNCHANGED <<db, saved, open, pc, arg>>
       \/ /\ mutex_ # t
          /\ rollback
          /\ Return(t)
          /\ UNCHANGED <<mutex_, failures>>
    /\ UNCHANGED <<grayscales, acked, cutOff>>

publishFails(t) ==
    /\ pc[t] = "publish"
    /\ failures < MaxFailures
    /\ failures' = failures + 1
    /\ Unlock(t)
    /\ rollback
    /\ Return(t)
    /\ UNCHANGED <<grayscales, acked, cutOff>>

(* The process ends and starts again: SQLite rolls the open transaction    *)
(* back, and every call is gone.                                           *)
crash ==
    /\ failures < MaxFailures
    /\ failures' = failures + 1
    /\ IF open THEN rollback ELSE UNCHANGED <<db, saved, open>>
    /\ mutex_' = NoThread
    /\ pc' = [t \in Threads |-> "idle"]
    /\ arg' = [t \in Threads |-> NoArg]
    /\ cutOff' = cutOff + Cardinality({t \in Threads : pc[t] = "create"})
    /\ UNCHANGED <<grayscales, acked>>

-----------------------------------------------------------------------------
(* publishGrayscale: its own BEGIN, without mutex_; that of publishRelease *)
(* then throws, as the transaction is open (OneOwner), and the handler     *)
(* rolls back and returns false.  When its own BEGIN throws, the exception *)
(* leaves the method, and nothing has changed.                             *)
publishGrayscale(t, ns) ==
    /\ pc[t] = "idle"
    /\ grayscales < MaxGrayscales
    /\ grayscales' = grayscales + 1
    /\ begin_transaction
    /\ Goto(t, "grayscale", [ns |-> ns, id |-> 0])
    /\ UNCHANGED <<db, mutex_, failures, acked, cutOff>>

NoNestedError(t) ==                                           \* mistaken
    /\ pc[t] = "grayscale"
    /\ Locked
    /\ Return(t)
    /\ UNCHANGED <<db, saved, open, grayscales, failures, acked, cutOff>>

nestedPublish(t) ==
    /\ pc[t] = "grayscale"
    /\ Locked
    /\ open
    /\ Goto(t, "rollback", arg[t])
    /\ UNCHANGED <<db, saved, open, grayscales, failures, acked, cutOff>>

grayscaleRollback(t) ==
    /\ pc[t] = "rollback"
    /\ rollback
    /\ Return(t)
    /\ UNCHANGED <<mutex_, grayscales, failures, acked, cutOff>>

-----------------------------------------------------------------------------
(* fullRollout: getRelease, retireRelease and createRelease, which each    *)
(* take mutex_.  The new release is of the namespace the caller names,     *)
(* which need not be that of the old one; its release_version is 0.        *)
getRelease(id) == id \in DOMAIN db.releases

Active(i) == db.releases[i].status = "active"

fullRollout(t, ns, id) ==
    /\ pc[t] = "idle"
    /\ Locked
    /\ Len(db.releases) < MaxReleases
    /\ getRelease(id)
    /\ Active(id)
    /\ Goto(t, "retire", [ns |-> ns, id |-> id])
    /\ UNCHANGED <<db, saved, open, grayscales, failures, acked, cutOff>>

retireRelease(t) ==
    /\ pc[t] = "retire"
    /\ Locked
    /\ db' = [db EXCEPT !.releases = [i \in DOMAIN @ |->
                  IF i = arg[t].id THEN [@[i] EXCEPT !.status = "retired"] ELSE @[i]]]
    /\ Goto(t, "create", arg[t])
    /\ UNCHANGED <<saved, open, grayscales, failures, acked, cutOff>>

RetiredRollout(t) ==                                          \* mistaken
    /\ pc[t] = "create"
    /\ Locked
    /\ db' = [db EXCEPT !.releases =
                  Append(@, [NewRelease(arg[t].ns, 0, TRUE) EXCEPT !.status = "retired"])]
    /\ Acknowledge(<<"release", arg[t].ns, Len(db.releases) + 1>>)
    /\ Return(t)
    /\ UNCHANGED <<saved, open, grayscales, failures, cutOff>>

createRelease(t) ==
    /\ pc[t] = "create"
    /\ Locked
    /\ db' = [db EXCEPT !.releases = Append(@, NewRelease(arg[t].ns, 0, TRUE))]
    /\ Acknowledge(<<"release", arg[t].ns, Len(db.releases) + 1>>)
    /\ Return(t)
    /\ UNCHANGED <<saved, open, grayscales, failures, cutOff>>

(* submitForApproval, approve and reject: one statement each; a decision   *)
(* does not look at the status, and may be taken again.                    *)
createApproval(approval) ==
    /\ Locked
    /\ db' = [db EXCEPT !.approvals = Append(@, approval)]
    /\ Acknowledge(<<"approval", approval.namespace_id, Len(db.approvals) + 1>>)

submitForApproval(t, ns) ==
    /\ pc[t] = "idle"
    /\ Len(db.approvals) < MaxApprovals
    /\ createApproval([namespace_id |-> ns, status |-> "pending"])
    /\ UNCHANGED <<saved, open, pc, arg, grayscales, failures, cutOff>>

ForgetsStatus(t, id, status) ==                               \* mistaken
    /\ pc[t] = "idle"
    /\ Locked
    /\ id \in DOMAIN db.approvals
    /\ db' = [db EXCEPT !.approvals[id].status = ""]
    /\ UNCHANGED <<saved, open, pc, arg, grayscales, failures, acked, cutOff>>

updateApprovalStatus(t, id, status) ==
    /\ pc[t] = "idle"
    /\ Locked
    /\ id \in DOMAIN db.approvals
    /\ db' = [db EXCEPT !.approvals[id].status = status]
    /\ UNCHANGED <<saved, open, pc, arg, grayscales, failures, acked, cutOff>>

approve(t, id) == updateApprovalStatus(t, id, "approved")

reject(t, id) == updateApprovalStatus(t, id, "rejected")

-----------------------------------------------------------------------------
Request(t) ==
    \/ \E ns \in Namespaces :
        updateConfig(t, ns) \/ publish(t, ns) \/ publishGrayscale(t, ns)
            \/ submitForApproval(t, ns)
    \/ \E ns \in Namespaces, id \in 1..MaxReleases : fullRollout(t, ns, id)
    \/ \E id \in 1..MaxApprovals : approve(t, id) \/ reject(t, id)

Step(t) ==
    \/ insertVersion(t)
    \/ publishBody(t)
    \/ nestedPublish(t) \/ grayscaleRollback(t)
    \/ retireRelease(t) \/ createRelease(t)

Quiet == (\A t \in Threads : pc[t] = "idle") /\ UNCHANGED vars

Next == (\E t \in Threads : Request(t) \/ Step(t) \/ publishFails(t)) \/ crash \/ Quiet

Spec == Init /\ [][Next]_vars

-----------------------------------------------------------------------------
(* A transaction is open exactly while one thread is between its BEGIN and *)
(* its commit or rollback: though publishRelease and publishGrayscale      *)
(* share the connection, and one of them does not take mutex_, no thread   *)
(* ends the transaction of another.                                        *)
Owners == {t \in Threads : pc[t] \in {"publish", "grayscale", "rollback"}}

OneOwner ==
    /\ open <=> Owners # {}
    /\ \A t, u \in Owners : t = u

(* The releases that publish made of a namespace are numbered 1, 2, 3...   *)
(* in the order of their ids, though rollouts add releases numbered 0 in   *)
(* between and rolled back publications took numbers.                      *)
PublishNumbers ==
    \A i \in DOMAIN db.releases : ~db.releases[i].rollout =>
        db.releases[i].release_version =
            Cardinality({j \in 1..i : /\ ~db.releases[j].rollout
                                      /\ db.releases[j].namespace_id = db.releases[i].namespace_id})

(* What a caller was told is done stays done, through crashes: a write has *)
(* its version in the history, a release and an approval are found under   *)
(* their ids.  Two kinds of rollback happen around them: that of           *)
(* publishRelease, under the mutex_ taken before its BEGIN, and that of    *)
(* publishGrayscale, without it, which takes back what others are told     *)
(* while its transaction is open, and nothing else.                        *)
AcknowledgedKept == acked \subseteq Facts(db)

(* No release is retired without a successor: for each there is a release  *)
(* that a rollout created, or a rollout about to create it, though         *)
(* fullRollout retires and creates in separate critical sections and two   *)
(* rollouts may retire the same release.  A crash leaves at most those it  *)
(* cut off without one.  A grayscale transaction breaks it: its rollback   *)
(* may take the new release and not the retirement.                        *)
RetiredHasSuccessor ==
    grayscales = 0 =>
        Cardinality({i \in DOMAIN db.releases : ~Active(i)})
            <= Cardinality({i \in DOMAIN db.releases : db.releases[i].rollout})
               + Cardinality({t \in Threads : pc[t] = "create"}) + cutOff
=============================================================================
