------------------------- MODULE MysqlConfigStore -------------------------
(***************************************************************************)
(* MysqlConfigStore: the same operations as SqliteConfigStore, without a   *)
(* mutex.  Every method holds a connection of the pool from its first to   *)
(* its last statement; statements of different connections interleave.     *)
(* The results of execute are ignored, so a method goes on after a         *)
(* statement that failed.  Only publishRelease uses a transaction.         *)
(*                                                                         *)
(* MySQL is modelled by what the code expects of it: a statement is        *)
(* atomic; the UPDATE of publishRelease locks the rows of the namespace,   *)
(* and the gap for new ones, until the commit, and two of them exclude one *)
(* another when there are rows to lock; readers do not see what is not     *)
(* committed.                                                              *)
(***************************************************************************)
EXTENDS ConfigTables, FiniteSets

CONSTANTS Threads,
          PoolSize,        \* connections of the pool
          MaxLog,          \* bound: change log entries of a key before a new request
          MaxReleases,     \* bound: releases of a namespace
          MaxFaults        \* bound: failed statements

ASSUME MysqlAssumption == /\ PoolSize \in Nat \ {0}
                          /\ MaxLog \in Nat
                          /\ MaxReleases \in Nat
                          /\ MaxFaults \in Nat

VARIABLES configs, config_versions, change_logs, releases,   \* the tables
          pc, local,       \* where each thread is; its arguments and local variables
          faults,          \* number of failed statements so far
          released,        \* history: the rows of each namespace as of its last commit
          abreast          \* history: the namespaces of which two publications were
                           \* open at once, as there was no row to lock

vars == <<configs, config_versions, change_logs, releases, pc, local, faults, released,
          abreast>>

(* The labels at which a thread holds a connection.                        *)
Connected == {"insertRow", "updateRow", "deleteRow", "insertVersion", "insertLog",
              "lockRows", "readMax", "insertRelease"}

Local == [entry : Entries, value : Values \cup {NoValue}, row : ConfigKey,
          cv : ConfigVersion, cl : ChangeLog, updated : BOOLEAN, nextVersion : Nat]

Call(e, value) ==
    [entry |-> e, value |-> value, row |-> NoRow, cv |-> NoVersion, cl |-> NoLog,
     updated |-> FALSE, nextVersion |-> 0]

NoCall == Call(CHOOSE e \in Entries : TRUE, NoValue)

TypeOK ==
    /\ configs \in [Entries -> ConfigKey]
    /\ config_versions \in [ConfigIds -> Seq(ConfigVersion)]
    /\ change_logs \in [Entries -> Seq(ChangeLog)]
    /\ releases \in [Namespaces -> Seq(Nat)]
    /\ pc \in [Threads -> {"idle", "create", "update"} \cup Connected]
    /\ local \in [Threads -> Local]
    /\ faults \in Nat
    /\ released \in [Entries -> ConfigKey]
    /\ abreast \subseteq Namespaces

(* autoMigrate on an empty database.                                       *)
Init ==
    /\ configs = [e \in Entries |-> NoRow]
    /\ config_versions = [id \in ConfigIds |-> <<>>]
    /\ change_logs = [e \in Entries |-> <<>>]
    /\ releases = [ns \in Namespaces |-> <<>>]
    /\ pc = [t \in Threads |-> "idle"]
    /\ local = [t \in Threads |-> NoCall]
    /\ faults = 0
    /\ released = [e \in Entries |-> NoRow]
    /\ abreast = {}

-----------------------------------------------------------------------------
HasConnection(t) == pc[t] \in Connected

acquire == Cardinality({t \in Threads : HasConnection(t)}) < PoolSize

Goto(t, label, call) ==
    /\ pc' = [pc EXCEPT ![t] = label]
    /\ local' = [local EXCEPT ![t] = call]

(* pool_->release(conn) and return.                                        *)
Return(t) == Goto(t, "idle", NoCall)

(* The threads between the UPDATE and the commit of publishRelease.        *)
Publishing(ns) == {t \in Threads : /\ pc[t] \in {"readMax", "insertRelease"}
                                   /\ local[t].updated
                                   /\ local[t].entry[1] = ns}

(* No transaction holds the row of an entry, or the gap for it.            *)
Writable(e) == Publishing(e[1]) = {}

getConfig(e, includeDraft) == VisibleRow(configs[e], includeDraft)

getConfigVersion(e, version) ==
    {cv \in {config_versions[IdOf(e)][i] : i \in DOMAIN config_versions[IdOf(e)]} :
        cv.version = version}

-----------------------------------------------------------------------------
(* Callers: getConfig, then updateConfig or createConfig; getConfigVersion,*)
(* then updateConfig.  Each call acquires and releases its own connection. *)
addDraftChange(t, e, value) ==
    /\ pc[t] = "idle"
    /\ acquire
    /\ Len(change_logs[e]) < MaxLog
    /\ Goto(t, IF Absent(getConfig(e, FALSE)) THEN "create" ELSE "update", Call(e, value))
    /\ UNCHANGED <<configs, config_versions, change_logs, releases, faults, released, abreast>>

rollbackConfig(t, e, target) ==
    /\ pc[t] = "idle"
    /\ acquire
    /\ Len(change_logs[e]) < MaxLog
    /\ \E cv \in getConfigVersion(e, target) : Goto(t, "update", Call(e, cv.value))
    /\ UNCHANGED <<configs, config_versions, change_logs, releases, faults, released, abreast>>

(* createConfig: an INSERT of a row that is already there fails, and the   *)
(* version and the log entry are inserted all the same.  Here and below, a *)
(* statement that waits for the locks of a publication keeps its connection. *)
createConfig(t) ==
    /\ pc[t] = "create"
    /\ acquire
    /\ Goto(t, "insertRow", [local[t] EXCEPT !.cv = CreateVersion(local[t].value),
                                             !.cl = CreateLog(local[t].value)])
    /\ UNCHANGED <<configs, config_versions, change_logs, releases, faults, released, abreast>>

insertRow(t) ==
    LET e == local[t].entry
    IN  /\ pc[t] = "insertRow"
        /\ Writable(e)
        /\ configs' = [configs EXCEPT ![e] = IF Absent(@) THEN CreatedRow(local[t].value)
                                                          ELSE @]
        /\ Goto(t, "insertVersion", local[t])
        /\ UNCHANGED <<config_versions, change_logs, releases, faults, released, abreast>>

(* updateConfig: the SELECT...                                             *)
RowMissing(t) == Return(t)

updateConfig(t) ==
    LET e == local[t].entry
        value == local[t].value
    IN  /\ pc[t] = "update"
        /\ acquire
        /\ \/ Absent(configs[e]) /\ RowMissing(t)
           \/ /\ ~Absent(configs[e])
              /\ Goto(t, "updateRow",
                      [local[t] EXCEPT !.row = configs[e],
                                       !.cv = UpdateVersion(configs[e], value),
                                       !.cl = UpdateLog(configs[e], value)])
        /\ UNCHANGED <<configs, config_versions, change_logs, releases, faults, released, abreast>>

(* ...and the UPDATE, with the version computed from what was read; a row  *)
(* that is gone by now is not updated.                                     *)
KeepsStatus(t) ==                                             \* mistaken
    LET e == local[t].entry
    IN  /\ pc[t] = "updateRow"
        /\ Writable(e)
        /\ configs' = [configs EXCEPT ![e] =
                          IF Absent(@) THEN @
                          ELSE UpdatedRow(local[t].row, local[t].value, @.status = "draft")]
        /\ Goto(t, "insertVersion", local[t])
        /\ UNCHANGED <<config_versions, change_logs, releases, faults, released, abreast>>

updateRow(t) ==
    LET e == local[t].entry
    IN  /\ pc[t] = "updateRow"
        /\ Writable(e)
        /\ configs' = [configs EXCEPT ![e] =
                          IF Absent(@) THEN @
                          ELSE UpdatedRow(local[t].row, local[t].value, TRUE)]
        /\ Goto(t, "insertVersion", local[t])
        /\ UNCHANGED <<config_versions, change_logs, releases, faults, released, abreast>>

(* deleteConfig as the handlers call it.                                   *)
deleteConfig(t, e) ==
    /\ pc[t] = "idle"
    /\ acquire
    /\ Len(change_logs[e]) < MaxLog
    /\ Goto(t, "deleteRow", [Call(e, NoValue) EXCEPT !.cl = DeleteLog])
    /\ UNCHANGED <<configs, config_versions, change_logs, releases, faults, released, abreast>>

deleteRow(t) ==
    LET e == local[t].entry
    IN  /\ pc[t] = "deleteRow"
        /\ Writable(e)
        /\ configs' = [configs EXCEPT ![e] = RemovedRow(@, TRUE)]
        /\ Goto(t, "insertLog", local[t])
        /\ UNCHANGED <<config_versions, change_logs, releases, faults, released, abreast>>

insertVersion(t) ==
    /\ pc[t] = "insertVersion"
    /\ config_versions' = [config_versions EXCEPT
                              ![IdOf(local[t].entry)] = Append(@, local[t].cv)]
    /\ Goto(t, "insertLog", local[t])
    /\ UNCHANGED <<configs, change_logs, releases, faults, released, abreast>>

insertLog(t) ==
    /\ pc[t] = "insertLog"
    /\ change_logs' = [change_logs EXCEPT ![local[t].entry] = Append(@, local[t].cl)]
    /\ Return(t)
    /\ UNCHANGED <<configs, config_versions, releases, faults, released, abreast>>

-----------------------------------------------------------------------------
(* publishRelease: the UPDATE takes the locks...                           *)
publishRelease(t, ns) ==
    /\ pc[t] = "idle"
    /\ acquire
    /\ Len(releases[ns]) < MaxReleases
    /\ \E e \in Entries : e[1] = ns /\ Goto(t, "lockRows", Call(e, NoValue))
    /\ UNCHANGED <<configs, config_versions, change_logs, releases, faults, released, abreast>>

AutoCommit(t) ==                                              \* mistaken
    /\ pc[t] = "lockRows"
    /\ Goto(t, "readMax", [local[t] EXCEPT !.updated = TRUE])
    /\ UNCHANGED <<configs, config_versions, change_logs, releases, faults, released, abreast>>

lockRows(t) ==
    LET ns == local[t].entry[1]
    IN  /\ pc[t] = "lockRows"
        /\ \/ Publishing(ns) = {} /\ UNCHANGED abreast
           \/ /\ Publishing(ns) # {}
              /\ \A e \in Entries : e[1] = ns => Absent(configs[e])
              /\ abreast' = abreast \cup {ns}
        /\ Goto(t, "readMax", [local[t] EXCEPT !.updated = TRUE])
        /\ UNCHANGED <<configs, config_versions, change_logs, releases, faults, released>>

(* ...the SELECT reads the highest committed release_version, the INSERT   *)
(* and the commit follow.                                                  *)
MaxReleaseVersion(ns) ==
    LET versions == {releases[ns][i] : i \in DOMAIN releases[ns]}
    IN  IF versions = {} THEN 0
        ELSE CHOOSE v \in versions : \A w \in versions : w <= v

readMax(t) ==
    LET ns == local[t].entry[1]
    IN  /\ pc[t] = "readMax"
        /\ Goto(t, "insertRelease", [local[t] EXCEPT !.nextVersion = MaxReleaseVersion(ns) + 1])
        /\ UNCHANGED <<configs, config_versions, change_logs, releases, faults, released, abreast>>

(* What the commit makes of the tables, the INSERT having worked or not.   *)
Commit(t, inserted) ==
    LET ns == local[t].entry[1]
    IN  /\ configs' = [e \in Entries |-> IF e[1] = ns /\ local[t].updated
                                         THEN PublishedRow(configs[e]) ELSE configs[e]]
        /\ releases' = IF inserted
                       THEN [releases EXCEPT ![ns] = Append(@, local[t].nextVersion)]
                       ELSE releases
        /\ released' = [e \in Entries |-> IF e[1] = ns /\ local[t].updated
                                          THEN configs'[e] ELSE released[e]]
        /\ Return(t)

insertRelease(t) ==
    /\ pc[t] = "insertRelease"
    /\ Commit(t, TRUE)
    /\ UNCHANGED <<config_versions, change_logs, faults, abreast>>

-----------------------------------------------------------------------------
(* A statement fails: execute returns false, which nobody looks at, and    *)
(* the method goes on; query leaves no rows.                               *)
AfterFailure == [insertRow |-> "insertVersion", updateRow |-> "insertVersion",
                 deleteRow |-> "insertLog", insertVersion |-> "insertLog",
                 lockRows |-> "readMax"]

StatementFails(t) ==
    /\ faults < MaxFaults
    /\ faults' = faults + 1
    /\ \/ pc[t] \in DOMAIN AfterFailure /\ Goto(t, AfterFailure[pc[t]], local[t])
       \/ pc[t] = "update" /\ acquire /\ Return(t)
       \/ pc[t] = "insertLog" /\ Return(t)
       \/ pc[t] = "readMax" /\ Goto(t, "insertRelease", [local[t] EXCEPT !.nextVersion = 1])
    /\ UNCHANGED <<configs, config_versions, change_logs, releases, released, abreast>>

(* The INSERT of publishRelease fails, and the commit does not.            *)
InsertReleaseFails(t) ==
    /\ faults < MaxFaults
    /\ faults' = faults + 1
    /\ pc[t] = "insertRelease"
    /\ Commit(t, FALSE)
    /\ UNCHANGED <<config_versions, change_logs, abreast>>

Request(t) ==
    \/ \E e \in Entries :
        \/ \E value \in Values : addDraftChange(t, e, value)
        \/ \E target \in 1..MaxLog : rollbackConfig(t, e, target)
        \/ deleteConfig(t, e)
    \/ \E ns \in Namespaces : publishRelease(t, ns)

Step(t) ==
    \/ createConfig(t) \/ insertRow(t)
    \/ updateConfig(t) \/ updateRow(t)
    \/ deleteRow(t)
    \/ insertVersion(t) \/ insertLog(t)
    \/ lockRows(t) \/ readMax(t) \/ insertRelease(t)

(* The only way to stop: a writer that waits for the locks of a publication *)
(* never keeps it from a connection, as the publication has its own.       *)
Quiet == (\A t \in Threads : pc[t] = "idle") /\ UNCHANGED vars

Next ==
    \/ \E t \in Threads : Request(t) \/ Step(t) \/ StatementFails(t) \/ InsertReleaseFails(t)
    \/ Quiet

Spec == Init /\ [][Next]_vars

-----------------------------------------------------------------------------
(* What clients are served is what the last commit of publishRelease made  *)
(* live, though writers interleave with it statement by statement, write   *)
(* rows computed from what they read before it, and go on after statements *)
(* that failed.                                                            *)
ServedIsCommitted ==
    \A e \in Entries : ~Absent(getConfig(e, FALSE)) => getConfig(e, FALSE) = released[e]

(* Once no call on a key is between its statements, the row of the key is  *)
(* one of the versions in its history: concurrent writers may give two     *)
(* values one version number, but never leave a value that no version      *)
(* records, as long as no statement has failed.                            *)
HeadInHistory ==
    faults = 0 => \A e \in Entries :
        /\ ~Absent(configs[e])
        /\ \A t \in Threads : HasConnection(t) => local[t].entry # e
        => \E i \in DOMAIN config_versions[IdOf(e)] :
                /\ config_versions[IdOf(e)][i].version = configs[e].version
                /\ config_versions[IdOf(e)][i].value = configs[e].value

(* The releases of a namespace are numbered 1, 2, 3... in the order of     *)
(* their commits, though each publication reads the highest number and     *)
(* inserts the next one with two statements: the locks of its UPDATE keep  *)
(* another one waiting.  (Where there is no row to lock, two publications  *)
(* may take one number.)                                                   *)
ReleasesNumbered ==
    faults = 0 => \A ns \in Namespaces \ abreast :
        \A i \in DOMAIN releases[ns] : releases[ns][i] = i
=============================================================================
