------------------------- MODULE SqliteConfigStore -------------------------
(***************************************************************************)
(* SqliteConfigStore and the request handlers that call it, as far as the  *)
(* configuration keys, their version history, their change log and the     *)
(* publishing of a namespace are concerned.                                *)
(*                                                                         *)
(* Every method of the store holds mutex_ while it runs, but a method that *)
(* writes three tables does so with three statements that SQLite commits   *)
(* one by one, and a handler (or rollbackConfig) that calls the store twice *)
(* releases mutex_ in between.  So a step here is one statement: the step   *)
(* that writes the configs row takes the mutex, the step that inserts the  *)
(* change log gives it back.  publishRelease runs in a transaction under   *)
(* the mutex and is one step.                                              *)
(***************************************************************************)
EXTENDS ConfigTables, Filters

CONSTANTS Threads,         \* the threads that run request handlers
          NoThread,        \* mutex_ is free
          DraftFlags,      \* values of "draft" in direct calls of the store
          MaxLog,          \* bound: change log entries of a key before a new request
          MaxReleases,     \* bound: releases of a namespace
          MaxFaults        \* bound: crashes and failed statements

ASSUME StoreAssumption == /\ NoThread \notin Threads
                          /\ DraftFlags \subseteq BOOLEAN
                          /\ MaxLog \in Nat
                          /\ MaxReleases \in Nat
                          /\ MaxFaults \in Nat

VARIABLES configs,          \* table configs: entry -> row
          config_versions,  \* table config_versions: config id -> rows, in insertion order
          change_logs,      \* table change_logs: entry -> rows, in insertion order
          releases,         \* table releases: namespace -> release_version's, in insertion order
          mutex,            \* the thread that holds mutex_
          pc,               \* where each thread is
          local,            \* the arguments and local variables of each thread's call
          faults,           \* number of faults so far
          released          \* history: the rows of each namespace as of its last release

vars == <<configs, config_versions, change_logs, releases, mutex, pc, local,
          faults, released>>

tables == <<configs, config_versions, change_logs, releases, released>>

Local == [entry : Entries, value : Values \cup {NoValue}, draft : BOOLEAN,
          target : Nat, cv : ConfigVersion, cl : ChangeLog]

(* The locals of a call that has not written yet.                          *)
Call(e, value, draft, target) ==
    [entry |-> e, value |-> value, draft |-> draft, target |-> target,
     cv |-> NoVersion, cl |-> NoLog]

NoCall == Call(CHOOSE e \in Entries : TRUE, NoValue, TRUE, 0)

TypeOK ==
    /\ configs \in [Entries -> ConfigKey]
    /\ config_versions \in [ConfigIds -> Seq(ConfigVersion)]
    /\ change_logs \in [Entries -> Seq(ChangeLog)]
    /\ releases \in [Namespaces -> Seq(Nat)]
    /\ mutex \in Threads \cup {NoThread}
    /\ pc \in [Threads -> {"idle", "create", "update", "insertVersion", "insertLog"}]
    /\ local \in [Threads -> Local]
    /\ faults \in Nat
    /\ released \in [Entries -> ConfigKey]

Init ==
    /\ configs = [e \in Entries |-> NoRow]
    /\ config_versions = [id \in ConfigIds |-> <<>>]
    /\ change_logs = [e \in Entries |-> <<>>]
    /\ releases = [ns \in Namespaces |-> <<>>]
    /\ mutex = NoThread
    /\ pc = [t \in Threads |-> "idle"]
    /\ local = [t \in Threads |-> NoCall]
    /\ faults = 0
    /\ released = [e \in Entries |-> NoRow]

-----------------------------------------------------------------------------
(* Reads.                                                                  *)

getConfig(e, includeDraft) == VisibleRow(configs[e], includeDraft)

(* What clients are served, through gRPC or HTTP.                          *)
GetConfig(e) == getConfig(e, FALSE)

(* The rows getConfigVersion may answer with: those of the key with the     *)
(* given number.  The query orders nothing, the method takes the first row. *)
AnyVersion(e, version) ==                                     \* mistaken
    {config_versions[IdOf(e)][i] : i \in DOMAIN config_versions[IdOf(e)]}

getConfigVersion(e, version) ==
    {cv \in {config_versions[IdOf(e)][i] : i \in DOMAIN config_versions[IdOf(e)]} :
        cv.version = version}

-----------------------------------------------------------------------------
(* A request starts with the mutex free: each of the handlers' first store *)
(* calls takes it.                                                         *)
CanStart(t, e) ==
    /\ pc[t] = "idle"
    /\ mutex = NoThread
    /\ Len(change_logs[e]) < MaxLog

Goto(t, label, call) ==
    /\ pc' = [pc EXCEPT ![t] = label]
    /\ local' = [local EXCEPT ![t] = call]

(* mutex_ held across the statements of a method, and released at its end. *)
NoLock(t) == UNCHANGED mutex                                  \* mistaken
Lock(t) == mutex' = t
Unlock == mutex' = NoThread

(* A method that returns false before it writes.                           *)
RetryForEver(t) == UNCHANGED <<configs, mutex, pc, local>>    \* mistaken
ReturnFalse(t) == Goto(t, "idle", NoCall) /\ UNCHANGED <<configs, mutex>>

(* The body of the edit handlers: look for the published row, then call    *)
(* updateConfig or createConfig.                                           *)
addDraftChange(t, e, value) ==
    /\ CanStart(t, e)
    /\ Goto(t, IF Absent(getConfig(e, FALSE)) THEN "create" ELSE "update",
            Call(e, value, TRUE, 0))
    /\ UNCHANGED <<tables, mutex, faults>>

(* rollbackConfig: read the target version, then call updateConfig.        *)
rollbackConfig(t, e, target) ==
    /\ CanStart(t, e)
    /\ \E cv \in getConfigVersion(e, target) :
          Goto(t, "update", Call(e, cv.value, TRUE, target))
    /\ UNCHANGED <<tables, mutex, faults>>

(* A caller that uses updateConfig without looking first.                  *)
CallUpdate(t, e, value, draft) ==
    /\ CanStart(t, e)
    /\ Goto(t, "update", Call(e, value, draft, 0))
    /\ UNCHANGED <<tables, mutex, faults>>

(* createConfig up to the insertion of the row; a row that is already      *)
(* there, draft or live, makes it return false, which the handlers ignore. *)
createConfig(t) ==
    LET e == local[t].entry
        value == local[t].value
    IN  /\ pc[t] = "create"
        /\ mutex = NoThread
        /\ \/ /\ ~Absent(configs[e])
              /\ ReturnFalse(t)
           \/ /\ Absent(configs[e])
              /\ configs' = [configs EXCEPT ![e] = CreatedRow(value)]
              /\ Lock(t)
              /\ Goto(t, "insertVersion",
                      [local[t] EXCEPT !.cv = CreateVersion(value),
                                       !.cl = CreateLog(value)])
        /\ UNCHANGED <<config_versions, change_logs, releases, released, faults>>

(* updateConfig up to the update of the row; a row that is gone makes it   *)
(* return false.                                                           *)
updateConfig(t) ==
    LET e == local[t].entry
        value == local[t].value
    IN  /\ pc[t] = "update"
        /\ mutex = NoThread
        /\ \/ /\ Absent(configs[e])
              /\ ReturnFalse(t)
           \/ /\ ~Absent(configs[e])
              /\ configs' = [configs EXCEPT
                                ![e] = UpdatedRow(@, value, local[t].draft)]
              /\ Lock(t)
              /\ Goto(t, "insertVersion",
                      [local[t] EXCEPT !.cv = UpdateVersion(configs[e], value),
                                       !.cl = UpdateLog(configs[e], value)])
        /\ UNCHANGED <<config_versions, change_logs, releases, released, faults>>

(* deleteConfig up to the removal of the row.                              *)
deleteConfig(t, e, draft) ==
    /\ CanStart(t, e)
    /\ configs' = [configs EXCEPT ![e] = RemovedRow(@, draft)]
    /\ Lock(t)
    /\ Goto(t, "insertLog", [Call(e, NoValue, draft, 0) EXCEPT !.cl = DeleteLog])
    /\ UNCHANGED <<config_versions, change_logs, releases, released, faults>>

(* The insertion into config_versions of createConfig and updateConfig.    *)
insertVersion(t) ==
    /\ pc[t] = "insertVersion"
    /\ config_versions' = [config_versions EXCEPT
                              ![IdOf(local[t].entry)] = Append(@, local[t].cv)]
    /\ Goto(t, "insertLog", local[t])
    /\ UNCHANGED <<configs, change_logs, releases, mutex, faults, released>>

(* The insertion into change_logs, and the return that releases mutex_.    *)
insertLog(t) ==
    /\ pc[t] = "insertLog"
    /\ change_logs' = [change_logs EXCEPT
                          ![local[t].entry] = Append(@, local[t].cl)]
    /\ Unlock
    /\ Goto(t, "idle", NoCall)
    /\ UNCHANGED <<configs, config_versions, releases, faults, released>>

AnyNamespaceVersion(ns) ==                                    \* mistaken
    LET versions == {Len(releases[m]) : m \in Namespaces}
    IN  CHOOSE v \in versions : \A w \in versions : w <= v

(* The highest release_version of a namespace, 0 without a release.        *)
MaxReleaseVersion(ns) ==
    LET versions == {releases[ns][i] : i \in DOMAIN releases[ns]}
    IN  IF versions = {} THEN 0
        ELSE CHOOSE v \in versions : \A w \in versions : w <= v

(* publishRelease: one transaction, which a failure rolls back entirely.   *)
publishRelease(t, ns) ==
    /\ pc[t] = "idle"
    /\ mutex = NoThread
    /\ Len(releases[ns]) < MaxReleases
    /\ configs' = [e \in Entries |-> IF e[1] = ns THEN PublishedRow(configs[e])
                                                  ELSE configs[e]]
    /\ releases' = [releases EXCEPT ![ns] = Append(@, MaxReleaseVersion(ns) + 1)]
    /\ released' = [e \in Entries |-> IF e[1] = ns THEN configs'[e]
                                                   ELSE released[e]]
    /\ UNCHANGED <<config_versions, change_logs, mutex, pc, local, faults>>

(* A statement of a write throws: the exception leaves the method, which   *)
(* releases mutex_, and ends the call with the earlier statements in place. *)
StatementFails(t) ==
    /\ pc[t] # "idle"
    /\ mutex \in {t, NoThread}
    /\ faults < MaxFaults
    /\ faults' = faults + 1
    /\ Unlock
    /\ Goto(t, "idle", NoCall)
    /\ UNCHANGED tables

(* The process stops and starts again: initialize keeps the tables, every  *)
(* call in progress is gone.                                               *)
initialize ==
    /\ faults < MaxFaults
    /\ faults' = faults + 1
    /\ Unlock
    /\ pc' = [t \in Threads |-> "idle"]
    /\ local' = [t \in Threads |-> NoCall]
    /\ UNCHANGED tables

-----------------------------------------------------------------------------
(* The handlers of the HTTP and of the gRPC server.  What SetConfig reads  *)
(* back for its answer changes nothing.                                    *)
handleSetConfig(t, e, value) == addDraftChange(t, e, value)
handleDeleteConfig(t, e) == deleteConfig(t, e, TRUE)
handlePublish(t, ns) == publishRelease(t, ns)

SetConfig(t, e, value) == addDraftChange(t, e, value)
DeleteConfig(t, e) == deleteConfig(t, e, TRUE)
PublishRelease(t, ns) == publishRelease(t, ns)

Request(t) ==
    \/ \E e \in Entries :
        \/ \E value \in Values : handleSetConfig(t, e, value) \/ SetConfig(t, e, value)
        \/ handleDeleteConfig(t, e) \/ DeleteConfig(t, e)
        \/ \E target \in 1..MaxLog : rollbackConfig(t, e, target)
        \/ \E draft \in DraftFlags :
            \/ deleteConfig(t, e, draft)
            \/ \E value \in Values : CallUpdate(t, e, value, draft)
    \/ \E ns \in Namespaces : handlePublish(t, ns) \/ PublishRelease(t, ns)

Step(t) == createConfig(t) \/ updateConfig(t) \/ insertVersion(t) \/ insertLog(t)

(* Every thread waits for a request: the only way to stop.                 *)
Quiet == (\A t \in Threads : pc[t] = "idle") /\ UNCHANGED vars

Next ==
    \/ \E t \in Threads : Request(t) \/ Step(t) \/ StatementFails(t)
    \/ initialize
    \/ Quiet

Spec == Init /\ [][Next]_vars

(* A thread inside a store call is scheduled again.  Callers need not      *)
(* issue requests, and faults need not happen.                             *)
FairSpec == Spec /\ \A t \in Threads : WF_vars(Step(t))

-----------------------------------------------------------------------------
(* Safety.                                                                 *)

(* A thread that has written a configs row but not yet its version, or its *)
(* log.                                                                    *)
BeforeVersion(e) == \E t \in Threads : pc[t] = "insertVersion" /\ local[t].entry = e
BeforeLog(e) == \E t \in Threads : /\ pc[t] \in {"insertVersion", "insertLog"}
                                  /\ local[t].entry = e

(* The row of a key is the last version in its history, whatever writers,  *)
(* rollbacks, deletions and publications interleave (no faults): what      *)
(* getConfig and getConfigVersions answer agree.                           *)
HeadRecorded ==
    \A e \in Entries :
        ~Absent(configs[e]) /\ ~BeforeVersion(e) =>
            LET history == config_versions[IdOf(e)]
            IN  /\ history # <<>>
                /\ history[Len(history)].version = configs[e].version
                /\ history[Len(history)].value = configs[e].value

(* The versions of a key count 1, 2, 3... from each creation: no write is  *)
(* recorded twice, skipped or recorded out of order although updateConfig  *)
(* and the read before it are separate critical sections (no faults).      *)
VersionChain ==
    \A id \in ConfigIds : \A i \in DOMAIN config_versions[id] :
        LET cv == config_versions[id][i]
        IN  \/ cv.change_type = "create" /\ cv.version = 1
            \/ /\ cv.change_type = "update"
               /\ i > 1
               /\ cv.version = config_versions[id][i - 1].version + 1

(* The change log of a key, deletions aside, tells the same story as its   *)
(* version history, and each update's old value is the value before it (no *)
(* faults).                                                                *)
AuditMatchesHistory ==
    \A e \in Entries :
        LET history == config_versions[IdOf(e)]
            log == change_logs[e]
            writes == Filter(log, {i \in DOMAIN log : log[i].operation # "delete"})
        IN  ~BeforeLog(e) =>
            /\ Len(writes) = Len(history)
            /\ \A i \in DOMAIN writes :
                /\ writes[i].version = history[i].version
                /\ writes[i].new_value = history[i].value
                /\ writes[i].operation = history[i].change_type
                /\ writes[i].operation = "update" =>
                      i > 1 /\ writes[i].old_value = history[i - 1].value

(* What clients are served is exactly what the namespace's last release    *)
(* published: no draft value, and no version of another release, shows     *)
(* through GetConfig, faults included (callers that pass draft = true      *)
(* only).                                                                  *)
ServedIsReleased ==
    \A e \in Entries :
        ~Absent(GetConfig(e)) =>
            /\ GetConfig(e) = released[e]
            /\ releases[e[1]] # <<>>

(* The releases of a namespace are numbered 1, 2, 3... in the order of      *)
(* their publication, across crashes and failed publications.              *)
ReleaseNumbers ==
    \A ns \in Namespaces : \A i \in DOMAIN releases[ns] : releases[ns][i] = i

(* A rollback writes a value its key had under the target version, though  *)
(* the version was read in an earlier critical section and the key may     *)
(* have been edited, deleted or recreated since.                           *)
RollbackStep ==
    \A t \in Threads :
        LET e == local[t].entry
            history == config_versions[IdOf(e)]
        IN  pc[t] = "update" /\ local[t].target # 0 /\ pc'[t] = "insertVersion" =>
                \E i \in DOMAIN history : /\ history[i].version = local[t].target
                                          /\ history[i].value = configs'[e].value

(* RollbackStep for every step, faults included.                           *)
RollbackRestores == [][RollbackStep]_vars

-----------------------------------------------------------------------------
(* Refinement: the tables as they will be once the write in progress, if   *)
(* any, has inserted its rows.  Only the holder of mutex_ sees the others. *)

VersionsNow ==
    [id \in ConfigIds |->
        IF /\ mutex # NoThread
           /\ pc[mutex] = "insertVersion"
           /\ IdOf(local[mutex].entry) = id
        THEN Append(config_versions[id], local[mutex].cv)
        ELSE config_versions[id]]

LogsNow ==
    [e \in Entries |->
        IF mutex # NoThread /\ local[mutex].entry = e
        THEN Append(change_logs[e], local[mutex].cl)
        ELSE change_logs[e]]

Atomic == INSTANCE AtomicConfigStore
            WITH config_versions <- VersionsNow, change_logs <- LogsNow

(* The store, with its statements one by one and its handlers interleaved, *)
(* behaves as if each write took place in one step (no faults).            *)
AtomicSpec == Atomic!Spec

-----------------------------------------------------------------------------
(* Liveness.                                                               *)

(* Every request returns: no thread is left waiting for mutex_, or holding *)
(* it, for ever.                                                           *)
EveryRequestReturns ==
    \A t \in Threads : pc[t] # "idle" ~> pc[t] = "idle"

-----------------------------------------------------------------------------
(* "the change is saved as a draft and does NOT affect clients reading the *)
(* published config": a key that clients are served stays served, when     *)
(* callers pass draft = true only.  Refuted: updateConfig overwrites the   *)
(* published row with the draft.                                           *)
EditKeepsServing ==
    [][\A e \in Entries : ~Absent(GetConfig(e)) => ~Absent(GetConfig(e)')]_vars

(* "the server saves the change as a draft": an edit of a key that has no  *)
(* published value leaves its value in the row (no faults).  Refuted: the  *)
(* row may hold an earlier draft, which getConfig does not show and        *)
(* createConfig does not replace; the handler ignores its false.           *)
EditSaved ==
    [][\A t \in Threads : pc[t] = "create" /\ pc'[t] # "create" =>
          configs'[local[t].entry].value = local[t].value]_vars
=============================================================================
