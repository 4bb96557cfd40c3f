---------------------- MODULE SqliteConfigStoreProofs ----------------------
(***************************************************************************)
(* Proofs about SqliteConfigStore, for every set of namespaces, keys,      *)
(* values and threads and every value of the bounds.                       *)
(***************************************************************************)
EXTENDS SqliteConfigStore, FiltersProofs

USE DEF Absent, Unlock, Lock, ReturnFalse, Goto, CanStart, tables

-----------------------------------------------------------------------------
(* Type correctness.                                                       *)

(* There is an entry, so that the locals of an idle thread have their type. *)
LEMMA NoCallType == NoCall \in Local
<1>1. \E e \in Entries : TRUE
  <2>1. PICK ns \in Namespaces, key \in Keys : TRUE
    BY TablesAssumption
  <2>2. <<ns, key>> \in Entries
    BY <2>1 DEF Entries
  <2> QED
    BY <2>2
<1>2. (CHOOSE e \in Entries : TRUE) \in Entries
  BY <1>1
<1> QED
  BY <1>2 DEF NoCall, Call, Local, NoVersion, ConfigVersion, NoLog, ChangeLog

(* The rows the store writes are rows of their tables.                     *)
LEMMA RowTypes ==
    ASSUME NEW row \in ConfigKey, NEW value \in Values \cup {NoValue},
           NEW draft \in BOOLEAN
    PROVE  /\ NoRow \in ConfigKey
           /\ CreatedRow(value) \in ConfigKey
           /\ UpdatedRow(row, value, draft) \in ConfigKey
           /\ RemovedRow(row, draft) \in ConfigKey
           /\ PublishedRow(row) \in ConfigKey
           /\ CreateVersion(value) \in ConfigVersion
           /\ UpdateVersion(row, value) \in ConfigVersion
           /\ CreateLog(value) \in ChangeLog
           /\ UpdateLog(row, value) \in ChangeLog
           /\ DeleteLog \in ChangeLog
BY DEF ConfigKey, ConfigVersion, ChangeLog, NoRow, CreatedRow, UpdatedRow,
       RemovedRow, PublishedRow, CreateVersion, UpdateVersion, CreateLog,
       UpdateLog, DeleteLog

(* A record of the history has the type of a version.                      *)
LEMMA VersionType ==
    ASSUME TypeOK, NEW e \in Entries, NEW target, NEW cv \in getConfigVersion(e, target)
    PROVE  cv \in ConfigVersion
<1>1. IdOf(e) \in ConfigIds
  BY DEF ConfigIds
<1> QED
  BY <1>1 DEF TypeOK, getConfigVersion

(* While the releases of a namespace are numbered from 1, the highest      *)
(* number is their count.                                                  *)
LEMMA HighestRelease ==
    ASSUME TypeOK, ReleaseNumbers, NEW ns \in Namespaces
    PROVE  MaxReleaseVersion(ns) = Len(releases[ns])
<1> DEFINE versions == {releases[ns][i] : i \in DOMAIN releases[ns]}
<1>1. releases[ns] \in Seq(Nat) /\ Len(releases[ns]) \in Nat
  BY DEF TypeOK
<1>2. versions = 1..Len(releases[ns])
  BY <1>1 DEF ReleaseNumbers
<1>3. MaxReleaseVersion(ns) = IF versions = {} THEN 0
                              ELSE CHOOSE v \in versions : \A w \in versions : w <= v
  BY DEF MaxReleaseVersion
<1> HIDE DEF versions
<1>4. CASE Len(releases[ns]) = 0
  <2>1. versions = {}
    BY <1>2, <1>4
  <2> QED
    BY <2>1, <1>3, <1>4
<1>5. CASE Len(releases[ns]) # 0
  <2>1. Len(releases[ns]) \in versions /\ \A w \in versions : w <= Len(releases[ns])
    BY <1>1, <1>2, <1>5
  <2>2. \A v \in versions : (\A w \in versions : w <= v) => v = Len(releases[ns])
    BY <2>1, <1>1, <1>2
  <2>3. (CHOOSE v \in versions : \A w \in versions : w <= v) = Len(releases[ns])
    BY <2>1, <2>2
  <2> QED
    BY <2>1, <2>3, <1>3, Zenon
<1> QED
  BY <1>4, <1>5

(* The steps, without the handlers that only name them.                    *)
LEMMA NextCases ==
    ASSUME [Next]_vars
    PROVE  \/ \E t \in Threads, e \in Entries, value \in Values : addDraftChange(t, e, value)
           \/ \E t \in Threads, e \in Entries, target \in Nat : rollbackConfig(t, e, target)
           \/ \E t \in Threads, e \in Entries, value \in Values, draft \in DraftFlags :
                 CallUpdate(t, e, value, draft)
           \/ \E t \in Threads, e \in Entries, draft \in DraftFlags \cup {TRUE} :
                 deleteConfig(t, e, draft)
           \/ \E t \in Threads, ns \in Namespaces : publishRelease(t, ns)
           \/ \E t \in Threads : createConfig(t)
           \/ \E t \in Threads : updateConfig(t)
           \/ \E t \in Threads : insertVersion(t)
           \/ \E t \in Threads : insertLog(t)
           \/ \E t \in Threads : StatementFails(t)
           \/ initialize
           \/ UNCHANGED vars
<1>1. \A t \in Threads : Request(t) =>
           \/ \E e \in Entries, value \in Values : addDraftChange(t, e, value)
           \/ \E e \in Entries, target \in Nat : rollbackConfig(t, e, target)
           \/ \E e \in Entries, value \in Values, draft \in DraftFlags :
                 CallUpdate(t, e, value, draft)
           \/ \E e \in Entries, draft \in DraftFlags \cup {TRUE} : deleteConfig(t, e, draft)
           \/ \E ns \in Namespaces : publishRelease(t, ns)
  <2>1. \A target \in 1..MaxLog : target \in Nat
    BY StoreAssumption
  <2> QED
    BY <2>1, Zenon DEF Request, handleSetConfig, SetConfig, handleDeleteConfig,
                       DeleteConfig, handlePublish, PublishRelease
<1> QED
  BY <1>1, Zenon DEF Next, Step, Quiet

TypeInv == TypeOK /\ ReleaseNumbers

(* The types hold at first.                                                *)
LEMMA TypeInit == Init => TypeInv
BY NoCallType, StoreAssumption
   DEF Init, TypeInv, TypeOK, ReleaseNumbers, NoRow, ConfigKey

(* The step that writes the row of createConfig and updateConfig, or that   *)
(* returns false, keeps the types.                                         *)
LEMMA RowStepType ==
    ASSUME TypeInv, NEW t \in Threads, NEW e \in Entries, NEW row \in ConfigKey,
           NEW call \in Local,
           \/ ReturnFalse(t)
           \/ /\ configs' = [configs EXCEPT ![e] = row]
              /\ Lock(t)
              /\ Goto(t, "insertVersion", call),
           UNCHANGED <<config_versions, change_logs, releases, released, faults>>
    PROVE  TypeInv'
<1>1. configs' \in [Entries -> ConfigKey] /\ mutex' \in Threads \cup {NoThread}
  BY Zenon DEF TypeInv, TypeOK
<1>2. pc' \in [Threads -> {"idle", "create", "update", "insertVersion", "insertLog"}]
  BY Zenon DEF TypeInv, TypeOK
<1>3. local' \in [Threads -> Local]
  BY NoCallType, Zenon DEF TypeInv, TypeOK
<1>4. ReleaseNumbers'
  BY DEF TypeInv, ReleaseNumbers
<1> QED
  BY <1>1, <1>2, <1>3, <1>4 DEF TypeInv, TypeOK

(* Every step preserves the types.                                         *)
LEMMA TypeStep == TypeInv /\ [Next]_vars => TypeInv'
<1> SUFFICES ASSUME TypeInv, [Next]_vars PROVE TypeInv'
  OBVIOUS
<1> USE NoCallType, StoreAssumption DEF TypeInv
<1>1. ASSUME NEW t \in Threads, NEW e \in Entries, NEW value \in Values,
             addDraftChange(t, e, value)
      PROVE  TypeInv'
  <2>1. Call(e, value, TRUE, 0) \in Local
    BY DEF Call, Local, NoVersion, ConfigVersion, NoLog, ChangeLog
  <2> QED
    BY <1>1, <2>1, Zenon DEF addDraftChange, TypeOK, ReleaseNumbers
<1>2. ASSUME NEW t \in Threads, NEW e \in Entries, NEW target \in Nat,
             rollbackConfig(t, e, target)
      PROVE  TypeInv'
  <2>1. PICK cv \in getConfigVersion(e, target) :
             Goto(t, "update", Call(e, cv.value, TRUE, target))
    BY <1>2, Zenon DEF rollbackConfig
  <2>2. cv.value \in Values \cup {NoValue}
    BY VersionType DEF ConfigVersion
  <2>3. Call(e, cv.value, TRUE, target) \in Local
    BY <2>2 DEF Call, Local, NoVersion, ConfigVersion, NoLog, ChangeLog
  <2> QED
    BY <1>2, <2>1, <2>3, Zenon DEF rollbackConfig, TypeOK, ReleaseNumbers
<1>3. ASSUME NEW t \in Threads, NEW e \in Entries, NEW value \in Values,
             NEW draft \in DraftFlags, CallUpdate(t, e, value, draft)
      PROVE  TypeInv'
  <2>1. Call(e, value, draft, 0) \in Local
    BY DEF Call, Local, NoVersion, ConfigVersion, NoLog, ChangeLog
  <2> QED
    BY <1>3, <2>1 DEF CallUpdate, TypeOK, ReleaseNumbers
<1>4. ASSUME NEW t \in Threads, NEW e \in Entries, NEW draft \in DraftFlags \cup {TRUE},
             deleteConfig(t, e, draft)
      PROVE  TypeInv'
  <2>1. [Call(e, NoValue, draft, 0) EXCEPT !.cl = DeleteLog] \in Local
    BY Zenon DEF Call, Local, NoVersion, ConfigVersion, NoLog, DeleteLog, ChangeLog
  <2>2. RemovedRow(configs[e], draft) \in ConfigKey
    BY RowTypes, Zenon DEF TypeOK
  <2> QED
    BY <1>4, <2>1, <2>2 DEF deleteConfig, TypeOK, ReleaseNumbers
<1>5. ASSUME NEW t \in Threads, NEW ns \in Namespaces, publishRelease(t, ns)
      PROVE  TypeInv'
  <2>1. configs' \in [Entries -> ConfigKey]
    BY <1>5, RowTypes, Zenon DEF publishRelease, TypeOK
  <2>2. released' \in [Entries -> ConfigKey]
    BY <1>5, <2>1 DEF publishRelease, TypeOK
  <2>3. MaxReleaseVersion(ns) = Len(releases[ns])
    BY HighestRelease
  <2>4. /\ releases' \in [Namespaces -> Seq(Nat)]
        /\ ReleaseNumbers'
    BY <1>5, <2>3 DEF publishRelease, TypeOK, ReleaseNumbers
  <2> QED
    BY <1>5, <2>1, <2>2, <2>4 DEF publishRelease, TypeOK
<1>6. ASSUME NEW t \in Threads, createConfig(t)
      PROVE  TypeInv'
  <2> DEFINE e == local[t].entry
             value == local[t].value
  <2>1. local[t] \in Local /\ e \in Entries /\ value \in Values \cup {NoValue}
    BY DEF TypeOK, Local
  <2>2. /\ CreatedRow(value) \in ConfigKey
        /\ [local[t] EXCEPT !.cv = CreateVersion(value), !.cl = CreateLog(value)] \in Local
    BY <2>1, Zenon DEF Local, CreatedRow, CreateVersion, CreateLog, ConfigKey, ConfigVersion, ChangeLog
  <2> HIDE DEF e, value
  <2>3. \/ ReturnFalse(t)
        \/ /\ configs' = [configs EXCEPT ![e] = CreatedRow(value)]
           /\ Lock(t)
           /\ Goto(t, "insertVersion",
                   [local[t] EXCEPT !.cv = CreateVersion(value), !.cl = CreateLog(value)])
    BY <1>6 DEF createConfig, e, value
  <2>4. UNCHANGED <<config_versions, change_logs, releases, released, faults>>
    BY <1>6 DEF createConfig
  <2> QED
    BY <2>1, <2>2, <2>3, <2>4, RowStepType
<1>7. ASSUME NEW t \in Threads, updateConfig(t)
      PROVE  TypeInv'
  <2> DEFINE e == local[t].entry
             value == local[t].value
             draft == local[t].draft
  <2>1. /\ local[t] \in Local
        /\ e \in Entries
        /\ value \in Values \cup {NoValue}
        /\ draft \in BOOLEAN
    BY DEF TypeOK, Local
  <2>2. configs[e] \in ConfigKey
    BY <2>1 DEF TypeOK
  <2> HIDE DEF e, value, draft
  <2>3. /\ UpdatedRow(configs[e], value, draft) \in ConfigKey
        /\ UpdateVersion(configs[e], value) \in ConfigVersion
        /\ UpdateLog(configs[e], value) \in ChangeLog
    BY <2>1, <2>2, RowTypes
  <2>4. [local[t] EXCEPT !.cv = UpdateVersion(configs[e], value),
                         !.cl = UpdateLog(configs[e], value)] \in Local
    BY <2>1, <2>3, Zenon DEF Local
  <2>5. \/ ReturnFalse(t)
        \/ /\ configs' = [configs EXCEPT ![e] = UpdatedRow(configs[e], value, draft)]
           /\ Lock(t)
           /\ Goto(t, "insertVersion",
                   [local[t] EXCEPT !.cv = UpdateVersion(configs[e], value),
                                    !.cl = UpdateLog(configs[e], value)])
    BY <1>7 DEF updateConfig, e, value, draft
  <2>6. UNCHANGED <<config_versions, change_logs, releases, released, faults>>
    BY <1>7 DEF updateConfig
  <2> QED
    BY <2>1, <2>3, <2>4, <2>5, <2>6, RowStepType
<1>8. ASSUME NEW t \in Threads, insertVersion(t)
      PROVE  TypeInv'
  <2>1. local[t].cv \in ConfigVersion /\ local[t].entry \in Entries /\ local[t] \in Local
    BY DEF TypeOK, Local
  <2>2. IdOf(local[t].entry) \in ConfigIds
    BY <2>1 DEF ConfigIds
  <2>3. config_versions' \in [ConfigIds -> Seq(ConfigVersion)]
    BY <1>8, <2>1, <2>2 DEF insertVersion, TypeOK
  <2> QED
    BY <1>8, <2>1, <2>3 DEF insertVersion, TypeOK, ReleaseNumbers
<1>9. ASSUME NEW t \in Threads, insertLog(t)
      PROVE  TypeInv'
  <2>1. local[t].cl \in ChangeLog /\ local[t].entry \in Entries
    BY DEF TypeOK, Local
  <2>2. change_logs' \in [Entries -> Seq(ChangeLog)]
    BY <1>9, <2>1 DEF insertLog, TypeOK
  <2> QED
    BY <1>9, <2>2 DEF insertLog, TypeOK, ReleaseNumbers
<1>10. ASSUME NEW t \in Threads, StatementFails(t)
       PROVE  TypeInv'
  BY <1>10 DEF StatementFails, TypeOK, ReleaseNumbers
<1>11. CASE initialize
  BY <1>11 DEF initialize, TypeOK, ReleaseNumbers
<1>12. CASE UNCHANGED vars
  BY <1>12 DEF vars, TypeOK, ReleaseNumbers
<1> QED
  BY NextCases, <1>1, <1>2, <1>3, <1>4, <1>5, <1>6, <1>7, <1>8, <1>9, <1>10, <1>11, <1>12, Zenon

(* Every table row, local variable and release number has its type, and    *)
(* publishRelease numbers the releases of each namespace 1, 2, 3...        *)
THEOREM TypeCorrect == Spec => [](TypeOK /\ ReleaseNumbers)
BY TypeInit, TypeStep, PTL DEF Spec, TypeInv

-----------------------------------------------------------------------------
(* What clients are served.                                                *)

(* No caller has passed draft = false.                                     *)
DraftCalls == \A t \in Threads : local[t].draft = TRUE

(* ServedIsReleased in terms of the live rows: the inductive form, since   *)
(* it does not depend on what an absent row looks like.                    *)
LiveIsReleased ==
    \A e \in Entries : configs[e].status = "live" =>
        configs[e] = released[e] /\ releases[e[1]] # <<>>

ServedInv == DraftCalls /\ LiveIsReleased

(* Rows that are live are released, hence what is served is.               *)
LEMMA ServedRows ==
    ASSUME TypeOK, LiveIsReleased
    PROVE  ServedIsReleased
<1>1. \A e \in Entries : configs[e] \in ConfigKey
  BY DEF TypeOK
<1>2. \A row \in ConfigKey : /\ ~Absent(VisibleRow(row, FALSE)) => row.status = "live"
                             /\ row.status = "live" => VisibleRow(row, FALSE) = row
  BY DEF VisibleRow, NoRow, ConfigKey
<1> QED
  BY <1>1, <1>2, Zenon DEF ServedIsReleased, LiveIsReleased, getConfig, GetConfig

(* Every step preserves ServedInv when callers write drafts.               *)
LEMMA ServedStep ==
    ASSUME DraftFlags \subseteq {TRUE}
    PROVE  TypeInv /\ ServedInv /\ [Next]_vars => ServedInv'
<1> SUFFICES ASSUME TypeOK, ServedInv, [Next]_vars PROVE ServedInv'
  BY DEF TypeInv
<1> USE DEF ServedInv, DraftCalls
<1>1. \A t \in Threads : NoCall.draft = TRUE
  BY DEF NoCall, Call
<1>2. ASSUME NEW t \in Threads, NEW e \in Entries, NEW value \in Values,
             addDraftChange(t, e, value)
      PROVE  ServedInv'
  BY <1>2 DEF addDraftChange, TypeOK, Call, LiveIsReleased
<1>3. ASSUME NEW t \in Threads, NEW e \in Entries, NEW target \in Nat,
             rollbackConfig(t, e, target)
      PROVE  ServedInv'
  BY <1>3 DEF rollbackConfig, TypeOK, Call, LiveIsReleased
<1>4. ASSUME NEW t \in Threads, NEW e \in Entries, NEW value \in Values,
             NEW draft \in DraftFlags, CallUpdate(t, e, value, draft)
      PROVE  ServedInv'
  BY <1>4, Zenon DEF CallUpdate, TypeOK, Call, LiveIsReleased
<1>5. ASSUME NEW t \in Threads, NEW e \in Entries, NEW draft \in DraftFlags \cup {TRUE},
             deleteConfig(t, e, draft)
      PROVE  ServedInv'
  <2>1. DraftCalls'
    BY <1>5, Zenon DEF deleteConfig, TypeOK, Call
  <2>2. LiveIsReleased'
    BY <1>5 DEF deleteConfig, TypeOK, RemovedRow, NoRow, LiveIsReleased
  <2> QED
    BY <2>1, <2>2
<1>6. ASSUME NEW t \in Threads, NEW ns \in Namespaces, publishRelease(t, ns)
      PROVE  ServedInv'
  <2>1. releases'[ns] # <<>>
    BY <1>6 DEF publishRelease, TypeOK
  <2>2. \A n \in Namespaces : n # ns => releases'[n] = releases[n]
    BY <1>6 DEF publishRelease, TypeOK
  <2>3. \A e \in Entries : e[1] \in Namespaces
    BY DEF Entries
  <2>4. \A e \in Entries : /\ e[1] = ns => configs'[e] = released'[e]
                           /\ e[1] # ns => /\ configs'[e] = configs[e]
                                           /\ released'[e] = released[e]
    BY <1>6 DEF publishRelease
  <2>5. LiveIsReleased'
    BY <2>1, <2>2, <2>3, <2>4 DEF LiveIsReleased
  <2> QED
    BY <1>6, <2>5 DEF publishRelease
<1>7. ASSUME NEW t \in Threads, createConfig(t)
      PROVE  ServedInv'
  <2> DEFINE e == local[t].entry
             value == local[t].value
             call == [local[t] EXCEPT !.cv = CreateVersion(value), !.cl = CreateLog(value)]
  <2>1. e \in Entries /\ call.draft = TRUE /\ CreatedRow(value).status = "draft"
    BY DEF TypeOK, Local, CreatedRow
  <2> HIDE DEF e, value, call
  <2>2. /\ configs' = configs \/ configs' = [configs EXCEPT ![e] = CreatedRow(value)]
        /\ \E c \in {NoCall, call} : local' = [local EXCEPT ![t] = c]
        /\ UNCHANGED <<releases, released>>
    BY <1>7 DEF createConfig, e, value, call
  <2>3. DraftCalls'
    BY <1>1, <2>1, <2>2 DEF TypeOK
  <2>4. LiveIsReleased'
    BY <2>1, <2>2, Zenon DEF TypeOK, LiveIsReleased
  <2> QED
    BY <2>3, <2>4
<1>8. ASSUME NEW t \in Threads, updateConfig(t)
      PROVE  ServedInv'
  <2> DEFINE e == local[t].entry
             value == local[t].value
             call == [local[t] EXCEPT !.cv = UpdateVersion(configs[e], value),
                         !.cl = UpdateLog(configs[e], value)]
  <2>1. e \in Entries /\ call.draft = TRUE /\ UpdatedRow(configs[e], value, TRUE).status = "draft"
    BY DEF TypeOK, Local, UpdatedRow
  <2> HIDE DEF e, value, call
  <2>2. /\ configs' = configs \/ configs' = [configs EXCEPT ![e] = UpdatedRow(configs[e], value, TRUE)]
        /\ \E c \in {NoCall, call} : local' = [local EXCEPT ![t] = c]
        /\ UNCHANGED <<releases, released>>
    BY <1>8, Zenon DEF updateConfig, e, value, call
  <2>3. DraftCalls'
    BY <1>1, <2>1, <2>2 DEF TypeOK
  <2>4. LiveIsReleased'
    BY <2>1, <2>2, Zenon DEF TypeOK, LiveIsReleased
  <2> QED
    BY <2>3, <2>4
<1>9. ASSUME NEW t \in Threads, insertVersion(t) \/ insertLog(t) \/ StatementFails(t)
      PROVE  ServedInv'
  BY <1>1, <1>9, Zenon DEF insertVersion, insertLog, StatementFails, TypeOK, LiveIsReleased
<1>10. CASE initialize
  BY <1>1, <1>10 DEF initialize, LiveIsReleased
<1>11. CASE UNCHANGED vars
  BY <1>11 DEF vars, LiveIsReleased
<1> QED
  BY NextCases, <1>2, <1>3, <1>4, <1>5, <1>6, <1>7, <1>8, <1>9, <1>10, <1>11, Zenon

(* As long as callers pass draft = true (every handler does), getConfig    *)
(* without drafts answers with exactly what the last publishRelease of the *)
(* namespace published, whatever threads interleave and whenever the       *)
(* process stops or a statement fails.                                     *)
THEOREM ServedReleased ==
    ASSUME DraftFlags \subseteq {TRUE}
    PROVE  Spec => []ServedIsReleased
<1>1. Init => ServedInv
  BY DEF Init, ServedInv, DraftCalls, LiveIsReleased, NoCall, Call, NoRow
<1>2. TypeInv /\ ServedInv /\ [Next]_vars => ServedInv'
  BY ServedStep, Zenon
<1>3. TypeInv /\ ServedInv => ServedIsReleased
  BY ServedRows DEF TypeInv, ServedInv
<1> QED
  BY <1>1, <1>2, <1>3, TypeInit, TypeStep, PTL DEF Spec
-----------------------------------------------------------------------------
(* The version history.                                                    *)

(* The thread between the statements of a write is the holder of mutex_.   *)
MutexInv ==
    \A t \in Threads : pc[t] \in {"insertVersion", "insertLog"} <=> mutex = t

Last(e) == config_versions[IdOf(e)][Len(config_versions[IdOf(e)])]

(* The version about to be inserted describes the row already written and  *)
(* continues the history.                                                  *)
Pending ==
    \A t \in Threads : pc[t] = "insertVersion" =>
        LET e == local[t].entry
            cv == local[t].cv
        IN  /\ cv.version = configs[e].version
            /\ cv.value = configs[e].value
            /\ \/ cv.change_type = "create" /\ cv.version = 1
               \/ /\ cv.change_type = "update"
                  /\ config_versions[IdOf(e)] # <<>>
                  /\ cv.version = Last(e).version + 1

HistoryInv == MutexInv /\ Pending /\ HeadRecorded /\ VersionChain

(* Every step preserves MutexInv.                                          *)
LEMMA MutexStep == TypeOK /\ MutexInv /\ [Next]_vars => MutexInv'
<1> SUFFICES ASSUME TypeOK, MutexInv, [Next]_vars PROVE MutexInv'
  OBVIOUS
<1> USE StoreAssumption DEF TypeOK, MutexInv
<1>1. ASSUME NEW t \in Threads, NEW e \in Entries, NEW value \in Values,
             addDraftChange(t, e, value)
      PROVE  MutexInv'
  BY <1>1 DEF addDraftChange
<1>2. ASSUME NEW t \in Threads, NEW e \in Entries, NEW target \in Nat,
             rollbackConfig(t, e, target)
      PROVE  MutexInv'
  BY <1>2 DEF rollbackConfig
<1>3. ASSUME NEW t \in Threads, NEW e \in Entries, NEW value \in Values,
             NEW draft \in DraftFlags, CallUpdate(t, e, value, draft)
      PROVE  MutexInv'
  BY <1>3 DEF CallUpdate
<1>4. ASSUME NEW t \in Threads, NEW e \in Entries, NEW draft \in DraftFlags \cup {TRUE},
             deleteConfig(t, e, draft)
      PROVE  MutexInv'
  BY <1>4 DEF deleteConfig
<1>5. ASSUME NEW t \in Threads, NEW ns \in Namespaces, publishRelease(t, ns)
      PROVE  MutexInv'
  BY <1>5 DEF publishRelease
<1>6. ASSUME NEW t \in Threads, createConfig(t) \/ updateConfig(t)
      PROVE  MutexInv'
  BY <1>6 DEF createConfig, updateConfig
<1>7. ASSUME NEW t \in Threads, insertVersion(t) \/ insertLog(t) \/ StatementFails(t)
      PROVE  MutexInv'
  BY <1>7 DEF insertVersion, insertLog, StatementFails
<1>8. CASE initialize
  BY <1>8 DEF initialize
<1>9. CASE UNCHANGED vars
  BY <1>9 DEF vars
<1> QED
  BY NextCases, <1>1, <1>2, <1>3, <1>4, <1>5, <1>6, <1>7, <1>8, <1>9, Zenon

(* A step that leaves the rows' versions and values, the history and the   *)
(* writers before their version insertion alone keeps the history right.   *)
LEMMA HistoryFrame ==
    ASSUME TypeOK, TypeOK', HistoryInv, MutexInv',
           \A e \in Entries : /\ ~Absent(configs'[e]) => ~Absent(configs[e])
                              /\ \/ Absent(configs'[e]) /\ mutex = NoThread
                                 \/ /\ configs'[e].version = configs[e].version
                                    /\ configs'[e].value = configs[e].value,
           config_versions' = config_versions,
           \A t \in Threads : pc'[t] = "insertVersion" \/ pc[t] = "insertVersion" =>
               pc'[t] = pc[t] /\ local'[t] = local[t]
    PROVE  HistoryInv'
<1>1. \A t \in Threads : local[t].entry \in Entries
  BY DEF TypeOK, Local
<1>2. \A t \in Threads : pc[t] = "insertVersion" => mutex = t /\ mutex # NoThread
  BY StoreAssumption DEF HistoryInv, MutexInv
<1>3. \A e \in Entries : BeforeVersion(e)' <=> BeforeVersion(e)
  BY DEF BeforeVersion
<1>4. Pending'
  BY <1>1, <1>2 DEF HistoryInv, Pending, Last
<1>5. HeadRecorded'
  BY <1>3 DEF HistoryInv, HeadRecorded
<1>6. VersionChain'
  BY DEF HistoryInv, VersionChain
<1> QED
  BY <1>4, <1>5, <1>6 DEF HistoryInv

(* Every step without faults preserves HistoryInv.                         *)
LEMMA HistoryStep ==
    ASSUME DistinctConfigIds, MaxFaults = 0
    PROVE  TypeInv /\ TypeInv' /\ HistoryInv /\ [Next]_vars => HistoryInv'
<1> SUFFICES ASSUME TypeOK, TypeOK', HistoryInv, [Next]_vars PROVE HistoryInv'
  BY DEF TypeInv
<1> USE MutexStep DEF HistoryInv
<1>1. ASSUME NEW t \in Threads, NEW e \in Entries, NEW value \in Values,
             addDraftChange(t, e, value)
      PROVE  HistoryInv'
  BY <1>1, HistoryFrame, Zenon DEF addDraftChange, TypeOK
<1>2. ASSUME NEW t \in Threads, NEW e \in Entries, NEW target \in Nat,
             rollbackConfig(t, e, target)
      PROVE  HistoryInv'
  BY <1>2, HistoryFrame, Zenon DEF rollbackConfig, TypeOK
<1>3. ASSUME NEW t \in Threads, NEW e \in Entries, NEW value \in Values,
             NEW draft \in DraftFlags, CallUpdate(t, e, value, draft)
      PROVE  HistoryInv'
  BY <1>3, HistoryFrame DEF CallUpdate, TypeOK
<1>4. ASSUME NEW t \in Threads, NEW e \in Entries, NEW draft \in DraftFlags \cup {TRUE},
             deleteConfig(t, e, draft)
      PROVE  HistoryInv'
  BY <1>4, HistoryFrame DEF deleteConfig, TypeOK, RemovedRow, NoRow
<1>5. ASSUME NEW t \in Threads, NEW ns \in Namespaces, publishRelease(t, ns)
      PROVE  HistoryInv'
  <2>1. \A e \in Entries : /\ ~Absent(configs'[e]) => ~Absent(configs[e])
                           /\ configs'[e].version = configs[e].version
                           /\ configs'[e].value = configs[e].value
    BY <1>5 DEF publishRelease, TypeOK, PublishedRow, ConfigKey
  <2> QED
    BY <1>5, <2>1, HistoryFrame DEF publishRelease
<1>6. ASSUME NEW t \in Threads, createConfig(t)
      PROVE  HistoryInv'
  <2>1. PICK e \in Entries : e = local[t].entry
    BY DEF TypeOK, Local
  <2> DEFINE value == local[t].value
             cv == CreateVersion(value)
             call == [local[t] EXCEPT !.cv = cv, !.cl = CreateLog(value)]
  <2>2. CASE ReturnFalse(t)
    <3>1. UNCHANGED <<configs, config_versions>> /\ pc[t] # "insertVersion"
      BY <1>6, <2>2 DEF createConfig
    <3> QED
      BY <2>2, <3>1, HistoryFrame DEF TypeOK
  <2>3. CASE ~ReturnFalse(t)
    <3>1. /\ Absent(configs[e])
          /\ mutex = NoThread
          /\ configs' = [configs EXCEPT ![e] = CreatedRow(value)]
          /\ pc' = [pc EXCEPT ![t] = "insertVersion"]
          /\ config_versions' = config_versions
      BY <1>6, <2>1, <2>3 DEF createConfig
    <3>2. /\ local'[t].cv = cv
          /\ local'[t].entry = e
      <4>1. local' = [local EXCEPT ![t] = call]
        BY <1>6, <2>1, <2>3 DEF createConfig
      <4>2. call.cv = cv /\ call.entry = e
        BY <2>1 DEF TypeOK, Local
      <4> QED
        BY <4>1, <4>2 DEF TypeOK
    <3>3. \A u \in Threads : pc[u] # "insertVersion"
      BY <3>1, StoreAssumption DEF HistoryInv, MutexInv
    <3>4. \A f \in Entries : ~BeforeVersion(f)
      BY <3>3 DEF BeforeVersion
    <3>5. BeforeVersion(e)'
      BY <3>1, <3>2, SMTT(30) DEF BeforeVersion, TypeOK
    <3>6. Pending'
      <4>1. \A u \in Threads : pc'[u] = "insertVersion" => u = t
        BY <3>1, <3>3, SMTT(30) DEF TypeOK
      <4>2. /\ cv.version = configs'[e].version
            /\ cv.value = configs'[e].value
        BY <2>1, <3>1 DEF TypeOK, CreatedRow, CreateVersion
      <4>3. cv.change_type = "create" /\ cv.version = 1
        BY DEF CreateVersion
      <4> HIDE DEF cv
      <4> QED
        BY <3>1, <3>2, <4>1, <4>2, <4>3 DEF Pending, Last
    <3>7. HeadRecorded'
      <4>1. \A f \in Entries : ~BeforeVersion(f)' => f # e /\ configs'[f] = configs[f]
        BY <3>1, <3>5 DEF TypeOK
      <4> QED
        BY <4>1, <3>1, <3>4 DEF HistoryInv, HeadRecorded
    <3>8. VersionChain'
      BY <3>1 DEF HistoryInv, VersionChain
    <3> QED
      BY <3>6, <3>7, <3>8 DEF HistoryInv
  <2> QED
    BY <2>2, <2>3
<1>7. ASSUME NEW t \in Threads, updateConfig(t)
      PROVE  HistoryInv'
  <2>1. PICK e \in Entries : e = local[t].entry
    BY DEF TypeOK, Local
  <2> DEFINE value == local[t].value
             cv == UpdateVersion(configs[e], value)
             call == [local[t] EXCEPT !.cv = cv, !.cl = UpdateLog(configs[e], value)]
  <2>2. CASE ReturnFalse(t)
    <3>1. UNCHANGED <<configs, config_versions>> /\ pc[t] # "insertVersion"
      BY <1>7, <2>2 DEF updateConfig
    <3> QED
      BY <2>2, <3>1, HistoryFrame DEF TypeOK
  <2>3. CASE ~ReturnFalse(t)
    <3>1. /\ ~Absent(configs[e])
          /\ mutex = NoThread
          /\ configs' = [configs EXCEPT ![e] = UpdatedRow(configs[e], value, local[t].draft)]
          /\ pc' = [pc EXCEPT ![t] = "insertVersion"]
          /\ config_versions' = config_versions
      BY <1>7, <2>1, <2>3 DEF updateConfig
    <3>2. /\ local'[t].cv = cv
          /\ local'[t].entry = e
      <4>1. local' = [local EXCEPT ![t] = call]
        BY <1>7, <2>1, <2>3 DEF updateConfig
      <4>2. call.cv = cv /\ call.entry = e
        BY <2>1 DEF TypeOK, Local
      <4> QED
        BY <4>1, <4>2 DEF TypeOK
    <3>3. \A u \in Threads : pc[u] # "insertVersion"
      BY <3>1, StoreAssumption DEF HistoryInv, MutexInv
    <3>4. \A f \in Entries : ~BeforeVersion(f)
      BY <3>3 DEF BeforeVersion
    <3>5. BeforeVersion(e)'
      BY <3>1, <3>2, SMTT(30) DEF BeforeVersion, TypeOK
    <3>6. Pending'
      <4>1. \A u \in Threads : pc'[u] = "insertVersion" => u = t
        BY <3>1, <3>3 DEF TypeOK
      <4>2. /\ cv.version = configs'[e].version
            /\ cv.value = configs'[e].value
        BY <2>1, <3>1, SMTT(30) DEF TypeOK, UpdatedRow, UpdateVersion
      <4>3. /\ cv.change_type = "update"
            /\ config_versions[IdOf(e)] # <<>>
            /\ cv.version = Last(e).version + 1
        BY <2>1, <3>1, <3>4, SMTT(30) DEF HeadRecorded, Last, UpdateVersion
      <4> HIDE DEF cv
      <4> QED
        BY <3>1, <3>2, <4>1, <4>2, <4>3 DEF Pending, Last
    <3>7. HeadRecorded'
      <4>1. \A f \in Entries : ~BeforeVersion(f)' => f # e /\ configs'[f] = configs[f]
        BY <3>1, <3>5 DEF TypeOK
      <4> QED
        BY <4>1, <3>1, <3>4 DEF HistoryInv, HeadRecorded
    <3>8. VersionChain'
      BY <3>1 DEF HistoryInv, VersionChain
    <3> QED
      BY <3>6, <3>7, <3>8 DEF HistoryInv
  <2> QED
    BY <2>2, <2>3
<1>8. ASSUME NEW t \in Threads, insertVersion(t)
      PROVE  HistoryInv'
  <2> DEFINE e == local[t].entry
             id == IdOf(e)
             cv == local[t].cv
             old == config_versions[id]
  <2>1. e \in Entries /\ id \in ConfigIds /\ cv \in ConfigVersion
    BY DEF TypeOK, Local, ConfigIds
  <2>2. old \in Seq(ConfigVersion)
    BY <2>1 DEF TypeOK
  <2>3. /\ config_versions' = [config_versions EXCEPT ![id] = Append(old, cv)]
        /\ pc[t] = "insertVersion"
        /\ pc' = [pc EXCEPT ![t] = "insertLog"]
        /\ configs' = configs
    BY <1>8 DEF insertVersion
  <2>4. \A u \in Threads : pc'[u] # "insertVersion"
    BY <2>3 DEF MutexInv, TypeOK
  <2>5. \A u \in Threads : pc[u] = "insertVersion" => u = t
    BY <2>3, SMTT(30) DEF MutexInv
  <2>6. /\ cv.version = configs[e].version
        /\ cv.value = configs[e].value
        /\ \/ cv.change_type = "create" /\ cv.version = 1
           \/ /\ cv.change_type = "update"
              /\ old # <<>>
              /\ cv.version = old[Len(old)].version + 1
    BY <2>3 DEF Pending, Last
  <2>7. Pending'
    BY <2>4 DEF Pending
  <2>8. HeadRecorded'
    <3>1. \A f \in Entries : f # e => IdOf(f) # id /\ ~BeforeVersion(f)
      BY <2>1, <2>5 DEF DistinctConfigIds, BeforeVersion
    <3>2. \A f \in Entries : f # e => config_versions'[IdOf(f)] = config_versions[IdOf(f)]
      BY <2>3, <3>1, Zenon DEF TypeOK, ConfigIds
    <3>3. config_versions'[id] = Append(old, cv)
      BY <2>1, <2>3 DEF TypeOK
    <3> HIDE DEF e, id, cv, old
    <3>4. /\ Append(old, cv) # <<>>
          /\ Append(old, cv)[Len(Append(old, cv))] = cv
      BY <2>1, <2>2
    <3>5. \A f \in Entries : f # e /\ ~Absent(configs[f]) =>
              LET history == config_versions[IdOf(f)]
              IN  /\ history # <<>>
                  /\ history[Len(history)].version = configs[f].version
                  /\ history[Len(history)].value = configs[f].value
      BY <3>1 DEF HeadRecorded
    <3> QED
      BY <2>3, <2>6, <3>2, <3>3, <3>4, <3>5, ZenonT(30) DEF HeadRecorded, id
  <2>9. VersionChain'
    <3> HIDE DEF e, cv, old
    <3>1. \A i \in ConfigIds : i # id => config_versions'[i] = config_versions[i]
      BY <2>3 DEF TypeOK
    <3>2. ASSUME NEW k \in DOMAIN Append(old, cv)
          PROVE  LET new == Append(old, cv)
                 IN  \/ new[k].change_type = "create" /\ new[k].version = 1
                     \/ /\ new[k].change_type = "update"
                        /\ k > 1
                        /\ new[k].version = new[k - 1].version + 1
      <4>1. CASE k = Len(old) + 1
        BY <2>1, <2>2, <2>6, <4>1
      <4>2. CASE k \in DOMAIN old
        BY <2>1, <2>2, <4>2 DEF VersionChain, old
      <4> QED
        BY <2>1, <2>2, <4>1, <4>2
    <3>3. config_versions'[id] = Append(old, cv)
      BY <2>1, <2>3 DEF TypeOK
    <3> HIDE DEF id
    <3>4. ASSUME NEW i \in ConfigIds, NEW k \in DOMAIN config_versions'[i]
          PROVE  LET new == config_versions'[i]
                 IN  \/ new[k].change_type = "create" /\ new[k].version = 1
                     \/ /\ new[k].change_type = "update"
                        /\ k > 1
                        /\ new[k].version = new[k - 1].version + 1
      <4>1. CASE i = id
        BY <3>2, <3>3, <4>1, Zenon
      <4>2. CASE i # id
        BY <3>1, <4>2, SMTT(30) DEF VersionChain
      <4> QED
        BY <4>1, <4>2
    <3> QED
      BY <3>4 DEF VersionChain
  <2> QED
    BY <2>7, <2>8, <2>9
<1>9. ASSUME NEW t \in Threads, insertLog(t)
      PROVE  HistoryInv'
  BY <1>9, HistoryFrame DEF insertLog, TypeOK
<1>10. ASSUME NEW t \in Threads, StatementFails(t)
       PROVE  HistoryInv'
  BY <1>10 DEF StatementFails, TypeOK
<1>11. CASE initialize
  BY <1>11 DEF initialize, TypeOK
<1>12. CASE UNCHANGED vars
  BY <1>12, HistoryFrame DEF vars
<1> QED
  BY NextCases, <1>1, <1>2, <1>3, <1>4, <1>5, <1>6, <1>7, <1>8, <1>9, <1>10, <1>11, <1>12, Zenon

(* HistoryInv holds in every reachable state.                              *)
LEMMA HistoryAlways ==
    ASSUME DistinctConfigIds, MaxFaults = 0
    PROVE  Spec => [](TypeInv /\ HistoryInv)
<1>1. Init => HistoryInv
  BY StoreAssumption DEF Init, HistoryInv, MutexInv, Pending, HeadRecorded,
                         VersionChain, NoRow
<1>2. TypeInv /\ TypeInv' /\ HistoryInv /\ [Next]_vars => HistoryInv'
  BY HistoryStep
<1> QED
  BY <1>1, <1>2, TypeInit, TypeStep, PTL DEF Spec

(* While no two entries share a config id and no statement fails, the row  *)
(* of every key is the last version of its history: what getConfig and     *)
(* getConfigVersions answer agree, for any number of threads and keys.     *)
THEOREM HistoryComplete ==
    ASSUME DistinctConfigIds, MaxFaults = 0
    PROVE  Spec => []HeadRecorded
BY HistoryAlways, PTL DEF HistoryInv

(* Under the same assumptions every version continues the one before it:   *)
(* the history that rollbacks and the version queries rely on has no gap,  *)
(* no repetition and no version out of order.                              *)
THEOREM VersionsChained ==
    ASSUME DistinctConfigIds, MaxFaults = 0
    PROVE  Spec => []VersionChain
BY HistoryAlways, PTL DEF HistoryInv

-----------------------------------------------------------------------------
(* Rollback.                                                               *)

(* The value a rollback has read is in the history under its target.       *)
ReadTarget ==
    \A t \in Threads :
        pc[t] = "update" /\ local[t].target # 0 =>
            \E i \in DOMAIN config_versions[IdOf(local[t].entry)] :
                LET cv == config_versions[IdOf(local[t].entry)][i]
                IN  cv.version = local[t].target /\ cv.value = local[t].value

(* What a sequence has, it keeps when it is extended.                      *)
LEMMA AppendKeeps ==
    ASSUME NEW S, NEW s \in Seq(S), NEW x \in S, NEW i \in DOMAIN s
    PROVE  i \in DOMAIN Append(s, x) /\ Append(s, x)[i] = s[i]
<1>1. i \in 1..Len(s) /\ Len(s) \in Nat
  OBVIOUS
<1>2. DOMAIN Append(s, x) = 1..(Len(s) + 1)
  OBVIOUS
<1>3. Append(s, x)[i] = s[i]
  BY <1>1
<1> QED
  BY <1>1, <1>2, <1>3

(* Versions are never rewritten or removed.                                *)
LEMMA HistoryGrows ==
    ASSUME TypeOK, [Next]_vars, NEW id \in ConfigIds, NEW i \in DOMAIN config_versions[id]
    PROVE  i \in DOMAIN config_versions'[id] /\ config_versions'[id][i] = config_versions[id][i]
<1>1. ASSUME NEW t \in Threads, insertVersion(t)
      PROVE  i \in DOMAIN config_versions'[id] /\ config_versions'[id][i] = config_versions[id][i]
  <2>1. local[t].cv \in ConfigVersion
    BY DEF TypeOK, Local
  <2>2. config_versions' = [config_versions EXCEPT
            ![IdOf(local[t].entry)] = Append(config_versions[IdOf(local[t].entry)], local[t].cv)]
    BY <1>1 DEF insertVersion
  <2>3. \/ config_versions'[id] = config_versions[id]
        \/ config_versions'[id] = Append(config_versions[id], local[t].cv)
    BY <2>2 DEF TypeOK
  <2>4. config_versions[id] \in Seq(ConfigVersion)
    BY DEF TypeOK
  <2>5. /\ i \in DOMAIN Append(config_versions[id], local[t].cv)
        /\ Append(config_versions[id], local[t].cv)[i] = config_versions[id][i]
    BY <2>1, <2>4, AppendKeeps
  <2> QED
    BY <2>3, <2>5
<1>2. CASE ~\E t \in Threads : insertVersion(t)
  <2>1. config_versions' = config_versions
    BY <1>2, NextCases, ZenonT(30) DEF addDraftChange, rollbackConfig, CallUpdate, deleteConfig,
       publishRelease, createConfig, updateConfig, insertLog, StatementFails, initialize, vars
  <2> QED
    BY <2>1
<1> QED
  BY <1>1, <1>2

(* Every step preserves ReadTarget.                                        *)
LEMMA ReadTargetStep == TypeInv /\ ReadTarget /\ [Next]_vars => ReadTarget'
<1> SUFFICES ASSUME TypeOK, ReadTarget, [Next]_vars,
                    NEW t \in Threads, pc'[t] = "update", local'[t].target # 0
             PROVE  \E i \in DOMAIN config_versions'[IdOf(local'[t].entry)] :
                      LET cv == config_versions'[IdOf(local'[t].entry)][i]
                      IN  cv.version = local'[t].target /\ cv.value = local'[t].value
  BY SMTT(30) DEF TypeInv, ReadTarget
<1>1. CASE pc[t] = "update" /\ local'[t] = local[t]
  <2>1. IdOf(local[t].entry) \in ConfigIds
    BY DEF TypeOK, Local, ConfigIds
  <2> QED
    BY <1>1, <2>1, HistoryGrows DEF ReadTarget
<1>2. CASE ~(pc[t] = "update" /\ local'[t] = local[t])
  <2>1. PICK e \in Entries, target \in Nat : rollbackConfig(t, e, target)
    <3>1. ASSUME NEW u \in Threads, NEW e \in Entries, NEW value \in Values,
                 addDraftChange(u, e, value)
          PROVE  FALSE
      BY <1>2, <3>1, Zenon DEF addDraftChange, Call, TypeOK
    <3>2. ASSUME NEW u \in Threads, NEW e \in Entries, NEW value \in Values,
                 NEW draft \in DraftFlags, CallUpdate(u, e, value, draft)
          PROVE  FALSE
      BY <1>2, <3>2 DEF CallUpdate, Call, TypeOK
    <3>3. ASSUME NEW u \in Threads, NEW e \in Entries, NEW draft \in DraftFlags \cup {TRUE},
                 deleteConfig(u, e, draft)
          PROVE  FALSE
      BY <1>2, <3>3 DEF deleteConfig, TypeOK
    <3>4. ASSUME NEW u \in Threads, NEW ns \in Namespaces, publishRelease(u, ns)
          PROVE  FALSE
      BY <1>2, <3>4 DEF publishRelease
    <3>5. ASSUME NEW u \in Threads, createConfig(u) \/ updateConfig(u)
          PROVE  FALSE
      BY <1>2, <3>5 DEF createConfig, updateConfig, TypeOK
    <3>6. ASSUME NEW u \in Threads, insertVersion(u) \/ insertLog(u) \/ StatementFails(u)
          PROVE  FALSE
      BY <1>2, <3>6, Zenon DEF insertVersion, insertLog, StatementFails, TypeOK
    <3>7. ~initialize /\ ~UNCHANGED vars
      BY <1>2 DEF initialize, vars
    <3>8. PICK u \in Threads, e \in Entries, target \in Nat : rollbackConfig(u, e, target)
      BY NextCases, <3>1, <3>2, <3>3, <3>4, <3>5, <3>6, <3>7, Zenon
    <3>9. u = t
      BY <1>2, <3>8, Zenon DEF rollbackConfig, TypeOK
    <3> QED
      BY <3>8, <3>9
  <2>2. PICK cv \in getConfigVersion(e, target) : local'[t] = Call(e, cv.value, TRUE, target)
    BY <2>1, Zenon DEF rollbackConfig, TypeOK
  <2>3. /\ local'[t].entry = e
        /\ local'[t].value = cv.value
        /\ local'[t].target = target
    BY <2>2 DEF Call
  <2>4. config_versions' = config_versions
    BY <2>1 DEF rollbackConfig
  <2>5. \E i \in DOMAIN config_versions[IdOf(e)] :
            config_versions[IdOf(e)][i] = cv /\ cv.version = target
    BY DEF getConfigVersion
  <2> QED
    BY <2>3, <2>4, <2>5
<1> QED
  BY <1>1, <1>2, SMTT(30)

(* Every rollback writes a value that its key had under the version asked  *)
(* for, for any number of threads, and through crashes and failed          *)
(* statements.                                                             *)
THEOREM RollbackCorrect == Spec => RollbackRestores
<1>1. Init => ReadTarget
  BY DEF Init, ReadTarget
<1>2. TypeInv /\ ReadTarget /\ [Next]_vars => [RollbackStep]_vars
  <2> SUFFICES ASSUME TypeOK, ReadTarget, [Next]_vars, NEW t \in Threads,
                      pc[t] = "update", local[t].target # 0, pc'[t] = "insertVersion"
               PROVE  configs'[local[t].entry].value = local[t].value
    BY DEF TypeInv, ReadTarget, RollbackStep
  <2>1. updateConfig(t)
    BY NextCases, ZenonT(30) DEF addDraftChange, rollbackConfig, CallUpdate, deleteConfig, publishRelease,
       createConfig, updateConfig, insertVersion, insertLog, StatementFails, initialize, vars, TypeOK
  <2>2. local[t].entry \in Entries
    BY DEF TypeOK, Local
  <2>3. configs' = [configs EXCEPT ![local[t].entry] =
                       UpdatedRow(configs[local[t].entry], local[t].value, local[t].draft)]
    BY <2>1 DEF updateConfig, TypeOK
  <2> QED
    BY <2>2, <2>3, SMTT(30) DEF TypeOK, UpdatedRow
<1> QED
  BY <1>1, <1>2, ReadTargetStep, TypeInit, TypeStep, PTL DEF Spec, RollbackRestores

-----------------------------------------------------------------------------
(* SqliteConfigStore implements AtomicConfigStore while no statement fails: *)
(* the write in progress, whose rows only the holder of mutex_ knows, is   *)
(* seen as already done, so a write takes effect at its first statement    *)
(* and its later statements stutter.                                       *)

(* The first statement of createConfig and of updateConfig, when they do   *)
(* not return false.                                                       *)
FirstWrite(t, row, cv, cl) ==
    /\ mutex = NoThread
    /\ mutex' = t
    /\ configs' = [configs EXCEPT ![local[t].entry] = row]
    /\ pc' = [pc EXCEPT ![t] = "insertVersion"]
    /\ local'[t].entry = local[t].entry
    /\ local'[t].cv = cv
    /\ local'[t].cl = cl
    /\ \A u \in Threads : u # t => local'[u] = local[u]
    /\ UNCHANGED <<config_versions, change_logs>>

(* A createConfig that succeeds writes the first row of its key.           *)
LEMMA CreateWrites ==
    ASSUME TypeOK, NEW t \in Threads, createConfig(t), ~ReturnFalse(t)
    PROVE  LET e == local[t].entry
               value == local[t].value
           IN  /\ pc[t] = "create" /\ Absent(configs[e])
               /\ FirstWrite(t, CreatedRow(value),
                             CreateVersion(value), CreateLog(value))
<1> DEFINE e == local[t].entry
           value == local[t].value
           call == [local[t] EXCEPT !.cv = CreateVersion(value),
                                    !.cl = CreateLog(value)]
<1>1. local[t] \in Local
  BY DEF TypeOK
<1>2. local' = [local EXCEPT ![t] = call]
  BY DEF createConfig
<1>3. call.entry = e /\ call.cv = CreateVersion(value) /\ call.cl = CreateLog(value)
  BY <1>1 DEF Local
<1> HIDE DEF call
<1>4. local'[t] = call /\ \A u \in Threads : u # t => local'[u] = local[u]
  BY <1>2 DEF TypeOK
<1> QED
  BY <1>3, <1>4 DEF createConfig, FirstWrite

(* An updateConfig that succeeds writes the next row of its key.           *)
LEMMA UpdateWrites ==
    ASSUME TypeOK, NEW t \in Threads, updateConfig(t), ~ReturnFalse(t)
    PROVE  LET e == local[t].entry
               value == local[t].value
           IN  /\ pc[t] = "update" /\ ~Absent(configs[e])
               /\ FirstWrite(t, UpdatedRow(configs[e], value, local[t].draft),
                             UpdateVersion(configs[e], value), UpdateLog(configs[e], value))
<1> DEFINE e == local[t].entry
           value == local[t].value
           call == [local[t] EXCEPT !.cv = UpdateVersion(configs[e], value),
                                    !.cl = UpdateLog(configs[e], value)]
<1>1. local[t] \in Local
  BY DEF TypeOK
<1>2. local' = [local EXCEPT ![t] = call]
  BY DEF updateConfig
<1>3. call.entry = e /\ call.cv = UpdateVersion(configs[e], value) /\ call.cl = UpdateLog(configs[e], value)
  BY <1>1 DEF Local
<1> HIDE DEF call
<1>4. local'[t] = call /\ \A u \in Threads : u # t => local'[u] = local[u]
  BY <1>2 DEF TypeOK
<1> QED
  BY <1>3, <1>4 DEF updateConfig, FirstWrite

-----------------------------------------------------------------------------
(* Only values that callers passed are ever written.                       *)
WrittenValues ==
    /\ \A id \in ConfigIds : \A i \in DOMAIN config_versions[id] :
          config_versions[id][i].value \in Values
    /\ \A t \in Threads : /\ pc[t] \in {"create", "update"} => local[t].value \in Values
                          /\ pc[t] = "insertVersion" => local[t].cv.value \in Values

(* Every step preserves WrittenValues.                                     *)
LEMMA WrittenValuesStep ==
    TypeInv /\ WrittenValues /\ [Next]_vars => WrittenValues'
<1> SUFFICES ASSUME TypeOK, WrittenValues, [Next]_vars PROVE WrittenValues'
  BY DEF TypeInv
<1>1. ASSUME NEW t \in Threads, NEW e \in Entries, NEW value \in Values,
             addDraftChange(t, e, value)
      PROVE  WrittenValues'
  BY <1>1, Zenon DEF addDraftChange, TypeOK, WrittenValues, Call
<1>2. ASSUME NEW t \in Threads, NEW e \in Entries, NEW target \in Nat,
             rollbackConfig(t, e, target)
      PROVE  WrittenValues'
  <2>1. PICK cv \in getConfigVersion(e, target) :
             Goto(t, "update", Call(e, cv.value, TRUE, target))
    BY <1>2, Zenon DEF rollbackConfig
  <2>2. cv.value \in Values
    BY DEF getConfigVersion, WrittenValues, ConfigIds
  <2> QED
    BY <1>2, <2>1, <2>2, Zenon DEF rollbackConfig, TypeOK, WrittenValues, Call
<1>3. ASSUME NEW t \in Threads, NEW e \in Entries, NEW value \in Values,
             NEW draft \in DraftFlags, CallUpdate(t, e, value, draft)
      PROVE  WrittenValues'
  BY <1>3, Zenon DEF CallUpdate, TypeOK, WrittenValues, Call
<1>4. ASSUME NEW t \in Threads, NEW e \in Entries, NEW draft \in DraftFlags \cup {TRUE},
             deleteConfig(t, e, draft)
      PROVE  WrittenValues'
  BY <1>4 DEF deleteConfig, TypeOK, WrittenValues
<1>5. ASSUME NEW t \in Threads, NEW ns \in Namespaces, publishRelease(t, ns)
      PROVE  WrittenValues'
  BY <1>5 DEF publishRelease, WrittenValues
<1>6. ASSUME NEW t \in Threads, createConfig(t)
      PROVE  WrittenValues'
  <2>1. CASE ReturnFalse(t)
    BY <1>6, <2>1, SMTT(30) DEF createConfig, TypeOK, WrittenValues
  <2>2. CASE ~ReturnFalse(t)
    <3>1. PICK row, cv, cl : FirstWrite(t, row, cv, cl) /\ cv.value \in Values
      <4>1. local[t].value \in Values
        BY <1>6 DEF createConfig, WrittenValues
      <4>2. CreateVersion(local[t].value).value \in Values
        BY <4>1, SMTT(30) DEF CreateVersion
      <4>3. FirstWrite(t, CreatedRow(local[t].value),
                       CreateVersion(local[t].value),
                       CreateLog(local[t].value))
        BY <1>6, <2>2, CreateWrites
      <4> QED
        BY <4>2, <4>3
    <3> QED
      BY <3>1 DEF FirstWrite, WrittenValues, TypeOK
  <2> QED
    BY <2>1, <2>2
<1>7. ASSUME NEW t \in Threads, updateConfig(t)
      PROVE  WrittenValues'
  <2>1. CASE ReturnFalse(t)
    BY <1>7, <2>1, SMTT(30) DEF updateConfig, TypeOK, WrittenValues
  <2>2. CASE ~ReturnFalse(t)
    <3>1. PICK row, cv, cl : FirstWrite(t, row, cv, cl) /\ cv.value \in Values
      <4>1. local[t].value \in Values
        BY <1>7 DEF updateConfig, WrittenValues
      <4>2. UpdateVersion(configs[local[t].entry], local[t].value).value \in Values
        BY <4>1, SMTT(30) DEF UpdateVersion
      <4>3. FirstWrite(t, UpdatedRow(configs[local[t].entry], local[t].value, local[t].draft),
                       UpdateVersion(configs[local[t].entry], local[t].value),
                       UpdateLog(configs[local[t].entry], local[t].value))
        BY <1>7, <2>2, UpdateWrites, SMTT(30)
      <4> QED
        BY <4>2, <4>3
    <3> QED
      BY <3>1 DEF FirstWrite, WrittenValues, TypeOK
  <2> QED
    BY <2>1, <2>2
<1>8. ASSUME NEW t \in Threads, insertVersion(t)
      PROVE  WrittenValues'
  <2>1. /\ local[t].cv \in ConfigVersion
        /\ local[t].cv.value \in Values
    BY <1>8 DEF insertVersion, TypeOK, Local, WrittenValues
  <2>2. \A id \in ConfigIds : \/ config_versions'[id] = config_versions[id]
                              \/ config_versions'[id] = Append(config_versions[id], local[t].cv)
    BY <1>8 DEF insertVersion, TypeOK
  <2>3. \A id \in ConfigIds : config_versions[id] \in Seq(ConfigVersion)
    BY DEF TypeOK
  <2>4. \A id \in ConfigIds : \A i \in DOMAIN config_versions'[id] :
            config_versions'[id][i].value \in Values
    <3> TAKE id \in ConfigIds
    <3>1. CASE config_versions'[id] = config_versions[id]
      BY <3>1 DEF WrittenValues
    <3>2. CASE config_versions'[id] = Append(config_versions[id], local[t].cv)
      BY <2>1, <2>3, <3>2, SMTT(30) DEF WrittenValues
    <3> QED
      BY <2>2, <3>1, <3>2
  <2> QED
    BY <1>8, <2>4, SMTT(30) DEF insertVersion, TypeOK, WrittenValues
<1>9. ASSUME NEW t \in Threads, insertLog(t) \/ StatementFails(t)
      PROVE  WrittenValues'
  BY <1>9, SMTT(30) DEF insertLog, StatementFails, TypeOK, WrittenValues
<1>10. CASE initialize
  BY <1>10 DEF initialize, WrittenValues
<1>11. CASE UNCHANGED vars
  BY <1>11 DEF vars, WrittenValues
<1> QED
  BY NextCases, <1>1, <1>2, <1>3, <1>4, <1>5, <1>6, <1>7, <1>8, <1>9, <1>10, <1>11, Zenon

-----------------------------------------------------------------------------
(* The abstract tables in each phase of a write.                           *)
LEMMA NowFree ==
    ASSUME TypeOK, mutex = NoThread
    PROVE  VersionsNow = config_versions /\ LogsNow = change_logs
BY DEF TypeOK, VersionsNow, LogsNow

(* Before insertVersion a version and a log are still to come.             *)
LEMMA NowBeforeVersion ==
    ASSUME TypeOK, NEW t \in Threads, mutex = t, pc[t] = "insertVersion"
    PROVE  LET e == local[t].entry
           IN  /\ VersionsNow = [config_versions EXCEPT ![IdOf(e)] = Append(@, local[t].cv)]
               /\ LogsNow = [change_logs EXCEPT ![e] = Append(@, local[t].cl)]
BY StoreAssumption, Zenon DEF TypeOK, VersionsNow, LogsNow

(* Before insertLog only a log is still to come.                           *)
LEMMA NowBeforeLog ==
    ASSUME TypeOK, NEW t \in Threads, mutex = t, pc[t] = "insertLog"
    PROVE  /\ VersionsNow = config_versions
           /\ LogsNow = [change_logs EXCEPT ![local[t].entry] = Append(@, local[t].cl)]
BY StoreAssumption, Zenon DEF TypeOK, VersionsNow, LogsNow

(* The same in the state after the step.                                   *)
LEMMA NowFreeNext ==
    ASSUME TypeOK', mutex' = NoThread
    PROVE  VersionsNow' = config_versions' /\ LogsNow' = change_logs'
BY DEF TypeOK, VersionsNow, LogsNow

(* The same of the next state, before insertVersion.                       *)
LEMMA NowBeforeVersionNext ==
    ASSUME TypeOK', NEW t \in Threads, mutex' = t, pc'[t] = "insertVersion",
           NEW e \in Entries, local'[t].entry = e
    PROVE  /\ VersionsNow' = [config_versions' EXCEPT ![IdOf(e)] = Append(@, local'[t].cv)]
           /\ LogsNow' = [change_logs' EXCEPT ![e] = Append(@, local'[t].cl)]
BY StoreAssumption, Zenon DEF TypeOK, VersionsNow, LogsNow

(* The same of the next state, before insertLog.                           *)
LEMMA NowBeforeLogNext ==
    ASSUME TypeOK', NEW t \in Threads, mutex' = t, pc'[t] = "insertLog",
           NEW e \in Entries, local'[t].entry = e
    PROVE  /\ VersionsNow' = config_versions'
           /\ LogsNow' = [change_logs' EXCEPT ![e] = Append(@, local'[t].cl)]
BY StoreAssumption, Zenon DEF TypeOK, VersionsNow, LogsNow

(* The tables and rows of the instance are those of the store.             *)
LEMMA SameTables ==
    /\ Atomic!Entries = Entries
    /\ Atomic!ConfigIds = ConfigIds
    /\ Atomic!NoRow = NoRow
    /\ Atomic!DeleteLog = DeleteLog
    /\ \A e : Atomic!IdOf(e) = IdOf(e)
    /\ \A row : Atomic!Absent(row) = Absent(row)
    /\ \A value : Atomic!CreatedRow(value) = CreatedRow(value)
    /\ \A value : Atomic!CreateVersion(value) = CreateVersion(value)
    /\ \A value : Atomic!CreateLog(value) = CreateLog(value)
    /\ \A row, value, draft : Atomic!UpdatedRow(row, value, draft) = UpdatedRow(row, value, draft)
    /\ \A row, value : Atomic!UpdateVersion(row, value) = UpdateVersion(row, value)
    /\ \A row, value : Atomic!UpdateLog(row, value) = UpdateLog(row, value)
    /\ \A row, draft : Atomic!RemovedRow(row, draft) = RemovedRow(row, draft)
    /\ \A row : Atomic!PublishedRow(row) = PublishedRow(row)
BY DEF Entries, ConfigIds, NoRow, DeleteLog, IdOf, Absent, CreatedRow,
       CreateVersion, CreateLog, UpdatedRow, UpdateVersion, UpdateLog,
       RemovedRow, PublishedRow, makeConfigId, Atomic!Entries,
       Atomic!ConfigIds, Atomic!NoRow, Atomic!DeleteLog, Atomic!IdOf,
       Atomic!Absent, Atomic!CreatedRow, Atomic!CreateVersion,
       Atomic!CreateLog, Atomic!UpdatedRow, Atomic!UpdateVersion,
       Atomic!UpdateLog, Atomic!RemovedRow, Atomic!PublishedRow,
       Atomic!makeConfigId

(* The first statement of a write is the whole write of the abstract store. *)
LEMMA FirstWriteMaps ==
    ASSUME TypeOK, TypeOK', NEW t \in Threads, NEW e \in Entries, e = local[t].entry,
           NEW row, NEW cv, NEW cl, FirstWrite(t, row, cv, cl)
    PROVE  Atomic!Write(e, row, cv, cl)
<1>1. /\ VersionsNow = config_versions
      /\ LogsNow = change_logs
  BY NowFree DEF FirstWrite
<1>2. pc'[t] = "insertVersion" /\ mutex' = t /\ local'[t].entry = e
  BY SMTT(30) DEF FirstWrite, TypeOK
<1>3. /\ VersionsNow' = [config_versions EXCEPT ![IdOf(e)] = Append(@, cv)]
      /\ LogsNow' = [change_logs EXCEPT ![e] = Append(@, cl)]
  BY <1>2, NowBeforeVersionNext, SMTT(30) DEF FirstWrite
<1> QED
  BY <1>1, <1>3, SameTables, Zenon DEF FirstWrite, Atomic!Write

(* Every step is a step of the abstract store, or a stutter.               *)
LEMMA AtomicStep ==
    ASSUME MaxFaults = 0
    PROVE  TypeInv /\ TypeInv' /\ MutexInv /\ WrittenValues /\ [Next]_vars
           => [Atomic!Next]_Atomic!vars
<1> SUFFICES ASSUME TypeOK, TypeOK', MutexInv, WrittenValues, [Next]_vars
             PROVE  [Atomic!Next]_Atomic!vars
  BY DEF TypeInv
<1>1. ASSUME NEW t \in Threads, NEW e \in Entries, NEW value \in Values,
             addDraftChange(t, e, value)
      PROVE  [Atomic!Next]_Atomic!vars
  BY <1>1, NowFree, NowFreeNext DEF addDraftChange, Atomic!vars
<1>2. ASSUME NEW t \in Threads, NEW e \in Entries, NEW target \in Nat,
             rollbackConfig(t, e, target)
      PROVE  [Atomic!Next]_Atomic!vars
  BY <1>2, NowFree, NowFreeNext DEF rollbackConfig, Atomic!vars
<1>3. ASSUME NEW t \in Threads, NEW e \in Entries, NEW value \in Values,
             NEW draft \in DraftFlags, CallUpdate(t, e, value, draft)
      PROVE  [Atomic!Next]_Atomic!vars
  BY <1>3, NowFree, NowFreeNext DEF CallUpdate, Atomic!vars
<1>4. ASSUME NEW t \in Threads, NEW e \in Entries, NEW draft \in DraftFlags \cup {TRUE},
             deleteConfig(t, e, draft)
      PROVE  [Atomic!Next]_Atomic!vars
  <2>1. VersionsNow = config_versions /\ LogsNow = change_logs
    BY <1>4, NowFree DEF deleteConfig
  <2>2. /\ mutex' = t
        /\ pc'[t] = "insertLog"
        /\ local'[t].entry = e
        /\ local'[t].cl = DeleteLog
        /\ UNCHANGED <<config_versions, change_logs>>
    BY <1>4 DEF deleteConfig, TypeOK, Call
  <2>3. /\ VersionsNow' = config_versions
        /\ LogsNow' = [change_logs EXCEPT ![e] = Append(@, DeleteLog)]
    BY <2>2, NowBeforeLogNext
  <2>4. Atomic!Delete(e, draft)
    BY <1>4, <2>1, <2>3, SameTables, Zenon DEF deleteConfig, Atomic!Delete
  <2>5. draft \in BOOLEAN
    BY StoreAssumption, Zenon
  <2> QED
    BY <2>4, <2>5, SameTables DEF Atomic!Next
<1>5. ASSUME NEW t \in Threads, NEW ns \in Namespaces, publishRelease(t, ns)
      PROVE  [Atomic!Next]_Atomic!vars
  <2>1. UNCHANGED <<VersionsNow, LogsNow>>
    BY <1>5, NowFree, NowFreeNext, SMTT(30) DEF publishRelease
  <2>2. Atomic!Publish(ns)
    BY <1>5, <2>1, SameTables DEF publishRelease, Atomic!Publish
  <2> QED
    BY <2>2, SameTables DEF Atomic!Next
<1>6. ASSUME NEW t \in Threads, createConfig(t)
      PROVE  [Atomic!Next]_Atomic!vars
  <2>1. CASE ReturnFalse(t)
    BY <1>6, <2>1, NowFree, NowFreeNext DEF createConfig, Atomic!vars
  <2>2. CASE ~ReturnFalse(t)
    <3>1. PICK e \in Entries, value \in Values, draft \in BOOLEAN :
               e = local[t].entry /\ value = local[t].value /\ draft = local[t].draft
      BY <1>6 DEF createConfig, WrittenValues, TypeOK, Local
    <3>2. Absent(configs[e])
      BY <1>6, <2>2, <3>1, CreateWrites, ZenonT(30)
    <3>3. FirstWrite(t, CreatedRow(value), CreateVersion(value), CreateLog(value))
      BY <1>6, <2>2, <3>1, CreateWrites, SMTT(30)
    <3>4. Atomic!Write(e, CreatedRow(value), CreateVersion(value), CreateLog(value))
      BY <3>1, <3>3, FirstWriteMaps
    <3> QED
      BY <3>2, <3>4, SameTables, Zenon DEF Atomic!Next, Atomic!Create
  <2> QED
    BY <2>1, <2>2
<1>7. ASSUME NEW t \in Threads, updateConfig(t)
      PROVE  [Atomic!Next]_Atomic!vars
  <2>1. CASE ReturnFalse(t)
    BY <1>7, <2>1, NowFree, NowFreeNext DEF updateConfig, Atomic!vars
  <2>2. CASE ~ReturnFalse(t)
    <3>1. PICK e \in Entries, value \in Values, draft \in BOOLEAN :
               e = local[t].entry /\ value = local[t].value /\ draft = local[t].draft
      BY <1>7 DEF updateConfig, WrittenValues, TypeOK, Local
    <3>2. ~Absent(configs[e])
      BY <1>7, <2>2, <3>1, UpdateWrites, Zenon
    <3>3. FirstWrite(t, UpdatedRow(configs[e], value, draft), UpdateVersion(configs[e], value),
                     UpdateLog(configs[e], value))
      BY <1>7, <2>2, <3>1, UpdateWrites, ZenonT(30)
    <3>4. Atomic!Write(e, UpdatedRow(configs[e], value, draft), UpdateVersion(configs[e], value),
                       UpdateLog(configs[e], value))
      BY <3>1, <3>3, FirstWriteMaps
    <3> QED
      BY <3>2, <3>4, SameTables, Zenon DEF Atomic!Next, Atomic!Update
  <2> QED
    BY <2>1, <2>2
<1>8. ASSUME NEW t \in Threads, insertVersion(t)
      PROVE  UNCHANGED Atomic!vars
  <2>1. PICK e \in Entries : e = local[t].entry
    BY Zenon DEF TypeOK, Local
  <2>2. /\ mutex = t
        /\ mutex' = t
        /\ pc[t] = "insertVersion"
        /\ pc'[t] = "insertLog"
        /\ local'[t] = local[t]
        /\ UNCHANGED <<configs, change_logs>>
        /\ config_versions' = [config_versions EXCEPT ![IdOf(e)] = Append(@, local[t].cv)]
    BY <1>8, <2>1 DEF insertVersion, MutexInv, TypeOK
  <2>3. /\ VersionsNow = [config_versions EXCEPT ![IdOf(e)] = Append(@, local[t].cv)]
        /\ LogsNow = [change_logs EXCEPT ![e] = Append(@, local[t].cl)]
    <3>1. mutex = t /\ pc[t] = "insertVersion"
      BY <2>2, Zenon
    <3> QED
      BY <2>1, <3>1, NowBeforeVersion, Zenon
  <2>4. /\ VersionsNow' = config_versions'
        /\ LogsNow' = [change_logs' EXCEPT ![e] = Append(@, local'[t].cl)]
    <3>1. mutex' = t /\ pc'[t] = "insertLog" /\ local'[t].entry = e
      BY <2>1, <2>2, Zenon
    <3> QED
      BY <3>1, NowBeforeLogNext, Zenon
  <2>5. UNCHANGED VersionsNow
    BY <2>2, <2>3, <2>4, Zenon
  <2>6. UNCHANGED LogsNow
    <3>1. change_logs' = change_logs /\ local'[t].cl = local[t].cl
      BY <2>2, Zenon
    <3> QED
      BY <2>3, <2>4, <3>1, Zenon
  <2> QED
    BY <2>2, <2>5, <2>6 DEF Atomic!vars
<1>9. ASSUME NEW t \in Threads, insertLog(t)
      PROVE  UNCHANGED Atomic!vars
  <2>1. mutex = t /\ pc[t] = "insertLog" /\ mutex' = NoThread
    BY <1>9 DEF insertLog, MutexInv
  <2> QED
    BY <1>9, <2>1, NowBeforeLog, NowFreeNext, Zenon DEF insertLog, Atomic!vars
<1>10. ASSUME NEW t \in Threads, StatementFails(t)
       PROVE  FALSE
  BY <1>10 DEF StatementFails, TypeOK
<1>11. ~initialize
  BY DEF initialize, TypeOK
<1>12. CASE UNCHANGED vars
  BY <1>12 DEF vars, Atomic!vars, VersionsNow, LogsNow
<1> QED
  BY NextCases, <1>1, <1>2, <1>3, <1>4, <1>5, <1>6, <1>7, <1>8, <1>9, <1>10, <1>11, <1>12, Zenon

(* The SQLite store with its statements executed one by one, its mutex     *)
(* released between the two store calls of a handler, and any number of    *)
(* threads behaves as a store in which each write happens at once, as long *)
(* as no statement fails and the process does not stop.                    *)
THEOREM Refinement ==
    ASSUME MaxFaults = 0
    PROVE  Spec => AtomicSpec
<1>1. Init => MutexInv /\ WrittenValues
  BY StoreAssumption DEF Init, MutexInv, WrittenValues
<1>2. Init => Atomic!Init
  <2> SUFFICES ASSUME Init PROVE Atomic!Init
    OBVIOUS
  <2>1. VersionsNow = config_versions /\ LogsNow = change_logs
    BY NowFree, TypeInit DEF Init, TypeInv
  <2> QED
    BY <2>1, SameTables DEF Init, Atomic!Init
<1>3. TypeInv /\ MutexInv /\ [Next]_vars => MutexInv'
  BY MutexStep, SMTT(30) DEF TypeInv
<1> QED
  BY <1>1, <1>2, <1>3, TypeInit, TypeStep, WrittenValuesStep, AtomicStep, PTL
     DEF Spec, AtomicSpec, Atomic!Spec

-----------------------------------------------------------------------------
(* The change log.                                                         *)

Writes(e) ==
    LET log == change_logs[e]
    IN  Filter(log, {i \in DOMAIN log : log[i].operation # "delete"})

History(e) == config_versions[IdOf(e)]

(* A row of the log says the same as a version, written after another one. *)
Tells(cl, cv, before) ==
    /\ cl.version = cv.version
    /\ cl.new_value = cv.value
    /\ cl.operation = cv.change_type
    /\ cl.operation = "update" => before # <<>> /\ cl.old_value = before[Len(before)].value

SameStory(writes, history) ==
    /\ Len(writes) = Len(history)
    /\ \A i \in DOMAIN writes : Tells(writes[i], history[i], SubSeq(history, 1, i - 1))

(* What a write in progress is about to insert will tell the same story.   *)
AuditPending ==
    \A t \in Threads :
        LET e == local[t].entry
            cv == local[t].cv
            cl == local[t].cl
        IN  /\ pc[t] = "insertVersion" => /\ SameStory(Writes(e), History(e))
                                          /\ Tells(cl, cv, History(e))
                                          /\ cl.operation # "delete"
            /\ pc[t] = "insertLog" => IF cl.operation = "delete"
                                      THEN SameStory(Writes(e), History(e))
                                      ELSE SameStory(Append(Writes(e), cl), History(e))

AuditSettled == \A e \in Entries : ~BeforeLog(e) => SameStory(Writes(e), History(e))

AuditInv == AuditPending /\ AuditSettled

(* The rows of the log that are no deletions, and the versions.            *)
LEMMA AuditTypes ==
    ASSUME TypeOK, NEW e \in Entries
    PROVE  Writes(e) \in Seq(ChangeLog) /\ History(e) \in Seq(ConfigVersion)
<1>1. change_logs[e] \in Seq(ChangeLog) /\ IdOf(e) \in ConfigIds
  BY DEF TypeOK, ConfigIds
<1> QED
  BY <1>1, FilterType DEF Writes, History, TypeOK

(* The two stories, one row longer.                                        *)
LEMMA StoryGrows ==
    ASSUME NEW writes \in Seq(ChangeLog), NEW history \in Seq(ConfigVersion),
           NEW cl \in ChangeLog, NEW cv \in ConfigVersion,
           SameStory(writes, history), Tells(cl, cv, history)
    PROVE  SameStory(Append(writes, cl), Append(history, cv))
<1> DEFINE n == Len(history)
           w == Append(writes, cl)
           h == Append(history, cv)
<1>1. /\ n \in Nat /\ Len(writes) = n /\ Len(w) = n + 1 /\ Len(h) = n + 1
      /\ DOMAIN w = 1..n + 1 /\ DOMAIN writes = 1..n
  BY DEF SameStory
<1>2. /\ w[n + 1] = cl /\ h[n + 1] = cv
      /\ \A i \in 1..n : w[i] = writes[i] /\ h[i] = history[i]
  BY <1>1
<1>3. \A i \in 1..n + 1 : SubSeq(h, 1, i - 1) = SubSeq(history, 1, i - 1)
  BY <1>1
<1>4. SubSeq(history, 1, n) = history
  BY WholeSlice
<1> HIDE DEF n, w, h
<1>5. ASSUME NEW i \in 1..n + 1 PROVE Tells(w[i], h[i], SubSeq(h, 1, i - 1))
  <2>1. CASE i = n + 1
    <3>1. (n + 1) - 1 = n
      BY <1>1
    <3> QED
      BY <1>1, <1>2, <1>3, <1>4, <2>1, <3>1, Zenon
  <2>2. CASE i # n + 1
    <3>1. i \in 1..n
      BY <1>1, <2>2
    <3> QED
      BY <1>1, <1>2, <1>3, <3>1, Zenon DEF SameStory
  <2> QED
    BY <2>1, <2>2
<1> QED
  BY <1>1, <1>5 DEF SameStory, w, h

(* A step that leaves both tables and the writers between their statements *)
(* alone.                                                                  *)
LEMMA AuditFrame ==
    ASSUME AuditInv, UNCHANGED <<config_versions, change_logs>>,
           \A t \in Threads : pc'[t] \in {"insertVersion", "insertLog"}
                                 \/ pc[t] \in {"insertVersion", "insertLog"} =>
               pc'[t] = pc[t] /\ local'[t] = local[t]
    PROVE  AuditInv'
<1>1. \A e : Writes(e)' = Writes(e) /\ History(e)' = History(e)
  BY DEF Writes, History
<1>2. \A e \in Entries : BeforeLog(e)' <=> BeforeLog(e)
  BY SMTT(30) DEF BeforeLog
<1>3. AuditSettled'
  BY <1>1, <1>2 DEF AuditInv, AuditSettled
<1>4. AuditPending'
  BY <1>1, Zenon DEF AuditInv, AuditPending
<1> QED
  BY <1>3, <1>4 DEF AuditInv

(* The first statement of a write, which knows the rows it will insert.    *)
LEMMA AuditFirstWrite ==
    ASSUME TypeOK, MutexInv, AuditInv, NEW t \in Threads, NEW row, NEW cv, NEW cl,
           FirstWrite(t, row, cv, cl), cl.operation # "delete",
           Tells(cl, cv, History(local[t].entry))
    PROVE  AuditInv'
<1> DEFINE e == local[t].entry
<1>1. \A f : Writes(f)' = Writes(f) /\ History(f)' = History(f)
  BY ZenonT(30) DEF FirstWrite, Writes, History
<1>2. \A u \in Threads : pc[u] \notin {"insertVersion", "insertLog"}
  BY StoreAssumption, SMTT(30) DEF FirstWrite, MutexInv
<1>3. \A f \in Entries : SameStory(Writes(f), History(f))
  BY <1>2 DEF BeforeLog, AuditInv, AuditSettled
<1>4. e \in Entries
  BY SMTT(30) DEF TypeOK, Local
<1>5. /\ pc'[t] = "insertVersion" /\ local'[t].entry = e /\ local'[t].cv = cv /\ local'[t].cl = cl
      /\ \A u \in Threads : u # t => pc'[u] = pc[u]
  BY DEF FirstWrite, TypeOK
<1>6. AuditSettled'
  BY <1>1, <1>3 DEF AuditSettled
<1>7. AuditPending'
  BY <1>1, <1>2, <1>3, <1>4, <1>5, Zenon DEF AuditPending
<1> QED
  BY <1>6, <1>7 DEF AuditInv

(* Every step without faults preserves AuditInv.                           *)
LEMMA AuditStep ==
    ASSUME DistinctConfigIds, MaxFaults = 0
    PROVE  TypeInv /\ HistoryInv /\ AuditInv /\ [Next]_vars => AuditInv'
<1> SUFFICES ASSUME TypeOK, HistoryInv, MutexInv, AuditInv, [Next]_vars PROVE AuditInv'
  BY DEF TypeInv, HistoryInv
<1>1. ASSUME NEW t \in Threads, NEW e \in Entries, NEW value \in Values,
             addDraftChange(t, e, value)
      PROVE  AuditInv'
  BY <1>1, AuditFrame, Zenon DEF addDraftChange, TypeOK
<1>2. ASSUME NEW t \in Threads, NEW e \in Entries, NEW target \in Nat,
             rollbackConfig(t, e, target)
      PROVE  AuditInv'
  BY <1>2, AuditFrame, Zenon DEF rollbackConfig, TypeOK
<1>3. ASSUME NEW t \in Threads, NEW e \in Entries, NEW value \in Values,
             NEW draft \in DraftFlags, CallUpdate(t, e, value, draft)
      PROVE  AuditInv'
  BY <1>3, AuditFrame DEF CallUpdate, TypeOK
<1>4. ASSUME NEW t \in Threads, NEW e \in Entries, NEW draft \in DraftFlags \cup {TRUE},
             deleteConfig(t, e, draft)
      PROVE  AuditInv'
  <2> DEFINE call == [Call(e, NoValue, draft, 0) EXCEPT !.cl = DeleteLog]
  <2>1. call.entry = e /\ call.cl.operation = "delete"
    BY DEF Call, DeleteLog
  <2>2. \A f : Writes(f)' = Writes(f) /\ History(f)' = History(f)
    BY <1>4 DEF deleteConfig, Writes, History
  <2>3. \A u \in Threads : pc[u] \notin {"insertVersion", "insertLog"}
    BY <1>4, StoreAssumption, SMTT(30) DEF deleteConfig, MutexInv
  <2>4. \A f \in Entries : SameStory(Writes(f), History(f))
    BY <2>3 DEF BeforeLog, AuditInv, AuditSettled
  <2> HIDE DEF call
  <2>5. /\ pc'[t] = "insertLog" /\ local'[t] = call
        /\ \A u \in Threads : u # t => pc'[u] = pc[u]
    BY <1>4 DEF deleteConfig, TypeOK, call
  <2>6. AuditSettled'
    BY <2>2, <2>4, SMTT(30) DEF AuditSettled
  <2>7. AuditPending'
    BY <2>1, <2>2, <2>3, <2>4, <2>5, SMTT(30) DEF AuditPending
  <2> QED
    BY <2>6, <2>7 DEF AuditInv
<1>5. ASSUME NEW t \in Threads, NEW ns \in Namespaces, publishRelease(t, ns)
      PROVE  AuditInv'
  BY <1>5, AuditFrame DEF publishRelease
<1>6. ASSUME NEW t \in Threads, createConfig(t)
      PROVE  AuditInv'
  <2>1. CASE ReturnFalse(t)
    BY <1>6, <2>1, AuditFrame, SMTT(30) DEF createConfig, TypeOK
  <2>2. CASE ~ReturnFalse(t)
    <3> DEFINE value == local[t].value
    <3>1. /\ CreateLog(value).operation # "delete"
          /\ Tells(CreateLog(value), CreateVersion(value), History(local[t].entry))
      BY DEF Tells, CreateLog, CreateVersion
    <3> QED
      BY <1>6, <2>2, <3>1, CreateWrites, AuditFirstWrite, SMTT(30)
  <2> QED
    BY <2>1, <2>2
<1>7. ASSUME NEW t \in Threads, updateConfig(t)
      PROVE  AuditInv'
  <2>1. CASE ReturnFalse(t)
    BY <1>7, <2>1, AuditFrame DEF updateConfig, TypeOK
  <2>2. CASE ~ReturnFalse(t)
    <3> DEFINE value == local[t].value
               e == local[t].entry
               row == configs[e]
    <3>1. e \in Entries /\ ~Absent(row) /\ mutex = NoThread
      BY <1>7, <2>2, UpdateWrites, SMTT(30) DEF FirstWrite, TypeOK, Local
    <3>2. ~BeforeVersion(e)
      BY <3>1, StoreAssumption DEF MutexInv, BeforeVersion
    <3>3. History(e) # <<>> /\ History(e)[Len(History(e))].value = row.value
      BY <3>1, <3>2, Zenon DEF HistoryInv, HeadRecorded, History
    <3>4. /\ UpdateLog(row, value).operation # "delete"
          /\ Tells(UpdateLog(row, value), UpdateVersion(row, value), History(e))
      BY <3>3, Zenon DEF Tells, UpdateLog, UpdateVersion
    <3> QED
      BY <1>7, <2>2, <3>4, UpdateWrites, AuditFirstWrite, ZenonT(30)
  <2> QED
    BY <2>1, <2>2
<1>8. ASSUME NEW t \in Threads, insertVersion(t)
      PROVE  AuditInv'
  <2> DEFINE e == local[t].entry
             cv == local[t].cv
             cl == local[t].cl
  <2>1. e \in Entries /\ cv \in ConfigVersion /\ cl \in ChangeLog /\ IdOf(e) \in ConfigIds
    BY SMTT(30) DEF TypeOK, Local, ConfigIds
  <2>2. /\ pc[t] = "insertVersion" /\ pc'[t] = "insertLog" /\ local'[t] = local[t]
        /\ \A u \in Threads : u # t => pc'[u] = pc[u] /\ local'[u] = local[u]
        /\ change_logs' = change_logs
        /\ config_versions' = [config_versions EXCEPT ![IdOf(e)] = Append(@, cv)]
    BY <1>8, SMTT(30) DEF insertVersion, TypeOK
  <2>3. \A u \in Threads : u # t => pc[u] \notin {"insertVersion", "insertLog"}
    BY <2>2, SMTT(30) DEF MutexInv
  <2>4. \A f : Writes(f)' = Writes(f)
    BY <2>2, SMTT(30) DEF Writes
  <2>5. History(e)' = Append(History(e), cv)
    BY <2>1, <2>2 DEF History, TypeOK
  <2>6. \A f \in Entries : f # e => History(f)' = History(f) /\ ~BeforeLog(f)
    <3>1. \A f \in Entries : f # e => IdOf(f) # IdOf(e) /\ IdOf(f) \in ConfigIds
      BY <2>1 DEF DistinctConfigIds, ConfigIds
    <3>2. \A f \in Entries : f # e => ~BeforeLog(f)
      BY <2>3 DEF BeforeLog
    <3> QED
      BY <2>2, <3>1, <3>2, Zenon DEF History, TypeOK
  <2>7. /\ SameStory(Writes(e), History(e))
        /\ Tells(cl, cv, History(e))
        /\ cl.operation # "delete"
    BY <2>2, Zenon DEF AuditInv, AuditPending
  <2> HIDE DEF e, cv, cl
  <2>8. SameStory(Append(Writes(e), cl), Append(History(e), cv))
    BY <2>1, <2>7, AuditTypes, StoryGrows
  <2>9. AuditSettled'
    <3> SUFFICES ASSUME NEW f \in Entries, ~BeforeLog(f)'
                 PROVE  SameStory(Writes(f)', History(f)')
      BY SMTT(30) DEF AuditSettled
    <3>1. f # e
      BY <2>2 DEF BeforeLog, e
    <3> QED
      BY <2>4, <2>6, <3>1 DEF AuditInv, AuditSettled
  <2>10. AuditPending'
    BY <2>2, <2>3, <2>4, <2>5, <2>7, <2>8, Zenon DEF AuditPending, e, cl
  <2> QED
    BY <2>9, <2>10, SMTT(30) DEF AuditInv
<1>9. ASSUME NEW t \in Threads, insertLog(t)
      PROVE  AuditInv'
  <2>1. PICK e \in Entries, cl \in ChangeLog, log \in Seq(ChangeLog) :
             e = local[t].entry /\ cl = local[t].cl /\ log = change_logs[e]
    BY SMTT(30) DEF TypeOK, Local
  <2>2. /\ pc[t] = "insertLog" /\ pc'[t] = "idle"
        /\ \A u \in Threads : u # t => pc'[u] = pc[u]
        /\ change_logs' = [change_logs EXCEPT ![e] = Append(@, cl)]
        /\ config_versions' = config_versions
    BY <1>9, <2>1 DEF insertLog, TypeOK
  <2>3. \A u \in Threads : u # t => pc[u] \notin {"insertVersion", "insertLog"}
    BY <2>2 DEF MutexInv
  <2>4. \A f : History(f)' = History(f)
    BY <2>2 DEF History
  <2>5. \A f \in Entries : f # e => Writes(f)' = Writes(f) /\ ~BeforeLog(f)
    BY <2>1, <2>2, <2>3, Zenon DEF Writes, TypeOK, BeforeLog
  <2>6. IF cl.operation = "delete" THEN SameStory(Writes(e), History(e))
                                   ELSE SameStory(Append(Writes(e), cl), History(e))
    BY <2>1, <2>2, Zenon DEF AuditInv, AuditPending
  <2>7. Writes(e)' = IF cl.operation = "delete" THEN Writes(e) ELSE Append(Writes(e), cl)
    <3> DEFINE new == Append(log, cl)
               P == {i \in DOMAIN new : new[i].operation # "delete"}
               Q == {i \in DOMAIN log : log[i].operation # "delete"}
    <3>1. Writes(e)' = Filter(new, P) /\ Writes(e) = Filter(log, Q)
      BY <2>1, <2>2, Zenon DEF Writes, TypeOK
    <3>2. /\ \A i \in DOMAIN log : i \in DOMAIN new /\ new[i] = log[i]
          /\ Len(log) + 1 \in DOMAIN new /\ new[Len(log) + 1] = cl
      OBVIOUS
    <3>3. \A i \in DOMAIN log : i \in P <=> i \in Q
      BY <3>2
    <3>4. Len(log) + 1 \in P <=> cl.operation # "delete"
      BY <3>2
    <3> HIDE DEF P, Q
    <3> QED
      BY <3>1, <3>3, <3>4, FilterAppend
  <2>8. AuditSettled'
    <3> SUFFICES ASSUME NEW f \in Entries PROVE SameStory(Writes(f)', History(f)')
      BY DEF AuditSettled
    <3>1. CASE f = e
      BY <2>4, <2>6, <2>7, <3>1, Zenon
    <3>2. CASE f # e
      BY <2>4, <2>5, <3>2, SMTT(30) DEF AuditInv, AuditSettled
    <3> QED
      BY <3>1, <3>2
  <2>9. AuditPending'
    BY <2>2, <2>3 DEF AuditPending
  <2> QED
    BY <2>8, <2>9 DEF AuditInv
<1>10. ASSUME NEW t \in Threads, StatementFails(t)
       PROVE  AuditInv'
  BY <1>10 DEF StatementFails, TypeOK
<1>11. CASE initialize
  BY <1>11 DEF initialize, TypeOK
<1>12. CASE UNCHANGED vars
  BY <1>12, AuditFrame, Zenon DEF vars
<1> QED
  BY NextCases, <1>1, <1>2, <1>3, <1>4, <1>5, <1>6, <1>7, <1>8, <1>9, <1>10, <1>11, <1>12, ZenonT(30)

(* While no two entries share a config id and no statement fails, the      *)
(* change log of a key, its deletions aside, lists the versions of the key *)
(* one by one, with their values, and with the value before each update.   *)
THEOREM AuditComplete ==
    ASSUME DistinctConfigIds, MaxFaults = 0
    PROVE  Spec => []AuditMatchesHistory
<1>1. Init => AuditInv
  <2> SUFFICES ASSUME Init PROVE AuditInv
    OBVIOUS
  <2>1. \A e \in Entries : Writes(e) = <<>> /\ History(e) = <<>>
    BY FilterEmpty DEF Init, Writes, History, ConfigIds
  <2>2. SameStory(<<>>, <<>>)
    BY DEF SameStory
  <2> QED
    BY <2>1, <2>2, Zenon DEF Init, AuditInv, AuditPending, AuditSettled
<1>2. TypeInv /\ HistoryInv /\ AuditInv /\ [Next]_vars => AuditInv'
  BY AuditStep, SMTT(30)
<1>3. TypeInv /\ AuditInv => AuditMatchesHistory
  <2> SUFFICES ASSUME TypeOK, AuditInv, NEW e \in Entries, ~BeforeLog(e)
               PROVE  LET history == History(e)
                          writes == Writes(e)
                      IN  /\ Len(writes) = Len(history)
                          /\ \A i \in DOMAIN writes :
                              /\ writes[i].version = history[i].version
                              /\ writes[i].new_value = history[i].value
                              /\ writes[i].operation = history[i].change_type
                              /\ writes[i].operation = "update" =>
                                    i > 1 /\ writes[i].old_value = history[i - 1].value
    BY Zenon DEF TypeInv, AuditMatchesHistory, Writes, History
  <2> DEFINE w == Writes(e)
             h == History(e)
  <2>1. w \in Seq(ChangeLog) /\ h \in Seq(ConfigVersion)
    BY AuditTypes
  <2>2. SameStory(w, h)
    BY DEF AuditInv, AuditSettled
  <2> HIDE DEF w, h
  <2>3. Len(w) = Len(h) /\ \A i \in DOMAIN w : Tells(w[i], h[i], SubSeq(h, 1, i - 1))
    BY <2>2 DEF SameStory
  <2>4. ASSUME NEW i \in DOMAIN w, SubSeq(h, 1, i - 1) # <<>>
        PROVE  /\ i > 1
               /\ SubSeq(h, 1, i - 1)[Len(SubSeq(h, 1, i - 1))] = h[i - 1]
    <3>1. i \in 1..Len(h) /\ Len(h) \in Nat
      BY <2>1, <2>3
    <3>2. i > 1
      BY <2>4, <3>1, EmptySlice
    <3>3. Len(SubSeq(h, 1, i - 1)) = i - 1 /\ i - 1 \in 1..i - 1
      BY <2>1, <3>1, <3>2
    <3> QED
      BY <2>1, <3>1, <3>2, <3>3
  <2> QED
    BY <2>3, <2>4 DEF Tells, w, h
<1> QED
  BY <1>1, <1>2, <1>3, HistoryAlways, PTL DEF Spec
=============================================================================
