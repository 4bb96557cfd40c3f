----------------------- MODULE MysqlConfigStoreProofs -----------------------
(***************************************************************************)
(* ServedIsCommitted, ReleasesNumbered and HeadInHistory of                *)
(* MysqlConfigStore, for any namespaces, keys, values, threads and         *)
(* connections.                                                            *)
(*                                                                         *)
(* ServedIsCommitted is inductive: a statement of a writer hides the row   *)
(* it writes, and only a commit makes rows live.  For ReleasesNumbered the *)
(* locks of the UPDATE count: between it and the commit there is one       *)
(* publication of a namespace, and the number it has read stays the next   *)
(* one (Publications).  For HeadInHistory a row that no version records    *)
(* yet is that of a writer about to insert it (Backed).                    *)
(***************************************************************************)
EXTENDS MysqlConfigStore, TLAPS

USE DEF Absent

Labels == {"idle", "create", "update"} \cup Connected

-----------------------------------------------------------------------------
(* Type correctness.                                                       *)

(* There is an entry, and the locals of an idle thread have their type.    *)
LEMMA CallType ==
    ASSUME NEW e \in Entries, NEW value \in Values \cup {NoValue}
    PROVE  Call(e, value) \in Local
BY DEF Call, Local, NoRow, ConfigKey, NoVersion, ConfigVersion, NoLog, ChangeLog

(* The idle call is a call.                                                *)
LEMMA NoCallType == NoCall \in Local
<1>1. PICK ns \in Namespaces, key \in Keys : TRUE
  BY TablesAssumption
<1>2. <<ns, key>> \in Entries
  BY DEF Entries
<1>3. (CHOOSE e \in Entries : TRUE) \in Entries
  BY <1>2
<1> QED
  BY <1>3, CallType DEF NoCall

(* The rows the store writes are rows of their tables.                     *)
LEMMA RowTypes ==
    ASSUME NEW row \in ConfigKey, NEW value \in Values \cup {NoValue}
    PROVE  /\ NoRow \in ConfigKey
           /\ CreatedRow(value) \in ConfigKey
           /\ UpdatedRow(row, value, TRUE) \in ConfigKey
           /\ RemovedRow(row, TRUE) \in ConfigKey
           /\ PublishedRow(row) \in ConfigKey
           /\ CreateVersion(value) \in ConfigVersion
           /\ UpdateVersion(row, value) \in ConfigVersion
           /\ CreateLog(value) \in ChangeLog
           /\ UpdateLog(row, value) \in ChangeLog
           /\ DeleteLog \in ChangeLog
BY DEF ConfigKey, ConfigVersion, ChangeLog, NoRow, CreatedRow, UpdatedRow, RemovedRow,
       PublishedRow, CreateVersion, UpdateVersion, CreateLog, UpdateLog, DeleteLog

(* The locals of a thread.                                                 *)
LEMMA LocalFields ==
    ASSUME TypeOK, NEW t \in Threads
    PROVE  /\ local[t] \in Local
           /\ local[t].entry \in Entries
           /\ local[t].entry[1] \in Namespaces
           /\ IdOf(local[t].entry) \in ConfigIds
           /\ local[t].value \in Values \cup {NoValue}
           /\ local[t].row \in ConfigKey
           /\ local[t].cv \in ConfigVersion
           /\ local[t].cl \in ChangeLog
           /\ local[t].updated \in BOOLEAN
           /\ local[t].nextVersion \in Nat
<1>1. local[t] \in Local
  BY DEF TypeOK
<1>2. local[t].entry \in Entries
  BY <1>1 DEF Local
<1> QED
  BY <1>1, <1>2 DEF Local, Entries, ConfigIds

(* Moving a thread on keeps the types.                                     *)
LEMMA GotoTypes ==
    ASSUME TypeOK, NEW t \in Threads, NEW label \in Labels, NEW call \in Local,
           Goto(t, label, call)
    PROVE  pc' \in [Threads -> Labels] /\ local' \in [Threads -> Local]
BY DEF Goto, TypeOK, Labels

(* A return keeps the types.                                               *)
LEMMA ReturnTypes ==
    ASSUME TypeOK, NEW t \in Threads, Return(t)
    PROVE  pc' \in [Threads -> Labels] /\ local' \in [Threads -> Local]
BY GotoTypes, NoCallType DEF Return, Labels

(* A step of a request that writes no table.                               *)
Move(t) ==
    \/ \E e \in Entries, value \in Values : addDraftChange(t, e, value)
    \/ \E e \in Entries, target \in Nat : rollbackConfig(t, e, target)
    \/ \E e \in Entries : deleteConfig(t, e)
    \/ \E ns \in Namespaces : publishRelease(t, ns)
    \/ createConfig(t) \/ updateConfig(t)

(* A statement that writes the row of a key.                               *)
Write(t) == insertRow(t) \/ updateRow(t) \/ deleteRow(t)

(* The steps of Next, by what they do.                                     *)
LEMMA NextCases ==
    ASSUME [Next]_vars
    PROVE  \/ \E t \in Threads : \/ Move(t)
                                 \/ Write(t)
                                 \/ insertVersion(t)
                                 \/ insertLog(t)
                                 \/ lockRows(t)
                                 \/ readMax(t)
                                 \/ insertRelease(t)
                                 \/ StatementFails(t)
                                 \/ InsertReleaseFails(t)
           \/ UNCHANGED vars
<1>1. \A target \in 1..MaxLog : target \in Nat
  BY MysqlAssumption
<1>2. \A t \in Threads : Request(t) => Move(t)
  BY <1>1, Zenon DEF Request, Move
<1> QED
  BY <1>2, Zenon DEF Next, Step, Quiet, Move, Write

(* What a step that writes no table does: a thread goes on with a call.    *)
LEMMA MoveCases ==
    ASSUME TypeOK, NEW t \in Threads, Move(t)
    PROVE  /\ \E label \in Labels \ {"readMax", "insertRelease"}, call \in Local :
                 Goto(t, label, call)
           /\ pc[t] \in {"idle", "create", "update"}
           /\ UNCHANGED <<configs, config_versions, change_logs, releases, faults, released,
                          abreast>>
<1> DEFINE L == Labels \ {"readMax", "insertRelease"}
<1>0. {"idle", "create", "update", "insertRow", "updateRow", "deleteRow", "lockRows"} \subseteq L
  BY DEF Labels, Connected
<1> HIDE DEF L
<1>1. ASSUME NEW e \in Entries, NEW value \in Values, addDraftChange(t, e, value)
      PROVE  \E label \in L, call \in Local : Goto(t, label, call)
  <2>1. Call(e, value) \in Local
    BY CallType
  <2> QED
    BY <1>0, <1>1, <2>1, Zenon DEF addDraftChange
<1>2. ASSUME NEW e \in Entries, NEW target \in Nat, rollbackConfig(t, e, target)
      PROVE  \E label \in L, call \in Local : Goto(t, label, call)
  <2>1. PICK cv \in getConfigVersion(e, target) : Goto(t, "update", Call(e, cv.value))
    BY <1>2 DEF rollbackConfig
  <2>2. IdOf(e) \in ConfigIds
    BY DEF ConfigIds
  <2>3. cv \in ConfigVersion
    BY <2>2 DEF getConfigVersion, TypeOK
  <2>4. Call(e, cv.value) \in Local
    BY <2>3, CallType DEF ConfigVersion
  <2> QED
    BY <1>0, <2>1, <2>4
<1>3. ASSUME NEW e \in Entries, deleteConfig(t, e)
      PROVE  \E label \in L, call \in Local : Goto(t, label, call)
  <2>1. Call(e, NoValue) \in Local /\ DeleteLog \in ChangeLog
    BY CallType DEF DeleteLog, ChangeLog
  <2>2. [Call(e, NoValue) EXCEPT !.cl = DeleteLog] \in Local
    BY <2>1 DEF Local
  <2> QED
    BY <1>0, <1>3, <2>2, Zenon DEF deleteConfig
<1>4. ASSUME NEW ns \in Namespaces, publishRelease(t, ns)
      PROVE  \E label \in L, call \in Local : Goto(t, label, call)
  <2>1. PICK e \in Entries : Goto(t, "lockRows", Call(e, NoValue))
    BY <1>4, Zenon DEF publishRelease
  <2>2. Call(e, NoValue) \in Local
    BY CallType
  <2> QED
    BY <1>0, <2>1, <2>2
<1>5. ASSUME createConfig(t)
      PROVE  \E label \in L, call \in Local : Goto(t, label, call)
  <2>1. [local[t] EXCEPT !.cv = CreateVersion(local[t].value),
                         !.cl = CreateLog(local[t].value)] \in Local
    BY LocalFields, ZenonT(30) DEF Local, CreateVersion, CreateLog, ConfigVersion, ChangeLog
  <2> QED
    BY <1>0, <1>5, <2>1, Zenon DEF createConfig
<1>6. ASSUME updateConfig(t)
      PROVE  \E label \in L, call \in Local : Goto(t, label, call)
  <2> DEFINE row == configs[local[t].entry]
             value == local[t].value
             call == [local[t] EXCEPT !.row = row, !.cv = UpdateVersion(row, value),
                                      !.cl = UpdateLog(row, value)]
  <2>1. row \in ConfigKey /\ value \in Values \cup {NoValue} /\ local[t] \in Local
    BY LocalFields DEF TypeOK
  <2>2. UpdateVersion(row, value) \in ConfigVersion /\ UpdateLog(row, value) \in ChangeLog
    BY <2>1, RowTypes, Zenon
  <2>3. \/ RowMissing(t)
        \/ Goto(t, "updateRow", call)
    BY <1>6 DEF updateConfig
  <2> HIDE DEF row, value
  <2>4. call \in Local
    BY <2>1, <2>2, Zenon DEF Local
  <2> QED
    BY <1>0, <2>3, <2>4, NoCallType DEF RowMissing, Return
<1>7. pc[t] \in {"idle", "create", "update"}
  BY Zenon DEF Move, addDraftChange, rollbackConfig, deleteConfig, publishRelease, createConfig,
         updateConfig
<1>8. UNCHANGED <<configs, config_versions, change_logs, releases, faults, released, abreast>>
  BY Zenon DEF Move, addDraftChange, rollbackConfig, deleteConfig, publishRelease,
               createConfig, updateConfig
<1> QED
  BY <1>1, <1>2, <1>3, <1>4, <1>5, <1>6, <1>7, <1>8 DEF L, Move

(* What a statement that writes the row of a key does.                     *)
LEMMA WriteCases ==
    ASSUME TypeOK, NEW t \in Threads, Write(t)
    PROVE  /\ \E row \in ConfigKey :
                 /\ configs' = [configs EXCEPT ![local[t].entry] = row]
                 /\ row = configs[local[t].entry] \/ Absent(row) \/ row.status = "draft"
           /\ \E label \in {"insertVersion", "insertLog"} : Goto(t, label, local[t])
           /\ pc[t] \in {"insertRow", "updateRow", "deleteRow"}
           /\ UNCHANGED <<config_versions, change_logs, releases, faults, released, abreast>>
<1> DEFINE e == local[t].entry
           old == configs[e]
           value == local[t].value
<1>1. old \in ConfigKey /\ value \in Values \cup {NoValue} /\ local[t].row \in ConfigKey
  BY LocalFields DEF TypeOK
<1>2. ASSUME insertRow(t)
      PROVE  \E row \in ConfigKey : /\ configs' = [configs EXCEPT ![e] = row]
                                    /\ row = old \/ Absent(row) \/ row.status = "draft"
  <2>1. configs' = [configs EXCEPT ![e] = IF Absent(old) THEN CreatedRow(value) ELSE old]
    BY <1>2 DEF insertRow
  <2>2. CreatedRow(value) \in ConfigKey /\ CreatedRow(value).status = "draft"
    BY <1>1, RowTypes, Zenon DEF CreatedRow
  <2> QED
    BY <1>1, <2>1, <2>2, Zenon
<1>3. ASSUME updateRow(t)
      PROVE  \E row \in ConfigKey : /\ configs' = [configs EXCEPT ![e] = row]
                                    /\ row = old \/ Absent(row) \/ row.status = "draft"
  <2>1. configs' = [configs EXCEPT ![e] = IF Absent(old) THEN old
                                          ELSE UpdatedRow(local[t].row, value, TRUE)]
    BY <1>3 DEF updateRow
  <2>2. /\ UpdatedRow(local[t].row, value, TRUE) \in ConfigKey
        /\ UpdatedRow(local[t].row, value, TRUE).status = "draft"
    BY <1>1, RowTypes, Zenon DEF UpdatedRow
  <2> QED
    BY <1>1, <2>1, <2>2, Zenon
<1>4. ASSUME deleteRow(t)
      PROVE  \E row \in ConfigKey : /\ configs' = [configs EXCEPT ![e] = row]
                                    /\ row = old \/ Absent(row) \/ row.status = "draft"
  <2>1. configs' = [configs EXCEPT ![e] = RemovedRow(old, TRUE)]
    BY <1>4 DEF deleteRow
  <2>2. RemovedRow(old, TRUE) \in ConfigKey
    BY <1>1, RowTypes, Zenon
  <2>3. RemovedRow(old, TRUE) = old \/ Absent(RemovedRow(old, TRUE))
    BY DEF RemovedRow, NoRow
  <2> QED
    BY <2>1, <2>2, <2>3, Zenon
<1>5. \E label \in {"insertVersion", "insertLog"} : Goto(t, label, local[t])
  BY Zenon DEF Write, insertRow, updateRow, deleteRow
<1>6. pc[t] \in {"insertRow", "updateRow", "deleteRow"}
  BY Zenon DEF Write, insertRow, updateRow, deleteRow
<1>7. UNCHANGED <<config_versions, change_logs, releases, faults, released, abreast>>
  BY Zenon DEF Write, insertRow, updateRow, deleteRow
<1> QED
  BY <1>2, <1>3, <1>4, <1>5, <1>6, <1>7 DEF Write

(* A commit keeps the types of the tables.                                 *)
LEMMA CommitTypes ==
    ASSUME TypeOK, NEW t \in Threads, NEW inserted \in BOOLEAN, Commit(t, inserted)
    PROVE  /\ configs' \in [Entries -> ConfigKey]
           /\ releases' \in [Namespaces -> Seq(Nat)]
           /\ released' \in [Entries -> ConfigKey]
           /\ pc' \in [Threads -> Labels]
           /\ local' \in [Threads -> Local]
<1> DEFINE ns == local[t].entry[1]
<1>1. \A e \in Entries : PublishedRow(configs[e]) \in ConfigKey
  BY RowTypes, Zenon DEF TypeOK
<1>2. configs' \in [Entries -> ConfigKey]
  BY <1>1 DEF Commit, TypeOK
<1>3. released' \in [Entries -> ConfigKey]
  BY <1>2 DEF Commit, TypeOK
<1>4. releases' \in [Namespaces -> Seq(Nat)]
  <2>1. Append(releases[ns], local[t].nextVersion) \in Seq(Nat)
    BY LocalFields DEF TypeOK
  <2> QED
    BY <2>1, LocalFields DEF Commit, TypeOK
<1>5. Return(t)
  BY DEF Commit
<1> QED
  BY <1>2, <1>3, <1>4, <1>5, ReturnTypes

(* A statement that fails moves its thread on, and nothing else.           *)
LEMMA FailureCases ==
    ASSUME TypeOK, NEW t \in Threads, StatementFails(t)
    PROVE  /\ \E label \in Labels, call \in Local : Goto(t, label, call)
           /\ faults' = faults + 1
           /\ UNCHANGED <<configs, config_versions, change_logs, releases, released, abreast>>
<1>1. CASE pc[t] \in DOMAIN AfterFailure /\ Goto(t, AfterFailure[pc[t]], local[t])
  <2>1. pc[t] \in {"insertRow", "updateRow", "deleteRow", "insertVersion", "lockRows"}
    BY <1>1 DEF AfterFailure
  <2>2. AfterFailure[pc[t]] \in {"insertVersion", "insertLog", "readMax"}
    BY <2>1 DEF AfterFailure
  <2> QED
    BY <1>1, <2>2, LocalFields DEF Labels, Connected, StatementFails
<1>2. CASE Return(t)
  BY <1>2, NoCallType DEF Return, Labels, StatementFails
<1>3. CASE Goto(t, "insertRelease", [local[t] EXCEPT !.nextVersion = 1])
  <2>1. [local[t] EXCEPT !.nextVersion = 1] \in Local
    BY LocalFields DEF Local
  <2> QED
    BY <1>3, <2>1 DEF Labels, Connected, StatementFails
<1> QED
  BY <1>1, <1>2, <1>3 DEF StatementFails

(* The locals of a publication after its UPDATE and after its SELECT.      *)
LEMMA PublicationTypes ==
    ASSUME TypeOK, NEW t \in Threads, NEW n \in Nat
    PROVE  /\ [local[t] EXCEPT !.updated = TRUE] \in Local
           /\ [local[t] EXCEPT !.nextVersion = n] \in Local
BY LocalFields, Zenon DEF Local

(* A table of releases has a highest number, whatever the numbers are.     *)
HasHighest ==
    \A ns \in Namespaces :
        \/ releases[ns] = <<>>
        \/ \E i \in DOMAIN releases[ns] :
               \A j \in DOMAIN releases[ns] : releases[ns][j] <= releases[ns][i]

Types == TypeOK /\ HasHighest

(* The highest release number is a number.                                 *)
LEMMA HighestIsNat ==
    ASSUME Types, NEW ns \in Namespaces
    PROVE  MaxReleaseVersion(ns) \in Nat
<1> DEFINE r == releases[ns]
           versions == {r[i] : i \in DOMAIN r}
<1>1. r \in Seq(Nat)
  BY DEF Types, TypeOK
<1>2. versions \subseteq Nat
  BY <1>1
<1>3. MaxReleaseVersion(ns) = IF versions = {} THEN 0
                              ELSE CHOOSE v \in versions : \A w \in versions : w <= v
  BY DEF MaxReleaseVersion
<1>4. versions # {} => \E v \in versions : \A w \in versions : w <= v
  <2>1. r = <<>> => versions = {}
    OBVIOUS
  <2>2. (\E i \in DOMAIN r : \A j \in DOMAIN r : r[j] <= r[i])
          => \E v \in versions : \A w \in versions : w <= v
    OBVIOUS
  <2> QED
    BY <2>1, <2>2 DEF Types, HasHighest
<1> HIDE DEF versions
<1>5. CASE versions = {}
  BY <1>3, <1>5
<1>6. CASE versions # {}
  <2>1. (CHOOSE v \in versions : \A w \in versions : w <= v) \in versions
    BY <1>4, <1>6
  <2> QED
    BY <1>2, <1>3, <1>6, <2>1, Zenon
<1> QED
  BY <1>5, <1>6

(* There is still a highest release number after a commit.                 *)
LEMMA HighestAppended ==
    ASSUME Types, NEW t \in Threads, NEW inserted \in BOOLEAN, Commit(t, inserted)
    PROVE  HasHighest'
<1> DEFINE ns == local[t].entry[1]
           n == local[t].nextVersion
<1>0. TypeOK
  BY DEF Types
<1>1. ns \in Namespaces /\ n \in Nat
  BY <1>0, LocalFields
<1>2. releases \in [Namespaces -> Seq(Nat)]
  BY <1>0 DEF TypeOK
<1>3. CASE ~inserted
  BY <1>3 DEF Commit, Types, HasHighest
<1>4. CASE inserted
  <2> SUFFICES ASSUME NEW m \in Namespaces
               PROVE  \/ releases'[m] = <<>>
                      \/ \E i \in DOMAIN releases'[m] :
                             \A j \in DOMAIN releases'[m] : releases'[m][j] <= releases'[m][i]
    BY DEF HasHighest
  <2>1. releases' = [releases EXCEPT ![ns] = Append(releases[ns], n)]
    BY <1>4 DEF Commit
  <2> HIDE DEF ns, n
  <2>2. CASE m # ns
    BY <2>1, <2>2, <1>1, <1>2 DEF Types, HasHighest
  <2>3. CASE m = ns
    <3> DEFINE r == releases[ns]
               s == Append(r, n)
    <3>1. r \in Seq(Nat) /\ Len(r) \in Nat
      BY <1>1, <1>2
    <3>2. releases'[m] = s
      BY <2>1, <2>3, <1>1, <1>2
    <3>3. r = <<>> \/ \E i \in DOMAIN r : \A j \in DOMAIN r : r[j] <= r[i]
      BY <1>1 DEF Types, HasHighest
    <3> HIDE DEF r
    <3>4. /\ DOMAIN s = 1..(Len(r) + 1)
          /\ s[Len(r) + 1] = n
          /\ \A j \in 1..Len(r) : s[j] = r[j] /\ r[j] \in Nat
          /\ DOMAIN r = 1..Len(r)
      BY <3>1, <1>1
    <3> HIDE DEF s
    <3>5. \E i \in DOMAIN s : \A j \in DOMAIN s : s[j] <= s[i]
      <4>1. CASE r = <<>>
        <5>1. Len(r) = 0
          BY <4>1
        <5>2. DOMAIN s = {1} /\ s[1] = n
          BY <5>1, <3>4
        <5> QED
          BY <5>2, <1>1
      <4>2. CASE \E i \in DOMAIN r : \A j \in DOMAIN r : r[j] <= r[i]
        <5>1. PICK i \in 1..Len(r) : \A j \in 1..Len(r) : r[j] <= r[i]
          BY <4>2, <3>4, Zenon
        <5>2. CASE r[i] <= n
          <6>1. \A j \in DOMAIN s : s[j] <= s[Len(r) + 1]
            BY <5>1, <5>2, <3>1, <3>4, <1>1, SMTT(30)
          <6>2. Len(r) + 1 \in DOMAIN s
            BY <3>1, <3>4
          <6> QED
            BY <6>1, <6>2
        <5>3. CASE n <= r[i]
          <6>1. \A j \in DOMAIN s : s[j] <= s[i]
            BY <5>1, <5>3, <3>1, <3>4, <1>1
          <6> QED
            BY <6>1, <5>1, <3>1, <3>4
        <5> QED
          BY <5>1, <5>2, <5>3, <3>4, <1>1
      <4> QED
        BY <3>3, <4>1, <4>2
    <3> QED
      BY <3>2, <3>5
  <2> QED
    BY <2>2, <2>3
<1> QED
  BY <1>3, <1>4

(* Every step keeps the types.                                             *)
LEMMA TypesInitial == Init => Types
BY NoCallType DEF Init, Types, TypeOK, HasHighest, NoRow, ConfigKey

(* Every step preserves the types.                                         *)
LEMMA TypesInductive ==
    ASSUME Types, [Next]_vars
    PROVE  Types'
<1>0. TypeOK /\ HasHighest
  BY DEF Types
<1>t. ASSUME pc' \in [Threads -> Labels], local' \in [Threads -> Local],
             configs' \in [Entries -> ConfigKey],
             UNCHANGED <<config_versions, change_logs, releases, released>>,
             faults' \in Nat, abreast' \subseteq Namespaces
      PROVE  Types'
  BY <1>0, <1>t DEF Types, TypeOK, HasHighest, Labels
<1>1. ASSUME NEW t \in Threads, Move(t)
      PROVE  Types'
  <2>1. /\ \E label \in Labels \ {"readMax", "insertRelease"}, call \in Local :
              Goto(t, label, call)
        /\ UNCHANGED <<configs, config_versions, change_logs, releases, faults, released,
                       abreast>>
    BY <1>0, <1>1, MoveCases
  <2>2. pc' \in [Threads -> Labels] /\ local' \in [Threads -> Local]
    BY <1>0, <2>1, GotoTypes
  <2> QED
    BY <1>0, <1>t, <2>1, <2>2 DEF TypeOK
<1>2. ASSUME NEW t \in Threads, Write(t)
      PROVE  Types'
  <2>1. /\ \E row \in ConfigKey : configs' = [configs EXCEPT ![local[t].entry] = row]
        /\ \E label \in {"insertVersion", "insertLog"} : Goto(t, label, local[t])
        /\ UNCHANGED <<config_versions, change_logs, releases, faults, released, abreast>>
    BY <1>0, <1>2, WriteCases
  <2>2. configs' \in [Entries -> ConfigKey]
    BY <1>0, <2>1, Zenon DEF TypeOK
  <2>3. {"insertVersion", "insertLog"} \subseteq Labels
    BY DEF Labels, Connected
  <2>4. pc' \in [Threads -> Labels] /\ local' \in [Threads -> Local]
    BY <1>0, <2>1, <2>3, GotoTypes, LocalFields
  <2> QED
    BY <1>0, <1>t, <2>1, <2>2, <2>4 DEF TypeOK
<1>3. ASSUME NEW t \in Threads, insertVersion(t)
      PROVE  Types'
  <2>1. "insertLog" \in Labels /\ Goto(t, "insertLog", local[t])
    BY <1>3 DEF insertVersion, Labels, Connected
  <2>2. pc' \in [Threads -> Labels] /\ local' \in [Threads -> Local]
    BY <1>0, <2>1, GotoTypes, LocalFields
  <2>3. config_versions' \in [ConfigIds -> Seq(ConfigVersion)]
    <3> DEFINE id == IdOf(local[t].entry)
    <3>1. id \in ConfigIds /\ local[t].cv \in ConfigVersion
      BY <1>0, LocalFields
    <3>2. config_versions' = [config_versions EXCEPT ![id] =
                                 Append(config_versions[id], local[t].cv)]
      BY <1>3 DEF insertVersion
    <3> HIDE DEF id
    <3> QED
      BY <1>0, <3>1, <3>2 DEF TypeOK
  <2> QED
    BY <1>0, <1>3, <2>2, <2>3 DEF insertVersion, Types, TypeOK, HasHighest, Labels
<1>4. ASSUME NEW t \in Threads, insertLog(t)
      PROVE  Types'
  <2>1. Return(t)
    BY <1>4 DEF insertLog
  <2>2. pc' \in [Threads -> Labels] /\ local' \in [Threads -> Local]
    BY <1>0, <2>1, ReturnTypes
  <2>3. change_logs' \in [Entries -> Seq(ChangeLog)]
    <3>1. local[t].entry \in Entries /\ local[t].cl \in ChangeLog
      BY <1>0, LocalFields
    <3> QED
      BY <1>0, <1>4, <3>1 DEF insertLog, TypeOK
  <2> QED
    BY <1>0, <1>4, <2>2, <2>3 DEF insertLog, Types, TypeOK, HasHighest, Labels
<1>5. ASSUME NEW t \in Threads, lockRows(t)
      PROVE  Types'
  <2>1. "readMax" \in Labels /\ Goto(t, "readMax", [local[t] EXCEPT !.updated = TRUE])
    BY <1>5, Zenon DEF lockRows, Labels, Connected
  <2>2. [local[t] EXCEPT !.updated = TRUE] \in Local
    BY <1>0, PublicationTypes, Zenon
  <2>3. pc' \in [Threads -> Labels] /\ local' \in [Threads -> Local]
    BY <1>0, <2>1, <2>2, GotoTypes, Zenon
  <2>4. abreast' \subseteq Namespaces
    BY <1>0, <1>5, LocalFields DEF lockRows, TypeOK
  <2> QED
    BY <1>0, <1>5, <1>t, <2>3, <2>4 DEF lockRows, TypeOK
<1>6. ASSUME NEW t \in Threads, readMax(t)
      PROVE  Types'
  <2> DEFINE call == [local[t] EXCEPT !.nextVersion = MaxReleaseVersion(local[t].entry[1]) + 1]
  <2>1. MaxReleaseVersion(local[t].entry[1]) + 1 \in Nat
    BY <1>0, LocalFields, HighestIsNat
  <2>2. call \in Local
    BY <1>0, <2>1, PublicationTypes, Zenon
  <2>3. "insertRelease" \in Labels /\ Goto(t, "insertRelease", call)
    BY <1>6 DEF readMax, Labels, Connected
  <2> HIDE DEF call
  <2>4. pc' \in [Threads -> Labels] /\ local' \in [Threads -> Local]
    BY <1>0, <2>2, <2>3, GotoTypes
  <2> QED
    BY <1>0, <1>6, <1>t, <2>4 DEF readMax, TypeOK
<1>7. ASSUME NEW t \in Threads, NEW inserted \in BOOLEAN, Commit(t, inserted),
             faults' \in Nat, UNCHANGED <<config_versions, change_logs, abreast>>
      PROVE  Types'
  <2>1. HasHighest'
    BY <1>7, HighestAppended
  <2>2. /\ configs' \in [Entries -> ConfigKey]
        /\ releases' \in [Namespaces -> Seq(Nat)]
        /\ released' \in [Entries -> ConfigKey]
        /\ pc' \in [Threads -> Labels]
        /\ local' \in [Threads -> Local]
    BY <1>0, <1>7, CommitTypes
  <2> QED
    BY <1>0, <1>7, <2>1, <2>2 DEF Types, TypeOK, Labels
<1>8. ASSUME NEW t \in Threads, insertRelease(t)
      PROVE  Types'
  BY <1>0, <1>7, <1>8, Zenon DEF insertRelease, TypeOK
<1>9. ASSUME NEW t \in Threads, InsertReleaseFails(t)
      PROVE  Types'
  <2>1. Commit(t, FALSE) /\ UNCHANGED <<config_versions, change_logs, abreast>>
    BY <1>9, Zenon DEF InsertReleaseFails
  <2>2. faults' \in Nat
    BY <1>0, <1>9 DEF InsertReleaseFails, TypeOK
  <2> QED
    BY <1>7, <2>1, <2>2, Zenon
<1>10. ASSUME NEW t \in Threads, StatementFails(t)
       PROVE  Types'
  <2>1. /\ \E label \in Labels, call \in Local : Goto(t, label, call)
        /\ faults' = faults + 1
        /\ UNCHANGED <<configs, config_versions, change_logs, releases, released, abreast>>
    BY <1>0, <1>10, FailureCases
  <2>2. pc' \in [Threads -> Labels] /\ local' \in [Threads -> Local]
    BY <1>0, <2>1, GotoTypes
  <2> QED
    BY <1>0, <1>t, <2>1, <2>2 DEF TypeOK
<1>11. ASSUME UNCHANGED vars
       PROVE  Types'
  BY <1>0, <1>11 DEF vars, Types, TypeOK, HasHighest
<1> QED
  BY <1>1, <1>2, <1>3, <1>4, <1>5, <1>6, <1>8, <1>9, <1>10, <1>11, NextCases

-----------------------------------------------------------------------------
(* What clients are served is what the last commit made live.              *)
LEMMA ServedInductive ==
    ASSUME Types, ServedIsCommitted, [Next]_vars
    PROVE  ServedIsCommitted'
<1>0. TypeOK
  BY DEF Types
<1> DEFINE Fine(row, last) == row.status = "live" => row = last
<1>d. \A row \in ConfigKey : \A last \in ConfigKey :
         Fine(row, last) <=>
             (~Absent(VisibleRow(row, FALSE)) => VisibleRow(row, FALSE) = last)
  BY DEF ConfigKey, VisibleRow, NoRow
<1> SUFFICES ASSUME NEW e \in Entries
             PROVE  Fine(configs'[e], released'[e])
  <2>1. configs' \in [Entries -> ConfigKey] /\ released' \in [Entries -> ConfigKey]
    BY TypesInductive DEF Types, TypeOK
  <2> HIDE DEF Fine
  <2> QED
    BY <1>d, <2>1, Zenon DEF ServedIsCommitted, getConfig
<1>1. Fine(configs[e], released[e])
  <2>1. configs[e] \in ConfigKey /\ released[e] \in ConfigKey
    BY <1>0 DEF TypeOK
  <2> HIDE DEF Fine
  <2> QED
    BY <1>d, <2>1, Zenon DEF ServedIsCommitted, getConfig
<1>2. ASSUME configs' = configs, released' = released
      PROVE  Fine(configs'[e], released'[e])
  BY <1>1, <1>2
<1>3. ASSUME NEW t \in Threads, Write(t)
      PROVE  Fine(configs'[e], released'[e])
  <2>1. PICK row \in ConfigKey :
            /\ configs' = [configs EXCEPT ![local[t].entry] = row]
            /\ row = configs[local[t].entry] \/ Absent(row) \/ row.status = "draft"
    BY <1>0, <1>3, WriteCases
  <2>2. released' = released
    BY <1>0, <1>3, WriteCases
  <2>3. configs'[e] = IF e = local[t].entry THEN row ELSE configs[e]
    BY <1>0, <2>1 DEF TypeOK
  <2> QED
    BY <1>1, <2>1, <2>2, <2>3
<1>4. ASSUME NEW t \in Threads, NEW inserted \in BOOLEAN, Commit(t, inserted)
      PROVE  Fine(configs'[e], released'[e])
  <2> DEFINE mine == e[1] = local[t].entry[1] /\ local[t].updated
  <2>1. /\ configs'[e] = IF mine THEN PublishedRow(configs[e]) ELSE configs[e]
        /\ released'[e] = IF mine THEN configs'[e] ELSE released[e]
    BY <1>4 DEF Commit
  <2> QED
    BY <1>1, <2>1
<1>5. ASSUME NEW t \in Threads, Move(t)
      PROVE  configs' = configs /\ released' = released
  BY <1>0, <1>5, MoveCases
<1>6. ASSUME NEW t \in Threads, insertVersion(t) \/ insertLog(t) \/ lockRows(t) \/ readMax(t)
      PROVE  configs' = configs /\ released' = released
  BY <1>6, Zenon DEF insertVersion, insertLog, lockRows, readMax
<1>7. ASSUME NEW t \in Threads, insertRelease(t) \/ InsertReleaseFails(t)
      PROVE  Commit(t, TRUE) \/ Commit(t, FALSE)
  BY <1>7, Zenon DEF insertRelease, InsertReleaseFails
<1>8. ASSUME NEW t \in Threads, StatementFails(t)
      PROVE  configs' = configs /\ released' = released
  BY <1>0, <1>8, FailureCases
<1>9. UNCHANGED vars => configs' = configs /\ released' = released
  BY DEF vars
<1> HIDE DEF Fine
<1> QED
  BY <1>2, <1>3, <1>4, <1>5, <1>6, <1>7, <1>8, <1>9, NextCases, Zenon

(* Clients are served what the last commit of publishRelease made live,    *)
(* whatever writers interleave with it and whichever statements fail, for  *)
(* any number of them.                                                     *)
THEOREM ServedAlwaysCommitted == Spec => []ServedIsCommitted
<1> DEFINE Inv == Types /\ ServedIsCommitted
<1>1. Init => Inv
  <2>1. Init => ServedIsCommitted
    BY DEF Init, ServedIsCommitted, getConfig, VisibleRow, NoRow
  <2> QED
    BY <2>1, TypesInitial
<1>2. Inv /\ [Next]_vars => Inv'
  BY TypesInductive, ServedInductive
<1>3. Inv => ServedIsCommitted
  OBVIOUS
<1> HIDE DEF Inv
<1> QED
  BY <1>1, <1>2, <1>3, PTL DEF Spec

-----------------------------------------------------------------------------
(* One publication of a namespace at a time, with the next number, unless  *)
(* there was no row to lock.                                               *)
Open(t) == pc[t] \in {"readMax", "insertRelease"}

Publications ==
    faults = 0 =>
        /\ \A t \in Threads : Open(t) => local[t].updated
        /\ \A t, u \in Threads :
               /\ Open(t) /\ Open(u)
               /\ local[t].entry[1] = local[u].entry[1]
               /\ local[t].entry[1] \notin abreast
               => t = u
        /\ \A t \in Threads :
               pc[t] = "insertRelease" /\ local[t].entry[1] \notin abreast
               => local[t].nextVersion = Len(releases[local[t].entry[1]]) + 1

Numbered == Types /\ Publications /\ ReleasesNumbered

(* The SELECT of publishRelease finds the number of releases there are.    *)
LEMMA HighestIsLength ==
    ASSUME Numbered, faults = 0, NEW ns \in Namespaces \ abreast
    PROVE  MaxReleaseVersion(ns) = Len(releases[ns])
<1> DEFINE r == releases[ns]
           versions == {r[i] : i \in DOMAIN r}
<1>1. r \in Seq(Nat) /\ Len(r) \in Nat /\ DOMAIN r = 1..Len(r)
  BY DEF Numbered, Types, TypeOK
<1>2. \A i \in DOMAIN r : r[i] = i
  BY DEF Numbered, ReleasesNumbered
<1>3. MaxReleaseVersion(ns) = IF versions = {} THEN 0
                              ELSE CHOOSE v \in versions : \A w \in versions : w <= v
  BY DEF MaxReleaseVersion
<1> HIDE DEF r
<1>4. versions = 1..Len(r)
  BY <1>1, <1>2
<1> HIDE DEF versions
<1>5. CASE Len(r) = 0
  <2>1. versions = {}
    BY <1>4, <1>5
  <2>2. MaxReleaseVersion(ns) = 0
    BY <1>3, <2>1, Zenon
  <2> QED
    BY <1>5, <2>2 DEF r
<1>6. CASE Len(r) # 0
  <2> DEFINE len == Len(r)
  <2>1. len \in Nat \ {0} /\ versions = 1..len
    BY <1>1, <1>4, <1>6
  <2> HIDE DEF len
  <2>2. len \in versions /\ \A w \in versions : w <= len
    BY <2>1
  <2>3. \A v \in versions : (\A w \in versions : w <= v) => v = len
    BY <2>1, <2>2
  <2>4. (CHOOSE v \in versions : \A w \in versions : w <= v) = len
    BY <2>2, <2>3
  <2>5. MaxReleaseVersion(ns) = len
    BY <1>3, <2>2, <2>4
  <2> QED
    BY <2>5 DEF len, r
<1> QED
  BY <1>5, <1>6

(* A step outside the publications.                                        *)
LEMMA OutsideKeeps ==
    ASSUME Numbered, NEW t \in Threads, NEW label, NEW call, Goto(t, label, call),
           ~Open(t), label \notin {"readMax", "insertRelease"},
           UNCHANGED <<releases, faults, abreast>>
    PROVE  Publications' /\ ReleasesNumbered'
<1>1. pc \in [Threads -> Labels] /\ local \in [Threads -> Local]
  BY DEF Numbered, Types, TypeOK, Labels
<1>2. \A u \in Threads : Open(u)' => Open(u) /\ local'[u] = local[u] /\ pc'[u] = pc[u]
  BY <1>1 DEF Goto, Open
<1>3. Publications'
  BY <1>2, SMTT(30) DEF Numbered, Publications, Open
<1>4. ReleasesNumbered'
  BY DEF Numbered, ReleasesNumbered
<1> QED
  BY <1>3, <1>4

(* The UPDATE, which waits for another publication of the namespace.       *)
LEMMA LockKeeps ==
    ASSUME Numbered, NEW t \in Threads, lockRows(t), faults = 0
    PROVE  Publications' /\ ReleasesNumbered'
<1> DEFINE ns == local[t].entry[1]
           call == [local[t] EXCEPT !.updated = TRUE]
<1>1. pc \in [Threads -> Labels] /\ local \in [Threads -> Local] /\ local[t] \in Local
  BY DEF Numbered, Types, TypeOK, Labels
<1>2. call.updated = TRUE /\ call.entry = local[t].entry
  BY <1>1 DEF Local
<1>3. /\ pc' = [pc EXCEPT ![t] = "readMax"]
      /\ local' = [local EXCEPT ![t] = call]
      /\ releases' = releases /\ faults' = faults
      /\ pc[t] = "lockRows"
      /\ abreast \subseteq abreast'
      /\ ns \in abreast' \/ Publishing(ns) = {}
  BY DEF lockRows, Goto
<1>4. pc'[t] = "readMax" /\ local'[t].updated /\ local'[t].entry[1] = ns
  <2>1. pc'[t] = "readMax" /\ local'[t] = call
    BY <1>1, <1>3, Zenon
  <2> HIDE DEF call
  <2> QED
    BY <1>2, <2>1
<1>5. \A u \in Threads \ {t} : pc'[u] = pc[u] /\ local'[u] = local[u]
  BY <1>1, <1>3
<1>6. \A u \in Threads : Open(u) => local[u].updated
  BY DEF Numbered, Publications
<1>7. Publishing(ns) = {} => \A u \in Threads : Open(u) => local[u].entry[1] # ns
  BY <1>6 DEF Publishing, Open
<1> HIDE DEF ns, call
<1>8. \A u \in Threads : Open(u)' => local'[u].updated
  BY <1>4, <1>5, <1>6 DEF Open
<1>9. \A u, v \in Threads :
         /\ Open(u)' /\ Open(v)'
         /\ local'[u].entry[1] = local'[v].entry[1]
         /\ local'[u].entry[1] \notin abreast'
         => u = v
  BY <1>3, <1>4, <1>5, <1>7 DEF Numbered, Publications, Open
<1>10. \A u \in Threads :
          pc'[u] = "insertRelease" /\ local'[u].entry[1] \notin abreast'
          => local'[u].nextVersion = Len(releases'[local'[u].entry[1]]) + 1
  BY <1>3, <1>4, <1>5 DEF Numbered, Publications
<1>11. Publications'
  BY <1>8, <1>9, <1>10 DEF Publications
<1>12. ReleasesNumbered'
  BY <1>3 DEF Numbered, ReleasesNumbered
<1> QED
  BY <1>11, <1>12

(* The SELECT of the highest number.                                       *)
LEMMA ReadKeeps ==
    ASSUME Numbered, NEW t \in Threads, readMax(t), faults = 0
    PROVE  Publications' /\ ReleasesNumbered'
<1> DEFINE ns == local[t].entry[1]
           n == MaxReleaseVersion(ns) + 1
           call == [local[t] EXCEPT !.nextVersion = n]
<1>1. pc \in [Threads -> Labels] /\ local \in [Threads -> Local] /\ local[t] \in Local
  BY DEF Numbered, Types, TypeOK, Labels
<1>2. ns \in Namespaces
  BY LocalFields DEF Numbered, Types
<1>3. /\ pc' = [pc EXCEPT ![t] = "insertRelease"]
      /\ local' = [local EXCEPT ![t] = call]
      /\ UNCHANGED <<releases, faults, abreast>>
      /\ pc[t] = "readMax"
  BY DEF readMax, Goto
<1>4. ns \notin abreast => n = Len(releases[ns]) + 1
  BY <1>2, HighestIsLength
<1> HIDE DEF n
<1>5. /\ call.updated = local[t].updated
      /\ call.entry = local[t].entry
      /\ call.nextVersion = n
  BY <1>1 DEF Local
<1> HIDE DEF call
<1>6. /\ pc'[t] = "insertRelease"
      /\ local'[t].updated = local[t].updated
      /\ local'[t].entry[1] = ns
      /\ local'[t].nextVersion = n
  BY <1>1, <1>3, <1>5
<1>7. \A u \in Threads \ {t} : pc'[u] = pc[u] /\ local'[u] = local[u]
  BY <1>1, <1>3
<1>8. \A u \in Threads : (Open(u)' <=> Open(u)) /\ local'[u].updated = local[u].updated
                         /\ local'[u].entry[1] = local[u].entry[1]
  BY <1>3, <1>6, <1>7 DEF Open
<1>9. \A u \in Threads :
         pc'[u] = "insertRelease" /\ local'[u].entry[1] \notin abreast'
         => local'[u].nextVersion = Len(releases'[local'[u].entry[1]]) + 1
  BY <1>3, <1>4, <1>6, <1>7, SMTT(30) DEF Numbered, Publications
<1> HIDE DEF ns
<1>10. Publications'
  BY <1>3, <1>8, <1>9 DEF Numbered, Publications
<1>11. ReleasesNumbered'
  BY <1>3 DEF Numbered, ReleasesNumbered
<1> QED
  BY <1>10, <1>11

(* The INSERT of the release and the commit.                               *)
LEMMA CommitKeeps ==
    ASSUME Numbered, NEW t \in Threads, insertRelease(t), faults = 0
    PROVE  Publications' /\ ReleasesNumbered'
<1> DEFINE ns == local[t].entry[1]
           n == local[t].nextVersion
<1>1. pc \in [Threads -> Labels] /\ local \in [Threads -> Local]
  BY DEF Numbered, Types, TypeOK, Labels
<1>2. ns \in Namespaces /\ n \in Nat
  BY LocalFields DEF Numbered, Types
<1>3. /\ pc' = [pc EXCEPT ![t] = "idle"]
      /\ local' = [local EXCEPT ![t] = NoCall]
      /\ releases' = [releases EXCEPT ![ns] = Append(releases[ns], n)]
      /\ faults' = faults /\ abreast' = abreast
      /\ pc[t] = "insertRelease"
  BY SMTT(30) DEF insertRelease, Commit, Return, Goto
<1>4. ns \notin abreast => n = Len(releases[ns]) + 1
  BY <1>3 DEF Numbered, Publications
<1>5. \A u \in Threads \ {t} : pc'[u] = pc[u] /\ local'[u] = local[u]
  BY <1>1, <1>3
<1>6. ~Open(t)' /\ pc'[t] = "idle"
  BY <1>1, <1>3 DEF Open
<1>7. releases \in [Namespaces -> Seq(Nat)]
  BY SMTT(30) DEF Numbered, Types, TypeOK
<1>8. \A u \in Threads \ {t} : Open(u) /\ local[u].entry[1] \notin abreast
                               => local[u].entry[1] # ns
  BY <1>3 DEF Numbered, Publications, Open
<1> HIDE DEF ns, n
<1>9. \A m \in Namespaces \ {ns} : releases'[m] = releases[m]
  BY <1>3, <1>7
<1>10. \A u \in Threads : local[u].entry[1] \in Namespaces
  BY LocalFields DEF Numbered, Types
<1>11. \A u \in Threads :
          pc'[u] = "insertRelease" /\ local'[u].entry[1] \notin abreast'
          => local'[u].nextVersion = Len(releases'[local'[u].entry[1]]) + 1
  <2> SUFFICES ASSUME NEW u \in Threads, pc'[u] = "insertRelease",
                      local'[u].entry[1] \notin abreast'
               PROVE  local'[u].nextVersion = Len(releases'[local'[u].entry[1]]) + 1
    OBVIOUS
  <2>1. u # t /\ pc[u] = "insertRelease" /\ local'[u] = local[u]
    BY <1>5, <1>6
  <2>2. releases'[local[u].entry[1]] = releases[local[u].entry[1]]
    BY <1>3, <1>8, <1>9, <1>10, <2>1 DEF Open
  <2>3. local[u].nextVersion = Len(releases[local[u].entry[1]]) + 1
    BY <1>3, <2>1, SMTT(30) DEF Numbered, Publications
  <2> QED
    BY <2>1, <2>2, <2>3
<1>12. Publications'
  BY <1>3, <1>5, <1>6, <1>11 DEF Numbered, Publications, Open
<1>13. ReleasesNumbered'
  <2> SUFFICES ASSUME NEW m \in Namespaces \ abreast, NEW i \in DOMAIN releases'[m]
               PROVE  releases'[m][i] = i
    BY <1>3 DEF ReleasesNumbered
  <2>1. \A j \in DOMAIN releases[m] : releases[m][j] = j
    BY DEF Numbered, ReleasesNumbered
  <2>2. CASE m # ns
    BY <1>9, <2>1, <2>2
  <2>3. CASE m = ns
    <3> DEFINE r == releases[ns]
    <3>1. r \in Seq(Nat) /\ Len(r) \in Nat /\ n = Len(r) + 1
      BY <1>2, <1>4, <1>7, <2>3
    <3>2. releases'[m] = Append(r, n)
      BY <1>2, <1>3, <1>7, <2>3
    <3>3. \A j \in DOMAIN r : r[j] = j
      BY <2>1, <2>3
    <3> HIDE DEF r
    <3> QED
      BY <1>2, <3>1, <3>2, <3>3
  <2> QED
    BY <2>2, <2>3
<1> QED
  BY <1>12, <1>13

(* Every step preserves the numbering.                                     *)
LEMMA NumberedInductive ==
    ASSUME Numbered, [Next]_vars
    PROVE  Numbered'
<1>0. TypeOK
  BY DEF Numbered, Types
<1>1. Types'
  BY TypesInductive, SMTT(30) DEF Numbered
<1>2. CASE faults' # 0
  BY <1>1, <1>2 DEF Numbered, Publications, ReleasesNumbered
<1>3. CASE faults' = 0
  <2>1. \A t \in Threads : ~StatementFails(t) /\ ~InsertReleaseFails(t)
    <3>1. faults \in Nat
      BY <1>0 DEF TypeOK
    <3>2. faults' # faults + 1
      BY <1>3, <3>1
    <3> QED
      BY <3>2, Zenon DEF StatementFails, InsertReleaseFails
  <2>2. ASSUME NEW t \in Threads, Move(t)
        PROVE  Publications' /\ ReleasesNumbered'
    <3>1. /\ \E label \in Labels \ {"readMax", "insertRelease"}, call \in Local :
                Goto(t, label, call)
          /\ pc[t] \in {"idle", "create", "update"}
          /\ UNCHANGED <<releases, faults, abreast>>
      BY <1>0, <2>2, MoveCases
    <3>2. ~Open(t)
      BY <3>1 DEF Open
    <3> QED
      BY <3>1, <3>2, OutsideKeeps
  <2>3. ASSUME NEW t \in Threads, Write(t)
        PROVE  Publications' /\ ReleasesNumbered'
    <3>1. /\ \E label \in {"insertVersion", "insertLog"} : Goto(t, label, local[t])
          /\ pc[t] \in {"insertRow", "updateRow", "deleteRow"}
          /\ UNCHANGED <<releases, faults, abreast>>
      BY <1>0, <2>3, WriteCases
    <3>2. ~Open(t)
      BY <3>1 DEF Open
    <3> QED
      BY <3>1, <3>2, OutsideKeeps
  <2>4. ASSUME NEW t \in Threads, insertVersion(t)
        PROVE  Publications' /\ ReleasesNumbered'
    <3>1. Goto(t, "insertLog", local[t]) /\ ~Open(t) /\ UNCHANGED <<releases, faults, abreast>>
      BY <2>4 DEF insertVersion, Open
    <3> QED
      BY <3>1, OutsideKeeps
  <2>5. ASSUME NEW t \in Threads, insertLog(t)
        PROVE  Publications' /\ ReleasesNumbered'
    <3>1. Goto(t, "idle", NoCall) /\ ~Open(t) /\ UNCHANGED <<releases, faults, abreast>>
      BY <2>5 DEF insertLog, Return, Open
    <3> QED
      BY <3>1, OutsideKeeps
  <2>6. ASSUME NEW t \in Threads, lockRows(t) \/ readMax(t) \/ insertRelease(t)
        PROVE  Publications' /\ ReleasesNumbered'
    <3>1. faults = 0
      BY <1>3, <2>6, Zenon DEF lockRows, readMax, insertRelease
    <3> QED
      BY <2>6, <3>1, LockKeeps, ReadKeeps, CommitKeeps
  <2>7. ASSUME UNCHANGED vars
        PROVE  Publications' /\ ReleasesNumbered'
    BY <2>7 DEF vars, Numbered, Publications, ReleasesNumbered, Open
  <2>8. Publications' /\ ReleasesNumbered'
    BY <2>1, <2>2, <2>3, <2>4, <2>5, <2>6, <2>7, NextCases, Zenon
  <2> QED
    BY <1>1, <2>8 DEF Numbered
<1> QED
  BY <1>2, <1>3

(* The releases of a namespace are numbered 1, 2, 3... in the order of     *)
(* their commits, for any number of publications and writers, unless two   *)
(* publications found no row to lock or a statement failed.                *)
THEOREM ReleasesAlwaysNumbered == Spec => []ReleasesNumbered
<1>1. Init => Numbered
  <2>1. Init => Publications /\ ReleasesNumbered
    BY DEF Init, Publications, ReleasesNumbered, Open
  <2> QED
    BY <2>1, TypesInitial DEF Numbered
<1>2. Numbered /\ [Next]_vars => Numbered'
  BY NumberedInductive
<1>3. Numbered => ReleasesNumbered
  BY DEF Numbered
<1> QED
  BY <1>1, <1>2, <1>3, PTL DEF Spec

-----------------------------------------------------------------------------
(* The row of a key and its history.  Until a writer inserts the version   *)
(* of the row it has written, it holds that version (Pending); what a      *)
(* createConfig or an updateConfig will insert is the row it will write    *)
(* (Prepared).  A commit changes neither value nor version.                *)
Recorded(e, row) ==
    \E i \in DOMAIN config_versions[IdOf(e)] :
        /\ config_versions[IdOf(e)][i].version = row.version
        /\ config_versions[IdOf(e)][i].value = row.value

Pending(t, e, row) ==
    /\ pc[t] = "insertVersion"
    /\ local[t].entry = e
    /\ local[t].cv.version = row.version
    /\ local[t].cv.value = row.value

Backed(e) ==
    ~Absent(configs[e]) => \/ Recorded(e, configs[e])
                           \/ \E t \in Threads : Pending(t, e, configs[e])

Prepared(t) ==
    /\ pc[t] = "insertRow" => local[t].cv = CreateVersion(local[t].value)
    /\ pc[t] = "updateRow" => local[t].cv = UpdateVersion(local[t].row, local[t].value)

HeadInv == faults = 0 => (\A e \in Entries : Backed(e)) /\ (\A t \in Threads : Prepared(t))

(* A step that leaves the row and the history, and takes no thread past    *)
(* insertVersion, leaves a row backed.                                     *)
LEMMA BackedStays ==
    ASSUME TypeOK, NEW e \in Entries, Backed(e), NEW t \in Threads, NEW label, NEW call,
           Goto(t, label, call), pc[t] # "insertVersion",
           config_versions' = config_versions,
           Absent(configs'[e]) <=> Absent(configs[e]),
           configs'[e].version = configs[e].version,
           configs'[e].value = configs[e].value
    PROVE  Backed(e)'
<1>1. pc \in [Threads -> Labels] /\ local \in [Threads -> Local]
  BY DEF TypeOK, Labels
<1>2. \A u \in Threads : pc[u] = "insertVersion" => pc'[u] = pc[u] /\ local'[u] = local[u]
  BY <1>1 DEF Goto
<1>3. \A u \in Threads : Pending(u, e, configs[e]) => Pending(u, e, configs[e])'
  BY <1>2 DEF Pending
<1>4. Recorded(e, configs[e]) => Recorded(e, configs[e])'
  BY DEF Recorded
<1> QED
  BY <1>3, <1>4, Zenon DEF Backed

(* A step of one thread leaves the others prepared.                        *)
LEMMA PreparedStays ==
    ASSUME TypeOK, NEW t \in Threads, NEW label, NEW call, Goto(t, label, call),
           NEW u \in Threads, u # t, Prepared(u)
    PROVE  Prepared(u)'
<1>1. pc'[u] = pc[u] /\ local'[u] = local[u]
  BY DEF TypeOK, Goto
<1> QED
  BY <1>1 DEF Prepared

(* A thread that goes anywhere but to its row is prepared.                 *)
LEMMA PreparedElsewhere ==
    ASSUME TypeOK, NEW t \in Threads, NEW label, NEW call, Goto(t, label, call),
           label \notin {"insertRow", "updateRow"}
    PROVE  Prepared(t)'
<1>1. pc'[t] = label
  BY DEF TypeOK, Goto
<1> QED
  BY <1>1 DEF Prepared

(* What a request prepares when it reaches its first statement.            *)
LEMMA MovePrepares ==
    ASSUME TypeOK, NEW t \in Threads, Move(t)
    PROVE  Prepared(t)'
<1>1. ASSUME NEW e \in Entries, NEW value \in Values, addDraftChange(t, e, value)
      PROVE  Prepared(t)'
  <2>1. \E label \in {"create", "update"} : Goto(t, label, Call(e, value))
    BY <1>1, Zenon DEF addDraftChange
  <2> QED
    BY <2>1, PreparedElsewhere
<1>2. ASSUME NEW e \in Entries, NEW target \in Nat, rollbackConfig(t, e, target)
      PROVE  Prepared(t)'
  BY <1>2, PreparedElsewhere DEF rollbackConfig
<1>3. ASSUME NEW e \in Entries, deleteConfig(t, e) PROVE Prepared(t)'
  BY <1>3, PreparedElsewhere DEF deleteConfig
<1>4. ASSUME NEW ns \in Namespaces, publishRelease(t, ns) PROVE Prepared(t)'
  BY <1>4, PreparedElsewhere DEF publishRelease
<1>5. ASSUME createConfig(t) PROVE Prepared(t)'
  <2> DEFINE cv == CreateVersion(local[t].value)
             cl == CreateLog(local[t].value)
             call == [local[t] EXCEPT !.cv = cv, !.cl = cl]
  <2>1. Goto(t, "insertRow", call)
    BY <1>5, Zenon DEF createConfig
  <2>2. local[t] \in Local
    BY LocalFields
  <2>3. cv = CreateVersion(local[t].value)
    OBVIOUS
  <2> HIDE DEF cv, cl
  <2>4. call.cv = cv /\ call.value = local[t].value
    BY <2>2 DEF Local
  <2> HIDE DEF call
  <2>5. pc'[t] = "insertRow" /\ local'[t] = call
    BY <2>1 DEF Goto, TypeOK
  <2> QED
    BY <2>3, <2>4, <2>5 DEF Prepared
<1>6. ASSUME updateConfig(t) PROVE Prepared(t)'
  <2> DEFINE row == configs[local[t].entry]
             cv == UpdateVersion(row, local[t].value)
             cl == UpdateLog(row, local[t].value)
             call == [local[t] EXCEPT !.row = row, !.cv = cv, !.cl = cl]
  <2>1. Return(t) \/ Goto(t, "updateRow", call)
    BY <1>6, Zenon DEF updateConfig, RowMissing
  <2>2. local[t] \in Local
    BY LocalFields
  <2>3. cv = UpdateVersion(row, local[t].value)
    OBVIOUS
  <2> HIDE DEF cv, cl, row
  <2>4. call.cv = cv /\ call.value = local[t].value /\ call.row = row
    BY <2>2 DEF Local
  <2> HIDE DEF call
  <2>5. Goto(t, "updateRow", call) => pc'[t] = "updateRow" /\ local'[t] = call
    BY DEF Goto, TypeOK
  <2>6. Goto(t, "updateRow", call) => Prepared(t)'
    BY <2>3, <2>4, <2>5 DEF Prepared
  <2>7. Return(t) => Prepared(t)'
    BY PreparedElsewhere DEF Return
  <2> QED
    BY <2>1, <2>6, <2>7
<1> QED
  BY <1>1, <1>2, <1>3, <1>4, <1>5, <1>6, Zenon DEF Move

(* A statement that writes a row leaves the thread with its version.       *)
LEMMA WriteBacked ==
    ASSUME TypeOK, NEW e \in Entries, Backed(e), NEW t \in Threads, Prepared(t), Write(t)
    PROVE  Backed(e)'
<1> DEFINE f == local[t].entry
<1>1. f \in Entries /\ configs \in [Entries -> ConfigKey]
  BY LocalFields, SMTT(30) DEF TypeOK
<1>2. /\ \E label \in {"insertVersion", "insertLog"} : Goto(t, label, local[t])
      /\ pc[t] # "insertVersion"
      /\ config_versions' = config_versions
  BY WriteCases
<1>3. ASSUME configs'[e] = configs[e] PROVE Backed(e)'
  BY <1>2, <1>3, BackedStays
<1>4. ASSUME Absent(configs'[e]) PROVE Backed(e)'
  BY <1>4, Zenon DEF Backed
<1>5. ASSUME e = f, NEW row, configs'[e] = row, Goto(t, "insertVersion", local[t]),
             local[t].cv.version = row.version, local[t].cv.value = row.value
      PROVE  Backed(e)'
  <2>1. pc'[t] = "insertVersion" /\ local'[t] = local[t]
    BY <1>5, SMTT(30) DEF Goto, TypeOK
  <2>2. Pending(t, e, configs[e])'
    BY <1>5, <2>1 DEF Pending
  <2> QED
    BY <2>2 DEF Backed
<1>6. CASE insertRow(t)
  <2>1. /\ configs' = [configs EXCEPT ![f] = IF Absent(configs[f]) THEN CreatedRow(local[t].value)
                                             ELSE configs[f]]
        /\ Goto(t, "insertVersion", local[t])
        /\ pc[t] = "insertRow"
    BY <1>6, SMTT(30) DEF insertRow
  <2>2. /\ e # f => configs'[e] = configs[e]
        /\ ~Absent(configs[f]) => configs'[f] = configs[f]
        /\ Absent(configs[f]) => configs'[f] = CreatedRow(local[t].value)
    BY <1>1, <2>1
  <2>3. local[t].cv = CreateVersion(local[t].value)
    BY <2>1, SMTT(30) DEF Prepared
  <2>4. /\ local[t].cv.version = CreatedRow(local[t].value).version
        /\ local[t].cv.value = CreatedRow(local[t].value).value
    BY <2>3, SMTT(30) DEF CreateVersion, CreatedRow
  <2>5. e = f /\ Absent(configs[f]) => Backed(e)'
    BY <1>5, <2>1, <2>2, <2>4
  <2> QED
    BY <1>3, <2>2, <2>5, SMTT(30)
<1>7. CASE updateRow(t)
  <2> DEFINE new == UpdatedRow(local[t].row, local[t].value, TRUE)
  <2>1. /\ configs' = [configs EXCEPT ![f] = IF Absent(configs[f]) THEN configs[f] ELSE new]
        /\ Goto(t, "insertVersion", local[t])
        /\ pc[t] = "updateRow"
    BY <1>7 DEF updateRow
  <2>2. local[t].cv = UpdateVersion(local[t].row, local[t].value)
    BY <2>1, SMTT(30) DEF Prepared
  <2>3. local[t].cv.version = new.version /\ local[t].cv.value = new.value
    BY <2>2, SMTT(30) DEF UpdateVersion, UpdatedRow
  <2> HIDE DEF new
  <2>4. /\ e # f => configs'[e] = configs[e]
        /\ Absent(configs[f]) => configs'[f] = configs[f]
        /\ ~Absent(configs[f]) => configs'[f] = new
    BY <1>1, <2>1, SMTT(30)
  <2>5. e = f /\ ~Absent(configs[f]) => Backed(e)'
    BY <1>5, <2>1, <2>3, <2>4
  <2> QED
    BY <1>3, <2>4, <2>5
<1>8. CASE deleteRow(t)
  <2>1. configs' = [configs EXCEPT ![f] = RemovedRow(configs[f], TRUE)]
    BY <1>8, SMTT(30) DEF deleteRow
  <2>2. RemovedRow(configs[f], TRUE) = configs[f] \/ Absent(RemovedRow(configs[f], TRUE))
    BY SMTT(30) DEF RemovedRow, NoRow
  <2>3. configs'[e] = configs[e] \/ Absent(configs'[e])
    BY <1>1, <2>1, <2>2, Zenon
  <2> QED
    BY <1>3, <1>4, <2>3
<1> QED
  BY <1>6, <1>7, <1>8, SMTT(30) DEF Write

(* insertVersion records the version it held, and loses no other.          *)
LEMMA InsertBacked ==
    ASSUME TypeOK, NEW e \in Entries, Backed(e), NEW t \in Threads, insertVersion(t)
    PROVE  Backed(e)'
<1> DEFINE id == IdOf(local[t].entry)
           old == config_versions[id]
<1>1. id \in ConfigIds /\ local[t].cv \in ConfigVersion /\ IdOf(e) \in ConfigIds
  BY LocalFields, SMTT(30) DEF ConfigIds
<1>2. /\ config_versions' = [config_versions EXCEPT ![id] = Append(old, local[t].cv)]
      /\ configs' = configs
      /\ Goto(t, "insertLog", local[t])
  BY DEF insertVersion
<1>3. config_versions \in [ConfigIds -> Seq(ConfigVersion)] /\ old \in Seq(ConfigVersion)
  BY <1>1 DEF TypeOK
<1> HIDE DEF id, old
<1>4. /\ config_versions'[id] = Append(old, local[t].cv)
      /\ IdOf(e) # id => config_versions'[IdOf(e)] = config_versions[IdOf(e)]
  BY <1>1, <1>2, <1>3, SMTT(30)
<1>5. /\ \A i \in DOMAIN old : /\ i \in DOMAIN Append(old, local[t].cv)
                               /\ Append(old, local[t].cv)[i] = old[i]
      /\ Len(old) + 1 \in DOMAIN Append(old, local[t].cv)
      /\ Append(old, local[t].cv)[Len(old) + 1] = local[t].cv
  BY <1>1, <1>3
<1>6. \A i \in DOMAIN config_versions[IdOf(e)] :
         /\ i \in DOMAIN config_versions'[IdOf(e)]
         /\ config_versions'[IdOf(e)][i] = config_versions[IdOf(e)][i]
  BY <1>4, <1>5, SMTT(30) DEF old
<1>7. Recorded(e, configs[e]) => Recorded(e, configs[e])'
  BY <1>2, <1>6, SMTT(30) DEF Recorded
<1>8. Pending(t, e, configs[e]) => Recorded(e, configs[e])'
  <2> SUFFICES ASSUME Pending(t, e, configs[e]) PROVE Recorded(e, configs[e])'
    OBVIOUS
  <2>1. /\ IdOf(e) = id
        /\ local[t].cv.version = configs[e].version /\ local[t].cv.value = configs[e].value
    BY SMTT(30) DEF Pending, id
  <2>2. /\ Len(old) + 1 \in DOMAIN config_versions'[IdOf(e)]
        /\ config_versions'[IdOf(e)][Len(old) + 1] = local[t].cv
    BY <1>4, <1>5, <2>1, SMTT(30)
  <2> QED
    BY <1>2, <2>1, <2>2, SMTT(30) DEF Recorded
<1>9. \A u \in Threads \ {t} : Pending(u, e, configs[e]) => Pending(u, e, configs[e])'
  <2>1. \A u \in Threads \ {t} : pc'[u] = pc[u] /\ local'[u] = local[u]
    BY <1>2 DEF Goto, TypeOK
  <2> QED
    BY <1>2, <2>1 DEF Pending
<1> QED
  BY <1>2, <1>7, <1>8, <1>9, Zenon DEF Backed

(* Every step preserves what backs the rows.                               *)
LEMMA HeadInductive ==
    ASSUME TypeOK, HeadInv, [Next]_vars
    PROVE  HeadInv'
<1> SUFFICES ASSUME faults' = 0
             PROVE  (\A e \in Entries : Backed(e)') /\ (\A u \in Threads : Prepared(u)')
  BY Zenon DEF HeadInv
<1>1. \A t \in Threads : ~StatementFails(t) /\ ~InsertReleaseFails(t)
  <2>1. faults' # faults + 1
    BY DEF TypeOK
  <2> QED
    BY <2>1, Zenon DEF StatementFails, InsertReleaseFails
<1>2. faults' = faults
  BY <1>1, NextCases, MoveCases, WriteCases, Zenon
     DEF insertVersion, insertLog, lockRows, readMax, insertRelease, vars
<1>3. (\A e \in Entries : Backed(e)) /\ (\A u \in Threads : Prepared(u))
  BY <1>2 DEF HeadInv
<1>4. ASSUME NEW t \in Threads, NEW label, NEW call, Goto(t, label, call),
             label \notin {"insertRow", "updateRow"}
      PROVE  \A u \in Threads : Prepared(u)'
  BY <1>3, <1>4, PreparedStays, PreparedElsewhere
<1>5. ASSUME NEW t \in Threads, Move(t)
      PROVE  (\A e \in Entries : Backed(e)') /\ (\A u \in Threads : Prepared(u)')
  <2>1. PICK label, call : Goto(t, label, call)
    BY <1>5, MoveCases
  <2>2. pc[t] # "insertVersion" /\ configs' = configs /\ config_versions' = config_versions
    BY <1>5, MoveCases, SMTT(30)
  <2>3. \A e \in Entries : Backed(e)'
    BY <1>3, <2>1, <2>2, BackedStays
  <2> QED
    BY <1>3, <1>5, <2>1, <2>3, PreparedStays, MovePrepares
<1>6. ASSUME NEW t \in Threads, Write(t)
      PROVE  (\A e \in Entries : Backed(e)') /\ (\A u \in Threads : Prepared(u)')
  <2>1. \E label \in {"insertVersion", "insertLog"} : Goto(t, label, local[t])
    BY <1>6, WriteCases
  <2>2. \A e \in Entries : Backed(e)'
    BY <1>3, <1>6, WriteBacked
  <2> QED
    BY <1>4, <2>1, <2>2
<1>7. ASSUME NEW t \in Threads, insertVersion(t)
      PROVE  (\A e \in Entries : Backed(e)') /\ (\A u \in Threads : Prepared(u)')
  <2>1. Goto(t, "insertLog", local[t])
    BY <1>7 DEF insertVersion
  <2> QED
    BY <1>3, <1>4, <1>7, <2>1, InsertBacked, SMTT(30)
<1>8. ASSUME NEW t \in Threads, insertLog(t) \/ lockRows(t) \/ readMax(t)
      PROVE  (\A e \in Entries : Backed(e)') /\ (\A u \in Threads : Prepared(u)')
  <2>1. pc[t] # "insertVersion" /\ configs' = configs /\ config_versions' = config_versions
    BY <1>8 DEF insertLog, lockRows, readMax
  <2>2. ASSUME NEW label, NEW call, Goto(t, label, call), label \notin {"insertRow", "updateRow"}
        PROVE  (\A e \in Entries : Backed(e)') /\ (\A u \in Threads : Prepared(u)')
    <3>1. \A e \in Entries : Backed(e)'
      BY <1>3, <2>1, <2>2, BackedStays
    <3> QED
      BY <1>4, <2>2, <3>1
  <2>3. CASE insertLog(t)
    <3>1. Goto(t, "idle", NoCall)
      BY <2>3, Zenon DEF insertLog, Return
    <3> QED
      BY <2>2, <3>1
  <2>4. CASE lockRows(t)
    <3>1. PICK call : Goto(t, "readMax", call)
      BY <2>4, Zenon DEF lockRows
    <3> QED
      BY <2>2, <3>1
  <2>5. CASE readMax(t)
    <3>1. PICK call : Goto(t, "insertRelease", call)
      BY <2>5, Zenon DEF readMax
    <3> QED
      BY <2>2, <3>1
  <2> QED
    BY <1>8, <2>3, <2>4, <2>5, Zenon
<1>9. ASSUME NEW t \in Threads, insertRelease(t)
      PROVE  (\A e \in Entries : Backed(e)') /\ (\A u \in Threads : Prepared(u)')
  <2>1. /\ Goto(t, "idle", NoCall) /\ pc[t] = "insertRelease"
        /\ config_versions' = config_versions
    BY <1>9, ZenonT(30) DEF insertRelease, Commit, Return
  <2>2. ASSUME NEW e \in Entries PROVE Backed(e)'
    <3>1. configs'[e] = PublishedRow(configs[e]) \/ configs'[e] = configs[e]
      BY <1>9 DEF insertRelease, Commit
    <3>2. configs[e] \in ConfigKey
      BY DEF TypeOK
    <3>3. /\ Absent(PublishedRow(configs[e])) <=> Absent(configs[e])
          /\ PublishedRow(configs[e]).version = configs[e].version
          /\ PublishedRow(configs[e]).value = configs[e].value
      BY <3>2, SMTT(30) DEF PublishedRow, ConfigKey
    <3> QED
      BY <1>3, <2>1, <3>1, <3>3, BackedStays, SMTT(30)
  <2> QED
    BY <1>4, <2>1, <2>2
<1>10. ASSUME UNCHANGED vars
       PROVE  (\A e \in Entries : Backed(e)') /\ (\A u \in Threads : Prepared(u)')
  BY <1>3, <1>10, Zenon DEF vars, Backed, Recorded, Pending, Prepared
<1> QED
  BY <1>1, <1>5, <1>6, <1>7, <1>8, <1>9, <1>10, NextCases, Zenon

(* Whatever writers interleave, for any number of them, the row of a key   *)
(* that no call is writing is one of the versions of its history, unless a *)
(* statement failed.                                                       *)
THEOREM HeadsAlwaysInHistory == Spec => []HeadInHistory
<1>1. Init => HeadInv
  <2> SUFFICES ASSUME Init PROVE (\A e \in Entries : Backed(e)) /\ (\A u \in Threads : Prepared(u))
    BY DEF HeadInv
  <2>1. \A e \in Entries : Backed(e)
    BY DEF Init, Backed, NoRow
  <2>2. \A u \in Threads : Prepared(u)
    BY DEF Init, Prepared
  <2> QED
    BY <2>1, <2>2
<1>2. Types /\ HeadInv /\ [Next]_vars => Types' /\ HeadInv'
  BY TypesInductive, HeadInductive DEF Types
<1>3. HeadInv => HeadInHistory
  <2> SUFFICES ASSUME HeadInv, faults = 0, NEW e \in Entries, ~Absent(configs[e]),
                      \A t \in Threads : HasConnection(t) => local[t].entry # e
               PROVE  Recorded(e, configs[e])
    BY DEF HeadInHistory, Recorded
  <2>1. \A t \in Threads : ~Pending(t, e, configs[e])
    BY DEF Pending, HasConnection, Connected
  <2> QED
    BY <2>1, SMTT(30) DEF HeadInv, Backed
<1> QED
  BY <1>1, <1>2, <1>3, TypesInitial, PTL DEF Spec
=============================================================================
