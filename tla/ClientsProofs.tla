--------------------------- MODULE ClientsProofs ---------------------------
(***************************************************************************)
(* What clients rely on: the rules of a grayscale release, the SDK and its *)
(* cache files, accounts and tokens.  ClientInv and AccountsInv are the    *)
(* inductive invariants of the SDK and of the accounts.                    *)
(***************************************************************************)
EXTENDS ReleaseRules, ConfigClient, Accounts, TLAPS

-----------------------------------------------------------------------------
(* The rules of a grayscale release.                                       *)

(* A client that matches narrow rules matches wider ones: the three ways   *)
(* of evaluateClientMatch each survive a higher percentage and a longer    *)
(* whitelist.                                                              *)
LEMMA MatchMonotone ==
    ASSUME NEW c \in Clients, NEW p \in Int, NEW q \in Int, NEW v, NEW w,
           p <= q, v \subseteq w, evaluateClientMatch(c, p, v)
    PROVE  evaluateClientMatch(c, q, w)
<1>1. CASE Whitelisted(c, v)
  BY <1>1 DEF evaluateClientMatch, Whitelisted
<1>2. CASE p >= 100
  BY <1>2 DEF evaluateClientMatch
<1>3. CASE p > 0 /\ InBucket(c, p)
  <2>1. hash[c] \in Nat /\ hash[c] % 100 \in Nat
    BY RulesAssumption
  <2> QED
    BY <1>3, <2>1 DEF evaluateClientMatch, InBucket
<1> QED
  BY <1>1, <1>2, <1>3 DEF evaluateClientMatch

(* The percentage is one of Percentages, hence a number.                   *)
PercentageOK == grayscalePercentage \in Percentages

(* Raising the percentage or extending the whitelist never takes a         *)
(* grayscale release from a client that evaluateClientMatch gave it to.    *)
THEOREM Widening == Spec => WideningKeepsClients
<1>1. Init => PercentageOK
  BY DEF Init, PercentageOK
<1>2. PercentageOK /\ [Next]_vars => PercentageOK'
  BY DEF Next, changeRules, vars, PercentageOK
<1>3. PercentageOK /\ PercentageOK' =>
          [grayscalePercentage' >= grayscalePercentage /\ whitelist \subseteq whitelist' =>
              Matching(grayscalePercentage, whitelist)
                  \subseteq Matching(grayscalePercentage', whitelist')]_vars
  <2> SUFFICES ASSUME PercentageOK, PercentageOK',
                      grayscalePercentage' >= grayscalePercentage, whitelist \subseteq whitelist'
               PROVE  Matching(grayscalePercentage, whitelist)
                          \subseteq Matching(grayscalePercentage', whitelist')
    OBVIOUS
  <2>1. grayscalePercentage \in Int /\ grayscalePercentage' \in Int
    BY RulesAssumption DEF PercentageOK
  <2>2. grayscalePercentage <= grayscalePercentage'
    BY <2>1
  <2> QED
    BY <2>1, <2>2, MatchMonotone DEF Matching
<1> QED
  BY <1>1, <1>2, <1>3, PTL DEF Spec, WideningKeepsClients
-----------------------------------------------------------------------------
(* The client SDK.                                                         *)

(* While no client has changed its application: a cache holds nothing but  *)
(* values that the application's file had at first, all of them once Init  *)
(* has succeeded; only such a client writes.                               *)
CachesOfApp ==
    \A c \in Processes :
        /\ appId_[c] = NoApp => configCache_[c] = Nothing
        /\ appId_[c] # NoApp =>
              \A k \in Keys : configCache_[c][k] \in {NoApp, ShippedFile(appId_[c])[k]}
        /\ initialized_[c] => configCache_[c] = ShippedFile(appId_[c])
        /\ pc[c] = "write" => initialized_[c]

(* A file is whole or empty, and no tail ever makes it invalid.            *)
FilesWhole ==
    \A a \in Apps :
        /\ file[a] \in {ShippedFile(a), Nothing}
        /\ state[a] = "valid" => file[a] = ShippedFile(a)
        /\ state[a] # "garbage"

ClientInv == ClientTypeOK /\ (~switched => CachesOfApp /\ FilesWhole /\ FilesKept)

(* What merging the values of one file into a cache gives.                 *)
LEMMA MergeTypes ==
    ASSUME NEW cache \in Contents, NEW contents \in Contents, NEW before \in SUBSET Keys
    PROVE  /\ Merge(cache, contents) \in Contents
           /\ Upto(contents, before) \in Contents
           /\ \A k \in Keys : cache[k] # NoApp => Merge(cache, contents)[k] # NoApp
           /\ \A k \in Keys : Merge(cache, contents)[k] \in {contents[k], cache[k]}
           /\ \A k \in Keys : Upto(contents, before)[k] \in {contents[k], NoApp}
  BY DEF Contents, Merge, Upto

(* Contents are equal when they agree on every key.                        *)
LEMMA SameContents ==
    ASSUME NEW s \in Contents, NEW t \in Contents, \A k \in Keys : s[k] = t[k]
    PROVE  s = t
  BY DEF Contents

(* The contents of the first files.                                        *)
LEMMA ShippedTypes ==
    /\ Nothing \in Contents
    /\ \A k \in Keys : Nothing[k] = NoApp
    /\ \A a \in Apps : ShippedFile(a) \in Contents
  BY ClientAssumption DEF Nothing, Contents, ShippedFile

(* Init: the cache afterwards, and what it says of the call.               *)
LEMMA InitCaches ==
    ASSUME ClientTypeOK, NEW c \in Processes, NEW a \in Apps, InitClient(c, a)
    PROVE  \E contents \in Contents :
              /\ \A k \in Keys : contents[k] \in {NoApp, file[a][k]}
              /\ \/ configCache_' = [configCache_ EXCEPT ![c] = Merge(@, contents)]
                 \/ configCache_' = configCache_
              /\ \/ /\ state[a] = "valid" /\ contents = file[a]
                    /\ configCache_' = [configCache_ EXCEPT ![c] = Merge(@, contents)]
                    /\ initialized_' = [initialized_ EXCEPT ![c] = TRUE]
                 \/ UNCHANGED initialized_
<1>1. file[a] \in Contents
  BY DEF ClientTypeOK
<1>2. CASE loadFromFileCache(c, a) /\ initialized_' = [initialized_ EXCEPT ![c] = TRUE]
  <2> WITNESS file[a] \in Contents
  <2> QED
    BY <1>1, <1>2 DEF loadFromFileCache
<1>3. CASE loadFails(c, a) /\ UNCHANGED initialized_
  <2>1. CASE UNCHANGED configCache_
    <3> WITNESS file[a] \in Contents
    <3> QED
      BY <1>1, <1>3, <2>1
  <2>2. ASSUME NEW before \in SUBSET Keys,
               configCache_' = [configCache_ EXCEPT ![c] = Merge(@, Upto(file[a], before))]
        PROVE  \E contents \in Contents :
                  /\ \A k \in Keys : contents[k] \in {NoApp, file[a][k]}
                  /\ configCache_' = [configCache_ EXCEPT ![c] = Merge(@, contents)]
    <3>1. Upto(file[a], before) \in Contents
      BY <1>1, MergeTypes
    <3> WITNESS Upto(file[a], before) \in Contents
    <3> QED
      BY <1>1, <2>2 DEF Upto
  <2> QED
    BY <1>3, <2>1, <2>2, Zenon DEF loadFails
<1> QED
  BY <1>2, <1>3 DEF InitClient

(* Init keeps ClientInv.                                                   *)
LEMMA InitClientKeeps ==
    ASSUME ClientInv, NEW c \in Processes, NEW a \in Apps, InitClient(c, a)
    PROVE  ClientInv'
<1> USE DEF ClientInv
<1>1. PICK contents \in Contents :
              /\ \A k \in Keys : contents[k] \in {NoApp, file[a][k]}
              /\ \/ configCache_' = [configCache_ EXCEPT ![c] = Merge(@, contents)]
                 \/ configCache_' = configCache_
              /\ \/ /\ state[a] = "valid" /\ contents = file[a]
                    /\ configCache_' = [configCache_ EXCEPT ![c] = Merge(@, contents)]
                    /\ initialized_' = [initialized_ EXCEPT ![c] = TRUE]
                 \/ UNCHANGED initialized_
  BY InitCaches
<1>2. /\ pc[c] = "idle"
      /\ switched' = (switched \/ appId_[c] \notin {a, NoApp})
      /\ appId_' = [appId_ EXCEPT ![c] = a]
      /\ UNCHANGED <<file, state, pc, crashes>>
  BY DEF InitClient, SetApp
<1>3. configCache_[c] \in Contents /\ Merge(configCache_[c], contents) \in Contents
  BY MergeTypes, Zenon DEF ClientTypeOK
<1>4. a # NoApp
  BY ClientAssumption
<1>5. ClientTypeOK'
  <2>1. configCache_' \in [Processes -> Contents]
    BY <1>1, <1>3 DEF ClientTypeOK
  <2>2. initialized_' \in [Processes -> BOOLEAN]
    BY <1>1, Zenon DEF ClientTypeOK
  <2>3. appId_' \in [Processes -> Apps \cup {NoApp}]
    BY <1>2 DEF ClientTypeOK
  <2>4. \A d \in Processes : initialized_'[d] => appId_'[d] # NoApp
    BY <1>1, <1>2, <1>4 DEF ClientTypeOK
  <2>5. switched' \in BOOLEAN
    BY <1>2 DEF ClientTypeOK
  <2> QED
    BY <1>2, <2>1, <2>2, <2>3, <2>4, <2>5 DEF ClientTypeOK
<1>6. ASSUME ~switched' PROVE CachesOfApp' /\ FilesWhole' /\ FilesKept'
  <2>1. ~switched /\ appId_[c] \in {a, NoApp} /\ CachesOfApp /\ FilesWhole /\ FilesKept
    BY <1>2, <1>6, Zenon DEF ClientTypeOK
  <2>2. FilesWhole'
    BY <1>2, <2>1 DEF FilesWhole
  <2>3. FilesKept'
    BY <1>2, <2>1, <1>6 DEF FilesKept, ClientTypeOK
  <2>4. \A k \in Keys : /\ configCache_[c][k] \in {NoApp, ShippedFile(a)[k]}
                        /\ file[a][k] \in {NoApp, ShippedFile(a)[k]}
                        /\ contents[k] \in {NoApp, ShippedFile(a)[k]}
    BY <1>1, <1>4, <2>1, ShippedTypes DEF CachesOfApp, FilesWhole
  <2>5. \A k \in Keys : configCache_'[c][k] \in {NoApp, ShippedFile(a)[k]}
    <3>1. \A k \in Keys : Merge(configCache_[c], contents)[k] \in {NoApp, ShippedFile(a)[k]}
      BY <2>4, <1>3, MergeTypes
    <3>2. configCache_'[c] \in {Merge(configCache_[c], contents), configCache_[c]}
      BY <1>1 DEF ClientTypeOK
    <3> QED
      BY <2>4, <3>1, <3>2
  <2>6. initialized_'[c] => configCache_'[c] = ShippedFile(a)
    <3>1. CASE /\ state[a] = "valid" /\ contents = file[a]
               /\ configCache_' = [configCache_ EXCEPT ![c] = Merge(@, contents)]
      <4>1. contents = ShippedFile(a)
        BY <2>1, <3>1 DEF FilesWhole
      <4>2. \A k \in Keys : Merge(configCache_[c], contents)[k] = ShippedFile(a)[k]
        BY <2>4, <4>1 DEF Merge
      <4>3. Merge(configCache_[c], contents) = ShippedFile(a)
        BY <4>2, <1>3, ShippedTypes, SameContents
      <4> QED
        BY <3>1, <4>3 DEF ClientTypeOK
    <3>2. CASE UNCHANGED initialized_ /\ initialized_[c]
      <4>1. appId_[c] = a /\ configCache_[c] = ShippedFile(a)
        BY <2>1, <3>2 DEF CachesOfApp, ClientTypeOK
      <4>2. \A k \in Keys : Merge(configCache_[c], contents)[k] = ShippedFile(a)[k]
        BY <2>4, <4>1 DEF Merge
      <4>3. Merge(configCache_[c], contents) = ShippedFile(a)
        BY <4>2, <1>3, ShippedTypes, SameContents
      <4>4. configCache_'[c] \in {Merge(configCache_[c], contents), configCache_[c]}
        BY <1>1 DEF ClientTypeOK
      <4> QED
        BY <4>1, <4>3, <4>4
    <3> QED
      BY <1>1, <3>1, <3>2
  <2>7. CachesOfApp'
    <3> SUFFICES ASSUME NEW d \in Processes
                 PROVE  /\ appId_'[d] = NoApp => configCache_'[d] = Nothing
                        /\ appId_'[d] # NoApp =>
                              \A k \in Keys : configCache_'[d][k] \in
                                                  {NoApp, ShippedFile(appId_'[d])[k]}
                        /\ initialized_'[d] => configCache_'[d] = ShippedFile(appId_'[d])
                        /\ pc'[d] = "write" => initialized_'[d]
      BY DEF CachesOfApp
    <3>1. CASE d = c
      <4>1. appId_'[d] = a /\ pc'[d] # "write"
        BY <1>2, <3>1 DEF ClientTypeOK
      <4> QED
        BY <1>4, <2>5, <2>6, <3>1, <4>1
    <3>2. CASE d # c
      <4>1. /\ appId_'[d] = appId_[d] /\ configCache_'[d] = configCache_[d]
            /\ initialized_'[d] = initialized_[d] /\ pc'[d] = pc[d]
        BY <1>1, <1>2, <3>2 DEF ClientTypeOK
      <4> QED
        BY <2>1, <4>1 DEF CachesOfApp
    <3> QED
      BY <3>1, <3>2, SMTT(30)
  <2> QED
    BY <2>2, <2>3, <2>7
<1> QED
  BY <1>5, <1>6

(* Shutdown keeps ClientInv: the file it empties is being written.         *)
LEMMA ShutdownKeeps ==
    ASSUME ClientInv, NEW c \in Processes, Shutdown(c)
    PROVE  ClientInv'
<1> USE DEF ClientInv
<1>1. /\ pc[c] = "idle" /\ initialized_[c]
      /\ state' = [state EXCEPT ![appId_[c]] = "empty"]
      /\ file' = [file EXCEPT ![appId_[c]] = Nothing]
      /\ pc' = [pc EXCEPT ![c] = "write"]
      /\ UNCHANGED <<configCache_, initialized_, appId_, crashes, switched>>
  BY DEF Shutdown
<1>2. appId_[c] \in Apps
  BY <1>1 DEF ClientTypeOK
<1>3. ClientTypeOK'
  <2>1. \A a \in Apps : state'[a] \notin {"valid", "mistyped"} => file'[a] = Nothing
    BY <1>1, <1>2 DEF ClientTypeOK
  <2> QED
    BY <1>1, <1>2, <2>1, ShippedTypes DEF ClientTypeOK
<1>4. ASSUME ~switched' PROVE CachesOfApp' /\ FilesWhole' /\ FilesKept'
  <2>1. ~switched /\ CachesOfApp /\ FilesWhole /\ FilesKept
    BY <1>1, <1>4
  <2>2. CachesOfApp'
    BY <1>1, <2>1 DEF CachesOfApp, ClientTypeOK
  <2>3. FilesWhole'
    BY <1>1, <1>2, <2>1 DEF FilesWhole, ClientTypeOK
  <2>4. FilesKept'
    <3> SUFFICES ASSUME NEW a \in Apps,
                        \A d \in Processes : pc'[d] = "write" => appId_'[d] # a
                 PROVE  file'[a] = ShippedFile(a) \/ (crashes' > 0 /\ file'[a] = Nothing)
      BY DEF FilesKept
    <3>1. appId_[c] # a
      BY <1>1 DEF ClientTypeOK
    <3>2. file'[a] = file[a]
      BY <1>1, <3>1 DEF ClientTypeOK
    <3>3. \A d \in Processes : pc[d] = "write" => appId_[d] # a
      BY <1>1 DEF ClientTypeOK
    <3> QED
      BY <1>1, <2>1, <3>2, <3>3, SMTT(30) DEF FilesKept
  <2> QED
    BY <2>2, <2>3, <2>4
<1> QED
  BY <1>3, <1>4

(* saveToFileCache keeps ClientInv: it writes the first contents again.    *)
LEMMA SaveKeeps ==
    ASSUME ClientInv, NEW c \in Processes, saveToFileCache(c)
    PROVE  ClientInv'
<1> USE DEF ClientInv
<1> DEFINE a == appId_[c]
<1>1. /\ pc[c] = "write"
      /\ initialized_' = [initialized_ EXCEPT ![c] = FALSE]
      /\ pc' = [pc EXCEPT ![c] = "idle"]
      /\ UNCHANGED <<configCache_, appId_, crashes, switched>>
  BY DEF saveToFileCache
<1>2. \/ /\ file' = [file EXCEPT ![a] = configCache_[c]]
         /\ state' = [state EXCEPT ![a] = "valid"]
      \/ /\ state[a] = "garbage" \/ (state[a] = "valid" /\ file[a] # configCache_[c])
         /\ file' = [file EXCEPT ![a] = Nothing]
         /\ state' = [state EXCEPT ![a] = "garbage"]
  BY DEF saveToFileCache
<1>3. configCache_[c] \in Contents
  BY DEF ClientTypeOK
<1>4. ClientTypeOK'
  <2>1. \A b \in Apps : state'[b] \notin {"valid", "mistyped"} => file'[b] = Nothing
    BY <1>2 DEF ClientTypeOK
  <2>2. file' \in [Apps -> Contents]
    BY <1>2, <1>3, ShippedTypes DEF ClientTypeOK
  <2>3. state' \in [Apps -> {"absent", "empty", "garbage", "mistyped", "valid"}]
    BY <1>2 DEF ClientTypeOK
  <2> QED
    BY <1>1, <2>1, <2>2, <2>3 DEF ClientTypeOK
<1>5. ASSUME ~switched' PROVE CachesOfApp' /\ FilesWhole' /\ FilesKept'
  <2>1. ~switched /\ CachesOfApp /\ FilesWhole /\ FilesKept
    BY <1>1, <1>5
  <2>2. CachesOfApp'
    BY <1>1, <2>1 DEF CachesOfApp, ClientTypeOK
  <2>3. a \in Apps /\ configCache_[c] = ShippedFile(a)
    BY <1>1, <2>1 DEF CachesOfApp, ClientTypeOK
  <2>4. /\ file' = [file EXCEPT ![a] = ShippedFile(a)]
        /\ state' = [state EXCEPT ![a] = "valid"]
    BY <1>2, <2>1, <2>3 DEF FilesWhole
  <2>5. \A b \in Apps : /\ b = a => file'[b] = ShippedFile(b) /\ state'[b] = "valid"
                        /\ b # a => file'[b] = file[b] /\ state'[b] = state[b]
    BY <2>4 DEF ClientTypeOK
  <2>6. FilesWhole'
    BY <2>1, <2>5 DEF FilesWhole
  <2>7. FilesKept'
    <3> SUFFICES ASSUME NEW b \in Apps, b # a,
                        \A d \in Processes : pc'[d] = "write" => appId_'[d] # b
                 PROVE  file'[b] = ShippedFile(b) \/ (crashes' > 0 /\ file'[b] = Nothing)
      BY <2>5 DEF FilesKept
    <3>1. \A d \in Processes : pc[d] = "write" => appId_[d] # b
      BY <1>1 DEF ClientTypeOK
    <3> QED
      BY <1>1, <2>1, <2>5, <3>1 DEF FilesKept
  <2> QED
    BY <2>2, <2>6, <2>7
<1> QED
  BY <1>4, <1>5

(* A crash keeps ClientInv: the file being written stays empty.            *)
LEMMA CrashKeeps ==
    ASSUME ClientInv, NEW c \in Processes, crash(c)
    PROVE  ClientInv'
<1> USE DEF ClientInv
<1>1. /\ crashes' = crashes + 1
      /\ configCache_' = [configCache_ EXCEPT ![c] = Nothing]
      /\ initialized_' = [initialized_ EXCEPT ![c] = FALSE]
      /\ appId_' = [appId_ EXCEPT ![c] = NoApp]
      /\ pc' = [pc EXCEPT ![c] = "idle"]
      /\ UNCHANGED <<file, state, switched>>
  BY DEF crash
<1>2. crashes' \in Nat /\ crashes' > 0
  BY <1>1 DEF ClientTypeOK
<1>3. ClientTypeOK'
  BY <1>1, <1>2, ShippedTypes DEF ClientTypeOK
<1>4. ASSUME ~switched' PROVE CachesOfApp' /\ FilesWhole' /\ FilesKept'
  <2>1. ~switched /\ CachesOfApp /\ FilesWhole /\ FilesKept
    BY <1>1, <1>4, SMTT(30)
  <2>2. CachesOfApp'
    BY <1>1, <2>1, ShippedTypes DEF CachesOfApp, ClientTypeOK
  <2>3. FilesWhole' /\ FilesKept'
    BY <1>1, <1>2, <2>1 DEF FilesWhole, FilesKept
  <2> QED
    BY <2>2, <2>3
<1> QED
  BY <1>3, <1>4

(* The clients begin with ClientInv.                                       *)
LEMMA ClientsBegin ==
    ASSUME ClientsInit
    PROVE  ClientInv
<1>1. \A a \in Apps : file[a] = ShippedFile(a) /\ (state[a] = "absent" => file[a] = Nothing)
  BY SMTT(30) DEF ClientsInit, ShippedFile, Nothing
<1>2. ClientTypeOK
  BY <1>1, ShippedTypes, Zenon DEF ClientsInit, ClientTypeOK
<1>3. CachesOfApp
  BY DEF ClientsInit, CachesOfApp
<1>4. FilesWhole /\ FilesKept
  BY <1>1, <1>2 DEF ClientsInit, FilesWhole, FilesKept
<1> QED
  BY <1>2, <1>3, <1>4 DEF ClientInv

(* Every step of a client keeps ClientInv.                                 *)
LEMMA ClientStep ==
    ASSUME ClientInv, [ClientNext]_clientVars
    PROVE  ClientInv'
<1>1. CASE UNCHANGED clientVars
  BY <1>1 DEF clientVars, ClientInv, ClientTypeOK, CachesOfApp, FilesWhole, FilesKept
<1>2. CASE ClientNext
  BY <1>2, InitClientKeeps, ShutdownKeeps, SaveKeeps, CrashKeeps DEF ClientNext
<1> QED
  BY <1>1, <1>2

(* ClientInv always holds.                                                 *)
LEMMA ClientAlways == ClientSpec => []ClientInv
  BY ClientsBegin, ClientStep, PTL DEF ClientSpec

(* Caches, files and the states of clients stay well-formed, for any       *)
(* processes, applications and keys, crashes included.                     *)
THEOREM ClientTypes == ClientSpec => []ClientTypeOK
<1>1. ClientInv => ClientTypeOK
  BY DEF ClientInv
<1> QED
  BY <1>1, ClientAlways, PTL

(* FilesKept, for any number of processes and applications: clients that   *)
(* start and stop concurrently leave the cache file as it was, or a crash  *)
(* in Shutdown has emptied it.                                             *)
THEOREM FilesAlwaysKept == ClientSpec => []FilesKept
<1>1. ClientInv => FilesKept
  BY DEF ClientInv, FilesKept
<1> QED
  BY <1>1, ClientAlways, PTL

(* CacheKept, for any number of processes and applications: no Init and no *)
(* torn file takes a key from the cache of a running client.               *)
THEOREM CachesAlwaysKept == ClientSpec => CacheKept
<1> DEFINE Keeps == \A c \in Processes : initialized_[c] /\ crashes' = crashes =>
                        \A k \in Keys : GetConfig(c, k) # NoApp => configCache_'[c][k] # NoApp
<1>1. ASSUME ClientInv, [ClientNext]_clientVars
      PROVE  [Keeps]_clientVars
  <2> SUFFICES ASSUME ClientNext, NEW c \in Processes, crashes' = crashes,
                      NEW k \in Keys, configCache_[c][k] # NoApp
               PROVE  configCache_'[c][k] # NoApp
    BY <1>1 DEF GetConfig
  <2>1. ASSUME NEW d \in Processes, NEW a \in Apps, InitClient(d, a)
        PROVE  configCache_'[c][k] # NoApp
    <3>1. PICK contents \in Contents :
              \/ configCache_' = [configCache_ EXCEPT ![d] = Merge(@, contents)]
              \/ configCache_' = configCache_
      BY <1>1, <2>1, InitCaches DEF ClientInv
    <3>2. configCache_ \in [Processes -> Contents] /\ configCache_[d] \in Contents
      BY <1>1 DEF ClientInv, ClientTypeOK
    <3>3. configCache_[d][k] # NoApp => Merge(configCache_[d], contents)[k] # NoApp
      BY <3>2, MergeTypes
    <3> QED
      BY <3>1, <3>2, <3>3
  <2>2. ASSUME NEW d \in Processes, Shutdown(d) \/ saveToFileCache(d)
        PROVE  configCache_'[c][k] # NoApp
    BY <2>2 DEF Shutdown, saveToFileCache
  <2>3. ASSUME NEW d \in Processes, crash(d) PROVE FALSE
    BY <1>1, <2>3 DEF crash, ClientInv, ClientTypeOK
  <2> QED
    BY <2>1, <2>2, <2>3 DEF ClientNext
<1> QED
  BY <1>1, ClientAlways, PTL DEF ClientSpec, CacheKept

-----------------------------------------------------------------------------
(* Accounts.                                                               *)

(* A username has one creator at most: the account itself.                 *)
OneCreator ==
    \A u \in Usernames :
        registered[u] = IF users[u] = NoAccount THEN {} ELSE {users[u]}

(* What createUser leaves of the tables.                                   *)
LEMMA CreateUserTypes ==
    ASSUME AccountsTypeOK, OneCreator, NEW u \in Usernames, NEW password \in Passwords,
           NEW role \in Roles, createUser(u, password, role)
    PROVE  AccountsTypeOK' /\ OneCreator'
<1> DEFINE user == [password_hash |-> hashPassword(password), role |-> role]
<1>1. user \in User /\ user # NoAccount
  BY AbsentAssumption DEF User
<1>2. /\ users[u] = NoAccount
      /\ users' = [users EXCEPT ![u] = user]
      /\ registered' = [registered EXCEPT ![u] = @ \cup {user}]
      /\ UNCHANGED <<clock, secret_, token, issued, setBack>>
  BY DEF createUser
<1> HIDE DEF user
<1>3. OneCreator'
  <2> SUFFICES ASSUME NEW v \in Usernames
               PROVE  registered'[v] = IF users'[v] = NoAccount THEN {} ELSE {users'[v]}
    BY DEF OneCreator
  <2>1. CASE v = u
    BY <1>1, <1>2, <2>1 DEF AccountsTypeOK, OneCreator
  <2>2. CASE v # u
    BY <1>2, <2>2 DEF AccountsTypeOK, OneCreator
  <2> QED
    BY <2>1, <2>2
<1>4. users' \in [Usernames -> User \cup {NoAccount}]
  BY <1>1, <1>2 DEF AccountsTypeOK
<1>5. registered' \in [Usernames -> SUBSET User]
  BY <1>1, <1>2 DEF AccountsTypeOK
<1> QED
  BY <1>2, <1>3, <1>4, <1>5, SMTT(30) DEF AccountsTypeOK

(* The remainder of a division is determined.                              *)
LEMMA OneRemainder ==
    ASSUME NEW n \in Nat, NEW p \in Int, NEW q \in Int, NEW r \in 0..n - 1, NEW s \in 0..n - 1,
           n * p + r = n * q + s
    PROVE  r = s
<1>1. n * (p - q) = s - r
  OBVIOUS
<1>2. CASE p - q >= 1
  <2>1. n * (p - q) >= n
    BY <1>2
  <2> QED
    BY <1>1, <2>1
<1>3. CASE p - q <= -1
  <2>1. n * (p - q) <= -n
    BY <1>3
  <2> QED
    BY <1>1, <2>1
<1>4. CASE p = q
  BY <1>1, <1>4
<1> QED
  BY <1>2, <1>3, <1>4

(* Cutting a time to whole seconds takes less than a second from it, and   *)
(* the same from two times that are whole seconds apart.                   *)
LEMMA TruncateBounds ==
    ASSUME NEW t \in Nat
    PROVE  /\ Truncate(t) \in 0..t
           /\ t < Truncate(t) + TicksPerSecond
           /\ ExpiresAt(t) = Truncate(t) + ExpirySeconds * TicksPerSecond
<1> DEFINE n == TicksPerSecond
           r == t % n
           q == t \div n
<1>1. n \in Nat /\ n > 0 /\ ExpirySeconds \in Nat
  BY AccountsAssumption
<1>2. r \in 0..n - 1 /\ q \in Int /\ t = n * q + r
  BY <1>1
<1>3. r <= t
  <2>1. q >= 0
    BY <1>1, <1>2
  <2>2. n * q >= 0
    BY <1>1, <1>2, <2>1
  <2> HIDE DEF n, q, r
  <2> QED
    BY <1>1, <1>2, <2>2
<1>4. (t + ExpirySeconds * n) % n = r
  <2> DEFINE a == t + ExpirySeconds * n
  <2>1. a \in Nat
    BY <1>1
  <2>2. a % n \in 0..n - 1 /\ a \div n \in Int /\ a = n * (a \div n) + (a % n)
    BY <1>1, <2>1
  <2> HIDE DEF n, q, r
  <2>3. a = n * (q + ExpirySeconds) + r
    BY <1>1, <1>2
  <2>4. q + ExpirySeconds \in Int
    BY <1>1, <1>2
  <2> HIDE DEF a
  <2> QED
    BY <1>1, <1>2, <2>2, <2>3, <2>4, OneRemainder DEF a
<1>5. Truncate(t) = t - r /\ ExpiresAt(t) = (t + ExpirySeconds * n) - r
  BY <1>1, <1>2, <1>4, Zenon DEF Truncate, ExpiresAt
<1> HIDE DEF n, q, r
<1>6. ExpirySeconds * n \in Nat
  BY <1>1
<1> QED
  BY <1>1, <1>2, <1>3, <1>5, <1>6 DEF n

(* What a token says of the moment it was issued: its claims are that      *)
(* moment's, and unless the clock was set back that moment has come.       *)
TokenIsOfIssue ==
    token # NoToken =>
        /\ token.iat = Truncate(issued)
        /\ token.exp = ExpiresAt(issued)
        /\ setBack \/ issued <= clock

AccountsInv == AccountsTypeOK /\ OneCreator /\ TokenIsOfIssue

(* generateToken writes the claims of its clock.                           *)
LEMMA GenerateKeeps ==
    ASSUME AccountsInv, NEW role \in Roles, generateToken(role)
    PROVE  AccountsInv'
<1> DEFINE tk == [role |-> role, iat |-> Truncate(clock), exp |-> ExpiresAt(clock),
                  secret |-> secret_]
           life == ExpirySeconds * TicksPerSecond
<1>1. /\ token' = tk /\ issued' = clock /\ setBack' = FALSE
      /\ UNCHANGED <<users, registered, clock, secret_>>
  BY DEF generateToken
<1>2. life \in Nat
  BY AccountsAssumption
<1>3. clock \in 0..MaxClock /\ clock \in Nat /\ MaxClock \in Nat /\ secret_ \in Secrets
  BY AccountsAssumption DEF AccountsInv, AccountsTypeOK
<1>4. Truncate(clock) \in 0..clock /\ ExpiresAt(clock) = Truncate(clock) + life
  BY <1>3, TruncateBounds
<1> HIDE DEF life
<1>5. /\ Truncate(clock) \in 0..MaxClock /\ ExpiresAt(clock) \in Nat
      /\ ExpiresAt(clock) - Truncate(clock) = life
  BY <1>2, <1>3, <1>4
<1>6. tk \in Token /\ tk.exp - tk.iat = life /\ tk.iat = Truncate(clock) /\ tk.exp = ExpiresAt(clock)
  BY <1>3, <1>5, Zenon DEF Token
<1> HIDE DEF tk
<1>7. AccountsTypeOK'
  BY <1>1, <1>3, <1>6, Zenon DEF AccountsInv, AccountsTypeOK, life
<1>8. OneCreator'
  BY <1>1 DEF AccountsInv, OneCreator
<1>9. TokenIsOfIssue'
  <2>1. Truncate(issued') = Truncate(clock) /\ ExpiresAt(issued') = ExpiresAt(clock)
    BY <1>1, Zenon
  <2>2. issued' <= clock'
    BY <1>1, <1>3
  <2> QED
    BY <1>1, <1>6, <2>1, <2>2, Zenon DEF TokenIsOfIssue
<1> QED
  BY <1>7, <1>8, <1>9 DEF AccountsInv

(* Every step of the accounts keeps AccountsInv.                           *)
LEMMA AccountsStep ==
    ASSUME AccountsInv, [AccountsNext]_accountsVars
    PROVE  AccountsInv'
<1> USE DEF AccountsInv
<1>1. ASSUME NEW u \in Usernames, NEW password \in Passwords, NEW role \in Roles,
             createUser(u, password, role)
      PROVE  AccountsInv'
  <2>1. UNCHANGED <<clock, token, issued, setBack>>
    BY <1>1 DEF createUser
  <2>2. TokenIsOfIssue'
    BY <2>1 DEF TokenIsOfIssue, Truncate, ExpiresAt
  <2> QED
    BY <1>1, <2>2, CreateUserTypes
<1>2. ASSUME NEW role \in Roles, generateToken(role) PROVE AccountsInv'
  BY <1>2, GenerateKeeps
<1>3. CASE tickOn
  <2>1. AccountsTypeOK' /\ OneCreator'
    BY <1>3, AccountsAssumption DEF tickOn, AccountsTypeOK, OneCreator
  <2>2. issued <= clock => issued <= clock'
    BY <1>3, AccountsAssumption DEF tickOn, AccountsTypeOK
  <2>3. UNCHANGED <<token, issued, setBack>>
    BY <1>3 DEF tickOn
  <2>4. Truncate(issued') = Truncate(issued) /\ ExpiresAt(issued') = ExpiresAt(issued)
    BY <2>3, Zenon
  <2> QED
    BY <2>1, <2>2, <2>3, <2>4, Zenon DEF TokenIsOfIssue
<1>4. CASE setClockBack
  <2>1. AccountsTypeOK' /\ OneCreator'
    BY <1>4, AccountsAssumption DEF setClockBack, AccountsTypeOK, OneCreator
  <2>2. UNCHANGED <<token, issued>> /\ setBack' = TRUE
    BY <1>4 DEF setClockBack
  <2>3. Truncate(issued') = Truncate(issued) /\ ExpiresAt(issued') = ExpiresAt(issued)
    BY <2>2, Zenon
  <2> QED
    BY <2>1, <2>2, <2>3, Zenon DEF TokenIsOfIssue
<1>5. ASSUME NEW secret \in Secrets, restartServer(secret) PROVE AccountsInv'
  BY <1>5 DEF restartServer, AccountsTypeOK, OneCreator, TokenIsOfIssue, Truncate, ExpiresAt
<1>6. CASE UNCHANGED accountsVars
  BY <1>6 DEF accountsVars, AccountsTypeOK, OneCreator, TokenIsOfIssue, Truncate, ExpiresAt
<1> QED
  BY <1>1, <1>2, <1>3, <1>4, <1>5, <1>6 DEF AccountsNext

(* hasPermission is the order of the roles.                                *)
LEMMA PermissionIsLevel ==
    ASSUME NEW role \in Roles, NEW required \in Roles
    PROVE  hasPermission(role, required) <=> Level(role) >= Level(required)
<1>1. role \in {"admin", "operator", "viewer"} /\ required \in {"admin", "operator", "viewer"}
  BY AccountsAssumption
<1>2. Level("admin") = 3 /\ Level("operator") = 2 /\ Level("viewer") = 1
  BY DEF Level
<1> QED
  BY <1>1, <1>2 DEF hasPermission

(* A token of its moment serves as TokenServes says.                       *)
LEMMA TokenOfIssueServes ==
    ASSUME AccountsInv
    PROVE  TokenServes
<1> SUFFICES ASSUME token # NoToken, ~setBack, NEW required \in Roles
             PROVE  LET age == clock - issued
                        life == ExpirySeconds * TicksPerSecond
                        suffices == Level(token.role) >= Level(required)
                    IN  /\ suffices /\ token.secret = secret_ /\ age <= life - TicksPerSecond =>
                              Allowed(required) /\ ~isExpired
                        /\ Allowed(required) => suffices /\ token.secret = secret_ /\ age <= life
  BY DEF TokenServes
<1> DEFINE age == clock - issued
           life == ExpirySeconds * TicksPerSecond
           n == TicksPerSecond
           cut == Truncate(issued)
<1>1. token \in Token /\ clock \in Nat /\ issued \in Nat /\ issued <= clock
  BY AccountsAssumption DEF AccountsInv, AccountsTypeOK, TokenIsOfIssue
<1>2. life \in Nat /\ n \in Nat
  BY AccountsAssumption
<1>3. /\ cut \in 0..issued /\ issued < cut + n
      /\ token.iat = cut /\ token.exp = cut + life
  BY <1>1, TruncateBounds DEF AccountsInv, TokenIsOfIssue
<1>4. token.role \in Roles
  BY <1>1 DEF Token
<1>5. hasPermission(token.role, required) <=> Level(token.role) >= Level(required)
  BY <1>4, PermissionIsLevel
<1> HIDE DEF life, n, cut
<1>6. token.iat <= clock
  BY <1>1, <1>3
<1>7. age <= life - n => clock <= token.exp /\ ~(clock > token.exp)
  BY <1>1, <1>2, <1>3
<1>8. clock <= token.exp => age <= life
  BY <1>1, <1>2, <1>3
<1>9. Allowed(required) <=> /\ token.secret = secret_ /\ clock <= token.exp
                            /\ Level(token.role) >= Level(required)
  BY <1>5, <1>6 DEF Allowed, validateRequest, validateToken
<1>10. isExpired <=> clock > token.exp
  BY DEF isExpired
<1> HIDE DEF age
<1> QED
  BY <1>7, <1>8, <1>9, <1>10, Zenon DEF life, n, age

(* The accounts begin with AccountsInv.                                    *)
LEMMA AccountsBegin ==
    ASSUME AccountsInit
    PROVE  AccountsInv
<1>1. 0 \in 0..MaxClock
  BY AccountsAssumption
<1>2. AccountsTypeOK
  BY <1>1, Zenon DEF AccountsInit, AccountsTypeOK
<1>3. OneCreator
  BY DEF AccountsInit, OneCreator
<1>4. TokenIsOfIssue
  BY DEF AccountsInit, TokenIsOfIssue
<1> QED
  BY <1>2, <1>3, <1>4 DEF AccountsInv

(* AccountsInv always holds.                                               *)
LEMMA AccountsAlways == AccountsSpec => []AccountsInv
  BY AccountsBegin, AccountsStep, PTL DEF AccountsSpec

(* The users table and the claims of a token stay well-formed, whatever    *)
(* the clock does and however often the server restarts.                   *)
THEOREM AccountTypes == AccountsSpec => []AccountsTypeOK
<1>1. AccountsInv => AccountsTypeOK
  BY DEF AccountsInv
<1> QED
  BY <1>1, AccountsAlways, PTL

(* FirstRegistrationStays, for all users, passwords and roles: who was     *)
(* told by createUser to have created a user has its account.              *)
THEOREM RegistrationsStay == AccountsSpec => []FirstRegistrationStays
<1>1. AccountsInv => FirstRegistrationStays
  <2> SUFFICES ASSUME AccountsInv, NEW u \in Usernames, NEW user \in registered[u]
               PROVE  /\ users[u] = user
                      /\ \A password \in Passwords :
                            authenticate(u, password) <=>
                                user.password_hash = hashPassword(password)
    BY DEF FirstRegistrationStays
  <2>1. users[u] # NoAccount /\ users[u] = user
    BY Zenon DEF AccountsInv, OneCreator
  <2> QED
    BY <2>1, Zenon DEF authenticate, verifyPassword
<1> QED
  BY <1>1, AccountsAlways, PTL

(* TokenServes, for every resolution of the clock, every expiry and every  *)
(* bound: validateRequest and hasPermission accept a token for its role    *)
(* and the lower ones, during the configured time and never longer.        *)
THEOREM TokensServe == AccountsSpec => []TokenServes
  BY AccountsAlways, TokenOfIssueServes, PTL
=============================================================================
