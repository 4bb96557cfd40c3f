---------------------------- MODULE ConfigClient ----------------------------
(***************************************************************************)
(* The client SDK: processes with a ConfigClient each, and the cache files *)
(* they share, one per application.                                        *)
(*                                                                         *)
(* The server is never reachable (Init has no connection code yet), so a   *)
(* cache is filled from files only.  saveToFileCache truncates the file    *)
(* when it opens it and writes later: another process, or a crash, may     *)
(* come in between.  loadFromFileCache merges into what is cached already. *)
(* Init and Shutdown of one client are not called concurrently.            *)
(*                                                                         *)
(* The value of a key is the application it belongs to.                    *)
(***************************************************************************)
EXTENDS Naturals, FiniteSets

CONSTANTS Processes, Apps, Keys,
          NoApp,           \* the key is not there
          Shipped,         \* [Apps -> sets of keys]: what the files hold at first
          Mistyped,        \* the applications whose file has a value that is no string
          MaxCrashes       \* bound: crashes

ASSUME ClientAssumption == /\ NoApp \notin Apps
                           /\ Shipped \in [Apps -> SUBSET Keys]
                           /\ Mistyped \subseteq Apps
                           /\ MaxCrashes \in Nat

Contents == [Keys -> Apps \cup {NoApp}]

Nothing == [k \in Keys |-> NoApp]

VARIABLES file,           \* application -> contents of its file
          state,          \* application -> "absent", "empty", "garbage", "mistyped"
                          \* (JSON with a value that is no string) or "valid"
          configCache_,   \* client -> its cache
          initialized_,   \* client -> whether Init succeeded
          appId_,         \* client -> application of the last Init (and of cacheFilePath_)
          pc,             \* client -> "idle", or "write" between truncating and writing
          crashes,        \* number of crashes so far
          switched        \* history: a client called Init for a second application

clientVars == <<file, state, configCache_, initialized_, appId_, pc, crashes, switched>>

ClientTypeOK ==
    /\ file \in [Apps -> Contents]
    /\ state \in [Apps -> {"absent", "empty", "garbage", "mistyped", "valid"}]
    /\ \A a \in Apps : state[a] \notin {"valid", "mistyped"} => file[a] = Nothing
    /\ configCache_ \in [Processes -> Contents]
    /\ initialized_ \in [Processes -> BOOLEAN]
    /\ appId_ \in [Processes -> Apps \cup {NoApp}]
    /\ \A c \in Processes : initialized_[c] => appId_[c] # NoApp
    /\ pc \in [Processes -> {"idle", "write"}]
    /\ crashes \in Nat
    /\ switched \in BOOLEAN

ShippedFile(a) == [k \in Keys |-> IF k \in Shipped[a] THEN a ELSE NoApp]

ClientsInit ==
    /\ file = [a \in Apps |-> ShippedFile(a)]
    /\ state \in [Apps -> {"absent", "mistyped", "valid"}]
    /\ \A a \in Apps : /\ state[a] = "absent" <=> Shipped[a] = {}
                       /\ state[a] = "mistyped" => a \in Mistyped
    /\ configCache_ = [c \in Processes |-> Nothing]
    /\ initialized_ = [c \in Processes |-> FALSE]
    /\ appId_ = [c \in Processes |-> NoApp]
    /\ pc = [c \in Processes |-> "idle"]
    /\ crashes = 0
    /\ switched = FALSE

-----------------------------------------------------------------------------
(* GetConfig: the cache, and nothing but the cache.                        *)
GetConfig(c, k) == configCache_[c][k]

(* The keys of the file replace those of the cache, the others stay.       *)
ReplaceCache(cache, contents) == contents                     \* mistaken
Merge(cache, contents) ==
    [k \in Keys |-> IF contents[k] # NoApp THEN contents[k] ELSE cache[k]]

loadFromFileCache(c, a) ==
    /\ state[a] = "valid"
    /\ configCache_' = [configCache_ EXCEPT ![c] = Merge(@, file[a])]

(* A value that is no string throws in the middle of the loop: the keys    *)
(* before it are merged already.                                           *)
Upto(contents, before) == [k \in Keys |-> IF k \in before THEN contents[k] ELSE NoApp]

loadFails(c, a) ==
    \/ state[a] \in {"absent", "empty", "garbage"} /\ UNCHANGED configCache_
    \/ /\ state[a] = "mistyped"
       /\ \E before \in SUBSET Keys :
              configCache_' = [configCache_ EXCEPT ![c] = Merge(@, Upto(file[a], before))]

(* ConfigClient::Init: the application is set first; when the file does    *)
(* not load, initialized_ stays as it was.                                 *)
ForgetsApp(c, a) == UNCHANGED appId_                          \* mistaken
SetApp(c, a) == appId_' = [appId_ EXCEPT ![c] = a]

InitClient(c, a) ==
    /\ pc[c] = "idle"
    /\ switched' = (switched \/ appId_[c] \notin {a, NoApp})
    /\ SetApp(c, a)
    /\ \/ /\ loadFromFileCache(c, a)
          /\ initialized_' = [initialized_ EXCEPT ![c] = TRUE]
       \/ loadFails(c, a) /\ UNCHANGED initialized_
    /\ UNCHANGED <<file, state, pc, crashes>>

(* Shutdown: the file is opened, which truncates it...                     *)
Shutdown(c) ==
    /\ pc[c] = "idle"
    /\ initialized_[c]
    /\ state' = [state EXCEPT ![appId_[c]] = "empty"]
    /\ file' = [file EXCEPT ![appId_[c]] = Nothing]
    /\ pc' = [pc EXCEPT ![c] = "write"]
    /\ UNCHANGED <<configCache_, initialized_, appId_, crashes, switched>>

(* ...and the cache is written, over what another client wrote since then, *)
(* of which a tail may remain.  The cache itself is kept.                  *)
WritesNothing(c) ==                                           \* mistaken
    /\ pc[c] = "write"
    /\ initialized_' = [initialized_ EXCEPT ![c] = FALSE]
    /\ pc' = [pc EXCEPT ![c] = "idle"]
    /\ UNCHANGED <<file, state, configCache_, appId_, crashes, switched>>

saveToFileCache(c) ==
    LET a == appId_[c] IN
    /\ pc[c] = "write"
    /\ \/ /\ file' = [file EXCEPT ![a] = configCache_[c]]
          /\ state' = [state EXCEPT ![a] = "valid"]
       \/ /\ state[a] = "garbage" \/ (state[a] = "valid" /\ file[a] # configCache_[c])
          /\ file' = [file EXCEPT ![a] = Nothing]
          /\ state' = [state EXCEPT ![a] = "garbage"]
    /\ initialized_' = [initialized_ EXCEPT ![c] = FALSE]
    /\ pc' = [pc EXCEPT ![c] = "idle"]
    /\ UNCHANGED <<configCache_, appId_, crashes, switched>>

(* The process dies; a new one has a new client.                           *)
crash(c) ==
    /\ crashes < MaxCrashes
    /\ crashes' = crashes + 1
    /\ configCache_' = [configCache_ EXCEPT ![c] = Nothing]
    /\ initialized_' = [initialized_ EXCEPT ![c] = FALSE]
    /\ appId_' = [appId_ EXCEPT ![c] = NoApp]
    /\ pc' = [pc EXCEPT ![c] = "idle"]
    /\ UNCHANGED <<file, state, switched>>

ClientNext ==
    \E c \in Processes :
        \/ \E a \in Apps : InitClient(c, a)
        \/ Shutdown(c)
        \/ saveToFileCache(c)
        \/ crash(c)

ClientSpec == ClientsInit /\ [][ClientNext]_clientVars

-----------------------------------------------------------------------------
(* A client that is running keeps what it has cached: neither a repeated   *)
(* Init, nor a file that another process is writing or a crash has torn,   *)
(* takes a key from it.                                                    *)
CacheKept ==
    [][\A c \in Processes : initialized_[c] /\ crashes' = crashes =>
          \A k \in Keys : GetConfig(c, k) # NoApp => configCache_'[c][k] # NoApp]_clientVars

(* Processes that start and stop concurrently leave the file of their      *)
(* application as it was, whenever none of them is writing it: a client    *)
(* that met a half-written file does not write.  A crash in Shutdown may   *)
(* lose the file, and never leaves a part of it.  (No client changes its   *)
(* application: the cache, never cleared, would go with it.)               *)
FilesKept ==
    ~switched =>
        \A a \in Apps :
            (\A c \in Processes : pc[c] = "write" => appId_[c] # a) =>
                \/ file[a] = ShippedFile(a)
                \/ crashes > 0 /\ file[a] = Nothing
=============================================================================
