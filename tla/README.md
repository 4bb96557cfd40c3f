# A verification of the configuration center

TLA+ modules that model the configuration center of this repository, TLC
configurations that check them on small instances, and TLAPS proofs of the
properties that matter most. `PROJECT.json` is the index: components, runs, the
source lines every definition models, mutated definitions that each property
must reject, findings, hazards and theorems.

Run TLC with `tlc -config <X>.cfg <MC module>`, the prover with
`tlapm` on the eight modules whose names end in `Proofs` (about forty minutes from
nothing on one machine, most of it for the stores, the engine and the server).

## 1. The system

The server (`src/main.cpp`) reads a YAML file, opens the SQLite store, builds the
managers around it and runs an HTTP server (several threads on one `io_context`)
and a gRPC server with threads of its own. Every request is served by a handler
that calls the store, or a manager that calls the store, once or a few times.
Clients link the SDK, which keeps a cache in memory and in a file.

| Part | Source | State | Modelled in |
|---|---|---|---|
| Process: start-up, HTTP sessions, gRPC streams, stop | `main.cpp`, `server_config.cpp`, `http_server.cpp`, `grpc_server.cpp` | threads, connections, streams | `Server` |
| Routing of HTTP requests | `http_server.cpp` | none | `HttpRouting` |
| SQLite store: keys, versions, change log, publishing | `sqlite_config_store.cpp/.h`, `data_types.h` | four tables, `mutex_` | `ConfigTables`, `SqliteConfigStore`, abstractly `AtomicConfigStore` |
| Handlers for keys and publishing | `http_server.cpp`, `grpc_server.cpp`, `PublishEngine::addDraftChange` | none | `SqliteConfigStore` |
| Publish engine: publish, grayscale, rollout, approvals | `publish_engine.cpp`, the transaction methods of the SQLite store | the transaction of the shared connection | `PublishEngine` |
| Release history, change history, and their pages | `getReleases`, `createRelease`, `getChangeHistory` of both stores, the handlers | `releases`, `change_logs`, clock | `ReleaseHistory`, `ChangeHistory`, `Pages` |
| Grayscale rules | `release_rule_engine.cpp` | none | `ReleaseRules` |
| Namespace manager | `namespace_manager.cpp`, its tables in both stores | `applications`, `namespaces` | `NamespaceManager` |
| Users and tokens | `auth_types.cpp`, the users table of both stores | `users`, clock, secret | `Accounts` |
| Notification channel | `notification_channel.cpp/.h` | subscribers, history, pending, `mutex_`, `cv_` | `NotificationChannel` |
| MySQL connection pool | `mysql_config_store.cpp/.h` | queue, `mutex_`, `cv_` | `MysqlConnectionPool` |
| MySQL store: keys, versions, change log, publishing | `mysql_config_store.cpp` | tables, connections, InnoDB locks | `MysqlConfigStore` |
| Client SDK: cache and cache file | `sdk/src/config_client.cpp` | cache, file | `ConfigClient` |
| Handler copies in `src/api`, classes without operations | see section 8 | | not modelled |

How the parts interact: the SQLite store is one object with one mutex and one
connection that all threads share. The managers have no lock, so between two
calls of the store anything may happen; this is where most of the hazards are.
An exception that leaves an HTTP handler ends the process, whatever the other
threads are doing. The notification channel is constructed and passed to the
handlers, but no handler publishes to it or waits on it yet
(`handleNotifications` answers 501, `WatchConfig` sends empty messages): it is
modelled as a component, with callers that use it as its interface allows, and is
not composed with the store. In the same way no handler asks for a token yet.
`main.cpp` refuses the MySQL backend; its store is nevertheless written in full,
and modelled.

## 2. The modules

A step of a model is as large as the code makes atomic: what runs under one
mutex without giving it up, and touches only what this mutex protects, or one
SQL statement. `*` marks the cases where this is finer than one method.

**`ConfigTables`** has the rows of `configs`, `config_versions` and `change_logs`
and what each operation writes into them. A name is a sequence of segments, so
that `makeConfigId` (joining with ':') is concatenation and two keys may share
an id.

**`SqliteConfigStore`** `*` has `createConfig`, `updateConfig`, `deleteConfig`,
`rollbackConfig` and `publishRelease`. A write is three statements, committed one
by one under `mutex_`: the step that writes the row takes the mutex,
`insertVersion` follows, `insertLog` releases it. Handlers (`handleSetConfig`,
`SetConfig`, `addDraftChange`) and `rollbackConfig` read in one critical section
and write in another; the window is a control state (`pc = "create"` or
`"update"`). `publishRelease` is a transaction under the mutex, one step.
`initialize` is a crash and restart at any point, `StatementFails` a statement
that throws; `MaxFaults` bounds both. An exception that leaves an HTTP handler
leaves `ioc.run()` and ends the process; gRPC catches it. `released` is a history
variable: the rows as of the last publication.

**`AtomicConfigStore`** is the abstract store, in which a write is one step.
`SqliteConfigStore` maps to it by adding to the tables the rows that the holder
of `mutex_` has yet to insert (`VersionsNow`, `LogsNow`).

**`Server`** is the process: `main` from the configuration file to its end, a
connection from the backlog to its answer, and the loops of `WatchConfig`. The
completion handlers of accept and write are a step each; `handleRequest` occupies
one of the threads in `ioc.run()` until it returns. What it answers and whether
it throws is a relation of the handler and the body (`Codes`, `Throws`); what it
does to the store is in the other modules. The service object that
`GrpcServer::start` registers is destroyed when `start` returns, so a gRPC call
may do anything: here it is served or ends the process. `Fault` is a failure of
the system or of the store, `restart` the service manager
(`Restart=on-failure`).

**`HttpRouting`** is the chain of conditions of `handleRequest` on targets that
are sequences of segments: `find("/x")` finds a segment that begins with `x`, so
the routes overlap.

**`PublishEngine`** `*` models the one connection: `db` as it sees the tables,
`saved` as of the open BEGIN. A crash leaves what was committed (`cutOff` records
a rollout between its two calls). The store's methods hold `mutex_`, but
`beginTransaction` and `rollbackTransaction` do not, and `publishGrayscale` calls
them from outside. A BEGIN inside a transaction throws. `acked` records what
callers were told is done while no grayscale transaction was open. `fullRollout`
creates the new release in the namespace its caller names, whatever the namespace
of the old one.

**`ReleaseHistory`** models `created_at` (one-second clock; rollouts without a
time on SQLite), rows of one second in the order of their ids, and offset pages
while the history grows. `stamped`, chosen at the start, is the store: MySQL sets
the time of a rollout, SQLite does not. **`ChangeHistory`** is the change log
under the filters of `ChangeLogQuery`; a row may be older than those inserted
before it, because a write takes its time first. Both use **`Pages`**, the order
and the OFFSET/LIMIT of the statements.

**`ReleaseRules`** is `evaluateClientMatch` with any hash function, under any
change of percentage and whitelist.

**`NamespaceManager`** `*` has one step per call of the store. `cascade`, chosen at
the start, is the store: MySQL has foreign keys, SQLite none; `checked`, chosen
likewise, says that callers inherit from public namespaces only. `resolveConfig` is a loop of two calls per
level, and parents may change under it. `wins` records who was told to have
created what.

**`Accounts`** has `createUser` on the unique name, tokens with times in whole
seconds, a clock that may be set back, a server that restarts with another
secret, and the permissions of the roles.

**`NotificationChannel`** has one step per method; `waitForNotification` may fall
asleep, be awakened by `notify_all`, find the notification gone, sleep on, or
time out (also after it was notified). A callback may throw out of `publish`,
before anything is pending and before anybody is awakened, or call the channel,
whose `mutex_` its thread holds, and block everybody for ever (`stuck`). The
history variable `cut` records the namespaces in which one did either.

**`MysqlConnectionPool`** has `acquire`, which may sleep and be awakened
(spuriously too), and be overtaken; `release`; and the transaction methods, which
keep what they acquire (history variable `leaked`).

**`MysqlConfigStore`** `*` has no mutex: each statement is a step of a thread that
holds a connection, waits for one, or waits for the locks of a publication while
holding one. `execute` reports failure by its result, which the code ignores:
`StatementFails` makes the statement a no-op and the method goes on. `abreast`
records the namespaces in which two publications overlapped because the first one
found no rows to lock.

**`ConfigClient`** `*` has processes with a client each that share cache files.
`saveToFileCache` truncates in one step and writes in another. The history variable
`switched` records that a client called `Init` for a second application.

**`Filters`** is the loop that copies the elements it keeps into a new vector
(`getMissedNotifications`, and the change log of a key in `AuditMatchesHistory`), as
a recursive function over positions, about which one can reason.

MC modules define instances and symmetry sets. `MCMonitors` and `MCParts` put
modules that share no state side by side: `part`, chosen at the start, says whose
steps a behaviour has, and the variables of the others stay as they are.

## 3. What is checked

Twelve runs; the eight below end without error, the four of section 6 with the
violation they are for. Bounds are in the `.cfg` files and cap, in guards, new
requests only: a call that has begun always finishes.

| Run | Properties | Shows |
|---|---|---|
| `store_history` | `HeadRecorded` `VersionChain` `AuditMatchesHistory` `RollbackRestores` `AtomicSpec` `EveryRequestReturns` | Two threads on one key, all operations, no faults: row, versions and change log agree; a rollback writes a value the version asked for had, though it was read in an earlier critical section; the store implements the abstract one; every request returns |
| `store_served` | `ServedIsReleased` `ReleaseNumbers` | Two namespaces, one crash or failed statement: clients see only what the last release published; releases count 1, 2, 3... |
| `engine` | `OneOwner` `PublishNumbers` `AcknowledgedKept` `RetiredHasSuccessor` | A transaction has one owner although two methods open one on the shared connection; publications are numbered without gaps; neither a rollback nor a crash takes back what was acknowledged outside a grayscale transaction; a retired release has a successor, unless a crash cut its rollout off or there was a grayscale publication |
| `namespaces` | `OneWinner` `NoOrphans` `LookupReturns` | On either store: races for an id have one winner; the foreign keys of MySQL close the look-then-insert window; lookups end if parents are public namespaces |
| `monitors` (channel) | `TakenInOrder` `NoLostWakeup` `CallbacksHearAll` `CatchUpComplete` `EveryWaitReturns` | Long polls take each notification once and in order, none sleeps through one, and all return unless a callback calls the channel; a client that comes back is told exactly what it missed, also after callbacks threw |
| `monitors` (pool) | `ConnectionsApart` `SleepersServed` `EveryCallReturns` | Connections are never shared; for every free one there is a caller on its way to it as long as one sleeps; every call returns unless all connections have leaked |
| `mysql_store` | `HeadInHistory` `ServedIsCommitted` `ReleasesNumbered` | Three threads, two connections: a key at rest is recorded in its history, and releases are numbered 1, 2, 3... where there are rows to lock, if no statement failed; clients see only what a commit made live, also when one fails unnoticed; pool and locks never deadlock |
| `server` | `RoutedAsDocumented` `RequestsAnswered` `StopCompletes` | From the configuration file to the end of the process: a documented request reaches its handler with the names the client gave, whatever the key is called (except the long poll, see section 6); a request that was sent is answered unless its client leaves or the process ends; a server that stops comes to an end once the clients of its streams have left |
| `parts` | `NothingSkipped` `NewestFirst` `ChangesFound` `CacheKept` `FilesKept` `FirstRegistrationStays` `TokenServes` `WideningKeepsClients` | A reader that pages through a growing history of releases or changes misses nothing, filters include both ends, on MySQL pages are newest first; a running client never loses a key, and processes that start and stop concurrently leave the files as they were; the first registration of a name stays; a token serves its role for its time and no longer; widening a grayscale release takes it from nobody |

Type invariants are proved (section 5). `engine`, `server` and
`parts` check theirs as well (`TypeOK`, `PartsTypeOK`). `PROJECT.json`
gives for every property a mutated definition (a dropped guard, a swapped
order...) under which TLC finds it violated; these are the definitions marked
*mistaken*.

**Hypotheses are part of the properties.** Where a property needs one (no failed
statement, no grayscale publication, foreign keys, public parents, plain names, a
clock that is not set back, no client that changes its application), the run still
has the behaviours that break it, and the property names the condition through a
counter, a history variable or a variable chosen at the start. So one run covers
both sides, and nothing is assumed for the other properties.

**Why the bounds are enough.** Two threads make every race between one writer and
another, or a writer and a publication; the third in `mysql_store`, and the third
client of the SDK, let one overtake a second while a third waits. `MaxLog` = 4 in
`store_history` admits create, update, delete and create again, the shortest
history in which version numbers start over. Two releases distinguish "the last"
from "any"; three in `engine` admit publication, rollout, publication. One fault at
any point covers every single failure. Two connections for three or four threads
make `acquire` block, and make one release race a newcomer. Six releases on pages
of two leave two full pages and a rest, with room for one to arrive meanwhile
(readers change nothing, so one is enough); four changes leave a page for some to
arrive during the first; three seconds give rows of the same second and of different ones. The rules are
checked at percentages -1, 0, 1, 49..51, 99, 100 and 101. In `server` one client
may ask for any of 23 requests, one per handler and those whose names look like
routes or whose bodies make handlers throw, and a second one is beside it; files
that do not open, do not convert, ask for MySQL, for -1, 1 or 2 threads, or for one
port twice lead to every way of starting. Two ticks in a second and seven ticks
let a token be issued inside a second, expire and be late. Symmetry is used for
threads, values, processes and namespaces in safety runs only, where the modules
never tell them apart (a `CHOOSE` among symmetric values only picks the argument of
a thread that has no call, which nothing reads).

## 4. Fairness

Liveness is checked under weak fairness of the steps of a call in progress
(`Step(t)`; in `Server` those of `main`, of each session and of each stream), and,
in the channel, of awakening and of the timeout. No caller has to make a request,
no client has to send, cancel or leave, no fault has to happen. This is justified
by the operating system scheduling every runnable thread, by the `io_context`
running every handler that is ready, and by clocks that advance. A thread that
waits for a mutex that others keep taking needs, beyond that, a mutex that does
not starve it; in the instances the number of requests is bounded, so weak
fairness is enough, and with unbounded callers the results rest on
`std::mutex`, `std::condition_variable` and InnoDB not starving a waiter.

The instances stop when their bounds are reached. `Quiet` is the stuttering step
of a system in which no thread has a call in progress, so TLC's deadlock check
reports exactly the states where somebody is inside a call and nobody can move.
In the pool, spurious wakeups remain possible for ever, so a pool whose connections
have all leaked is no deadlock to TLC; `EveryCallReturns` names the case. A channel
whose mutex a callback has blocked is `Stuck`, and `EveryWaitReturns` names that.
`engine` and `mysql_store` have no liveness property: requests being bounded and
every step of a call in progress moving it forward, the absence of deadlock is what
there is to say, and symmetry makes the larger instances affordable.

## 5. What is proved

For every value of the constants that satisfies the modules' `ASSUME`s (any
numbers of threads, keys, values, clients, any bounds):

| Theorem | Module | Statement and argument |
|---|---|---|
| `TypeCorrect` | `SqliteConfigStoreProofs` | `TypeOK` and `ReleaseNumbers`. Inductive together: the new number is the maximum plus one, which is the length plus one only if the numbers are 1..n so far. |
| `ServedReleased` | same | `ServedIsReleased`, if callers pass `draft = true`. Strengthened by `DraftCalls` (calls in progress do too) and `LiveIsReleased` (every non-draft row is the released one, whether or not it is asked for). Crashes and failures included. |
| `HistoryComplete`, `VersionsChained` | same | `HeadRecorded` and `VersionChain`, without faults and with distinct config ids. Inductive together (`HistoryInv`) with `MutexInv` (between its statements a thread holds `mutex_`, so there is one) and `Pending` (the version a thread is about to insert is the row it wrote, and continues the history). |
| `AuditComplete` | same | `AuditMatchesHistory`, under the same two assumptions. `AuditInv` compares the change log without deletions (`Writes`) and the versions of a key entry by entry (`SameStory`): they agree while no call is between its statements, and otherwise once the rows that the call has in hand are added. Needs `HistoryInv`, because the old value in a log entry is the value of the last version. |
| `RollbackCorrect` | same | `RollbackRestores`, an action property. Invariant `ReadTarget`: a thread in a rollback carries a value its history still has under the target version; histories only grow. Faults included. |
| `Refinement` | same | `AtomicSpec`, without faults. The row step maps to the abstract write, `insertVersion` and `insertLog` to stuttering; rests on `MutexInv` and on `WrittenValues`. |
| `OneOwnerAlways` | `PublishEngineProofs` | `OneOwner`. Inductive (`EngineInv`) with `Holders`: a thread inside `publishRelease`, or between the statements of a write, holds `mutex_`. |
| `AcknowledgedAlwaysKept` | same | `AcknowledgedKept`. Strengthened by `SavedKept`: what was acknowledged is also in the state a rollback would restore, since nothing is acknowledged for good while a grayscale transaction is open and `publishRelease` holds `mutex_`. Failures and crashes included. |
| `NumbersWithoutGaps` | same | `PublishNumbers`. `Numbered` says of each publication that its number is its place among those of its namespace, and of each rollout that its number is 0, in the tables and in what a rollback restores. The maximum that `publishRelease` reads is then the count (`MaxVersionCounts`), although it ranges over the rollouts too. |
| `RetiredAlwaysSucceeded` | same | `RetiredHasSuccessor`. `SuccessorInv`, while no grayscale transaction was opened: retired releases are at most the rollouts done, under way and cut off, and a transaction of `publishRelease` has written nothing that a rollback or a crash could take back (`saved = db`). By counting rows and threads. |
| `EngineTypes` | same | `TypeOK`, from `EngineInv` and the types of flags and counters (`Plain`). |
| `OneWinnerAlways` | `TablesProofs` | `OneWinner`, on either store. Strengthened to `Won`: there is a winner only of what exists, so an insert that succeeds is the first. |
| `ManagerTypes` | same | The type invariant, from the same `ManagerInv`: a row is stored under the id of its scope, and a lookup never goes beyond a root. |
| `NoOrphansEver` | same | `NoOrphans`. Deletions cascade, and the insert looks the application up once more through the foreign key. |
| `DeliveryInOrder` | `MonitorsProofs` | `TakenInOrder`, for the namespaces in which no callback cut `publish` short; inductive with the type invariant. |
| `WakeupsNotLost` | same | `NoLostWakeup`, throwing callbacks included: the throw comes before the notification is pending. |
| `CallbacksAlwaysHear` | same | `CallbacksHearAll`. `HearingInv`: a callback is subscribed to one namespace at a time, and joined no later than now, so that the slice it has heard grows with the history. |
| `CatchUpAlwaysComplete` | same | `CatchUpComplete`, for histories of any length. `CatchUpInv`: the ids of a namespace grow, and what is pending or was taken last has been announced; the entries with a larger id are then a tail of the history (`FilterTail`). |
| `ConnectionsAlwaysApart` | same | `ConnectionsApart`. Strengthened by `UsersConnected`: a thread has a connection exactly while it uses it. |
| `SleepersAlwaysServed` | same | `SleepersServed`, by counting: `notify_one` adds a caller on its way whenever a connection comes back, and one that finds the queue empty leaves nothing behind. |
| `ServedAlwaysCommitted` | `MysqlConfigStoreProofs` | `ServedIsCommitted`, failed statements included; inductive with `Types`, which says that a highest release number exists to be chosen. |
| `ReleasesAlwaysNumbered` | same | `ReleasesNumbered`. Strengthened (`Numbered`) by `Publications`: of the namespaces that are not `abreast`, one publication at a time is past its UPDATE, and the number it read is the length of the list. |
| `HeadsAlwaysInHistory` | same | `HeadInHistory`. `HeadInv`: unless a statement failed, every row is a version of its history or some thread is about to insert it as one (`Backed`), and a thread that is about to write a row has that version in hand (`Prepared`). There is no mutex, so several threads may be. |
| `RoutingCorrect` | `ServerProofs` | For every documented call but the long poll, `route` of the documented request is that call, with all its names, if no segment of the application or namespace begins with the word of a route: names of any length, keys that look like any route. A target is cut into prefix, name, word and rest (`Parts`); the word is first found behind a plain name (`WordOfCall`, `KeysFound`), no earlier route of `handleRequest` takes the target (`FirstRoute`, `NoKeys`, `NoPublish`), and what `extractPathParam` cuts off is the name. |
| `AlwaysRoutedAsDocumented` | same | `RoutedAsDocumented`: every session that has an answer ready, whatever the other sessions, `main` and failures did meanwhile. From `RoutingCorrect` and `ServerInv`, by which a session that writes has done what its own request was routed to. |
| `ServerTypes` | same | `TypeOK` of the server: never more handlers than threads in `ioc.run()`, nor more threads than `numThreads`, for any clients, files, cores and restarts. `ServerInv` adds that there is no thread while `main` has started none (otherwise a restart would leave more than `numThreads`), and that the connections in a handler are finitely many, each on a thread of its own. |
| `NothingEverSkipped`, `AlwaysNewestFirst` | `TablesProofs` | `NothingSkipped` and `NewestFirst`. `HistoryInv`: a release of the beginning that was not seen has a rank at or beyond the next offset (`RestAhead`). A new row only raises the rank of others, and a page holds the rows of its ranks (lemmas about `Pages`). |
| `ChangesAlwaysFound` | same | `ChangesFound`, in the same way (`ChangesAhead`), with the WHERE clause shown to select the scope and the period asked for (`WhereSelectsWanted`), and rows inserted between older ones. |
| `FilesAlwaysKept` | `ClientsProofs` | `FilesKept`. `ClientInv`: a cache holds only what the file of its application had at first, all of it once `Init` has succeeded, and only then does a client write; so what it saves is that file again. |
| `CachesAlwaysKept` | same | `CacheKept`, an action property: merging a file takes no key away. |
| `RegistrationsStay`, `TokensServe` | same | `FirstRegistrationStays` and `TokenServes`. `AccountsInv`: who was told is the one in the table; the times in a token are those of its issue, truncated to seconds. |
| `Widening` | same | `WideningKeepsClients`, for every hash function, from the monotonicity of `evaluateClientMatch` (`MatchMonotone`) across its special cases. |
| `HistoryTypes`, `ChangesTypes` and `ClientTypes`, `AccountTypes` | `TablesProofs` and `ClientsProofs` | The type invariants of the four parts of `parts`, from the invariants above. A page holds at most `page_size` rows, all of the table, because ranks are numbered without gaps. |

"Without faults" is the hypothesis `MaxFaults = 0`, "distinct ids" that `IdOf` is
injective on the entries; `store_fault` shows that the first cannot be dropped, and
names with ':' (section 6) that the second cannot. No other theorem has a hypothesis of
its own, except `ServedReleased` and `RoutingCorrect`. The assumptions of the modules say that bounds are
numbers, that the value for "none" is not one of the values (`AbsentAssumption` for
accounts and tokens), that there is a namespace, a key, a query to choose, and, where
threads are counted, that they are finitely many (`PoolAssumption`,
`PublishAssumption`). Those of the server say that clients ask for documented calls with
names that are not empty, that `http.threads` is an integer (`ServerAssumption`), and
that of the words in the targets only "publish" begins with "publish", and likewise for
the other two words (`RoutingAssumption`). TLC evaluates them in the runs.

**Induction over data.** `FiltersProofs` derives induction on numbers from the
well-foundedness of `<`, in a form without an operator as parameter: a set that has 0
and the successor of each of its members has all numbers (`Induction`). With it follow
what `Filter` returns, that it commutes with `Append` (`FilterAppend`), and that keeping
the positions beyond k gives the tail (`FilterTail`). The counting arguments (numbers,
successors, ranks on pages) rest on the cardinalities of finite sets.

**Only model-checked**: all liveness properties (`EveryRequestReturns`,
`LookupReturns`, `EveryWaitReturns`, `EveryCallReturns`, `RequestsAnswered`,
`StopCompletes`), which the prover does not do. Every other property of a passing run
has a theorem; that of `PartsTypeOK` has four, one for each conjunct and the
specification of its part (`PartsSpec` only lets TLC check the parts in one run).

## 6. Where the code and its documents disagree

Four runs check a sentence of a document, quoted in `PROJECT.json` under findings,
and TLC shows a behaviour of the server that violates it.

| Run | What happens |
|---|---|
| `store_fault` | A write that stops between its statements leaves a value without a version |
| `store_edit_hides` | Editing a published key overwrites the live row: clients find nothing until the next publication |
| `store_edit_dropped` | An edit of a key that has not been published yet is answered with success and not saved |
| `server_status` | Errors of the handlers are sent with HTTP status 200 |

The following was seen in the source while modelling it. The models have these
behaviours where they have the operation, and no run is devoted to them. Documents
are under `src/openspec/changes/cpp-config-center/` unless they begin with `src/`.

| Code | What it does | What is said |
|---|---|---|
| `sqlite_config_store.cpp:121` | A key created again starts over at version 1 | `specs/config-persistence/spec.md:4` "auto-incremented version number" |
| `sqlite_config_store.cpp:192` | Deleting a published key logs a deletion and removes nothing | `specs/config-api/spec.md:16` "marks the key for deletion in the draft" |
| `sqlite_config_store.cpp:219` | A created key is a draft, which `getConfig(..., false)` does not return | `src/tests/integration/test_sqlite_storage.cpp:32` "ASSERT_TRUE(config.has_value())" |
| `sqlite_config_store.cpp:20` | Names with ':' give two keys one version history | `specs/namespace-management/spec.md:47` "validate config key names" |
| `publish_engine.cpp:70` | The rollback of `publishGrayscale` undoes what other threads wrote meanwhile | `specs/config-persistence/spec.md:4` "preserving all previous versions" |
| `publish_engine.cpp:72` | `publishGrayscale` never succeeds: a BEGIN inside its transaction | `specs/config-publish/spec.md:40` "SHALL support grayscale releases" |
| `publish_engine.cpp:40` | Publishing ignores pending approvals | `specs/config-publish/spec.md:33` "only an approver can approve and publish it" |
| `publish_engine.cpp:93` | A full rollout leaves the release before active | `specs/config-publish/spec.md:52` "the old version is retired" |
| `publish_engine.cpp:101` | Rollouts on SQLite have no time and are listed last | `specs/config-publish/spec.md:59` "in reverse chronological order" |
| `http_server.cpp:265` | The handler returns one page of releases only | `specs/config-publish/spec.md:59` "all past releases" |
| `namespace_manager.cpp:151` | A namespace may be its own ancestor, and lookups then never return | `specs/namespace-management/spec.md:40` "a public namespace as its parent" |
| `http_server.cpp:197` | The listing asks for the env "" and the cluster "", which no namespace has: it is always empty | `src/src/server/http_server.cpp:194` "across all envs/clusters" |
| `http_server.cpp:224` | Reading a key does not fall back to the parent | `specs/namespace-management/spec.md:40` "MUST fall back to the parent namespace" |
| `namespace_manager.cpp:28` | Scopes with '/' in their parts collide | `specs/namespace-management/spec.md:29` "scoped to an application + environment + cluster combination" |
| `notification_channel.cpp:53` | Clients of one namespace compete for a notification | `design.md:63` "all subscribers watching that namespace receive the change notification" |
| `mysql_config_store.cpp:806` | The transaction methods never release their connection | `tasks.md:13` "connection pool" |
| `mysql_config_store.cpp:377` | Concurrent updates of a key may share a version number | `specs/config-persistence/spec.md:4` "MUST create a new version" |
| `mysql_config_store.cpp:679` | A publication whose INSERT failed is committed and reported as done | `src/include/config-center/storage/config_store.h:59` "// Publish (transactional)" |
| `config_client.cpp:215` | A client that changes its application writes keys of one into the file of another | `src/docs/sdk-guide.md:168` "cache serialized to `~/.config-center/cache/{appId}-{env}.json`" |
| `config_client.cpp:199` | A crash in `Shutdown` leaves an empty cache file, and `Init` fails | `specs/client-sdk/spec.md:48` "the SDK loads configs from the local cache file" |
| `config_client.cpp:106` | A miss is not fetched | `src/docs/sdk-guide.md:106` "On cache miss, the SDK fetches from the server synchronously." |
| `http_server.cpp:104` | A target is compared as a whole: a long poll with its query string is not found | `specs/config-api/spec.md:44` (the URL has a query string) |
| `config_client.cpp:36` | Delays double from one attempt to the next (and no code starts the loop) | `specs/client-sdk/spec.md:59` "reconnection is attempted every 5 seconds" |

Seen as well, with no document that says otherwise: applications and namespaces with
a segment that begins with the word of a route are misrouted (`PlainNames`);
`/publish` and `/releases` take any method; an exception in one HTTP handler ends the
process for all; the gRPC service object is destroyed when `GrpcServer::start`
returns; `BuildAndStart` may return null while `main` reports a running server;
`hardware_concurrency()` may be 0, and then no thread serves HTTP;
`loadFromFileCache` merges the keys before a value that is no string and then fails.

## 7. What is taken from outside the source

- **SQLite, sqlite_orm.** A statement outside a transaction commits by itself; a
  BEGIN inside a transaction throws; an insert of an existing primary key throws.
  Calls of sqlite_orm are taken as the code means them (an `insert` writes the row
  with the key it is given; a condition that is extended is the conjunction).
- **MySQL, InnoDB.** A publication's UPDATE locks the rows and gaps of its namespace
  until COMMIT, and writers of the namespace wait; single statements are atomic;
  reads do not wait. Timestamps are accepted as written. Lock-wait timeouts and
  deadlock detection are not modelled (a publication locks once, and no cycle of
  waits exists, as the deadlock check of `mysql_store` confirms).
- **gRPC**: `Shutdown` lets no call in and waits for those in progress; `Write` may fail
  once the client is gone. **Boost.Asio**: `run` returns when nothing is outstanding.
- **jwt-cpp, OpenSSL**: a signature is valid under the secret that made it only; the
  hashes of different passwords differ (the hexadecimal text has no padding, so that
  different digests may in principle be written alike).
- **Condition variables** may wake spuriously and do not queue fairly.
- **Rows with equal times** are returned in the order of their ids, in which the
  table is scanned; neither database promises it.
- **Files**: opening for output truncates; two processes that write at once may
  leave either content or an unreadable mixture.

## 8. What is not modelled

- Sockets, HTTP framing, JSON and YAML text, gRPC transport: I/O and text. What they
  decide (a body that does not parse, a file that does not convert, a read or write
  that fails) is a choice in `Server`.
- `src/api/*.cpp`: second copies of the handlers with the same calls, never constructed.
- `approval_engine`, `release_engine`, `draft_manager`, `long_polling`, `catch_up`,
  `watch_stream` and the small SDK files: classes without operations.
- `listConfigs`, `getConfigVersions`, `listUsers`, `getDraftChanges`,
  `getPendingApprovals`, `listEnvironments`, `listClusters`: queries that change nothing.
- `addCustomEnvironment`, `validateKeyName`, `validateValueSize`, the SDK's callbacks,
  `ReconnectPolicy`, `reconnectLoop`, `HttpServer::stop`: no caller.
- The approval methods of the MySQL store (single statements; those of SQLite are in
  `PublishEngine`), and grayscale publications over MySQL, whose transaction methods
  work on other connections than `publishRelease`: the server does not offer MySQL.
- The composition of the store with the channel: no handler publishes to it, so what a
  client that was notified may read is not a question about this code yet.

## 9. Plan

Done, in this order: store, its refinement and proofs; channel and proofs; pool and
MySQL store; publish engine; namespaces; SDK; release history; rules; server and
routing; accounts; change history; crashes in the engine, callbacks that re-enter the
channel; the proofs of pool, engine, namespaces and MySQL store; those of the
histories, the SDK, accounts, the change log, callbacks and catching up, and the
numbers and successors of releases; those of the routing and the server process.

When the code has it: the composition of store, channel and long polling, the
reconnecting SDK, handlers that ask for tokens, MySQL behind the server.
