--------------------------- MODULE ChangeHistory ---------------------------
(***************************************************************************)
(* The change log, read page by page with the filters of ChangeLogQuery,   *)
(* while changes are logged.                                               *)
(*                                                                         *)
(* A write takes its timestamp first and inserts the row of the log last:  *)
(* with MySQL, which has no mutex, rows of other writes may be inserted in *)
(* between, and the row is older than some that were there before it.      *)
(***************************************************************************)
EXTENDS Sequences, Pages

CONSTANTS Logged,          \* the <<namespace_id, key>> that changes are logged for
          Queries,         \* records with optional namespace_id, key, time_from, time_to
          MaxDelay,        \* bound: seconds from timestamp to insertion
          MaxChanges,      \* bound: rows
          MaxSeconds       \* bound: seconds

ASSUME ChangesAssumption ==
    /\ \A entry \in Logged : entry = <<entry[1], entry[2]>>
    /\ Queries # {}
    /\ \A q \in Queries : \A field \in {"time_from", "time_to"} :
          field \in DOMAIN q => q[field] \in Nat
    /\ {MaxDelay, MaxChanges} \subseteq Nat
    /\ MaxSeconds \in Nat \ {0}

VARIABLES second,     \* the time
          changes,    \* the rows: [entry, created_at]
          query,      \* what the reader asks for
          page,       \* the page it asks for next; 0 when it has them all
          had,        \* history: the rows it should find, as of page 1
          got         \* history: the rows on its pages

changesVars == <<second, changes, query, page, had, got>>

ChangesTypeOK ==
    /\ second \in 1..MaxSeconds
    /\ changes \in Seq([entry : Logged, created_at : 1..MaxSeconds])
    /\ query \in Queries
    /\ page \in Nat
    /\ had \subseteq DOMAIN changes
    /\ got \subseteq DOMAIN changes

ChangesInit ==
    /\ second = 1
    /\ changes = <<>>
    /\ query \in Queries
    /\ page = 1
    /\ had = {}
    /\ got = {}

passSecond ==
    /\ second < MaxSeconds
    /\ second' = second + 1
    /\ UNCHANGED <<changes, query, page, had, got>>

logChange(entry, created_at) ==
    /\ Len(changes) < MaxChanges
    /\ created_at + MaxDelay >= second
    /\ created_at <= second
    /\ changes' = Append(changes, [entry |-> entry, created_at |-> created_at])
    /\ UNCHANGED <<second, query, page, had, got>>

-----------------------------------------------------------------------------
(* The WHERE clause: one condition for each field that is given.           *)
Given(q, field) == field \in DOMAIN q

ExclusiveEnd(q, row) ==                                       \* mistaken
    /\ Given(q, "namespace_id") => row.entry[1] = q.namespace_id
    /\ Given(q, "key") => row.entry[2] = q.key
    /\ Given(q, "time_from") => row.created_at >= q.time_from
    /\ Given(q, "time_to") => row.created_at < q.time_to

Matches(q, row) ==
    /\ Given(q, "namespace_id") => row.entry[1] = q.namespace_id
    /\ Given(q, "key") => row.entry[2] = q.key
    /\ Given(q, "time_from") => row.created_at >= q.time_from
    /\ Given(q, "time_to") => row.created_at <= q.time_to

getChangeHistory(q, p) ==
    Page({i \in DOMAIN changes : Matches(q, changes[i])},
         [i \in DOMAIN changes |-> changes[i].created_at], p)

(* The changes of a scope and a period, both ends included.                *)
Wanted(q, row) ==
    LET only(field, value) == IF Given(q, field) THEN {q[field]} ELSE {value}
        from == IF Given(q, "time_from") THEN q.time_from ELSE 1
        to == IF Given(q, "time_to") THEN q.time_to ELSE MaxSeconds
    IN  /\ row.entry \in only("namespace_id", row.entry[1]) \X only("key", row.entry[2])
        /\ row.created_at \in from..to

(* The reader asks for page after page until one is empty.                 *)
readPage ==
    LET rows == getChangeHistory(query, page)
    IN  /\ page # 0
        /\ had' = IF page = 1 THEN {i \in DOMAIN changes : Wanted(query, changes[i])} ELSE had
        /\ got' = got \cup {rows[n] : n \in DOMAIN rows}
        /\ page' = IF rows = <<>> THEN 0 ELSE page + 1
        /\ UNCHANGED <<second, changes, query>>

ChangesDone ==
    /\ page = 0
    /\ UNCHANGED changesVars

ChangesNext ==
    \/ passSecond
    \/ \E entry \in Logged, created_at \in 1..MaxSeconds : logChange(entry, created_at)
    \/ readPage
    \/ ChangesDone

ChangesSpec == ChangesInit /\ [][ChangesNext]_changesVars

-----------------------------------------------------------------------------
(* Who reads the change log page by page finds every change of the asked   *)
(* scope and period that there was when it began, and no other ones,       *)
(* though rows are inserted meanwhile, also between older ones.            *)
ChangesFound ==
    /\ page = 0 => had \subseteq got
    /\ \A i \in got : Wanted(query, changes[i])
=============================================================================
