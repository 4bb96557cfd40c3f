---------------------------- MODULE ConfigTables ----------------------------
(***************************************************************************)
(* The rows of the SQLite tables configs, config_versions, change_logs and *)
(* releases, and the values the store puts in them.                        *)
(*                                                                         *)
(* A name (namespace id or key) is the sequence of its ':'-separated       *)
(* segments, so that joining two names with ":" is concatenation: the only *)
(* thing about names the store's code depends on.  Timestamps, operator    *)
(* ids and release notes are left out.                                     *)
(***************************************************************************)
EXTENDS Naturals, Sequences

CONSTANTS Namespaces,   \* the namespace ids, as sequences of segments
          Keys,         \* the config keys, as sequences of segments
          Values,       \* the config values
          NoValue       \* the empty old_value/new_value of a change log

ASSUME TablesAssumption == /\ NoValue \notin Values
                           /\ Namespaces # {}
                           /\ Keys # {}

Entries == Namespaces \X Keys

(* The key of config_versions.  Two entries with different namespaces may  *)
(* share it when a name contains ':'.                                      *)
makeConfigId(namespaceId, key) == namespaceId \o key

IdOf(e) == makeConfigId(e[1], e[2])

ConfigIds == {IdOf(e) : e \in Entries}

(* No two entries share a config id: what keeps their histories apart.     *)
DistinctConfigIds == \A e, f \in Entries : IdOf(e) = IdOf(f) => e = f

-----------------------------------------------------------------------------
(* A row of configs; the absent row stands for an empty query result.      *)
ConfigKey == [value   : Values \cup {NoValue},
              version : Nat,
              status  : {"absent", "draft", "live"}]

NoRow == [value |-> NoValue, version |-> 0, status |-> "absent"]

Absent(row) == row.status = "absent"

(* A row of config_versions; the config_id column is the index of the      *)
(* table in the specifications.                                            *)
ConfigVersion == [version     : Nat,
                  value       : Values \cup {NoValue},
                  change_type : {"create", "update", "none"}]

(* A row of change_logs; namespace_id and key are the index of the table.  *)
ChangeLog == [version   : Nat,
              old_value : Values \cup {NoValue},
              new_value : Values \cup {NoValue},
              operation : {"create", "update", "delete", "none"}]

NoVersion == [version |-> 0, value |-> NoValue, change_type |-> "none"]

NoLog == [version |-> 0, old_value |-> NoValue, new_value |-> NoValue,
          operation |-> "none"]

-----------------------------------------------------------------------------
(* What createConfig inserts.  (Here and in the other modules, a definition *)
(* marked "mistaken" is the next one with a plausible slip, with which the *)
(* model checker must find a property violated.)                           *)
CreatedRow(value) == [value |-> value, version |-> 1, status |-> "draft"]

CreateVersion(value) ==
    [version |-> 1, value |-> value, change_type |-> "create"]

CreateLog(value) ==
    [version |-> 1, old_value |-> NoValue, new_value |-> value,
     operation |-> "create"]

(* What updateConfig writes over, and inserts after, the row it read.      *)
AlwaysLive(row, value, draft) ==                              \* mistaken
    [value |-> value, version |-> row.version + 1, status |-> "live"]

UpdatedRow(row, value, draft) ==
    [value |-> value, version |-> row.version + 1,
     status |-> IF draft THEN "draft" ELSE "live"]

OldValueVersion(row, value) ==                                \* mistaken
    [version |-> row.version + 1, value |-> row.value, change_type |-> "update"]

SameNumberVersion(row, value) ==                              \* mistaken
    [version |-> row.version, value |-> value, change_type |-> "update"]

UpdateVersion(row, value) ==
    [version |-> row.version + 1, value |-> value, change_type |-> "update"]

NewValueTwiceLog(row, value) ==                               \* mistaken
    [version |-> row.version + 1, old_value |-> value,
     new_value |-> value, operation |-> "update"]

UpdateLog(row, value) ==
    [version |-> row.version + 1, old_value |-> row.value,
     new_value |-> value, operation |-> "update"]

(* What deleteConfig leaves of a row, and inserts whether or not a row was *)
(* removed.                                                                *)
RemovedRow(row, draft) ==
    IF draft /\ row.status # "draft" THEN row ELSE NoRow

DeleteLog == [version |-> 0, old_value |-> NoValue, new_value |-> NoValue,
              operation |-> "delete"]

(* What publishRelease makes of a row of the namespace.                    *)
PublishedRow(row) == IF Absent(row) THEN row ELSE [row EXCEPT !.status = "live"]

(* The row getConfig answers with.                                         *)
VisibleRow(row, includeDraft) ==
    IF row.status = "draft" /\ ~includeDraft THEN NoRow ELSE row
=============================================================================
