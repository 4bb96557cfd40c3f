-------------------------- MODULE AtomicConfigStore --------------------------
(***************************************************************************)
(* What the configuration store promises its callers: each write changes   *)
(* the row, the version history and the change log of its key in one step, *)
(* and a publication turns every row of its namespace live in one step.    *)
(***************************************************************************)
EXTENDS ConfigTables

VARIABLES configs, config_versions, change_logs

vars == <<configs, config_versions, change_logs>>

Init ==
    /\ configs = [e \in Entries |-> NoRow]
    /\ config_versions = [id \in ConfigIds |-> <<>>]
    /\ change_logs = [e \in Entries |-> <<>>]

Write(e, row, cv, cl) ==
    /\ configs' = [configs EXCEPT ![e] = row]
    /\ config_versions' = [config_versions EXCEPT ![IdOf(e)] = Append(@, cv)]
    /\ change_logs' = [change_logs EXCEPT ![e] = Append(@, cl)]

Create(e, value) ==
    /\ Absent(configs[e])
    /\ Write(e, CreatedRow(value), CreateVersion(value), CreateLog(value))

(* Edits and rollbacks alike.                                              *)
Update(e, value, draft) ==
    /\ ~Absent(configs[e])
    /\ Write(e, UpdatedRow(configs[e], value, draft),
             UpdateVersion(configs[e], value), UpdateLog(configs[e], value))

Delete(e, draft) ==
    /\ configs' = [configs EXCEPT ![e] = RemovedRow(@, draft)]
    /\ change_logs' = [change_logs EXCEPT ![e] = Append(@, DeleteLog)]
    /\ UNCHANGED config_versions

Publish(ns) ==
    /\ configs' = [e \in Entries |-> IF e[1] = ns THEN PublishedRow(configs[e])
                                                  ELSE configs[e]]
    /\ UNCHANGED <<config_versions, change_logs>>

Next ==
    \/ \E e \in Entries :
        \/ \E value \in Values : Create(e, value)
        \/ \E value \in Values, draft \in BOOLEAN : Update(e, value, draft)
        \/ \E draft \in BOOLEAN : Delete(e, draft)
    \/ \E ns \in Namespaces : Publish(ns)

Spec == Init /\ [][Next]_vars
=============================================================================
