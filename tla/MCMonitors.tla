----------------------------- MODULE MCMonitors -----------------------------
(* The two classes with a mutex and a condition variable, for TLC: a       *)
(* behaviour is one of NotificationChannel or one of MysqlConnectionPool.  *)
EXTENDS NotificationChannel, MysqlConnectionPool

CONSTANTS c1, c2, n1, n2, cb1, t1, t2, t3, t4

VARIABLE part

Waiting == [c \in Clients |-> CHOOSE ns \in Namespaces : TRUE]

MonitorsInit ==
    /\ part \in {"channel", "pool"}
    /\ Init /\ PoolInit
    /\ part # "channel" => wait = Waiting

MonitorsNext ==
    \/ part = "channel" /\ Next /\ UNCHANGED <<part, poolVars>>
    \/ part = "pool" /\ PoolNext /\ UNCHANGED <<part, vars>>

MonitorsSpec ==
    /\ MonitorsInit /\ [][MonitorsNext]_<<part, vars, poolVars>>
    /\ Fairness
    /\ PoolFairness
=============================================================================
