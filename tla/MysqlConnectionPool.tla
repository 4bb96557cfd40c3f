------------------------ MODULE MysqlConnectionPool ------------------------
(***************************************************************************)
(* MysqlConnectionPool, and the methods of MysqlConfigStore as its users:  *)
(* each acquires one connection, works and releases it, except             *)
(* beginTransaction, commitTransaction and rollbackTransaction, which      *)
(* acquire one and return without releasing it.                            *)
(*                                                                         *)
(* acquire and release hold mutex_ throughout, save for the sleep in       *)
(* cv_.wait: each is one step, and a step more for each awakening.         *)
(***************************************************************************)
EXTENDS Naturals, Sequences, FiniteSets

CONSTANTS Callers,        \* the threads that call methods of the store
          PoolSize,       \* poolSize_
          MaxCalls        \* bound: calls per thread

ASSUME PoolAssumption == /\ IsFiniteSet(Callers)
                         /\ PoolSize \in Nat \ {0}
                         /\ MaxCalls \in Nat

Connections == 1..PoolSize

NoConnection == 0

VARIABLES pool_,      \* the queue of free connections
          at,         \* thread -> "idle", "asleep" in cv_.wait, "awake", or "using"
          conn,       \* thread -> the connection it uses
          keeps,      \* thread -> its call is a transaction method
          calls,      \* thread -> number of calls so far
          leaked      \* history: the connections that transaction methods kept

poolVars == <<pool_, at, conn, keeps, calls, leaked>>

PoolTypeOK ==
    /\ pool_ \in Seq(Connections)
    /\ at \in [Callers -> {"idle", "asleep", "awake", "using"}]
    /\ conn \in [Callers -> Connections \cup {NoConnection}]
    /\ keeps \in [Callers -> BOOLEAN]
    /\ calls \in [Callers -> Nat]
    /\ leaked \subseteq Connections

(* The constructor.                                                        *)
PoolInit ==
    /\ pool_ = [i \in Connections |-> i]
    /\ at = [t \in Callers |-> "idle"]
    /\ conn = [t \in Callers |-> NoConnection]
    /\ keeps = [t \in Callers |-> FALSE]
    /\ calls = [t \in Callers |-> 0]
    /\ leaked = {}

-----------------------------------------------------------------------------
(* The predicate of cv_.wait, and what follows it.                         *)
PeekFront(t) ==                                               \* mistaken
    /\ pool_ # <<>>
    /\ conn' = [conn EXCEPT ![t] = Head(pool_)]
    /\ at' = [at EXCEPT ![t] = "using"]
    /\ UNCHANGED pool_

PopFront(t) ==
    /\ pool_ # <<>>
    /\ conn' = [conn EXCEPT ![t] = Head(pool_)]
    /\ pool_' = Tail(pool_)
    /\ at' = [at EXCEPT ![t] = "using"]

Sleep(t) ==
    /\ pool_ = <<>>
    /\ at' = [at EXCEPT ![t] = "asleep"]
    /\ UNCHANGED <<pool_, conn>>

(* acquire, as the first thing of a call.                                  *)
acquire(t, transaction) ==
    /\ at[t] = "idle"
    /\ calls[t] < MaxCalls
    /\ calls' = [calls EXCEPT ![t] = @ + 1]
    /\ keeps' = [keeps EXCEPT ![t] = transaction]
    /\ PopFront(t) \/ Sleep(t)
    /\ UNCHANGED leaked

(* A notified thread gets the mutex; a thread that came in between may     *)
(* have taken the connection.                                              *)
wakeToAcquire(t) ==
    /\ at[t] = "awake"
    /\ PopFront(t) \/ Sleep(t)
    /\ UNCHANGED <<keeps, calls, leaked>>

(* cv_.wait may return without a notification.                             *)
spuriousWakeUp(t) ==
    /\ at[t] = "asleep"
    /\ at' = [at EXCEPT ![t] = "awake"]
    /\ UNCHANGED <<pool_, conn, keeps, calls, leaked>>

(* cv_.notify_one, with t the thread that releases.                        *)
SignalNone(t) == at' = [at EXCEPT ![t] = "idle"]              \* mistaken

SignalOne(t) ==
    LET sleepers == {u \in Callers : at[u] = "asleep"}
    IN  \/ /\ sleepers = {}
           /\ at' = [at EXCEPT ![t] = "idle"]
        \/ \E u \in sleepers : at' = [at EXCEPT ![t] = "idle", ![u] = "awake"]

(* release, as the last thing of a call.                                   *)
DropConnection(t) ==                                          \* mistaken
    /\ at[t] = "using"
    /\ ~keeps[t]
    /\ conn' = [conn EXCEPT ![t] = NoConnection]
    /\ SignalOne(t)
    /\ UNCHANGED <<pool_, keeps, calls, leaked>>

release(t) ==
    /\ at[t] = "using"
    /\ ~keeps[t]
    /\ pool_' = Append(pool_, conn[t])
    /\ conn' = [conn EXCEPT ![t] = NoConnection]
    /\ SignalOne(t)
    /\ UNCHANGED <<keeps, calls, leaked>>

(* The end of a transaction method: its connection belongs to nobody.      *)
endTransactionMethod(t) ==
    /\ at[t] = "using"
    /\ keeps[t]
    /\ leaked' = leaked \cup {conn[t]}
    /\ conn' = [conn EXCEPT ![t] = NoConnection]
    /\ at' = [at EXCEPT ![t] = "idle"]
    /\ keeps' = [keeps EXCEPT ![t] = FALSE]
    /\ UNCHANGED <<pool_, calls>>

-----------------------------------------------------------------------------
PoolCall(t) == acquire(t, FALSE) \/ acquire(t, TRUE)

PoolStep(t) == wakeToAcquire(t) \/ release(t) \/ endTransactionMethod(t)

(* Nobody calls any more.                                                  *)
PoolQuiet == (\A t \in Callers : at[t] = "idle") /\ UNCHANGED poolVars

PoolNext == (\E t \in Callers : PoolCall(t) \/ PoolStep(t) \/ spuriousWakeUp(t)) \/ PoolQuiet

PoolSpec == PoolInit /\ [][PoolNext]_poolVars

(* A thread that may run, runs; cv_.wait promises no order among threads.  *)
PoolFairness == \A t \in Callers : WF_poolVars(PoolStep(t))

-----------------------------------------------------------------------------
(* No two threads use one connection, none that is in the pool is in use   *)
(* or there twice, and none that a transaction method kept is either:      *)
(* statements of two calls never mix on a connection.                      *)
ConnectionsApart ==
    /\ \A t, u \in Callers : t # u /\ conn[t] # NoConnection => conn[t] # conn[u]
    /\ \A t \in Callers : \A i \in DOMAIN pool_ : pool_[i] # conn[t]
    /\ \A i, j \in DOMAIN pool_ : i # j => pool_[i] # pool_[j]
    /\ \A t \in Callers : conn[t] \notin leaked
    /\ \A i \in DOMAIN pool_ : pool_[i] \notin leaked

(* While a thread sleeps in acquire, every free connection has an awake    *)
(* thread on its way to it: notify_one for each release is enough, though  *)
(* newcomers may take a connection before the thread that was notified.    *)
SleepersServed ==
    (\E t \in Callers : at[t] = "asleep") =>
        Len(pool_) <= Cardinality({t \in Callers : at[t] = "awake"})

(* Every call gets a connection and returns, unless the transaction        *)
(* methods have leaked all connections.                                    *)
EveryCallReturns ==
    \A t \in Callers : at[t] # "idle" ~> (at[t] = "idle" \/ leaked = Connections)
=============================================================================
