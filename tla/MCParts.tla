------------------------------ MODULE MCParts ------------------------------
(* The parts that neither share state nor wait, for TLC: a behaviour is    *)
(* one of ReleaseRules, ReleaseHistory, ChangeHistory, ConfigClient or     *)
(* Accounts; the others stay in one initial state.                         *)
EXTENDS ReleaseRules, ReleaseHistory, ChangeHistory, ConfigClient, Accounts, TLC

CONSTANTS r1, a1, a2, k1, k2, c1, c2, c3

VARIABLE part

(* Clients in the first, a middle and the last bucket, and percentages on  *)
(* both sides of every boundary.                                           *)
Client(i, a) == [instanceId |-> i, ipAddress |-> a]

FourClients == {Client("i1", "a1"), Client("i2", "a1"), Client("i2", "a2"), Client("i3", "a2")}

FiveNames == {"i1", "i2", "i3", "a1", "a2"}

Boundaries == {-1, 0, 1, 49, 50, 51, 99, 100, 101}

Hashes == [c \in FourClients |->
              CASE c = Client("i1", "a1") -> 200
                [] c = Client("i2", "a1") -> 150
                [] c = Client("i2", "a2") -> 149
                [] OTHER -> 99]

(* Each application has a key of its own and one that both have.           *)
BothShipped == [a \in Apps |-> IF a = a1 THEN Keys ELSE {k2}]

Symmetry == Permutations({c1, c2, c3})

(* Two namespaces, the same key in both, and queries from the open one to  *)
(* that of one key and one period.                                         *)
ThreeLogged == {<<"ns1", "k1">>, <<"ns1", "k2">>, <<"ns2", "k1">>}

SixQueries ==
    {<<>>,
     [namespace_id |-> "ns1"],
     [namespace_id |-> "ns1", key |-> "k1"],
     [time_from |-> 2],
     [time_to |-> 2],
     [namespace_id |-> "ns1", key |-> "k1", time_from |-> 1, time_to |-> 2]}

-----------------------------------------------------------------------------
rulesVars == <<grayscalePercentage, whitelist>>

(* The tables of histories and users, the caches and files, and the claims *)
(* of a token are well-formed in every part.                               *)
PartsTypeOK == HistoryTypeOK /\ ChangesTypeOK /\ ClientTypeOK /\ AccountsTypeOK

PartsInit ==
    /\ part \in {"rules", "history", "changes", "client", "accounts"}
    /\ Init /\ HistoryInit /\ ChangesInit /\ ClientsInit /\ AccountsInit
    /\ part # "rules" => grayscalePercentage = 0 /\ whitelist = {}
    /\ part # "history" => stamped
    /\ part # "changes" => query = <<>>
    /\ part # "client" => \A a \in Apps : state[a] # "mistyped"
    /\ part # "accounts" => secret_ = CHOOSE s \in Secrets : TRUE

PartsNext ==
    /\ UNCHANGED part
    /\ \/ /\ part = "rules" /\ Next
          /\ UNCHANGED <<historyVars, changesVars, clientVars, accountsVars>>
       \/ /\ part = "history" /\ HistoryNext
          /\ UNCHANGED <<rulesVars, changesVars, clientVars, accountsVars>>
       \/ /\ part = "changes" /\ ChangesNext
          /\ UNCHANGED <<rulesVars, historyVars, clientVars, accountsVars>>
       \/ /\ part = "client" /\ ClientNext
          /\ UNCHANGED <<rulesVars, historyVars, changesVars, accountsVars>>
       \/ /\ part = "accounts" /\ AccountsNext
          /\ UNCHANGED <<rulesVars, historyVars, changesVars, clientVars>>

PartsSpec ==
    PartsInit
    /\ [][PartsNext]_<<part, rulesVars, historyVars, changesVars, clientVars, accountsVars>>
=============================================================================
