---------------------------- MODULE ReleaseRules ----------------------------
(***************************************************************************)
(* ReleaseRuleEngine: which clients a grayscale release is for, while an   *)
(* operator changes its percentage and its whitelist.                      *)
(***************************************************************************)
EXTENDS Integers

CONSTANTS Clients,        \* [instanceId, ipAddress] records
          Names,          \* instance ids and addresses a whitelist may hold
          Percentages,    \* the percentages operators use
          hash            \* client -> std::hash of instanceId + ipAddress

ASSUME RulesAssumption == /\ \A c \in Clients : {c.instanceId, c.ipAddress} \subseteq Names
                          /\ Percentages \subseteq Int
                          /\ hash \in [Clients -> Nat]

VARIABLES grayscalePercentage, whitelist

vars == <<grayscalePercentage, whitelist>>

MovingBucket(c, percentage) == percentage > 0 /\ hash[c] % percentage < 50   \* mistaken
InBucket(c, percentage) == hash[c] % 100 < percentage

Whitelisted(c, list) == c.instanceId \in list \/ c.ipAddress \in list

evaluateClientMatch(c, percentage, list) ==
    \/ Whitelisted(c, list)
    \/ percentage >= 100
    \/ percentage > 0 /\ InBucket(c, percentage)

Matching(percentage, list) == {c \in Clients : evaluateClientMatch(c, percentage, list)}

Init == grayscalePercentage \in Percentages /\ whitelist \in SUBSET Names

changeRules(p, list) ==
    /\ grayscalePercentage' = p
    /\ whitelist' = list

Next == \E p \in Percentages : \E list \in SUBSET Names : changeRules(p, list)

Spec == Init /\ [][Next]_vars

-----------------------------------------------------------------------------
(* Widening a release takes it from nobody: a client that has it still has *)
(* it after the percentage was raised or the whitelist extended, as its    *)
(* bucket does not depend on either, and also across the special cases of  *)
(* percentages up to 0 and from 100.                                       *)
WideningKeepsClients ==
    [][grayscalePercentage' >= grayscalePercentage /\ whitelist \subseteq whitelist' =>
          Matching(grayscalePercentage, whitelist)
              \subseteq Matching(grayscalePercentage', whitelist')]_vars
=============================================================================
