------------------------ MODULE PublishEngineProofs ------------------------
(***************************************************************************)
(* Proofs about PublishEngine, for every set of namespaces, every finite   *)
(* set of threads and every bound: who owns the transaction and what it    *)
(* can take back (EngineInv), the numbers of releases (Numbered), and the  *)
(* successors of retired ones (SuccessorInv).                              *)
(***************************************************************************)
EXTENDS PublishEngine, FiniteSetTheorems, TLAPS

(* A set of naturals has a least one, and a bounded one a greatest one.    *)
LEMMA LeastNatural ==
    ASSUME NEW S, S \subseteq Nat, S # {}
    PROVE  \E m \in S : \A k \in S : m <= k
<1>1. PICK m \in S : \A k \in S : ~(<<k, m>> \in OpToRel(<, Nat))
  BY NatLessThanWellFounded, WFMin, Zenon
<1>2. \A k \in S : ~(k < m)
  BY <1>1, Zenon DEF OpToRel
<1> QED
  BY <1>2

(* A bounded set of naturals that is not empty has a greatest member.      *)
LEMMA GreatestNatural ==
    ASSUME NEW S, S \subseteq Nat, S # {}, NEW n \in Nat, \A s \in S : s <= n
    PROVE  \E m \in S : \A k \in S : k <= m
<1> DEFINE T == {n - s : s \in S}
<1>1. T \subseteq Nat
  BY \A s \in S : n - s \in Nat
<1>2. T # {}
  BY Zenon
<1>3. PICK d \in T : \A k \in T : d <= k
  <2> HIDE DEF T
  <2> QED
    BY <1>1, <1>2, LeastNatural, Zenon
<1>4. PICK m \in S : d = n - m
  OBVIOUS
<1>5. \A k \in S : n - m <= n - k
  BY <1>3, <1>4, Zenon
<1> QED
  BY <1>5

-----------------------------------------------------------------------------
(* The three kinds of facts, one by one.                                   *)
LEMMA FactKinds ==
    ASSUME NEW tables
    PROVE  /\ \A ns \in Namespaces : \A v \in tables.config_versions[ns] :
                  <<"version", ns, v>> \in Facts(tables)
           /\ \A i \in DOMAIN tables.releases :
                  <<"release", tables.releases[i].namespace_id, i>> \in Facts(tables)
           /\ \A i \in DOMAIN tables.approvals :
                  <<"approval", tables.approvals[i].namespace_id, i>> \in Facts(tables)
<1> DEFINE OfNamespace(ns) == {<<"version", ns, v>> : v \in tables.config_versions[ns]}
           Versions == UNION {OfNamespace(ns) : ns \in Namespaces}
           Releases == {<<"release", tables.releases[i].namespace_id, i>> :
                           i \in DOMAIN tables.releases}
           Approved == {<<"approval", tables.approvals[i].namespace_id, i>> :
                           i \in DOMAIN tables.approvals}
<1>1. Facts(tables) = (Versions \cup Releases) \cup Approved
  BY Zenon DEF Facts
<1>2. \A ns \in Namespaces : OfNamespace(ns) \subseteq Versions
  BY Zenon
<1>3. \A ns \in Namespaces : \A v \in tables.config_versions[ns] :
          <<"version", ns, v>> \in OfNamespace(ns)
  BY Zenon
<1>4. \A i \in DOMAIN tables.releases :
          <<"release", tables.releases[i].namespace_id, i>> \in Releases
  BY Zenon
<1>5. \A i \in DOMAIN tables.approvals :
          <<"approval", tables.approvals[i].namespace_id, i>> \in Approved
  BY Zenon
<1> HIDE DEF Versions, OfNamespace, Releases, Approved
<1> QED
  BY <1>1, <1>2, <1>3, <1>4, <1>5

(* What may be acknowledged is a version, a release or an approval.        *)
LEMMA FactOrigin ==
    ASSUME NEW tables, NEW fact \in Facts(tables)
    PROVE  \/ \E ns \in Namespaces : \E v \in tables.config_versions[ns] :
                  fact = <<"version", ns, v>>
           \/ \E i \in DOMAIN tables.releases :
                  fact = <<"release", tables.releases[i].namespace_id, i>>
           \/ \E i \in DOMAIN tables.approvals :
                  fact = <<"approval", tables.approvals[i].namespace_id, i>>
<1> DEFINE OfNamespace(ns) == {<<"version", ns, v>> : v \in tables.config_versions[ns]}
           Versions == UNION {OfNamespace(ns) : ns \in Namespaces}
           Releases == {<<"release", tables.releases[i].namespace_id, i>> :
                           i \in DOMAIN tables.releases}
           Approved == {<<"approval", tables.approvals[i].namespace_id, i>> :
                           i \in DOMAIN tables.approvals}
<1>1. fact \in Versions \/ fact \in Releases \/ fact \in Approved
  BY Zenon DEF Facts
<1>2. fact \in Versions => \E ns \in Namespaces : fact \in OfNamespace(ns)
  BY Zenon
<1>3. \A ns \in Namespaces : fact \in OfNamespace(ns) =>
          \E v \in tables.config_versions[ns] : fact = <<"version", ns, v>>
  BY Zenon
<1>4. fact \in Releases => \E i \in DOMAIN tables.releases :
          fact = <<"release", tables.releases[i].namespace_id, i>>
  BY Zenon
<1>5. fact \in Approved => \E i \in DOMAIN tables.approvals :
          fact = <<"approval", tables.approvals[i].namespace_id, i>>
  BY Zenon
<1> HIDE DEF Versions, OfNamespace, Releases, Approved
<1> QED
  BY <1>1, <1>2, <1>3, <1>4, <1>5

(* Tables that only grow keep their facts.                                 *)
Grows(old, new) ==
    /\ \A ns \in Namespaces : old.config_versions[ns] \subseteq new.config_versions[ns]
    /\ \A i \in DOMAIN old.releases :
          i \in DOMAIN new.releases /\ new.releases[i].namespace_id = old.releases[i].namespace_id
    /\ \A i \in DOMAIN old.approvals :
          i \in DOMAIN new.approvals /\ new.approvals[i].namespace_id = old.approvals[i].namespace_id

(* Tables that grow keep every fact.                                       *)
LEMMA GrowsKeeps ==
    ASSUME NEW old, NEW new, Grows(old, new)
    PROVE  Facts(old) \subseteq Facts(new)
<1> SUFFICES ASSUME NEW fact \in Facts(old) PROVE fact \in Facts(new)
  OBVIOUS
<1>1. ASSUME NEW ns \in Namespaces, NEW v \in old.config_versions[ns], fact = <<"version", ns, v>>
      PROVE  fact \in Facts(new)
  <2>1. v \in new.config_versions[ns]
    BY Zenon DEF Grows
  <2> QED
    BY <1>1, <2>1, FactKinds, Zenon
<1>2. ASSUME NEW i \in DOMAIN old.releases, fact = <<"release", old.releases[i].namespace_id, i>>
      PROVE  fact \in Facts(new)
  <2>1. i \in DOMAIN new.releases /\ new.releases[i].namespace_id = old.releases[i].namespace_id
    BY Zenon DEF Grows
  <2> QED
    BY <1>2, <2>1, FactKinds, Zenon
<1>3. ASSUME NEW i \in DOMAIN old.approvals, fact = <<"approval", old.approvals[i].namespace_id, i>>
      PROVE  fact \in Facts(new)
  <2>1. i \in DOMAIN new.approvals /\ new.approvals[i].namespace_id = old.approvals[i].namespace_id
    BY Zenon DEF Grows
  <2> QED
    BY <1>3, <2>1, FactKinds, Zenon
<1> QED
  BY <1>1, <1>2, <1>3, FactOrigin, Zenon

-----------------------------------------------------------------------------
(* No release has a number above its id: a bound for maxVersion, without   *)
(* which there need not be a highest number.                               *)
Bounded(tables) ==
    \A i \in DOMAIN tables.releases : tables.releases[i].release_version <= i

GoodTables == {tables \in Tables : Bounded(tables)}

(* Records, field by field.                                                *)
LEMMA ReleaseFields ==
    ASSUME NEW r \in Release
    PROVE  r.namespace_id \in Namespaces /\ r.release_version \in Nat
BY DEF Release

(* Retiring a release changes its status only.                             *)
LEMMA RetiredFields ==
    ASSUME NEW r \in Release
    PROVE  /\ [r EXCEPT !.status = "retired"] \in Release
           /\ [r EXCEPT !.status = "retired"].namespace_id = r.namespace_id
           /\ [r EXCEPT !.status = "retired"].release_version = r.release_version
BY DEF Release

(* Deciding an approval changes its status only.                           *)
LEMMA DecidedFields ==
    ASSUME NEW a \in Approval, NEW status \in {"approved", "rejected"}
    PROVE  /\ [a EXCEPT !.status = status] \in Approval
           /\ [a EXCEPT !.status = status].namespace_id = a.namespace_id
BY DEF Approval

(* The types of the four tables.                                           *)
LEMMA TableFields ==
    ASSUME NEW tables \in GoodTables
    PROVE  /\ tables \in Tables
           /\ tables.configs \in [Namespaces -> Nat]
           /\ tables.config_versions \in [Namespaces -> SUBSET Nat]
           /\ tables.releases \in Seq(Release)
           /\ tables.approvals \in Seq(Approval)
BY DEF GoodTables, Tables

(* The tables, with one of them replaced.                                  *)
WithConfigs(old, rows) == [old EXCEPT !.configs = rows]

(* Replacing the keys leaves the other tables.                             *)
LEMMA ConfigsReplaced ==
    ASSUME NEW old \in Tables, NEW rows \in [Namespaces -> Nat]
    PROVE  /\ WithConfigs(old, rows) \in Tables
           /\ WithConfigs(old, rows).configs = rows
           /\ WithConfigs(old, rows).config_versions = old.config_versions
           /\ WithConfigs(old, rows).releases = old.releases
           /\ WithConfigs(old, rows).approvals = old.approvals
<1>1. WithConfigs(old, rows) \in Tables
  BY Zenon DEF Tables, WithConfigs
<1> QED
  BY <1>1, Zenon DEF Tables, WithConfigs

WithVersions(old, rows) == [old EXCEPT !.config_versions = rows]

(* Replacing the versions leaves the other tables.                         *)
LEMMA VersionsReplaced ==
    ASSUME NEW old \in Tables, NEW rows \in [Namespaces -> SUBSET Nat]
    PROVE  /\ WithVersions(old, rows) \in Tables
           /\ WithVersions(old, rows).configs = old.configs
           /\ WithVersions(old, rows).config_versions = rows
           /\ WithVersions(old, rows).releases = old.releases
           /\ WithVersions(old, rows).approvals = old.approvals
<1>1. WithVersions(old, rows) \in Tables
  BY Zenon DEF Tables, WithVersions
<1> QED
  BY <1>1, Zenon DEF Tables, WithVersions

WithReleases(old, rows) == [old EXCEPT !.releases = rows]

(* Replacing the releases leaves the other tables.                         *)
LEMMA ReleasesReplaced ==
    ASSUME NEW old \in Tables, NEW rows \in Seq(Release)
    PROVE  /\ WithReleases(old, rows) \in Tables
           /\ WithReleases(old, rows).configs = old.configs
           /\ WithReleases(old, rows).config_versions = old.config_versions
           /\ WithReleases(old, rows).releases = rows
           /\ WithReleases(old, rows).approvals = old.approvals
<1>1. WithReleases(old, rows) \in Tables
  BY Zenon DEF Tables, WithReleases
<1> QED
  BY <1>1, Zenon DEF Tables, WithReleases

WithApprovals(old, rows) == [old EXCEPT !.approvals = rows]

(* Replacing the approvals leaves the other tables.                        *)
LEMMA ApprovalsReplaced ==
    ASSUME NEW old \in Tables, NEW rows \in Seq(Approval)
    PROVE  /\ WithApprovals(old, rows) \in Tables
           /\ WithApprovals(old, rows).configs = old.configs
           /\ WithApprovals(old, rows).config_versions = old.config_versions
           /\ WithApprovals(old, rows).releases = old.releases
           /\ WithApprovals(old, rows).approvals = rows
<1>1. WithApprovals(old, rows) \in Tables
  BY Zenon DEF Tables, WithApprovals
<1> QED
  BY <1>1, Zenon DEF Tables, WithApprovals

(* A function on the indexes of a sequence is a sequence.                  *)
LEMMA SameLength ==
    ASSUME NEW S, NEW rows \in Seq(S), NEW f, f = [i \in DOMAIN rows |-> f[i]],
           \A i \in DOMAIN rows : f[i] \in S
    PROVE  f \in Seq(S) /\ DOMAIN f = DOMAIN rows
<1>1. DOMAIN rows = 1..Len(rows) /\ Len(rows) \in Nat
  OBVIOUS
<1>2. f = [i \in 1..Len(rows) |-> f[i]] /\ \A i \in 1..Len(rows) : f[i] \in S
  BY <1>1
<1>3. f \in Seq(S)
  BY <1>1, <1>2
<1>4. DOMAIN f = DOMAIN rows
  BY Zenon
<1> QED
  BY <1>3, <1>4

(* The highest release number is at most the number of releases.           *)
LEMMA MaxVersionBound ==
    ASSUME db \in GoodTables, NEW ns \in Namespaces
    PROVE  maxVersion(ns) \in Nat /\ maxVersion(ns) <= Len(db.releases)
<1> DEFINE versions == {db.releases[i].release_version :
                           i \in {j \in DOMAIN db.releases : db.releases[j].namespace_id = ns}}
<1>1. db.releases \in Seq(Release) /\ Len(db.releases) \in Nat
  BY TableFields
<1>2. \A i \in DOMAIN db.releases : db.releases[i].release_version \in Nat
  BY <1>1, ReleaseFields
<1>3. \A i \in DOMAIN db.releases : db.releases[i].release_version <= Len(db.releases)
  <2>1. \A i \in DOMAIN db.releases : i \in Nat /\ i <= Len(db.releases)
    BY <1>1
  <2>2. \A i \in DOMAIN db.releases : db.releases[i].release_version <= i
    BY DEF GoodTables, Bounded
  <2> QED
    BY <1>1, <1>2, <2>1, <2>2
<1>4. versions \subseteq Nat /\ \A v \in versions : v <= Len(db.releases)
  BY <1>2, <1>3
<1>5. maxVersion(ns) = IF versions = {} THEN 0
                       ELSE CHOOSE v \in versions : \A w \in versions : w <= v
  BY DEF maxVersion
<1> HIDE DEF versions
<1>6. CASE versions = {}
  BY <1>1, <1>5, <1>6
<1>7. CASE versions # {}
  <2>1. \E v \in versions : \A w \in versions : w <= v
    BY <1>1, <1>4, <1>7, GreatestNatural, Zenon
  <2>2. maxVersion(ns) \in versions
    BY <1>5, <1>7, <2>1, Zenon
  <2> QED
    BY <1>4, <2>2, Zenon
<1> QED
  BY <1>6, <1>7

(* What the writes make of the tables.                                     *)
LEMMA AppendRelease ==
    ASSUME NEW old \in GoodTables, NEW r \in Release, r.release_version <= Len(old.releases) + 1,
           NEW rows, rows = Append(old.releases, r)
    PROVE  /\ WithReleases(old, rows) \in GoodTables
           /\ Grows(old, WithReleases(old, rows))
           /\ <<"release", r.namespace_id, Len(old.releases) + 1>>
                 \in Facts(WithReleases(old, rows))
<1> DEFINE new == WithReleases(old, rows)
<1>1. old \in Tables /\ old.releases \in Seq(Release) /\ Len(old.releases) \in Nat
  BY TableFields
<1>2. rows \in Seq(Release)
  BY <1>1
<1>3. /\ DOMAIN old.releases = 1..Len(old.releases)
      /\ DOMAIN rows = 1..Len(old.releases) + 1
      /\ \A i \in DOMAIN old.releases : i \in DOMAIN rows /\ rows[i] = old.releases[i]
      /\ rows[Len(old.releases) + 1] = r
      /\ Len(old.releases) + 1 \in DOMAIN rows
  BY <1>1
<1>4. /\ new \in Tables
      /\ new.config_versions = old.config_versions
      /\ new.releases = rows
      /\ new.approvals = old.approvals
  BY <1>1, <1>2, ReleasesReplaced, Zenon
<1> HIDE DEF new
<1>5. \A i \in DOMAIN rows : i \in DOMAIN old.releases \/ i = Len(old.releases) + 1
  BY <1>1, <1>3
<1>6. Bounded(new)
  BY <1>3, <1>4, <1>5 DEF GoodTables, Bounded
<1>7. Grows(old, new)
  BY <1>3, <1>4 DEF Grows
<1>8. <<"release", r.namespace_id, Len(old.releases) + 1>> \in Facts(new)
  BY <1>3, <1>4, FactKinds
<1>9. new \in GoodTables
  BY <1>4, <1>6 DEF GoodTables
<1> QED
  BY <1>7, <1>8, <1>9, Zenon DEF new

Retired(rows, id) ==
    [i \in DOMAIN rows |-> IF i = id THEN [rows[i] EXCEPT !.status = "retired"] ELSE rows[i]]

(* Retiring a release loses no fact.                                       *)
LEMMA RetireRelease ==
    ASSUME NEW old \in GoodTables, NEW id
    PROVE  /\ WithReleases(old, Retired(old.releases, id)) \in GoodTables
           /\ Grows(old, WithReleases(old, Retired(old.releases, id)))
<1> DEFINE rows == Retired(old.releases, id)
           new == WithReleases(old, rows)
<1>1. old \in Tables /\ old.releases \in Seq(Release)
  BY TableFields
<1>2. \A i \in DOMAIN old.releases :
          /\ rows[i] \in Release
          /\ rows[i].namespace_id = old.releases[i].namespace_id
          /\ rows[i].release_version = old.releases[i].release_version
  BY <1>1, RetiredFields DEF Retired
<1>3. rows = [i \in DOMAIN old.releases |-> rows[i]]
  BY Zenon DEF Retired
<1> HIDE DEF rows
<1>4. rows \in Seq(Release) /\ DOMAIN rows = DOMAIN old.releases
  BY <1>1, <1>2, <1>3, SameLength, Zenon
<1>5. /\ new \in Tables
      /\ new.config_versions = old.config_versions
      /\ new.releases = rows
      /\ new.approvals = old.approvals
  BY <1>1, <1>4, ReleasesReplaced, Zenon
<1> HIDE DEF new
<1>6. new \in GoodTables /\ Grows(old, new)
  BY <1>2, <1>4, <1>5 DEF GoodTables, Bounded, Grows
<1> QED
  BY <1>6, Zenon DEF new, rows

(* An approval that is appended is found under its id.                     *)
LEMMA AppendApproval ==
    ASSUME NEW old \in GoodTables, NEW a \in Approval, NEW rows, rows = Append(old.approvals, a)
    PROVE  /\ WithApprovals(old, rows) \in GoodTables
           /\ Grows(old, WithApprovals(old, rows))
           /\ <<"approval", a.namespace_id, Len(old.approvals) + 1>>
                 \in Facts(WithApprovals(old, rows))
<1> DEFINE new == WithApprovals(old, rows)
<1>1. old \in Tables /\ old.approvals \in Seq(Approval) /\ Len(old.approvals) \in Nat
  BY TableFields
<1>2. /\ rows \in Seq(Approval)
      /\ \A i \in DOMAIN old.approvals : i \in DOMAIN rows /\ rows[i] = old.approvals[i]
      /\ rows[Len(old.approvals) + 1] = a
      /\ Len(old.approvals) + 1 \in DOMAIN rows
  BY <1>1
<1>3. /\ new \in Tables
      /\ new.config_versions = old.config_versions
      /\ new.releases = old.releases
      /\ new.approvals = rows
  BY <1>1, <1>2, ApprovalsReplaced, Zenon
<1> HIDE DEF new
<1>4. <<"approval", a.namespace_id, Len(old.approvals) + 1>> \in Facts(new)
  BY <1>2, <1>3, FactKinds
<1>5. new \in GoodTables /\ Grows(old, new)
  BY <1>2, <1>3 DEF GoodTables, Bounded, Grows
<1> QED
  BY <1>4, <1>5, Zenon DEF new

Decided(rows, id, status) == [rows EXCEPT ![id] = [rows[id] EXCEPT !.status = status]]

(* Deciding an approval loses no fact.                                     *)
LEMMA DecideApproval ==
    ASSUME NEW old \in GoodTables, NEW id \in DOMAIN old.approvals,
           NEW status \in {"approved", "rejected"}
    PROVE  /\ WithApprovals(old, Decided(old.approvals, id, status)) \in GoodTables
           /\ Grows(old, WithApprovals(old, Decided(old.approvals, id, status)))
<1> DEFINE a == [old.approvals[id] EXCEPT !.status = status]
           rows == Decided(old.approvals, id, status)
           new == WithApprovals(old, rows)
<1>1. old \in Tables /\ old.approvals \in Seq(Approval)
  BY TableFields
<1>2. a \in Approval /\ a.namespace_id = old.approvals[id].namespace_id
  <2>1. old.approvals[id] \in Approval
    BY <1>1
  <2> QED
    BY <2>1, DecidedFields, Zenon
<1>3. rows = [old.approvals EXCEPT ![id] = a]
  BY Zenon DEF Decided
<1> HIDE DEF a, rows
<1>4. /\ rows \in Seq(Approval)
      /\ DOMAIN rows = DOMAIN old.approvals
      /\ \A i \in DOMAIN rows : rows[i].namespace_id = old.approvals[i].namespace_id
  BY <1>1, <1>2, <1>3
<1>5. /\ new \in Tables
      /\ new.config_versions = old.config_versions
      /\ new.releases = old.releases
      /\ new.approvals = rows
  BY <1>1, <1>4, ApprovalsReplaced, Zenon
<1> HIDE DEF new
<1>6. new \in GoodTables /\ Grows(old, new)
  BY <1>4, <1>5 DEF GoodTables, Bounded, Grows
<1> QED
  BY <1>6, Zenon DEF new, rows

(* Writing keys loses no fact.                                             *)
LEMMA WriteRow ==
    ASSUME NEW old \in GoodTables, NEW rows \in [Namespaces -> Nat]
    PROVE  WithConfigs(old, rows) \in GoodTables /\ Grows(old, WithConfigs(old, rows))
<1> DEFINE new == WithConfigs(old, rows)
<1>1. old \in Tables
  BY TableFields
<1>2. /\ new \in Tables
      /\ new.config_versions = old.config_versions
      /\ new.releases = old.releases
      /\ new.approvals = old.approvals
  BY <1>1, ConfigsReplaced, Zenon
<1> HIDE DEF new
<1>3. new \in GoodTables /\ Grows(old, new)
  BY <1>2 DEF GoodTables, Bounded, Grows
<1> QED
  BY <1>3, Zenon DEF new

(* A version that is inserted is found in the history.                     *)
LEMMA WriteVersion ==
    ASSUME NEW old \in GoodTables, NEW ns \in Namespaces, NEW v \in Nat,
           NEW rows, rows = [old.config_versions EXCEPT ![ns] = @ \cup {v}]
    PROVE  /\ WithVersions(old, rows) \in GoodTables
           /\ Grows(old, WithVersions(old, rows))
           /\ <<"version", ns, v>> \in Facts(WithVersions(old, rows))
<1> DEFINE new == WithVersions(old, rows)
<1>1. /\ old \in Tables
      /\ rows \in [Namespaces -> SUBSET Nat]
      /\ v \in rows[ns]
      /\ \A m \in Namespaces : old.config_versions[m] \subseteq rows[m]
  BY TableFields
<1>2. /\ new \in Tables
      /\ new.config_versions = rows
      /\ new.releases = old.releases
      /\ new.approvals = old.approvals
  BY <1>1, VersionsReplaced, Zenon
<1> HIDE DEF new
<1>3. <<"version", ns, v>> \in Facts(new)
  BY <1>1, <1>2, FactKinds
<1>4. new \in GoodTables /\ Grows(old, new)
  BY <1>1, <1>2 DEF GoodTables, Bounded, Grows
<1> QED
  BY <1>3, <1>4, Zenon DEF new

-----------------------------------------------------------------------------
(* The inductive invariant.  Who holds mutex_ is in a publication or about *)
(* to insert a version, so that nobody is told anything while a            *)
(* publication's transaction is open; and what was told before BEGIN is in *)
(* the tables that a rollback brings back.                                 *)
Types ==
    /\ db \in GoodTables
    /\ saved \in GoodTables
    /\ pc \in [Threads -> Labels]
    /\ arg \in [Threads -> Arg \cup {NoArg}]
    /\ \A t \in Threads : pc[t] # "idle" => arg[t] \in Arg

Holders == \A t \in Threads : pc[t] \in {"publish", "insertVersion"} <=> mutex_ = t

SavedKept == open => acked \subseteq Facts(saved)

EngineInv == Types /\ OneOwner /\ Holders /\ AcknowledgedKept /\ SavedKept

(* The steps.                                                              *)
LEMMA NextCases ==
    ASSUME [Next]_vars
    PROVE  \/ \E t \in Threads, ns \in Namespaces :
                 updateConfig(t, ns) \/ publish(t, ns) \/ publishGrayscale(t, ns)
                     \/ submitForApproval(t, ns)
           \/ \E t \in Threads, ns \in Namespaces, id \in Nat : fullRollout(t, ns, id)
           \/ \E t \in Threads, id \in Nat, status \in {"approved", "rejected"} :
                 updateApprovalStatus(t, id, status)
           \/ \E t \in Threads :
                 insertVersion(t) \/ publishBody(t) \/ publishFails(t) \/ nestedPublish(t)
                     \/ grayscaleRollback(t) \/ retireRelease(t) \/ createRelease(t)
           \/ crash
           \/ UNCHANGED vars
<1>1. MaxReleases \in Nat /\ MaxApprovals \in Nat
  BY PublishAssumption
<1>2. 1..MaxReleases \subseteq Nat /\ 1..MaxApprovals \subseteq Nat
  BY <1>1
<1> QED
  BY <1>2, Zenon DEF Next, Request, Step, Quiet, approve, reject

(* Moving a thread on.                                                     *)
LEMMA GotoTypes ==
    ASSUME Types, NEW t \in Threads, NEW label \in Labels, NEW a, Goto(t, label, a),
           (label = "idle" /\ a = NoArg) \/ a \in Arg
    PROVE  /\ pc' \in [Threads -> Labels]
           /\ arg' \in [Threads -> Arg \cup {NoArg}]
           /\ \A u \in Threads : pc'[u] # "idle" => arg'[u] \in Arg
           /\ pc'[t] = label
           /\ \A u \in Threads : u # t => pc'[u] = pc[u]
BY DEF Types, Goto

(* The empty tables are of the type.                                       *)
LEMMA NoTablesGood == NoTables \in GoodTables
<1>1. NoTables \in Tables
  BY DEF NoTables, Tables
<1>2. NoTables.releases = <<>>
  BY DEF NoTables
<1> QED
  BY <1>1, <1>2 DEF GoodTables, Bounded

(* What each write does to the tables.                                     *)
LEMMA UpdateConfigWrites ==
    ASSUME Types, NEW t \in Threads, NEW ns \in Namespaces, updateConfig(t, ns)
    PROVE  db' \in GoodTables /\ Grows(db, db') /\ db.configs[ns] + 1 \in Nat
<1> DEFINE rows == [db.configs EXCEPT ![ns] = @ + 1]
<1>1. db \in GoodTables /\ rows \in [Namespaces -> Nat] /\ db.configs[ns] + 1 \in Nat
  BY TableFields DEF Types
<1>2. db' = WithConfigs(db, rows)
  BY Zenon DEF updateConfig, WithConfigs
<1> HIDE DEF rows
<1> QED
  BY <1>1, <1>2, WriteRow, Zenon

(* insertVersion loses no fact and adds the version.                       *)
LEMMA InsertVersionWrites ==
    ASSUME Types, NEW t \in Threads, insertVersion(t)
    PROVE  /\ db' \in GoodTables
           /\ Grows(db, db')
           /\ <<"version", arg[t].ns, arg[t].id>> \in Facts(db')
<1> DEFINE rows == [db.config_versions EXCEPT ![arg[t].ns] = @ \cup {arg[t].id}]
<1>1. db \in GoodTables /\ arg[t].ns \in Namespaces /\ arg[t].id \in Nat
  BY DEF insertVersion, Types, Arg
<1>2. db' = WithVersions(db, rows)
  BY Zenon DEF insertVersion, WithVersions
<1>3. /\ WithVersions(db, rows) \in GoodTables
      /\ Grows(db, WithVersions(db, rows))
      /\ <<"version", arg[t].ns, arg[t].id>> \in Facts(WithVersions(db, rows))
  BY <1>1, WriteVersion, Zenon
<1> HIDE DEF rows
<1> QED
  BY <1>2, <1>3, Zenon

(* The fields of a new release.                                            *)
LEMMA NewReleaseType ==
    ASSUME NEW ns \in Namespaces, NEW v \in Nat, NEW rollout \in BOOLEAN
    PROVE  /\ NewRelease(ns, v, rollout) \in Release
           /\ NewRelease(ns, v, rollout).release_version = v
           /\ NewRelease(ns, v, rollout).namespace_id = ns
<1>1. NewRelease(ns, v, rollout) \in Release
  BY Zenon DEF NewRelease, Release
<1> QED
  BY <1>1, Zenon DEF NewRelease

(* publishRelease loses no fact and adds the release.                      *)
LEMMA PublishBodyWrites ==
    ASSUME Types, NEW t \in Threads, publishBody(t)
    PROVE  /\ db' \in GoodTables
           /\ Grows(db, db')
           /\ <<"release", arg[t].ns, Len(db.releases) + 1>> \in Facts(db')
<1> DEFINE ns == arg[t].ns
           r == NewRelease(ns, maxVersion(ns) + 1, FALSE)
           rows == Append(db.releases, r)
<1>1. db \in GoodTables /\ ns \in Namespaces
  BY DEF publishBody, Types, Arg
<1>2. /\ maxVersion(ns) + 1 \in Nat
      /\ maxVersion(ns) + 1 <= Len(db.releases) + 1
  <2>1. Len(db.releases) \in Nat
    BY <1>1, TableFields
  <2> QED
    BY <1>1, <2>1, MaxVersionBound
<1>3. /\ r \in Release
      /\ r.release_version = maxVersion(ns) + 1
      /\ r.namespace_id = ns
  BY <1>1, <1>2, NewReleaseType, Zenon
<1>4. db' = WithReleases(db, rows)
  BY Zenon DEF publishBody, WithReleases
<1> HIDE DEF r, ns
<1>5. /\ WithReleases(db, rows) \in GoodTables
      /\ Grows(db, WithReleases(db, rows))
      /\ <<"release", r.namespace_id, Len(db.releases) + 1>> \in Facts(WithReleases(db, rows))
  BY <1>1, <1>2, <1>3, AppendRelease, Zenon
<1> HIDE DEF rows
<1> QED
  BY <1>3, <1>4, <1>5, Zenon DEF ns

(* createRelease loses no fact and adds the release.                       *)
LEMMA CreateReleaseWrites ==
    ASSUME Types, NEW t \in Threads, createRelease(t)
    PROVE  /\ db' \in GoodTables
           /\ Grows(db, db')
           /\ <<"release", arg[t].ns, Len(db.releases) + 1>> \in Facts(db')
<1> DEFINE ns == arg[t].ns
           r == NewRelease(ns, 0, TRUE)
           rows == Append(db.releases, r)
<1>1. db \in GoodTables /\ ns \in Namespaces
  BY DEF createRelease, Types, Arg
<1>2. /\ 0 \in Nat
      /\ 0 <= Len(db.releases) + 1
  BY <1>1, TableFields
<1>3. /\ r \in Release
      /\ r.release_version = 0
      /\ r.namespace_id = ns
  BY <1>1, <1>2, NewReleaseType, Zenon
<1>4. db' = WithReleases(db, rows)
  BY Zenon DEF createRelease, WithReleases
<1> HIDE DEF r, ns
<1>5. /\ WithReleases(db, rows) \in GoodTables
      /\ Grows(db, WithReleases(db, rows))
      /\ <<"release", r.namespace_id, Len(db.releases) + 1>> \in Facts(WithReleases(db, rows))
  BY <1>1, <1>2, <1>3, AppendRelease, Zenon
<1> HIDE DEF rows
<1> QED
  BY <1>3, <1>4, <1>5, Zenon DEF ns

(* retireRelease loses no fact.                                            *)
LEMMA RetireWrites ==
    ASSUME Types, NEW t \in Threads, retireRelease(t)
    PROVE  db' \in GoodTables /\ Grows(db, db')
<1>1. db' = WithReleases(db, Retired(db.releases, arg[t].id))
  BY Zenon DEF retireRelease, WithReleases, Retired
<1>2. db \in GoodTables
  BY DEF Types
<1> QED
  BY <1>1, <1>2, RetireRelease, Zenon

(* submitForApproval loses no fact and adds the approval.                  *)
LEMMA SubmitWrites ==
    ASSUME Types, NEW t \in Threads, NEW ns \in Namespaces, submitForApproval(t, ns)
    PROVE  /\ db' \in GoodTables
           /\ Grows(db, db')
           /\ <<"approval", ns, Len(db.approvals) + 1>> \in Facts(db')
<1> DEFINE a == [namespace_id |-> ns, status |-> "pending"]
           rows == Append(db.approvals, a)
<1>1. db \in GoodTables /\ a \in Approval /\ a.namespace_id = ns
  BY DEF Types, Approval
<1>2. db' = WithApprovals(db, rows)
  BY Zenon DEF submitForApproval, createApproval, WithApprovals
<1> HIDE DEF a
<1>3. /\ WithApprovals(db, rows) \in GoodTables
      /\ Grows(db, WithApprovals(db, rows))
      /\ <<"approval", a.namespace_id, Len(db.approvals) + 1>> \in Facts(WithApprovals(db, rows))
  BY <1>1, AppendApproval, Zenon
<1> HIDE DEF rows
<1> QED
  BY <1>1, <1>2, <1>3, Zenon

(* approve and reject lose no fact.                                        *)
LEMMA DecideWrites ==
    ASSUME Types, NEW t \in Threads, NEW id \in Nat, NEW status \in {"approved", "rejected"},
           updateApprovalStatus(t, id, status)
    PROVE  db' \in GoodTables /\ Grows(db, db')
<1>1. db' = WithApprovals(db, Decided(db.approvals, id, status))
  BY Zenon DEF updateApprovalStatus, WithApprovals, Decided
<1>2. db \in GoodTables /\ id \in DOMAIN db.approvals
  BY DEF Types, updateApprovalStatus
<1> QED
  BY <1>1, <1>2, DecideApproval, Zenon

-----------------------------------------------------------------------------
(* Every step keeps the types.                                             *)
LEMMA TypesKept ==
    ASSUME Types, [Next]_vars
    PROVE  Types'
<1>1. ASSUME NEW t \in Threads, NEW ns \in Namespaces, updateConfig(t, ns) PROVE Types'
  <2>1. db' \in GoodTables /\ db.configs[ns] + 1 \in Nat
    BY <1>1, UpdateConfigWrites
  <2>2. [ns |-> ns, id |-> db.configs[ns] + 1] \in Arg
    BY <2>1 DEF Arg
  <2>3. Goto(t, "insertVersion", [ns |-> ns, id |-> db.configs[ns] + 1]) /\ saved' = saved
    BY <1>1 DEF updateConfig
  <2> QED
    BY <2>1, <2>2, <2>3, GotoTypes DEF Types, Labels
<1>2. ASSUME NEW t \in Threads, NEW ns \in Namespaces,
             publish(t, ns) \/ publishGrayscale(t, ns)
      PROVE  Types'
  <2>1. [ns |-> ns, id |-> 0] \in Arg
    BY DEF Arg
  <2>2. /\ db' = db
        /\ saved' = db
        /\ \E label \in {"publish", "grayscale"} : Goto(t, label, [ns |-> ns, id |-> 0])
    BY <1>2 DEF publish, publishGrayscale, begin_transaction
  <2> QED
    BY <2>1, <2>2, GotoTypes DEF Types, Labels
<1>3. ASSUME NEW t \in Threads, NEW ns \in Namespaces, submitForApproval(t, ns) PROVE Types'
  BY <1>3, SubmitWrites, Zenon DEF submitForApproval, Types
<1>4. ASSUME NEW t \in Threads, NEW ns \in Namespaces, NEW id \in Nat, fullRollout(t, ns, id)
      PROVE  Types'
  <2>1. [ns |-> ns, id |-> id] \in Arg
    BY DEF Arg
  <2>2. Goto(t, "retire", [ns |-> ns, id |-> id]) /\ UNCHANGED <<db, saved>>
    BY <1>4 DEF fullRollout
  <2> QED
    BY <2>1, <2>2, GotoTypes DEF Types, Labels
<1>5. ASSUME NEW t \in Threads, NEW id \in Nat, NEW status \in {"approved", "rejected"},
             updateApprovalStatus(t, id, status)
      PROVE  Types'
  BY <1>5, DecideWrites, Zenon DEF updateApprovalStatus, Types
<1>6. ASSUME NEW t \in Threads, Return(t), db' \in GoodTables, saved' \in GoodTables PROVE Types'
  BY <1>6, GotoTypes DEF Return, Types, Labels
<1>7. ASSUME NEW t \in Threads, insertVersion(t) \/ createRelease(t) PROVE Types'
  <2>1. db' \in GoodTables
    BY <1>7, InsertVersionWrites, CreateReleaseWrites, Zenon
  <2>2. saved' = saved /\ Return(t)
    BY <1>7, Zenon DEF insertVersion, createRelease
  <2> QED
    BY <1>6, <2>1, <2>2 DEF Types
<1>8. ASSUME NEW t \in Threads, publishBody(t) PROVE Types'
  <2>1. saved' = NoTables /\ Return(t)
    BY <1>8 DEF publishBody, commit
  <2> QED
    BY <1>6, <1>8, <2>1, PublishBodyWrites, NoTablesGood, Zenon
<1>9. ASSUME NEW t \in Threads, publishFails(t) \/ grayscaleRollback(t) PROVE Types'
  <2>1. db' = saved /\ saved' = NoTables /\ Return(t)
    BY <1>9 DEF publishFails, grayscaleRollback, rollback
  <2> QED
    BY <1>6, <2>1, NoTablesGood DEF Types
<1>10. ASSUME NEW t \in Threads, nestedPublish(t) \/ retireRelease(t) PROVE Types'
  <2>1. db' \in GoodTables /\ saved' = saved
    BY <1>10, RetireWrites DEF nestedPublish, retireRelease, Types
  <2>2. arg[t] \in Arg /\ \E label \in {"rollback", "create"} : Goto(t, label, arg[t])
    BY <1>10 DEF nestedPublish, retireRelease, Types
  <2> QED
    BY <2>1, <2>2, GotoTypes DEF Types, Labels
<1>11. CASE crash
  <2>1. db' \in GoodTables /\ saved' \in GoodTables
    BY <1>11, NoTablesGood DEF crash, rollback, Types
  <2>2. pc' = [t \in Threads |-> "idle"] /\ arg' = [t \in Threads |-> NoArg]
    BY <1>11 DEF crash
  <2> QED
    BY <2>1, <2>2 DEF Types, Labels
<1>12. CASE UNCHANGED vars
  BY <1>12 DEF vars, Types
<1> QED
  BY <1>1, <1>2, <1>3, <1>4, <1>5, <1>7, <1>8, <1>9, <1>10, <1>11, <1>12, NextCases, SMTT(30)

(* The owners of the transaction, when one thread moves.                   *)
LEMMA OwnersMove ==
    ASSUME Types, NEW t \in Threads, NEW label \in Labels, NEW a, Goto(t, label, a)
    PROVE  Owners' = (Owners \ {t}) \cup
                     (IF label \in {"publish", "grayscale", "rollback"} THEN {t} ELSE {})
BY DEF Types, Goto, Owners

(* Every step keeps the transaction to one owner.                          *)
LEMMA OneOwnerKept ==
    ASSUME Types, OneOwner, [Next]_vars
    PROVE  OneOwner'
<1>1. ASSUME open' = open, Owners' = Owners PROVE OneOwner'
  BY <1>1, Zenon DEF OneOwner
<1>2. ASSUME NEW t \in Threads, ~open, open' = TRUE, NEW a,
             NEW label \in {"publish", "grayscale"}, Goto(t, label, a)
      PROVE  OneOwner'
  <2>1. Owners = {}
    BY <1>2, Zenon DEF OneOwner
  <2>2. Owners' = {t}
    BY <1>2, <2>1, OwnersMove DEF Labels
  <2> QED
    BY <1>2, <2>2, Zenon DEF OneOwner
<1>3. ASSUME NEW t \in Owners, open' = FALSE, Return(t) PROVE OneOwner'
  <2>1. t \in Threads
    BY DEF Owners
  <2>2. Owners = {t}
    BY Zenon DEF OneOwner
  <2>3. Owners' = {}
    BY <1>3, <2>1, <2>2, OwnersMove DEF Labels, Return
  <2> QED
    BY <1>3, <2>3, Zenon DEF OneOwner
<1>4. ASSUME NEW t \in Threads, NEW ns \in Namespaces,
             publish(t, ns) \/ publishGrayscale(t, ns)
      PROVE  OneOwner'
  BY <1>2, <1>4, Zenon DEF publish, publishGrayscale, begin_transaction
<1>5. ASSUME NEW t \in Threads, publishBody(t) \/ publishFails(t) \/ grayscaleRollback(t)
      PROVE  OneOwner'
  <2>1. t \in Owners
    BY <1>5, Zenon DEF publishBody, publishFails, grayscaleRollback, Owners
  <2> QED
    BY <1>3, <1>5, <2>1, Zenon DEF publishBody, publishFails, grayscaleRollback, commit, rollback
<1>6. ASSUME NEW t \in Threads, nestedPublish(t) PROVE OneOwner'
  <2>1. pc[t] = "grayscale" /\ Goto(t, "rollback", arg[t])
    BY <1>6 DEF nestedPublish
  <2>2. Owners' = Owners
    BY <2>1 DEF Owners, Goto, Types
  <2>3. open' = open
    BY <1>6, Zenon DEF nestedPublish
  <2> QED
    BY <1>1, <2>2, <2>3
<1>7. ASSUME NEW t \in Threads, NEW label \in Labels \ {"publish", "grayscale", "rollback"},
             NEW a, Goto(t, label, a), t \notin Owners, open' = open
      PROVE  OneOwner'
  <2>1. Owners' = Owners
    BY <1>7, OwnersMove
  <2> QED
    BY <1>1, <1>7, <2>1
<1>8. ASSUME NEW t \in Threads, NEW ns \in Namespaces, updateConfig(t, ns) PROVE OneOwner'
  <2>1. t \notin Owners /\ "insertVersion" \in Labels \ {"publish", "grayscale", "rollback"}
    BY <1>8 DEF updateConfig, Owners, Labels
  <2> QED
    BY <1>7, <1>8, <2>1, Zenon DEF updateConfig
<1>9. ASSUME NEW t \in Threads, NEW ns \in Namespaces, NEW id \in Nat, fullRollout(t, ns, id)
      PROVE  OneOwner'
  <2>1. t \notin Owners /\ "retire" \in Labels \ {"publish", "grayscale", "rollback"}
    BY <1>9 DEF fullRollout, Owners, Labels
  <2> QED
    BY <1>7, <1>9, <2>1, Zenon DEF fullRollout
<1>10. ASSUME NEW t \in Threads, insertVersion(t) \/ createRelease(t) PROVE OneOwner'
  <2>1. t \notin Owners /\ "idle" \in Labels \ {"publish", "grayscale", "rollback"}
    BY <1>10, Zenon DEF insertVersion, createRelease, Owners, Labels
  <2> QED
    BY <1>7, <1>10, <2>1, Zenon DEF insertVersion, createRelease, Return
<1>11. ASSUME NEW t \in Threads, retireRelease(t) PROVE OneOwner'
  <2>1. t \notin Owners /\ "create" \in Labels \ {"publish", "grayscale", "rollback"}
    BY <1>11 DEF retireRelease, Owners, Labels
  <2> QED
    BY <1>7, <1>11, <2>1, Zenon DEF retireRelease
<1>12. ASSUME UNCHANGED <<open, pc>> PROVE OneOwner'
  BY <1>1, <1>12, Zenon DEF Owners
<1>13. CASE crash
  <2>1. Owners' = {}
    BY <1>13 DEF crash, Owners
  <2>2. ~open'
    BY <1>13, Zenon DEF crash, rollback
  <2> QED
    BY <2>1, <2>2, Zenon DEF OneOwner
<1>14. ASSUME NEW t \in Threads, NEW ns \in Namespaces, submitForApproval(t, ns) PROVE OneOwner'
  BY <1>12, <1>14, Zenon DEF submitForApproval
<1>15. ASSUME NEW t \in Threads, NEW id \in Nat, NEW status \in {"approved", "rejected"},
             updateApprovalStatus(t, id, status)
      PROVE  OneOwner'
  BY <1>12, <1>15, Zenon DEF updateApprovalStatus
<1>16. CASE UNCHANGED vars
  BY <1>12, <1>16, Zenon DEF vars
<1> QED
  BY <1>4, <1>5, <1>6, <1>8, <1>9, <1>10, <1>11, <1>13, <1>14, <1>15, <1>16, NextCases, Zenon

(* Every step keeps mutex_ with the thread inside its section.             *)
LEMMA HoldersKept ==
    ASSUME Types, Holders, [Next]_vars
    PROVE  Holders'
<1> USE PublishAssumption
<1>1. ASSUME NEW t \in Threads, Lock(t), NEW label \in {"publish", "insertVersion"}, NEW a,
             Goto(t, label, a)
      PROVE  Holders'
  BY <1>1 DEF Lock, Goto, Types, Holders
<1>2. ASSUME NEW t \in Threads, Unlock(t), Return(t) PROVE Holders'
  BY <1>2 DEF Unlock, Return, Goto, Types, Holders
<1>3. ASSUME NEW t \in Threads, pc[t] \notin {"publish", "insertVersion"}, UNCHANGED mutex_,
             NEW label \in Labels \ {"publish", "insertVersion"}, NEW a, Goto(t, label, a)
      PROVE  Holders'
  BY <1>3 DEF Goto, Types, Holders
<1>4. ASSUME UNCHANGED <<mutex_, pc>> PROVE Holders'
  BY <1>4 DEF Holders
<1>5. ASSUME NEW t \in Threads, NEW ns \in Namespaces, updateConfig(t, ns) \/ publish(t, ns)
      PROVE  Holders'
  BY <1>1, <1>5, Zenon DEF updateConfig, publish
<1>6. ASSUME NEW t \in Threads, NEW ns \in Namespaces, publishGrayscale(t, ns) PROVE Holders'
  <2>1. /\ pc[t] \notin {"publish", "insertVersion"}
        /\ UNCHANGED mutex_
        /\ Goto(t, "grayscale", [ns |-> ns, id |-> 0])
    BY <1>6 DEF publishGrayscale
  <2> QED
    BY <1>3, <2>1 DEF Labels
<1>7. ASSUME NEW t \in Threads, NEW ns \in Namespaces, submitForApproval(t, ns) PROVE Holders'
  BY <1>4, <1>7, Zenon DEF submitForApproval, createApproval, Locked
<1>8. ASSUME NEW t \in Threads, NEW ns \in Namespaces, NEW id \in Nat, fullRollout(t, ns, id)
      PROVE  Holders'
  <2>1. /\ pc[t] \notin {"publish", "insertVersion"}
        /\ UNCHANGED mutex_
        /\ Goto(t, "retire", [ns |-> ns, id |-> id])
    BY <1>8 DEF fullRollout, Locked
  <2> QED
    BY <1>3, <2>1 DEF Labels
<1>9. ASSUME NEW t \in Threads, NEW id \in Nat, NEW status \in {"approved", "rejected"},
             updateApprovalStatus(t, id, status)
      PROVE  Holders'
  BY <1>4, <1>9, Zenon DEF updateApprovalStatus, Locked
<1>10. ASSUME NEW t \in Threads, insertVersion(t) \/ publishBody(t) \/ publishFails(t)
       PROVE  Holders'
  BY <1>2, <1>10, Zenon DEF insertVersion, publishBody, publishFails
<1>11. ASSUME NEW t \in Threads,
              nestedPublish(t) \/ grayscaleRollback(t) \/ retireRelease(t) \/ createRelease(t)
       PROVE  Holders'
  <2>1. /\ pc[t] \notin {"publish", "insertVersion"}
        /\ UNCHANGED mutex_
        /\ \E label \in {"rollback", "idle", "create"} : \E a \in {arg[t], NoArg} : Goto(t, label, a)
    BY <1>11, Zenon DEF nestedPublish, grayscaleRollback, retireRelease, createRelease, Locked, Return
  <2> QED
    BY <1>3, <2>1 DEF Labels
<1>12. CASE crash
  BY <1>12 DEF crash, Holders
<1>13. CASE UNCHANGED vars
  BY <1>4, <1>13, Zenon DEF vars
<1> QED
  BY <1>5, <1>6, <1>7, <1>8, <1>9, <1>10, <1>11, <1>12, <1>13, NextCases, Zenon

(* Whoever tells a caller something while a transaction is open does so    *)
(* during a grayscale publication: a publication would hold mutex_.        *)
LEMMA ToldInGrayscale ==
    ASSUME OneOwner, Holders, open,
           \/ mutex_ = NoThread
           \/ \E t \in Threads : mutex_ = t /\ pc[t] = "insertVersion"
    PROVE  \E u \in Threads : InGrayscale(u)
<1>1. PICK u \in Owners : TRUE
  BY Zenon DEF OneOwner
<1>2. u \in Threads /\ pc[u] \in {"publish", "grayscale", "rollback"}
  BY DEF Owners
<1>3. CASE pc[u] = "publish"
  <2>1. mutex_ = u
    BY <1>2, <1>3 DEF Holders
  <2> QED
    BY <1>2, <1>3, <2>1, PublishAssumption
<1> QED
  BY <1>2, <1>3 DEF InGrayscale

(* Every step keeps what was acknowledged, also for a rollback.            *)
LEMMA AcknowledgedInductive ==
    ASSUME EngineInv, [Next]_vars
    PROVE  AcknowledgedKept' /\ SavedKept'
<1>1. Types /\ OneOwner /\ Holders /\ AcknowledgedKept /\ SavedKept
  BY DEF EngineInv
<1>2. ASSUME UNCHANGED <<saved, open, acked>>, Grows(db, db')
      PROVE  AcknowledgedKept' /\ SavedKept'
  <2>1. Facts(db) \subseteq Facts(db')
    BY <1>2, GrowsKeeps
  <2>2. acked' \subseteq Facts(db')
    BY <1>1, <1>2, <2>1 DEF AcknowledgedKept
  <2>3. SavedKept'
    BY <1>1, <1>2, Zenon DEF SavedKept
  <2> QED
    BY <2>2, <2>3 DEF AcknowledgedKept
<1>3. Grows(db, db)
  BY Zenon DEF Grows
<1>4. ASSUME UNCHANGED <<db, saved, open, acked>> PROVE AcknowledgedKept' /\ SavedKept'
  BY <1>1, <1>4, Zenon DEF AcknowledgedKept, SavedKept
<1>5. ASSUME db' = db, acked' = acked, saved' = db PROVE AcknowledgedKept' /\ SavedKept'
  BY <1>1, <1>5, Zenon DEF AcknowledgedKept, SavedKept
<1>6. ASSUME open, rollback, acked' = acked PROVE AcknowledgedKept' /\ SavedKept'
  BY <1>1, <1>6, Zenon DEF AcknowledgedKept, SavedKept, rollback
<1>7. ASSUME NEW fact, fact \in Facts(db'), Grows(db, db'), Acknowledge(fact),
             \/ open' = FALSE
             \/ UNCHANGED <<saved, open>> /\ (open => \E u \in Threads : InGrayscale(u))
      PROVE  AcknowledgedKept' /\ SavedKept'
  <2>1. acked' = acked \/ acked' = acked \cup {fact}
    BY <1>7, Zenon DEF Acknowledge
  <2>2. Facts(db) \subseteq Facts(db')
    BY <1>7, GrowsKeeps
  <2>3. acked' \subseteq Facts(db')
    BY <1>1, <1>7, <2>1, <2>2 DEF AcknowledgedKept
  <2>4. SavedKept'
    BY <1>1, <1>7, Zenon DEF SavedKept, Acknowledge
  <2> QED
    BY <2>3, <2>4 DEF AcknowledgedKept
<1>8. ASSUME NEW t \in Threads, NEW ns \in Namespaces, updateConfig(t, ns)
      PROVE  AcknowledgedKept' /\ SavedKept'
  <2>1. Grows(db, db')
    BY <1>1, <1>8, UpdateConfigWrites
  <2> QED
    BY <1>2, <1>8, <2>1, Zenon DEF updateConfig
<1>9. ASSUME NEW t \in Threads, NEW ns \in Namespaces,
             publish(t, ns) \/ publishGrayscale(t, ns)
      PROVE  AcknowledgedKept' /\ SavedKept'
  BY <1>5, <1>9, Zenon DEF publish, publishGrayscale, begin_transaction
<1>10. ASSUME NEW t \in Threads, NEW ns \in Namespaces, submitForApproval(t, ns)
       PROVE  AcknowledgedKept' /\ SavedKept'
  <2>1. Grows(db, db') /\ <<"approval", ns, Len(db.approvals) + 1>> \in Facts(db')
    BY <1>1, <1>10, SubmitWrites
  <2>2. mutex_ = NoThread
    BY <1>10, Zenon DEF submitForApproval, createApproval, Locked
  <2>3. [namespace_id |-> ns, status |-> "pending"].namespace_id = ns
    OBVIOUS
  <2>4. Acknowledge(<<"approval", ns, Len(db.approvals) + 1>>) /\ UNCHANGED <<saved, open>>
    BY <1>10, <2>3, Zenon DEF submitForApproval, createApproval
  <2> QED
    BY <1>1, <1>7, <2>1, <2>2, <2>4, ToldInGrayscale, Zenon
<1>11. ASSUME NEW t \in Threads, NEW ns \in Namespaces, NEW id \in Nat, fullRollout(t, ns, id)
       PROVE  AcknowledgedKept' /\ SavedKept'
  BY <1>4, <1>11, Zenon DEF fullRollout
<1>12. ASSUME NEW t \in Threads, NEW id \in Nat, NEW status \in {"approved", "rejected"},
              updateApprovalStatus(t, id, status)
       PROVE  AcknowledgedKept' /\ SavedKept'
  <2>1. Grows(db, db')
    BY <1>1, <1>12, DecideWrites
  <2> QED
    BY <1>2, <1>12, <2>1, Zenon DEF updateApprovalStatus
<1>13. ASSUME NEW t \in Threads, insertVersion(t) PROVE AcknowledgedKept' /\ SavedKept'
  <2>1. Grows(db, db') /\ <<"version", arg[t].ns, arg[t].id>> \in Facts(db')
    BY <1>1, <1>13, InsertVersionWrites
  <2>2. mutex_ = t /\ pc[t] = "insertVersion"
    BY <1>13, Zenon DEF insertVersion, Unlock
  <2>3. Acknowledge(<<"version", arg[t].ns, arg[t].id>>) /\ UNCHANGED <<saved, open>>
    BY <1>13, Zenon DEF insertVersion
  <2> QED
    BY <1>1, <1>7, <2>1, <2>2, <2>3, ToldInGrayscale, Zenon
<1>14. ASSUME NEW t \in Threads, createRelease(t) PROVE AcknowledgedKept' /\ SavedKept'
  <2>1. Grows(db, db') /\ <<"release", arg[t].ns, Len(db.releases) + 1>> \in Facts(db')
    BY <1>1, <1>14, CreateReleaseWrites
  <2>2. mutex_ = NoThread
    BY <1>14, Zenon DEF createRelease, Locked
  <2>3. Acknowledge(<<"release", arg[t].ns, Len(db.releases) + 1>>) /\ UNCHANGED <<saved, open>>
    BY <1>14, Zenon DEF createRelease
  <2> QED
    BY <1>1, <1>7, <2>1, <2>2, <2>3, ToldInGrayscale, Zenon
<1>15. ASSUME NEW t \in Threads, publishBody(t) PROVE AcknowledgedKept' /\ SavedKept'
  <2>1. Grows(db, db') /\ <<"release", arg[t].ns, Len(db.releases) + 1>> \in Facts(db')
    BY <1>1, <1>15, PublishBodyWrites
  <2>2. Acknowledge(<<"release", arg[t].ns, Len(db.releases) + 1>>) /\ open' = FALSE
    BY <1>15, Zenon DEF publishBody, commit
  <2> QED
    BY <1>7, <2>1, <2>2, Zenon
<1>16. ASSUME NEW t \in Threads, publishFails(t) \/ grayscaleRollback(t)
       PROVE  AcknowledgedKept' /\ SavedKept'
  <2>1. t \in Owners
    BY <1>16 DEF publishFails, grayscaleRollback, Owners
  <2>2. open
    BY <1>1, <2>1, Zenon DEF OneOwner
  <2> QED
    BY <1>6, <1>16, <2>2, Zenon DEF publishFails, grayscaleRollback
<1>17. ASSUME NEW t \in Threads, nestedPublish(t) PROVE AcknowledgedKept' /\ SavedKept'
  BY <1>4, <1>17, Zenon DEF nestedPublish
<1>18. ASSUME NEW t \in Threads, retireRelease(t) PROVE AcknowledgedKept' /\ SavedKept'
  <2>1. Grows(db, db')
    BY <1>1, <1>18, RetireWrites
  <2> QED
    BY <1>2, <1>18, <2>1, Zenon DEF retireRelease
<1>19. CASE crash
  <2>1. CASE open
    BY <1>6, <1>19, <2>1, Zenon DEF crash
  <2>2. CASE ~open
    BY <1>4, <1>19, <2>2, Zenon DEF crash
  <2> QED
    BY <2>1, <2>2, Zenon
<1>20. CASE UNCHANGED vars
  BY <1>4, <1>20, Zenon DEF vars
<1> QED
  BY <1>8, <1>9, <1>10, <1>11, <1>12, <1>13, <1>14, <1>15, <1>16, <1>17, <1>18, <1>19, <1>20,
     NextCases, Zenon

(* The invariant holds at first.                                           *)
LEMMA EngineInitial == Init => EngineInv
<1> SUFFICES ASSUME Init PROVE EngineInv
  OBVIOUS
<1>1. Types
  BY NoTablesGood DEF Init, Types, Labels
<1>2. Owners = {}
  BY DEF Init, Owners
<1>3. ~open
  BY Zenon DEF Init
<1>4. OneOwner /\ SavedKept
  BY <1>2, <1>3, Zenon DEF OneOwner, SavedKept
<1>5. Holders
  BY PublishAssumption DEF Init, Holders
<1>6. AcknowledgedKept
  BY DEF Init, AcknowledgedKept
<1> QED
  BY <1>1, <1>4, <1>5, <1>6 DEF EngineInv

(* Every step preserves the invariant.                                     *)
LEMMA EngineInductive == EngineInv /\ [Next]_vars => EngineInv'
<1> SUFFICES ASSUME EngineInv, [Next]_vars PROVE EngineInv'
  OBVIOUS
<1> QED
  BY TypesKept, OneOwnerKept, HoldersKept, AcknowledgedInductive DEF EngineInv

(* OneOwner: no thread ends the transaction of another, though             *)
(* publishGrayscale begins and rolls back without mutex_.                  *)
THEOREM OneOwnerAlways == Spec => []OneOwner
<1>1. EngineInv => OneOwner
  BY DEF EngineInv
<1> QED
  BY <1>1, EngineInitial, EngineInductive, PTL DEF Spec

(* AcknowledgedKept: no failed publication, grayscale publication or crash *)
(* takes back what a caller was told outside of a grayscale transaction.   *)
THEOREM AcknowledgedAlwaysKept == Spec => []AcknowledgedKept
<1>1. EngineInv => AcknowledgedKept
  BY DEF EngineInv
<1> QED
  BY <1>1, EngineInitial, EngineInductive, PTL DEF Spec

-----------------------------------------------------------------------------
(* The numbers of releases.                                                *)

(* The first n releases that publish made of a namespace, among others.    *)
Published(rows, ns, n) == {j \in 1..n : ~rows[j].rollout /\ rows[j].namespace_id = ns}

(* A publication has its place among those of its namespace, a rollout 0.  *)
NumbersOf(rows) ==
    \A i \in DOMAIN rows :
        rows[i].release_version =
            IF rows[i].rollout THEN 0
            ELSE Cardinality(Published(rows, rows[i].namespace_id, i))

(* Publications are counted, and more releases hold no fewer of them.      *)
LEMMA PublishedCounts ==
    ASSUME NEW rows, NEW ns, NEW n \in Nat, NEW m \in 0..n
    PROVE  /\ IsFiniteSet(Published(rows, ns, n))
           /\ Cardinality(Published(rows, ns, n)) \in Nat
           /\ Cardinality(Published(rows, ns, m)) \in Nat
           /\ Cardinality(Published(rows, ns, m)) <= Cardinality(Published(rows, ns, n))
<1>1. IsFiniteSet(1..n) /\ 1..m \subseteq 1..n
  BY FS_Interval
<1>2. Published(rows, ns, n) \in SUBSET (1..n) /\ Published(rows, ns, m) \in SUBSET Published(rows, ns, n)
  BY DEF Published
<1>3. IsFiniteSet(Published(rows, ns, n))
  BY <1>1, <1>2, FS_Subset
<1>4. /\ IsFiniteSet(Published(rows, ns, m))
      /\ Cardinality(Published(rows, ns, m)) <= Cardinality(Published(rows, ns, n))
  BY <1>2, <1>3, FS_Subset
<1> QED
  BY <1>3, <1>4, FS_CardinalityType

(* maxVersion finds the number of publications of the namespace.           *)
LEMMA MaxVersionCounts ==
    ASSUME db \in GoodTables, NumbersOf(db.releases), NEW ns \in Namespaces
    PROVE  maxVersion(ns) = Cardinality(Published(db.releases, ns, Len(db.releases)))
<1> DEFINE rows == db.releases
           n == Len(rows)
           all == Published(rows, ns, n)
           c == Cardinality(all)
           versions == {rows[i].release_version :
                           i \in {j \in DOMAIN rows : rows[j].namespace_id = ns}}
<1>1. rows \in Seq(Release) /\ n \in Nat /\ DOMAIN rows = 1..n
  BY TableFields
<1>2. maxVersion(ns) = IF versions = {} THEN 0
                       ELSE CHOOSE v \in versions : \A w \in versions : w <= v
  BY DEF maxVersion
<1>3. IsFiniteSet(all) /\ c \in Nat
  BY <1>1, PublishedCounts
<1> HIDE DEF c, n, rows
<1>4. ASSUME NEW w \in versions PROVE w \in Nat /\ w <= c
  <2>1. PICK i \in DOMAIN rows : rows[i].namespace_id = ns /\ w = rows[i].release_version
    BY <1>4
  <2>2. i \in 0..n
    BY <1>1, <2>1
  <2>3. w = IF rows[i].rollout THEN 0 ELSE Cardinality(Published(rows, ns, i))
    BY <2>1 DEF NumbersOf, rows
  <2>4. Cardinality(Published(rows, ns, i)) \in Nat /\ Cardinality(Published(rows, ns, i)) <= c
    BY <1>1, <2>2, PublishedCounts DEF c
  <2> QED
    BY <1>3, <2>3, <2>4
<1>5. CASE all = {}
  <2>1. c = 0
    BY <1>5, FS_EmptySet DEF c
  <2>2. \A w \in versions : w = 0
    BY <1>4, <2>1
  <2>3. versions # {} => \E v \in versions : \A w \in versions : w <= v
    BY <2>2
  <2>4. maxVersion(ns) = 0
    BY <1>2, <2>2, <2>3
  <2> QED
    BY <2>1, <2>4 DEF c, n, rows
<1>6. CASE all # {}
  <2>1. all \subseteq Nat /\ \A j \in all : j <= n
    BY <1>1 DEF Published
  <2>2. PICK i \in all : \A k \in all : k <= i
    BY <1>1, <1>6, <2>1, GreatestNatural
  <2>3. i \in DOMAIN rows /\ ~rows[i].rollout /\ rows[i].namespace_id = ns /\ i \in Nat /\ i <= n
    BY <1>1, <2>2 DEF Published
  <2>4. Published(rows, ns, i) = all
    <3>1. Published(rows, ns, i) \subseteq all
      BY <1>1, <2>3 DEF Published
    <3>2. ASSUME NEW k \in all PROVE k \in Published(rows, ns, i)
      <4>1. k \in 1..n /\ k <= i /\ ~rows[k].rollout /\ rows[k].namespace_id = ns
        BY <2>2 DEF Published
      <4> QED
        BY <1>1, <2>3, <4>1 DEF Published
    <3> QED
      BY <3>1, <3>2
  <2>5. rows[i].release_version = c
    BY <2>3, <2>4 DEF NumbersOf, c, rows
  <2>6. c \in versions
    BY <2>3, <2>5
  <2> HIDE DEF versions
  <2>7. \A v \in versions : (\A w \in versions : w <= v) => v = c
    BY <1>3, <1>4, <2>6
  <2>8. \E v \in versions : \A w \in versions : w <= v
    BY <1>4, <2>6
  <2>9. maxVersion(ns) = c
    BY <1>2, <2>6, <2>7, <2>8
  <2> QED
    BY <2>9 DEF c, n, rows
<1> QED
  BY <1>5, <1>6

(* A release that takes the next number, or 0, keeps the numbers.          *)
LEMMA NumbersAppend ==
    ASSUME NEW rows \in Seq(Release), NumbersOf(rows), NEW r \in Release,
           r.release_version = IF r.rollout THEN 0
                               ELSE Cardinality(Published(rows, r.namespace_id, Len(rows))) + 1
    PROVE  NumbersOf(Append(rows, r))
<1> DEFINE new == Append(rows, r)
           n == Len(rows)
<1>1. /\ n \in Nat /\ DOMAIN rows = 1..n /\ DOMAIN new = 1..n + 1
      /\ \A i \in 1..n : new[i] = rows[i]
      /\ new[n + 1] = r
  OBVIOUS
<1> HIDE DEF new, n
<1>2. \A ns : \A i \in 0..n : Published(new, ns, i) = Published(rows, ns, i)
  BY <1>1 DEF Published
<1> SUFFICES ASSUME NEW i \in DOMAIN new
             PROVE  new[i].release_version =
                        IF new[i].rollout THEN 0
                        ELSE Cardinality(Published(new, new[i].namespace_id, i))
  BY DEF NumbersOf, new
<1>3. CASE i \in 1..n
  <2>1. i \in 0..n /\ new[i] = rows[i]
    BY <1>1, <1>3
  <2> QED
    BY <1>1, <1>2, <1>3, <2>1 DEF NumbersOf
<1>4. CASE i = n + 1
  <2> DEFINE ns == r.namespace_id
             old == Published(rows, ns, n)
  <2>1. new[i] = r
    BY <1>1, <1>4
  <2>2. CASE r.rollout
    BY <2>1, <2>2
  <2>3. CASE ~r.rollout
    <3>1. Published(new, ns, n + 1) = old \cup {n + 1}
      BY <1>1, <2>3 DEF Published
    <3>2. IsFiniteSet(old) /\ Cardinality(old) \in Nat
      BY <1>1, PublishedCounts
    <3>3. n + 1 \notin old
      BY <1>1 DEF Published
    <3>4. Cardinality(old \cup {n + 1}) = Cardinality(old) + 1
      BY <3>2, <3>3, FS_AddElement, Zenon
    <3> QED
      BY <1>4, <2>1, <2>3, <3>1, <3>4, Zenon DEF n
  <2> QED
    BY <2>2, <2>3
<1> QED
  BY <1>1, <1>3, <1>4

(* Retiring a release changes no number.                                   *)
LEMMA NumbersRetired ==
    ASSUME NEW rows \in Seq(Release), NumbersOf(rows), NEW id
    PROVE  NumbersOf(Retired(rows, id))
<1> DEFINE new == Retired(rows, id)
<1>1. /\ DOMAIN new = DOMAIN rows
      /\ \A i \in DOMAIN rows : /\ new[i].release_version = rows[i].release_version
                                /\ new[i].namespace_id = rows[i].namespace_id
                                /\ new[i].rollout = rows[i].rollout
  <2>1. \A i \in DOMAIN rows : rows[i] \in Release
    OBVIOUS
  <2>2. \A s \in Release : /\ [s EXCEPT !.status = "retired"].release_version = s.release_version
                           /\ [s EXCEPT !.status = "retired"].namespace_id = s.namespace_id
                           /\ [s EXCEPT !.status = "retired"].rollout = s.rollout
    BY DEF Release
  <2> QED
    BY <2>1, <2>2 DEF Retired
<1> HIDE DEF new
<1>2. Len(rows) \in Nat /\ DOMAIN rows = 1..Len(rows)
  OBVIOUS
<1>3. \A ns : \A i \in DOMAIN rows : Published(new, ns, i) = Published(rows, ns, i)
  BY <1>1, <1>2 DEF Published
<1> QED
  BY <1>1, <1>3 DEF NumbersOf, new

(* Retiring a release leaves a table of releases.                          *)
LEMMA RetiredRows ==
    ASSUME NEW rows \in Seq(Release), NEW id
    PROVE  Retired(rows, id) \in Seq(Release)
<1> DEFINE new == Retired(rows, id)
<1>1. DOMAIN new = DOMAIN rows /\ \A i \in DOMAIN rows : new[i] \in Release
  <2>1. \A i \in DOMAIN rows : rows[i] \in Release
    OBVIOUS
  <2>2. \A s \in Release : [s EXCEPT !.status = "retired"] \in Release
    BY RetiredFields, Zenon
  <2> QED
    BY <2>1, <2>2 DEF Retired
<1>2. new = [i \in DOMAIN rows |-> new[i]]
  BY Zenon DEF Retired
<1> HIDE DEF new
<1>3. new \in Seq(Release)
  BY <1>1, <1>2, SameLength, Zenon
<1> QED
  BY <1>3, Zenon DEF new

(* Deciding an approval leaves a table of approvals.                       *)
LEMMA DecidedRows ==
    ASSUME NEW rows \in Seq(Approval), NEW id \in DOMAIN rows,
           NEW status \in {"approved", "rejected"}
    PROVE  Decided(rows, id, status) \in Seq(Approval)
<1> DEFINE a == [rows[id] EXCEPT !.status = status]
<1>1. a \in Approval
  <2>1. rows[id] \in Approval
    OBVIOUS
  <2> QED
    BY <2>1, DecidedFields, Zenon
<1>2. Decided(rows, id, status) = [rows EXCEPT ![id] = a]
  BY Zenon DEF Decided
<1> HIDE DEF a
<1> QED
  BY <1>1, <1>2

(* What the writes do to the releases.                                     *)
LEMMA ReleasesWritten ==
    ASSUME Types, NEW t \in Threads
    PROVE  /\ \A ns \in Namespaces :
                 updateConfig(t, ns) \/ submitForApproval(t, ns) => db'.releases = db.releases
           /\ insertVersion(t) => db'.releases = db.releases
           /\ \A id \in Nat, status \in {"approved", "rejected"} :
                 updateApprovalStatus(t, id, status) => db'.releases = db.releases
           /\ publishBody(t) =>
                 db'.releases =
                    Append(db.releases, NewRelease(arg[t].ns, maxVersion(arg[t].ns) + 1, FALSE))
           /\ createRelease(t) =>
                 db'.releases = Append(db.releases, NewRelease(arg[t].ns, 0, TRUE))
           /\ retireRelease(t) => db'.releases = Retired(db.releases, arg[t].id)
<1>1. db \in GoodTables /\ db \in Tables /\ db.releases \in Seq(Release)
  BY TableFields DEF Types
<1>2. ASSUME NEW rows \in Seq(Release), db' = WithReleases(db, rows)
      PROVE  db'.releases = rows
  BY <1>1, <1>2, ReleasesReplaced, Zenon
<1>4. ASSUME NEW ns \in Namespaces, updateConfig(t, ns)
      PROVE  db'.releases = db.releases
  <2> DEFINE rows == [db.configs EXCEPT ![ns] = @ + 1]
  <2>1. rows \in [Namespaces -> Nat]
    BY <1>1, TableFields
  <2>2. db' = WithConfigs(db, rows)
    BY <1>4, Zenon DEF updateConfig, WithConfigs
  <2> HIDE DEF rows
  <2> QED
    BY <1>1, <2>1, <2>2, ConfigsReplaced, Zenon
<1>5. ASSUME insertVersion(t) PROVE db'.releases = db.releases
  <2> DEFINE rows == [db.config_versions EXCEPT ![arg[t].ns] = @ \cup {arg[t].id}]
  <2>1. arg[t] \in Arg
    BY <1>5 DEF insertVersion, Types
  <2>2. rows \in [Namespaces -> SUBSET Nat]
    BY <1>1, <2>1, TableFields DEF Arg
  <2>3. db' = WithVersions(db, rows)
    BY <1>5, Zenon DEF insertVersion, WithVersions
  <2> HIDE DEF rows
  <2> QED
    BY <1>1, <2>2, <2>3, VersionsReplaced, Zenon
<1>6. ASSUME NEW ns \in Namespaces, submitForApproval(t, ns)
      PROVE  db'.releases = db.releases
  <2> DEFINE a == [namespace_id |-> ns, status |-> "pending"]
             rows == Append(db.approvals, a)
  <2>1. a \in Approval
    BY DEF Approval
  <2>2. db' = WithApprovals(db, rows)
    BY <1>6, Zenon DEF submitForApproval, createApproval, WithApprovals
  <2> HIDE DEF a
  <2>3. rows \in Seq(Approval)
    BY <1>1, <2>1, TableFields
  <2> HIDE DEF rows
  <2> QED
    BY <1>1, <2>2, <2>3, ApprovalsReplaced, Zenon
<1>7. ASSUME NEW id \in Nat, NEW status \in {"approved", "rejected"},
             updateApprovalStatus(t, id, status)
      PROVE  db'.releases = db.releases
  <2>1. /\ db' = WithApprovals(db, Decided(db.approvals, id, status))
        /\ id \in DOMAIN db.approvals
    BY <1>7, Zenon DEF updateApprovalStatus, WithApprovals, Decided
  <2>2. Decided(db.approvals, id, status) \in Seq(Approval)
    BY <1>1, <2>1, DecidedRows, TableFields
  <2> QED
    BY <1>1, <2>1, <2>2, ApprovalsReplaced, Zenon
<1>8. ASSUME publishBody(t)
      PROVE  db'.releases =
                Append(db.releases, NewRelease(arg[t].ns, maxVersion(arg[t].ns) + 1, FALSE))
  <2> DEFINE r == NewRelease(arg[t].ns, maxVersion(arg[t].ns) + 1, FALSE)
  <2>1. arg[t].ns \in Namespaces
    BY <1>8 DEF publishBody, Types, Arg
  <2>2. maxVersion(arg[t].ns) + 1 \in Nat
    BY <1>1, <2>1, MaxVersionBound
  <2>3. r \in Release
    BY <2>1, <2>2, NewReleaseType, Zenon
  <2>4. db' = WithReleases(db, Append(db.releases, r))
    BY <1>8, Zenon DEF publishBody, WithReleases
  <2> HIDE DEF r
  <2>5. Append(db.releases, r) \in Seq(Release)
    BY <1>1, <2>3
  <2> QED
    BY <1>2, <1>8, <2>4, <2>5, Zenon DEF r
<1>9. ASSUME createRelease(t)
      PROVE  db'.releases = Append(db.releases, NewRelease(arg[t].ns, 0, TRUE))
  <2> DEFINE r == NewRelease(arg[t].ns, 0, TRUE)
  <2>1. arg[t].ns \in Namespaces
    BY <1>9 DEF createRelease, Types, Arg
  <2>2. r \in Release
    BY <2>1, NewReleaseType, 0 \in Nat, Zenon
  <2>3. db' = WithReleases(db, Append(db.releases, r))
    BY <1>9, Zenon DEF createRelease, WithReleases
  <2> HIDE DEF r
  <2>4. Append(db.releases, r) \in Seq(Release)
    BY <1>1, <2>2
  <2> QED
    BY <1>2, <1>9, <2>3, <2>4, Zenon DEF r
<1>10. ASSUME retireRelease(t)
       PROVE  db'.releases = Retired(db.releases, arg[t].id)
  <2>1. db' = WithReleases(db, Retired(db.releases, arg[t].id))
    BY <1>10, Zenon DEF retireRelease, WithReleases, Retired
  <2>2. Retired(db.releases, arg[t].id) \in Seq(Release)
    BY <1>1, RetiredRows
  <2> QED
    BY <1>2, <1>10, <2>1, <2>2, Zenon
<1> QED
  BY <1>4, <1>5, <1>6, <1>7, <1>8, <1>9, <1>10, Zenon

Numbered == NumbersOf(db.releases) /\ NumbersOf(saved.releases)

(* Every step keeps the numbers, a rollback included.                      *)
LEMMA NumberedKept ==
    ASSUME Types, Numbered, [Next]_vars
    PROVE  Numbered'
<1>1. db \in GoodTables /\ db.releases \in Seq(Release)
  BY TableFields DEF Types
<1>2. NumbersOf(NoTables.releases)
  BY DEF NoTables, NumbersOf
<1>3. ASSUME NEW t \in Threads, publishBody(t) PROVE NumbersOf(db'.releases)
  <2> DEFINE ns == arg[t].ns
             r == NewRelease(ns, maxVersion(ns) + 1, FALSE)
  <2>1. ns \in Namespaces
    BY <1>3 DEF publishBody, Types, Arg
  <2>2. maxVersion(ns) + 1 \in Nat
    BY <1>1, <2>1, MaxVersionBound
  <2>3. r \in Release /\ r.release_version = maxVersion(ns) + 1 /\ r.namespace_id = ns
    BY <2>1, <2>2, NewReleaseType, Zenon
  <2>4. ~r.rollout
    BY DEF NewRelease
  <2>5. maxVersion(ns) = Cardinality(Published(db.releases, ns, Len(db.releases)))
    BY <1>1, <2>1, MaxVersionCounts DEF Numbered
  <2>6. db'.releases = Append(db.releases, r)
    BY <1>3, ReleasesWritten, Zenon
  <2> HIDE DEF ns, r
  <2> QED
    BY <1>1, <2>3, <2>4, <2>5, <2>6, NumbersAppend DEF Numbered
<1>4. ASSUME NEW t \in Threads, createRelease(t) PROVE NumbersOf(db'.releases)
  <2> DEFINE r == NewRelease(arg[t].ns, 0, TRUE)
  <2>1. arg[t].ns \in Namespaces
    BY <1>4 DEF createRelease, Types, Arg
  <2>2. r \in Release /\ r.release_version = 0
    BY <2>1, NewReleaseType, 0 \in Nat, Zenon
  <2>3. r.rollout
    BY DEF NewRelease
  <2>4. db'.releases = Append(db.releases, r)
    BY <1>4, ReleasesWritten, ZenonT(30)
  <2> HIDE DEF r
  <2> QED
    BY <1>1, <2>2, <2>3, <2>4, NumbersAppend DEF Numbered
<1>5. ASSUME NEW t \in Threads, retireRelease(t) PROVE NumbersOf(db'.releases)
  BY <1>1, <1>5, ReleasesWritten, NumbersRetired, Zenon DEF Numbered
<1>6. ASSUME NEW t \in Threads, publishBody(t) \/ createRelease(t) \/ retireRelease(t)
      PROVE  Numbered'
  <2>1. saved' = saved \/ saved' = NoTables
    BY <1>6, Zenon DEF publishBody, createRelease, retireRelease, commit
  <2> QED
    BY <1>2, <1>3, <1>4, <1>5, <1>6, <2>1, Zenon DEF Numbered
<1>7. ASSUME NEW t \in Threads, NEW ns \in Namespaces,
             updateConfig(t, ns) \/ submitForApproval(t, ns)
      PROVE  Numbered'
  <2>1. db'.releases = db.releases /\ saved' = saved
    BY <1>7, ReleasesWritten, Zenon DEF updateConfig, submitForApproval
  <2> QED
    BY <2>1, Zenon DEF Numbered
<1>8. ASSUME NEW t \in Threads, insertVersion(t) PROVE Numbered'
  <2>1. db'.releases = db.releases /\ saved' = saved
    BY <1>8, ReleasesWritten, Zenon DEF insertVersion
  <2> QED
    BY <2>1, Zenon DEF Numbered
<1>9. ASSUME NEW t \in Threads, NEW id \in Nat, NEW status \in {"approved", "rejected"},
             updateApprovalStatus(t, id, status)
      PROVE  Numbered'
  <2>1. db'.releases = db.releases /\ saved' = saved
    BY <1>9, ReleasesWritten, Zenon DEF updateApprovalStatus
  <2> QED
    BY <2>1, Zenon DEF Numbered
<1>10. ASSUME NEW t \in Threads, publishFails(t) \/ grayscaleRollback(t) PROVE Numbered'
  BY <1>2, <1>10, Zenon DEF publishFails, grayscaleRollback, rollback, Numbered
<1>11. CASE crash
  BY <1>2, <1>11, Zenon DEF crash, rollback, Numbered
<1>12. ASSUME NEW t \in Threads, NEW ns \in Namespaces, publish(t, ns) \/ publishGrayscale(t, ns)
       PROVE  Numbered'
  BY <1>12, Zenon DEF publish, publishGrayscale, begin_transaction, Numbered
<1>13. ASSUME NEW t \in Threads, NEW ns \in Namespaces, NEW id \in Nat, fullRollout(t, ns, id)
       PROVE  Numbered'
  BY <1>13, Zenon DEF fullRollout, Numbered
<1>14. ASSUME NEW t \in Threads, nestedPublish(t) PROVE Numbered'
  BY <1>14, Zenon DEF nestedPublish, Numbered
<1>15. CASE UNCHANGED vars
  BY <1>15, Zenon DEF vars, Numbered
<1> QED
  BY <1>6, <1>7, <1>8, <1>9, <1>10, <1>11, <1>12, <1>13, <1>14, <1>15, NextCases, ZenonT(30)

(* PublishNumbers, for any number of threads, namespaces and releases:     *)
(* publishRelease numbers the releases of a namespace without gaps, with   *)
(* rollouts, failed publications, grayscale rollbacks and crashes between. *)
THEOREM NumbersWithoutGaps == Spec => []PublishNumbers
<1>1. Init => Types /\ Numbered
  <2> SUFFICES ASSUME Init PROVE Types /\ Numbered
    OBVIOUS
  <2>1. db = NoTables /\ saved = NoTables
    BY Zenon DEF Init
  <2>2. NumbersOf(NoTables.releases)
    BY DEF NoTables, NumbersOf
  <2> QED
    BY <2>1, <2>2, EngineInitial DEF EngineInv, Numbered
<1>2. Types /\ Numbered /\ [Next]_vars => Types' /\ Numbered'
  BY TypesKept, NumberedKept
<1>3. Types /\ Numbered => PublishNumbers
  <2> SUFFICES ASSUME Numbered, NEW i \in DOMAIN db.releases, ~db.releases[i].rollout
               PROVE  db.releases[i].release_version =
                          Cardinality(Published(db.releases, db.releases[i].namespace_id, i))
    BY DEF PublishNumbers, Published
  <2> QED
    BY DEF Numbered, NumbersOf
<1> QED
  BY <1>1, <1>2, <1>3, PTL DEF Spec

-----------------------------------------------------------------------------
(* The successors of retired releases.                                     *)
RetiredIn(rows) == {i \in DOMAIN rows : rows[i].status # "active"}

RolloutsIn(rows) == {i \in DOMAIN rows : rows[i].rollout}

Creating == {t \in Threads : pc[t] = "create"}

(* The counted sets are finite.                                            *)
LEMMA RowsCounted ==
    ASSUME NEW rows \in Seq(Release)
    PROVE  /\ IsFiniteSet(RetiredIn(rows)) /\ Cardinality(RetiredIn(rows)) \in Nat
           /\ IsFiniteSet(RolloutsIn(rows)) /\ Cardinality(RolloutsIn(rows)) \in Nat
<1>1. DOMAIN rows = 1..Len(rows) /\ Len(rows) \in Nat
  OBVIOUS
<1>2. IsFiniteSet(1..Len(rows))
  BY <1>1, FS_Interval
<1>3. RetiredIn(rows) \in SUBSET (1..Len(rows)) /\ RolloutsIn(rows) \in SUBSET (1..Len(rows))
  BY <1>1 DEF RetiredIn, RolloutsIn
<1>4. IsFiniteSet(RetiredIn(rows)) /\ IsFiniteSet(RolloutsIn(rows))
  BY <1>2, <1>3, FS_Subset
<1> QED
  BY <1>4, FS_CardinalityType

(* A new release is active; that of a rollout counts as one.               *)
LEMMA AppendCounts ==
    ASSUME NEW rows \in Seq(Release), NEW r \in Release, r.status = "active"
    PROVE  /\ RetiredIn(Append(rows, r)) = RetiredIn(rows)
           /\ ~r.rollout => RolloutsIn(Append(rows, r)) = RolloutsIn(rows)
           /\ r.rollout => Cardinality(RolloutsIn(Append(rows, r)))
                               = Cardinality(RolloutsIn(rows)) + 1
<1> DEFINE new == Append(rows, r)
           n == Len(rows)
<1>1. /\ n \in Nat /\ DOMAIN rows = 1..n /\ DOMAIN new = 1..(n + 1)
      /\ \A i \in 1..n : new[i] = rows[i]
      /\ new[n + 1] = r
  OBVIOUS
<1> HIDE DEF new, n
<1>2. DOMAIN new = DOMAIN rows \cup {n + 1} /\ n + 1 \notin DOMAIN rows
  BY <1>1
<1>3. RetiredIn(new) = RetiredIn(rows)
  BY <1>1, <1>2 DEF RetiredIn
<1>4. ~r.rollout => RolloutsIn(new) = RolloutsIn(rows)
  BY <1>1, <1>2 DEF RolloutsIn
<1>5. ASSUME r.rollout
      PROVE  RolloutsIn(new) = RolloutsIn(rows) \cup {n + 1} /\ n + 1 \notin RolloutsIn(rows)
  BY <1>1, <1>2, <1>5 DEF RolloutsIn
<1>6. ASSUME r.rollout PROVE Cardinality(RolloutsIn(new)) = Cardinality(RolloutsIn(rows)) + 1
  BY <1>5, <1>6, RowsCounted, FS_AddElement
<1> QED
  BY <1>3, <1>4, <1>6 DEF new

(* Retiring a release retires at most one, and leaves the rollouts.        *)
LEMMA RetireCounts ==
    ASSUME NEW rows \in Seq(Release), NEW id
    PROVE  /\ Cardinality(RetiredIn(Retired(rows, id))) <= Cardinality(RetiredIn(rows)) + 1
           /\ RolloutsIn(Retired(rows, id)) = RolloutsIn(rows)
<1> DEFINE new == Retired(rows, id)
<1>1. /\ DOMAIN new = DOMAIN rows
      /\ \A i \in DOMAIN rows : new[i].rollout = rows[i].rollout
      /\ \A i \in DOMAIN rows : i # id => new[i] = rows[i]
  <2>1. \A i \in DOMAIN rows : rows[i] \in Release
    OBVIOUS
  <2>2. \A s \in Release : [s EXCEPT !.status = "retired"].rollout = s.rollout
    BY DEF Release
  <2> QED
    BY <2>1, <2>2 DEF Retired
<1> HIDE DEF new
<1>2. RolloutsIn(new) = RolloutsIn(rows)
  BY <1>1 DEF RolloutsIn
<1>3. RetiredIn(new) \in SUBSET (RetiredIn(rows) \cup {id})
  BY <1>1 DEF RetiredIn
<1>4. IsFiniteSet(RetiredIn(rows)) /\ Cardinality(RetiredIn(rows)) \in Nat
  BY RowsCounted
<1>5. /\ IsFiniteSet(RetiredIn(rows) \cup {id})
      /\ Cardinality(RetiredIn(rows) \cup {id}) \in Nat
      /\ Cardinality(RetiredIn(rows) \cup {id}) <= Cardinality(RetiredIn(rows)) + 1
  <2>1. /\ IsFiniteSet(RetiredIn(rows) \cup {id})
        /\ Cardinality(RetiredIn(rows) \cup {id}) =
               IF id \in RetiredIn(rows) THEN Cardinality(RetiredIn(rows))
               ELSE Cardinality(RetiredIn(rows)) + 1
    BY <1>4, FS_AddElement
  <2> QED
    BY <1>4, <2>1
<1>6. /\ Cardinality(RetiredIn(new)) <= Cardinality(RetiredIn(rows) \cup {id})
      /\ Cardinality(RetiredIn(new)) \in Nat
  BY <1>3, <1>5, FS_Subset, FS_CardinalityType
<1>7. Cardinality(RetiredIn(new)) <= Cardinality(RetiredIn(rows)) + 1
  BY <1>4, <1>5, <1>6
<1> QED
  BY <1>2, <1>7 DEF new

(* Rollouts between retireRelease and createRelease, when a thread moves.  *)
LEMMA CreatingMoves ==
    ASSUME Types, NEW t \in Threads, NEW label \in Labels, NEW a, Goto(t, label, a)
    PROVE  /\ Cardinality(Creating) \in Nat
           /\ pc[t] # "create" /\ label # "create" => Creating' = Creating
           /\ pc[t] # "create" /\ label = "create"
                 => Cardinality(Creating') = Cardinality(Creating) + 1
           /\ pc[t] = "create" /\ label # "create"
                 => Cardinality(Creating') = Cardinality(Creating) - 1
<1>1. IsFiniteSet(Creating)
  <2>1. Creating \in SUBSET Threads
    BY DEF Creating
  <2> QED
    BY <2>1, PublishAssumption, FS_Subset
<1>2. Cardinality(Creating) \in Nat
  BY <1>1, FS_CardinalityType
<1>3. pc' = [pc EXCEPT ![t] = label] /\ pc \in [Threads -> Labels]
  BY DEF Goto, Types
<1>4. pc[t] # "create" /\ label # "create" => Creating' = Creating
  BY <1>3 DEF Creating
<1>5. ASSUME pc[t] # "create", label = "create"
      PROVE  Cardinality(Creating') = Cardinality(Creating) + 1
  <2>1. Creating' = Creating \cup {t} /\ t \notin Creating
    BY <1>3, <1>5 DEF Creating
  <2> QED
    BY <1>1, <2>1, FS_AddElement, Zenon
<1>6. ASSUME pc[t] = "create", label # "create"
      PROVE  Cardinality(Creating') = Cardinality(Creating) - 1
  <2>1. Creating' = Creating \ {t} /\ t \in Creating
    BY <1>3, <1>6 DEF Creating
  <2> QED
    BY <1>1, <2>1, FS_RemoveElement, ZenonT(30)
<1> QED
  BY <1>2, <1>4, <1>5, <1>6

(* While no grayscale transaction was ever opened, the only transactions   *)
(* are those of publish, which write nothing before they commit.           *)
SuccessorInv ==
    grayscales = 0 =>
        /\ \A t \in Threads : ~InGrayscale(t)
        /\ open => saved = db
        /\ Cardinality(RetiredIn(db.releases))
               <= (Cardinality(RolloutsIn(db.releases)) + Cardinality(Creating)) + cutOff

Plain ==
    /\ open \in BOOLEAN
    /\ mutex_ \in Threads \cup {NoThread}
    /\ grayscales \in Nat /\ failures \in Nat /\ cutOff \in Nat

(* Flags, holders and counters keep their types.                           *)
LEMMA PlainKept ==
    ASSUME Plain, [Next]_vars
    PROVE  Plain'
<1> USE DEF Locked, Lock, Unlock
<1>1. ASSUME NEW t \in Threads, NEW ns \in Namespaces, updateConfig(t, ns) PROVE Plain'
  BY <1>1, Zenon DEF updateConfig, Plain
<1>2. ASSUME NEW t \in Threads, NEW ns \in Namespaces, publish(t, ns) PROVE Plain'
  BY <1>2, Zenon DEF publish, begin_transaction, Plain
<1>3. ASSUME NEW t \in Threads, NEW ns \in Namespaces, publishGrayscale(t, ns) PROVE Plain'
  BY <1>3 DEF publishGrayscale, begin_transaction, Plain
<1>4. ASSUME NEW t \in Threads, NEW ns \in Namespaces, submitForApproval(t, ns) PROVE Plain'
  BY <1>4, Zenon DEF submitForApproval, createApproval, Plain
<1>5. ASSUME NEW t \in Threads, NEW ns \in Namespaces, NEW id \in Nat, fullRollout(t, ns, id)
      PROVE  Plain'
  BY <1>5, Zenon DEF fullRollout, Plain
<1>6. ASSUME NEW t \in Threads, NEW id \in Nat, NEW status \in {"approved", "rejected"},
             updateApprovalStatus(t, id, status)
      PROVE  Plain'
  BY <1>6, Zenon DEF updateApprovalStatus, Plain
<1>7. ASSUME NEW t \in Threads,
             insertVersion(t) \/ nestedPublish(t) \/ retireRelease(t) \/ createRelease(t)
      PROVE  Plain'
  BY <1>7, Zenon DEF insertVersion, nestedPublish, retireRelease, createRelease, Plain
<1>8. ASSUME NEW t \in Threads, publishBody(t) PROVE Plain'
  BY <1>8, Zenon DEF publishBody, commit, Plain
<1>9. ASSUME NEW t \in Threads, publishFails(t) PROVE Plain'
  <2>1. failures' = failures + 1 /\ failures \in Nat
    BY <1>9, Zenon DEF publishFails, Plain
  <2>2. failures' \in Nat
    BY <2>1
  <2> QED
    BY <1>9, <2>2, Zenon DEF publishFails, rollback, Plain
<1>10. ASSUME NEW t \in Threads, grayscaleRollback(t) PROVE Plain'
  BY <1>10, Zenon DEF grayscaleRollback, rollback, Plain
<1>11. CASE crash
  <2>1. Cardinality({t \in Threads : pc[t] = "create"}) \in Nat
    <3>1. {t \in Threads : pc[t] = "create"} \in SUBSET Threads
      OBVIOUS
    <3> QED
      BY <3>1, PublishAssumption, FS_Subset, FS_CardinalityType
  <2> DEFINE c == Cardinality({t \in Threads : pc[t] = "create"})
  <2>2. cutOff' = cutOff + c /\ failures' = failures + 1 /\ grayscales' = grayscales
    BY <1>11, Zenon DEF crash
  <2>3. open' \in BOOLEAN /\ mutex_' = NoThread
    BY <1>11, Zenon DEF crash, rollback, Plain
  <2> HIDE DEF c
  <2>4. cutOff' \in Nat /\ failures' \in Nat /\ grayscales' \in Nat
    BY <2>1, <2>2 DEF Plain, c
  <2> QED
    BY <2>3, <2>4, ZenonT(30) DEF Plain
<1>12. CASE UNCHANGED vars
  BY <1>12, Zenon DEF vars, Plain
<1> QED
  BY <1>1, <1>2, <1>3, <1>4, <1>5, <1>6, <1>7, <1>8, <1>9, <1>10, <1>11, <1>12, NextCases, Zenon

(* Who has mutex_ outside publish, with no grayscale release under way,    *)
(* writes outside a transaction.                                           *)
LEMMA WritesOutside ==
    ASSUME Types, OneOwner, Holders, SuccessorInv, grayscales = 0,
           NEW t \in Threads, pc[t] # "publish", mutex_ = NoThread \/ mutex_ = t
    PROVE  ~open
<1>1. SUFFICES ASSUME open PROVE FALSE
  OBVIOUS
<1>2. PICK u \in Threads : pc[u] \in {"publish", "grayscale", "rollback"}
  BY <1>1 DEF OneOwner, Owners
<1>3. pc[u] = "publish"
  BY <1>2 DEF SuccessorInv, InGrayscale
<1>4. mutex_ = u
  BY <1>3 DEF Holders
<1> QED
  BY <1>3, <1>4, PublishAssumption

(* Every step keeps the successors.                                        *)
LEMMA SuccessorKept ==
    ASSUME Types, OneOwner, Holders, Plain, SuccessorInv, [Next]_vars
    PROVE  SuccessorInv'
<1> DEFINE retired == Cardinality(RetiredIn(db.releases))
           rollouts == Cardinality(RolloutsIn(db.releases))
           creating == Cardinality(Creating)
<1>1. db \in GoodTables /\ db.releases \in Seq(Release)
  BY TableFields DEF Types
<1>2. retired \in Nat /\ rollouts \in Nat /\ cutOff \in Nat /\ creating \in Nat
  <2>1. Creating \in SUBSET Threads
    BY DEF Creating
  <2> QED
    BY <1>1, <2>1, RowsCounted, PublishAssumption, FS_Subset, FS_CardinalityType DEF Plain
<1> HIDE DEF retired, rollouts, creating
<1>3. SUFFICES ASSUME grayscales' = 0 PROVE SuccessorInv'
  BY Zenon DEF SuccessorInv
<1>4. ASSUME NEW t \in Threads, NEW ns \in Namespaces, publishGrayscale(t, ns) PROVE FALSE
  BY <1>3, <1>4 DEF publishGrayscale, Plain
<1>5. CASE grayscales = 0
  <2>1. /\ \A t \in Threads : ~InGrayscale(t)
        /\ open => saved = db
        /\ retired <= (rollouts + creating) + cutOff
    BY <1>5 DEF SuccessorInv, retired, rollouts, creating
  <2> DEFINE Settled ==
        /\ \A t \in Threads : ~InGrayscale(t)'
        /\ open' => saved' = db'
        /\ Cardinality(RetiredIn(db'.releases))
               <= (Cardinality(RolloutsIn(db'.releases)) + Cardinality(Creating')) + cutOff'
  <2>2. ASSUME Settled PROVE SuccessorInv'
    BY <2>2, Zenon DEF SuccessorInv
  <2>3. ASSUME NEW t \in Threads, NEW label \in Labels \ {"grayscale", "rollback"}, NEW a,
               Goto(t, label, a)
        PROVE  \A u \in Threads : ~InGrayscale(u)'
    BY <2>1, <2>3 DEF InGrayscale, Goto, Types
  <2>4. ASSUME pc' = pc PROVE (\A u \in Threads : ~InGrayscale(u)') /\ Creating' = Creating
    BY <2>1, <2>4 DEF InGrayscale, Creating
  <2>5. ASSUME NEW t \in Threads, NEW ns \in Namespaces, updateConfig(t, ns) PROVE Settled
    <3>1. /\ pc[t] = "idle" /\ mutex_ = NoThread /\ open' = open /\ cutOff' = cutOff
          /\ Goto(t, "insertVersion", [ns |-> ns, id |-> db.configs[ns] + 1])
      BY <2>5, Zenon DEF updateConfig, Lock
    <3>2. ~open'
      BY <1>5, <3>1, WritesOutside, SMTT(30)
    <3>3. Creating' = Creating
      BY <3>1, CreatingMoves DEF Labels
    <3>4. \A u \in Threads : ~InGrayscale(u)'
      BY <2>3, <3>1 DEF Labels
    <3>5. db'.releases = db.releases
      BY <2>5, ReleasesWritten, Zenon
    <3> QED
      BY <2>1, <3>1, <3>2, <3>3, <3>4, <3>5, Zenon DEF retired, rollouts, creating
  <2>6. ASSUME NEW t \in Threads, insertVersion(t) PROVE Settled
    <3>1. /\ pc[t] = "insertVersion" /\ mutex_ = t /\ open' = open /\ cutOff' = cutOff
          /\ Goto(t, "idle", NoArg)
      BY <2>6, Zenon DEF insertVersion, Unlock, Return
    <3>2. ~open'
      BY <1>5, <3>1, WritesOutside
    <3>3. Creating' = Creating
      BY <3>1, CreatingMoves DEF Labels
    <3>4. \A u \in Threads : ~InGrayscale(u)'
      BY <2>3, <3>1 DEF Labels
    <3>5. db'.releases = db.releases
      BY <2>6, ReleasesWritten, Zenon
    <3> QED
      BY <2>1, <3>1, <3>2, <3>3, <3>4, <3>5, Zenon DEF retired, rollouts, creating
  <2>7. ASSUME NEW t \in Threads, NEW ns \in Namespaces, publish(t, ns) PROVE Settled
    <3>1. /\ pc[t] = "idle" /\ db' = db /\ saved' = db /\ cutOff' = cutOff
          /\ Goto(t, "publish", [ns |-> ns, id |-> 0])
      BY <2>7, Zenon DEF publish, begin_transaction
    <3>2. Creating' = Creating
      BY <3>1, CreatingMoves DEF Labels
    <3>3. \A u \in Threads : ~InGrayscale(u)'
      BY <2>3, <3>1 DEF Labels
    <3> QED
      BY <2>1, <3>1, <3>2, <3>3, Zenon DEF retired, rollouts, creating
  <2>8. ASSUME NEW t \in Threads, publishBody(t) PROVE Settled
    <3> DEFINE r == NewRelease(arg[t].ns, maxVersion(arg[t].ns) + 1, FALSE)
    <3>1. /\ pc[t] = "publish" /\ ~open' /\ cutOff' = cutOff /\ Goto(t, "idle", NoArg)
          /\ arg[t].ns \in Namespaces
      BY <2>8 DEF publishBody, commit, Return, Types, Arg
    <3>2. maxVersion(arg[t].ns) + 1 \in Nat
      BY <1>1, <3>1, MaxVersionBound
    <3>3. r \in Release
      BY <3>1, <3>2, NewReleaseType, ZenonT(30)
    <3>4. r.status = "active" /\ ~r.rollout
      BY DEF NewRelease
    <3>5. db'.releases = Append(db.releases, r)
      BY <2>8, ReleasesWritten, ZenonT(30)
    <3> HIDE DEF r
    <3>6. /\ RetiredIn(db'.releases) = RetiredIn(db.releases)
          /\ RolloutsIn(db'.releases) = RolloutsIn(db.releases)
      BY <1>1, <3>3, <3>4, <3>5, AppendCounts, SMTT(30)
    <3>7. Creating' = Creating
      BY <3>1, CreatingMoves DEF Labels
    <3>8. \A u \in Threads : ~InGrayscale(u)'
      BY <2>3, <3>1 DEF Labels
    <3> QED
      BY <2>1, <3>1, <3>6, <3>7, <3>8, Zenon DEF retired, rollouts, creating
  <2>9. ASSUME NEW t \in Threads, publishFails(t) PROVE Settled
    <3>1. /\ pc[t] = "publish" /\ db' = saved /\ ~open' /\ cutOff' = cutOff
          /\ Goto(t, "idle", NoArg)
      BY <2>9, Zenon DEF publishFails, rollback, Return
    <3>2. open
      BY <3>1 DEF OneOwner, Owners
    <3>3. Creating' = Creating
      BY <3>1, CreatingMoves DEF Labels
    <3>4. \A u \in Threads : ~InGrayscale(u)'
      BY <2>3, <3>1 DEF Labels
    <3> QED
      BY <2>1, <3>1, <3>2, <3>3, <3>4, Zenon DEF retired, rollouts, creating
  <2>10. ASSUME NEW t \in Threads, nestedPublish(t) \/ grayscaleRollback(t) PROVE FALSE
    BY <2>1, <2>10 DEF nestedPublish, grayscaleRollback, InGrayscale
  <2>11. ASSUME NEW t \in Threads, NEW ns \in Namespaces, NEW id \in Nat, fullRollout(t, ns, id)
         PROVE  Settled
    <3>1. /\ pc[t] = "idle" /\ db' = db /\ saved' = saved /\ open' = open /\ cutOff' = cutOff
          /\ Goto(t, "retire", [ns |-> ns, id |-> id])
      BY <2>11, Zenon DEF fullRollout
    <3>2. Creating' = Creating
      BY <3>1, CreatingMoves DEF Labels
    <3>3. \A u \in Threads : ~InGrayscale(u)'
      BY <2>3, <3>1 DEF Labels
    <3> QED
      BY <2>1, <3>1, <3>2, <3>3, Zenon DEF retired, rollouts, creating
  <2>12. ASSUME NEW t \in Threads, retireRelease(t) PROVE Settled
    <3>1. /\ pc[t] = "retire" /\ mutex_ = NoThread /\ open' = open /\ cutOff' = cutOff
          /\ Goto(t, "create", arg[t])
      BY <2>12, Zenon DEF retireRelease, Locked
    <3>2. ~open'
      BY <1>5, <3>1, WritesOutside, SMTT(30)
    <3>3. Cardinality(Creating') = creating + 1
      BY <3>1, CreatingMoves DEF Labels, creating
    <3>4. \A u \in Threads : ~InGrayscale(u)'
      BY <2>3, <3>1 DEF Labels
    <3>5. db'.releases = Retired(db.releases, arg[t].id)
      BY <2>12, ReleasesWritten, Zenon
    <3>6. /\ Cardinality(RetiredIn(db'.releases)) <= retired + 1
          /\ RolloutsIn(db'.releases) = RolloutsIn(db.releases)
      BY <1>1, <3>5, RetireCounts DEF retired
    <3>7. Cardinality(RetiredIn(db'.releases)) \in Nat
      BY <1>1, <3>5, RetiredRows, RowsCounted, SMTT(30)
    <3>8. Cardinality(RetiredIn(db'.releases)) <= (rollouts + (creating + 1)) + cutOff
      BY <1>2, <2>1, <3>6, <3>7
    <3> QED
      BY <3>1, <3>2, <3>3, <3>4, <3>6, <3>8, Zenon DEF rollouts
  <2>13. ASSUME NEW t \in Threads, createRelease(t) PROVE Settled
    <3> DEFINE r == NewRelease(arg[t].ns, 0, TRUE)
    <3>1. /\ pc[t] = "create" /\ mutex_ = NoThread /\ open' = open /\ cutOff' = cutOff
          /\ Goto(t, "idle", NoArg) /\ arg[t].ns \in Namespaces
      BY <2>13 DEF createRelease, Locked, Return, Types, Arg
    <3>2. ~open'
      BY <1>5, <3>1, WritesOutside, SMTT(30)
    <3>3. Cardinality(Creating') = creating - 1
      BY <3>1, CreatingMoves DEF Labels, creating
    <3>4. \A u \in Threads : ~InGrayscale(u)'
      BY <2>3, <3>1 DEF Labels
    <3>5. r \in Release
      BY <3>1, NewReleaseType, 0 \in Nat, Zenon
    <3>6. r.status = "active" /\ r.rollout
      BY DEF NewRelease
    <3>7. db'.releases = Append(db.releases, r)
      BY <2>13, ReleasesWritten, Zenon
    <3> HIDE DEF r
    <3>8. /\ Cardinality(RetiredIn(db'.releases)) = retired
          /\ Cardinality(RolloutsIn(db'.releases)) = rollouts + 1
      BY <1>1, <3>5, <3>6, <3>7, AppendCounts DEF retired, rollouts
    <3>9. retired <= ((rollouts + 1) + (creating - 1)) + cutOff
      BY <1>2, <2>1
    <3> QED
      BY <3>1, <3>2, <3>3, <3>4, <3>8, <3>9, Zenon
  <2>14. ASSUME NEW t \in Threads, NEW ns \in Namespaces, submitForApproval(t, ns) PROVE Settled
    <3>1. pc[t] = "idle" /\ mutex_ = NoThread /\ open' = open /\ cutOff' = cutOff /\ pc' = pc
      BY <2>14, Zenon DEF submitForApproval, createApproval, Locked
    <3>2. ~open'
      BY <1>5, <3>1, WritesOutside
    <3>3. db'.releases = db.releases
      BY <2>14, ReleasesWritten, Zenon
    <3> QED
      BY <2>1, <2>4, <3>1, <3>2, <3>3, Zenon DEF retired, rollouts, creating
  <2>15. ASSUME NEW t \in Threads, NEW id \in Nat, NEW status \in {"approved", "rejected"},
                updateApprovalStatus(t, id, status)
         PROVE  Settled
    <3>1. pc[t] = "idle" /\ mutex_ = NoThread /\ open' = open /\ cutOff' = cutOff /\ pc' = pc
      BY <2>15, Zenon DEF updateApprovalStatus, Locked
    <3>2. ~open'
      BY <1>5, <3>1, WritesOutside
    <3>3. db'.releases = db.releases
      BY <2>15, ReleasesWritten, Zenon
    <3> QED
      BY <2>1, <2>4, <3>1, <3>2, <3>3, Zenon DEF retired, rollouts, creating
  <2>16. CASE crash
    <3>1. /\ pc' = [t \in Threads |-> "idle"] /\ cutOff' = cutOff + creating
          /\ db' = db /\ ~open'
      BY <2>1, <2>16, Zenon DEF crash, rollback, creating, Creating
    <3>2. Creating' = {} /\ \A u \in Threads : ~InGrayscale(u)'
      BY <3>1 DEF Creating, InGrayscale
    <3>3. Cardinality(Creating') = 0
      BY <3>2, FS_EmptySet
    <3>4. retired <= (rollouts + 0) + (cutOff + creating)
      BY <1>2, <2>1
    <3> QED
      BY <2>2, <3>1, <3>2, <3>3, <3>4, Zenon DEF retired, rollouts
  <2>17. CASE UNCHANGED vars
    BY <2>1, <2>2, <2>4, <2>17, Zenon DEF vars, retired, rollouts, creating
  <2> HIDE DEF Settled
  <2> QED
    BY <1>4, <2>2, <2>5, <2>6, <2>7, <2>8, <2>9, <2>10, <2>11, <2>12, <2>13, <2>14, <2>15,
       <2>16, <2>17, NextCases, ZenonT(30)
<1>6. grayscales = 0
  <2>1. grayscales' = grayscales
    BY <1>4, NextCases, Zenon DEF updateConfig, publish, submitForApproval, fullRollout,
       updateApprovalStatus, insertVersion, publishBody, publishFails, nestedPublish,
       grayscaleRollback, retireRelease, createRelease, crash, vars
  <2> QED
    BY <1>3, <2>1
<1> QED
  BY <1>5, <1>6

(* RetiredHasSuccessor, for any number of threads, namespaces and          *)
(* releases: fullRollout retires at most as many releases as it creates,   *)
(* has under way or lost to a crash.                                       *)
THEOREM RetiredAlwaysSucceeded == Spec => []RetiredHasSuccessor
<1>1. Init => Plain /\ SuccessorInv
  <2> SUFFICES ASSUME Init PROVE Plain /\ SuccessorInv
    OBVIOUS
  <2>1. Plain
    BY 0 \in Nat, Zenon DEF Init, Plain
  <2>2. db.releases = <<>>
    BY DEF Init, NoTables
  <2>3. RetiredIn(db.releases) = {} /\ RolloutsIn(db.releases) = {} /\ Creating = {}
    BY <2>2 DEF RetiredIn, RolloutsIn, Creating, Init
  <2>4. Cardinality({}) = 0
    BY FS_EmptySet
  <2>5. ~open /\ cutOff = 0 /\ \A t \in Threads : ~InGrayscale(t)
    BY DEF Init, InGrayscale
  <2> QED
    BY <2>1, <2>3, <2>4, <2>5 DEF SuccessorInv
<1>2. EngineInv /\ Plain /\ SuccessorInv /\ [Next]_vars => Plain' /\ SuccessorInv'
  BY PlainKept, SuccessorKept DEF EngineInv
<1>3. Plain /\ SuccessorInv => RetiredHasSuccessor
  <2> SUFFICES ASSUME Plain, SuccessorInv PROVE RetiredHasSuccessor
    OBVIOUS
  <2>1. {i \in DOMAIN db.releases : ~Active(i)} = RetiredIn(db.releases)
    BY DEF Active, RetiredIn
  <2> QED
    BY <2>1, Zenon DEF RetiredHasSuccessor, SuccessorInv, RolloutsIn, Creating
<1> QED
  BY <1>1, <1>2, <1>3, EngineInitial, EngineInductive, PTL DEF Spec

(* TypeOK, for any constants: every row, number and history entry of the   *)
(* engine is one that its tables hold.                                     *)
THEOREM EngineTypes == Spec => []TypeOK
<1>1. Init => Plain
  BY 0 \in Nat, Zenon DEF Init, Plain
<1>2. EngineInv /\ Plain /\ [Next]_vars => Plain'
  BY PlainKept
<1>3. EngineInv /\ Plain => TypeOK
  <2> SUFFICES ASSUME EngineInv, Plain PROVE TypeOK
    OBVIOUS
  <2>1. db \in Tables /\ saved \in Tables
    BY TableFields DEF EngineInv, Types
  <2>2. NoArg \in Arg
    BY PublishAssumption DEF NoArg, Arg
  <2>3. arg \in [Threads -> Arg] /\ pc \in [Threads -> Labels]
    BY <2>2 DEF EngineInv, Types
  <2>4. acked \subseteq {"version", "release", "approval"} \X Namespaces \X Nat
    <3> SUFFICES ASSUME NEW fact \in Facts(db)
                 PROVE  fact \in {"version", "release", "approval"} \X Namespaces \X Nat
      BY DEF EngineInv, AcknowledgedKept
    <3>1. db \in GoodTables
      BY DEF EngineInv, Types
    <3>2. /\ \A ns \in Namespaces : db.config_versions[ns] \subseteq Nat
          /\ \A i \in DOMAIN db.releases : db.releases[i].namespace_id \in Namespaces /\ i \in Nat
          /\ \A i \in DOMAIN db.approvals : db.approvals[i].namespace_id \in Namespaces /\ i \in Nat
      <4>1. /\ db.config_versions \in [Namespaces -> SUBSET Nat]
            /\ db.releases \in Seq(Release) /\ db.approvals \in Seq(Approval)
        BY <3>1, TableFields
      <4>2. /\ \A r \in Release : r.namespace_id \in Namespaces
            /\ \A a \in Approval : a.namespace_id \in Namespaces
        BY DEF Release, Approval
      <4> QED
        BY <4>1, <4>2
    <3> QED
      BY <3>2, FactOrigin
  <2> QED
    BY <2>1, <2>3, <2>4 DEF TypeOK, Plain
<1> QED
  BY <1>1, <1>2, <1>3, EngineInitial, EngineInductive, PTL DEF Spec
=============================================================================
