--------------------------- MODULE ReleaseHistory ---------------------------
(***************************************************************************)
(* The release history of one namespace, read page by page (gRPC) or its   *)
(* first page only (HTTP), while releases are added.                       *)
(***************************************************************************)
EXTENDS Sequences, Pages

CONSTANTS Readers,
          MaxReleases,     \* bound: releases
          MaxTime          \* bound: seconds

ASSUME HistoryAssumption == MaxReleases \in Nat /\ MaxTime \in Nat \ {0}

VARIABLES stamped,    \* createRelease sets created_at (MySQL), or not (SQLite)
          now,        \* seconds
          releases,   \* created_at of each release, by id; 0 is the empty string
          next,       \* reader -> the page it asks for next; 0 when it has them all
          start,      \* reader -> number of releases when it asked for page 1
          answer,     \* reader -> the ids on the page it got last
          seen        \* reader -> the ids on all its pages

historyVars == <<stamped, now, releases, next, start, answer, seen>>

HistoryTypeOK ==
    /\ stamped \in BOOLEAN
    /\ now \in 1..MaxTime
    /\ releases \in Seq(0..MaxTime)
    /\ next \in [Readers -> Nat]
    /\ start \in [Readers -> Nat]
    /\ \A r \in Readers : /\ answer[r] \in Seq(DOMAIN releases)
                          /\ Len(answer[r]) <= PageSize
                          /\ seen[r] \subseteq DOMAIN releases

HistoryInit ==
    /\ stamped \in BOOLEAN
    /\ now = 1
    /\ releases = <<>>
    /\ next = [r \in Readers |-> 1]
    /\ start = [r \in Readers |-> 0]
    /\ answer = [r \in Readers |-> <<>>]
    /\ seen = [r \in Readers |-> {}]

tick ==
    /\ now < MaxTime
    /\ now' = now + 1
    /\ UNCHANGED <<stamped, releases, next, start, answer, seen>>

(* publishRelease stamps the row...                                        *)
publishRelease ==
    /\ Len(releases) < MaxReleases
    /\ releases' = Append(releases, now)
    /\ UNCHANGED <<stamped, now, next, start, answer, seen>>

(* ...and createRelease, which fullRollout calls with an empty created_at, *)
(* does so in one of the stores only.                                      *)
NeverStamped ==                                               \* mistaken
    /\ releases # <<>>
    /\ Len(releases) < MaxReleases
    /\ releases' = Append(releases, 0)
    /\ UNCHANGED <<stamped, now, next, start, answer, seen>>

CreatedAt == IF stamped THEN now ELSE 0

createRelease ==
    /\ releases # <<>>
    /\ Len(releases) < MaxReleases
    /\ releases' = Append(releases, CreatedAt)
    /\ UNCHANGED <<stamped, now, next, start, answer, seen>>

-----------------------------------------------------------------------------
getReleases(n) == Page(DOMAIN releases, releases, n)

(* GetReleaseHistory, called for page after page until one is empty.       *)
GetReleaseHistory(r) ==
    LET rows == getReleases(next[r])
    IN  /\ next[r] # 0
        /\ answer' = [answer EXCEPT ![r] = rows]
        /\ seen' = [seen EXCEPT ![r] = @ \cup {rows[n] : n \in DOMAIN rows}]
        /\ start' = [start EXCEPT ![r] = IF next[r] = 1 THEN Len(releases) ELSE @]
        /\ next' = [next EXCEPT ![r] = IF rows = <<>> THEN 0 ELSE @ + 1]
        /\ UNCHANGED <<stamped, now, releases>>

(* handleGetReleases: the first page.                                      *)
handleGetReleases(r) ==
    /\ answer' = [answer EXCEPT ![r] = getReleases(1)]
    /\ UNCHANGED <<stamped, now, releases, next, start, seen>>

HistoryDone ==
    /\ \A r \in Readers : next[r] = 0
    /\ Len(releases) = MaxReleases \/ now = MaxTime
    /\ UNCHANGED historyVars

HistoryNext ==
    \/ tick
    \/ publishRelease
    \/ createRelease
    \/ \E r \in Readers : GetReleaseHistory(r) \/ handleGetReleases(r)
    \/ HistoryDone

HistorySpec == HistoryInit /\ [][HistoryNext]_historyVars

-----------------------------------------------------------------------------
(* Who reads page after page gets every release there was when it began:   *)
(* releases made meanwhile move the others to later pages, never to a page *)
(* that was read already.                                                  *)
NothingSkipped ==
    \A r \in Readers : next[r] = 0 => 1..start[r] \subseteq seen[r]

(* "in reverse chronological order": of two releases of different seconds  *)
(* on a page the newer comes first, when createRelease sets the time.      *)
(* (The SQLite store does not, and its rollouts come last.)                *)
NewestFirst ==
    stamped =>
        \A r \in Readers : \A m, n \in DOMAIN answer[r] :
            m < n /\ releases[answer[r][m]] # releases[answer[r][n]] =>
                answer[r][m] > answer[r][n]
=============================================================================
