------------------------------- MODULE Pages -------------------------------
(***************************************************************************)
(* What ORDER BY created_at DESC LIMIT page_size OFFSET (page - 1) *       *)
(* page_size answers.  Rows are their ids.  created_at has a resolution of *)
(* one second; rows of the same second come in the order of their ids, in  *)
(* which the table is scanned.                                             *)
(***************************************************************************)
EXTENDS Naturals, FiniteSets

CONSTANT PageSize     \* page_size (20, unless a gRPC client says otherwise)

ASSUME PagesAssumption == PageSize \in Nat \ {0}

(* Row i comes before row j; created_at is a function of the rows.         *)
Before(created_at, i, j) ==
    \/ created_at[i] > created_at[j]
    \/ created_at[i] = created_at[j] /\ i < j

Rank(rows, created_at, i) == Cardinality({j \in rows : Before(created_at, j, i)})

WholePageOff(page) == page * PageSize                         \* mistaken
Offset(page) == (page - 1) * PageSize

Limit(page) == PageSize

Page(rows, created_at, page) ==
    LET on == {i \in rows : /\ Rank(rows, created_at, i) >= Offset(page)
                            /\ Rank(rows, created_at, i) < Offset(page) + Limit(page)}
    IN  [n \in 1..Cardinality(on) |->
            CHOOSE i \in on : Rank(rows, created_at, i) = Offset(page) + n - 1]
=============================================================================
