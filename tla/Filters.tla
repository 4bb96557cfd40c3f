------------------------------ MODULE Filters ------------------------------
(***************************************************************************)
(* The loop that walks over a vector and appends the elements it keeps to  *)
(* another one.  (SelectSeq says the same; this form of it can be reasoned *)
(* about, element by element.)                                             *)
(***************************************************************************)
EXTENDS Naturals, Sequences

(* The elements of s at the given positions, in their order.               *)
Filter(s, positions) ==
    LET kept[i \in 0..Len(s)] ==
            IF i = 0 THEN <<>>
            ELSE IF i \in positions THEN Append(kept[i - 1], s[i])
            ELSE kept[i - 1]
    IN  kept[Len(s)]
=============================================================================
