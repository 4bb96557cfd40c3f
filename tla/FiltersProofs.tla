--------------------------- MODULE FiltersProofs ---------------------------
(***************************************************************************)
(* Induction over the natural numbers, in a form without a parameter that  *)
(* is an operator, and what follows from it for Filter.  The proofs about  *)
(* the components cite these lemmas.                                       *)
(***************************************************************************)
EXTENDS Filters, WellFoundedInduction, TLAPS

(* The slice of a vector that is the whole vector.                         *)
LEMMA WholeSlice ==
    ASSUME NEW S, NEW s \in Seq(S)
    PROVE  SubSeq(s, 1, Len(s)) = s
  OBVIOUS

(* A slice that ends before it begins is empty.                            *)
LEMMA EmptySlice ==
    ASSUME NEW s, NEW m \in Int, NEW n \in Int, n < m
    PROVE  SubSeq(s, m, n) = <<>>
  OBVIOUS

(* A set of numbers that is not empty has a least element.                 *)
LEMMA LeastNumber ==
    ASSUME NEW T, T \subseteq Nat, T # {}
    PROVE  \E x \in T : \A y \in T : x <= y
<1>1. PICK x \in T : \A y \in T : ~ (<<y, x>> \in OpToRel(<, Nat))
  BY WFMin, NatLessThanWellFounded, Zenon
<1>2. ASSUME NEW y \in T PROVE ~(y < x)
  BY <1>1, Zenon DEF OpToRel
<1>3. ASSUME NEW y \in T PROVE x <= y
  <2>1. x \in Nat /\ y \in Nat
    OBVIOUS
  <2> QED
    BY <1>2, <2>1
<1> QED
  BY <1>3

(* A set with 0, and with the successor of each number in it, has them all. *)
(* (Instantiated with {n \in Nat : P}, it proves P by induction on n.)     *)
LEMMA Induction ==
    ASSUME NEW T, 0 \in T, \A n \in Nat : n \in T => n + 1 \in T
    PROVE  Nat \subseteq T
<1> DEFINE B == Nat \ T
<1>1. SUFFICES ASSUME B # {} PROVE FALSE
  OBVIOUS
<1>2. PICK x \in B : \A y \in B : x <= y
  BY <1>1, LeastNumber, Zenon
<1>3. x # 0 /\ x \in Nat /\ x \notin T
  OBVIOUS
<1>4. x - 1 \in Nat /\ (x-1)+1 = x
  BY <1>3
<1>5. x - 1 \in T
  BY <1>2, <1>4
<1> QED
  BY <1>3, <1>4, <1>5

-----------------------------------------------------------------------------
(* The loop of Filter over the first n elements.                           *)
Pass(f, s, positions, n) ==
    /\ f[0] = <<>>
    /\ \A i \in 1..n : f[i] = IF i \in positions THEN Append(f[i - 1], s[i])
                                                 ELSE f[i - 1]

(* The loop can be run on every sequence...                                *)
LEMMA PassExists ==
    ASSUME NEW S, NEW s \in Seq(S), NEW positions
    PROVE  \E f \in [0..Len(s) -> Seq(S)] : Pass(f, s, positions, Len(s))
<1> DEFINE T == {n \in Nat : n <= Len(s) =>
                               \E f \in [0..n -> Seq(S)] : Pass(f, s, positions, n)}
<1>1. 0 \in T
  <2> DEFINE f == [i \in 0..0 |-> <<>>]
  <2>1. f \in [0..0 -> Seq(S)]
    OBVIOUS
  <2>2. Pass(f, s, positions, 0)
    BY DEF Pass
  <2> QED
    BY <2>1, <2>2
<1>2. ASSUME NEW n \in Nat, n \in T PROVE n + 1 \in T
  <2> SUFFICES ASSUME n + 1 <= Len(s)
               PROVE  \E g \in [0..n + 1 -> Seq(S)] : Pass(g, s, positions, n + 1)
    OBVIOUS
  <2>1. PICK f \in [0..n -> Seq(S)] : Pass(f, s, positions, n)
    BY <1>2
  <2> DEFINE next == IF n + 1 \in positions THEN Append(f[n], s[n + 1]) ELSE f[n]
             g == [i \in 0..n + 1 |-> IF i = n + 1 THEN next ELSE f[i]]
  <2>2. next \in Seq(S)
    BY s[n + 1] \in S, f[n] \in Seq(S)
  <2>3. g \in [0..n + 1 -> Seq(S)]
    BY <2>2
  <2>4. Pass(g, s, positions, n + 1)
    <3>1. g[0] = <<>>
      BY <2>1 DEF Pass
    <3>2. ASSUME NEW i \in 1..n + 1
          PROVE  g[i] = IF i \in positions THEN Append(g[i - 1], s[i]) ELSE g[i - 1]
      <4>1. CASE i = n + 1
        BY <4>1
      <4>2. CASE i # n + 1
        <5>1. i \in 1..n /\ g[i] = f[i] /\ g[i - 1] = f[i - 1]
          BY <4>2
        <5> QED
          BY <2>1, <5>1, Zenon DEF Pass
      <4> QED
        BY <4>1, <4>2
    <3> QED
      BY <3>1, <3>2, Zenon DEF Pass
  <2> QED
    BY <2>3, <2>4, Zenon
<1> HIDE DEF T
<1>3. Nat \subseteq T
  BY <1>1, <1>2, Induction
<1>4. Len(s) \in Nat /\ Len(s) \in T
  BY <1>3
<1> QED
  BY <1>4 DEF T

(* ...and in one way only.                                                 *)
LEMMA PassUnique ==
    ASSUME NEW s, NEW positions, NEW n \in Nat, NEW f, NEW g,
           Pass(f, s, positions, n), Pass(g, s, positions, n)
    PROVE  \A i \in 0..n : f[i] = g[i]
<1> DEFINE T == {i \in Nat : i <= n => f[i] = g[i]}
<1>1. 0 \in T
  BY DEF Pass
<1>2. ASSUME NEW i \in Nat, i \in T PROVE i + 1 \in T
  <2> SUFFICES ASSUME i + 1 <= n PROVE f[i + 1] = g[i + 1]
    OBVIOUS
  <2>1. i + 1 \in 1..n /\ (i + 1) - 1 = i /\ f[i] = g[i]
    BY <1>2
  <2> QED
    BY <2>1 DEF Pass
<1> HIDE DEF T
<1>3. Nat \subseteq T
  BY <1>1, <1>2, Induction
<1> QED
  BY <1>3 DEF T

(* Filter is what its loop has kept in the end.                            *)
LEMMA FilterIsPass ==
    ASSUME NEW S, NEW s \in Seq(S), NEW positions
    PROVE  \E f \in [0..Len(s) -> Seq(S)] :
              Pass(f, s, positions, Len(s)) /\ Filter(s, positions) = f[Len(s)]
<1> DEFINE IsLoop(f) ==
        f = [i \in 0..Len(s) |-> IF i = 0 THEN <<>>
                                 ELSE IF i \in positions THEN Append(f[i - 1], s[i])
                                 ELSE f[i - 1]]
           loop == CHOOSE f : IsLoop(f)
<1>1. Filter(s, positions) = loop[Len(s)]
  BY DEF Filter
<1>2. PICK f \in [0..Len(s) -> Seq(S)] : Pass(f, s, positions, Len(s))
  BY PassExists, Zenon
<1>3. IsLoop(f)
  <2>1. \A i \in 0..Len(s) : i # 0 => i \in 1..Len(s)
    OBVIOUS
  <2>2. ASSUME NEW i \in 0..Len(s)
        PROVE  f[i] = IF i = 0 THEN <<>>
                                 ELSE IF i \in positions THEN Append(f[i - 1], s[i])
                                 ELSE f[i - 1]
    BY <1>2, <2>1, Zenon DEF Pass
  <2> QED
    BY <2>2
<1>4. IsLoop(loop)
  BY <1>3, Zenon
<1> HIDE DEF loop
<1>5. Pass(loop, s, positions, Len(s))
  <2>1. Len(s) \in Nat
    OBVIOUS
  <2> DEFINE n == Len(s)
  <2> HIDE DEF n
  <2>2. n \in Nat
    BY <2>1 DEF n
  <2>3. loop = [i \in 0..n |-> IF i = 0 THEN <<>>
                                 ELSE IF i \in positions THEN Append(loop[i - 1], s[i])
                                 ELSE loop[i - 1]]
    BY <1>4, Zenon DEF n
  <2>4. \A i \in 0..n : loop[i] = IF i = 0 THEN <<>>
                                 ELSE IF i \in positions THEN Append(loop[i - 1], s[i])
                                 ELSE loop[i - 1]
    BY <2>3, Zenon
  <2>5. Pass(loop, s, positions, n)
    BY <2>2, <2>4 DEF Pass
  <2> QED
    BY <2>5 DEF n
<1>6. f[Len(s)] = loop[Len(s)]
  <2>1. Len(s) \in Nat
    OBVIOUS
  <2> QED
    BY <1>2, <1>5, <2>1, PassUnique
<1> QED
  BY <1>1, <1>2, <1>6

(* Nothing is kept of nothing.                                             *)
LEMMA FilterEmpty ==
    ASSUME NEW positions
    PROVE  Filter(<<>>, positions) = <<>>
<1> DEFINE s == <<>>
<1>1. s \in Seq({}) /\ Len(s) = 0
  OBVIOUS
<1> HIDE DEF s
<1>2. PICK f \in [0..Len(s) -> Seq({})] :
              Pass(f, s, positions, Len(s)) /\ Filter(s, positions) = f[Len(s)]
  BY <1>1, FilterIsPass, Zenon
<1>3. Filter(s, positions) = <<>>
  BY <1>1, <1>2 DEF Pass
<1> QED
  BY <1>3 DEF s

(* What is kept has the type of what it was taken from.                    *)
LEMMA FilterType ==
    ASSUME NEW S, NEW s \in Seq(S), NEW positions
    PROVE  Filter(s, positions) \in Seq(S)
<1>1. Len(s) \in 0..Len(s)
  OBVIOUS
<1> QED
  BY <1>1, FilterIsPass

(* A new last element is kept, or not, after what was kept before.         *)
LEMMA FilterAppend ==
    ASSUME NEW S, NEW s \in Seq(S), NEW x \in S, NEW P, NEW Q,
           \A i \in DOMAIN s : i \in P <=> i \in Q
    PROVE  Filter(Append(s, x), P) =
              IF Len(s) + 1 \in P THEN Append(Filter(s, Q), x) ELSE Filter(s, Q)
<1> DEFINE n == Len(s)
           t == Append(s, x)
<1>1. n \in Nat /\ t \in Seq(S) /\ Len(t) = n + 1 /\ t[n + 1] = x /\ DOMAIN s = 1..n
  OBVIOUS
<1>2. \A i \in 1..n : t[i] = s[i]
  OBVIOUS
<1>3. PICK f \in [0..n -> Seq(S)] : Pass(f, s, Q, n) /\ Filter(s, Q) = f[n]
  BY FilterIsPass, Zenon
<1> HIDE DEF t, n
<1>4. PICK g \in [0..n + 1 -> Seq(S)] : Pass(g, t, P, n + 1) /\ Filter(t, P) = g[n + 1]
  <2>1. \E g \in [0..Len(t) -> Seq(S)] :
           Pass(g, t, P, Len(t)) /\ Filter(t, P) = g[Len(t)]
    BY <1>1, FilterIsPass, Zenon
  <2> QED
    BY <1>1, <2>1, Zenon
<1>5. Pass(g, s, Q, n)
  <2>1. g[0] = <<>>
    BY <1>4 DEF Pass
  <2>2. ASSUME NEW i \in 1..n
        PROVE  g[i] = IF i \in Q THEN Append(g[i - 1], s[i]) ELSE g[i - 1]
    <3>1. i \in 1..n + 1
      BY <1>1
    <3>2. t[i] = s[i] /\ (i \in P <=> i \in Q)
      BY <1>1, <1>2, Zenon
    <3> QED
      BY <1>4, <3>1, <3>2 DEF Pass
  <2> QED
    BY <2>1, <2>2 DEF Pass
<1>6. f[n] = g[n]
  <2>1. n \in Nat /\ n \in 0..n /\ Pass(f, s, Q, n)
    BY <1>1, <1>3
  <2>2. \A i \in 0..n : f[i] = g[i]
    BY <1>5, <2>1, PassUnique, SMTT(60)
  <2> QED
    BY <2>1, <2>2, Zenon
<1>7. n + 1 \in 1..n + 1 /\ (n + 1) - 1 = n
  BY <1>1
<1>8. g[n + 1] = IF n + 1 \in P THEN Append(g[n], x) ELSE g[n]
  BY <1>1, <1>4, <1>7, Zenon DEF Pass
<1> QED
  BY <1>3, <1>4, <1>6, <1>8 DEF n, t

(* A slice without its last element.                                       *)
LEMMA SubSeqGrows ==
    ASSUME NEW S, NEW s \in Seq(S), NEW k \in 1..Len(s), NEW n \in k..Len(s)
    PROVE  SubSeq(s, k, n) = Append(SubSeq(s, k, n - 1), s[n])
<1>1. SubSeq(s, k, n - 1) \in Seq(S) /\ s[n] \in S
  OBVIOUS
<1> QED
  BY <1>1

(* Who keeps exactly what is past a position keeps the tail from there.    *)
LEMMA FilterTail ==
    ASSUME NEW S, NEW s \in Seq(S), NEW k \in 0..Len(s), NEW P,
           \A i \in DOMAIN s : i \in P <=> i > k
    PROVE  Filter(s, P) = SubSeq(s, k + 1, Len(s))
<1> DEFINE n == Len(s)
<1>1. n \in Nat /\ DOMAIN s = 1..n /\ k \in Nat /\ k <= n
  OBVIOUS
<1>2. PICK f \in [0..n -> Seq(S)] : Pass(f, s, P, n) /\ Filter(s, P) = f[n]
  BY FilterIsPass
<1> DEFINE T == {i \in Nat : i <= n => f[i] = SubSeq(s, k + 1, i)}
<1>3. ASSUME NEW i \in Nat, i <= k PROVE SubSeq(s, k + 1, i) = <<>>
  BY <1>1, <1>3, EmptySlice
<1>4. 0 \in T
  BY <1>1, <1>2, <1>3 DEF Pass
<1>5. ASSUME NEW i \in Nat, i \in T PROVE i + 1 \in T
  <2> SUFFICES ASSUME i + 1 <= n PROVE f[i + 1] = SubSeq(s, k + 1, i + 1)
    OBVIOUS
  <2>1. i + 1 \in 1..n /\ (i + 1) - 1 = i /\ i <= n
    BY <1>1
  <2>2. f[i] = SubSeq(s, k + 1, i)
    BY <1>5, <2>1
  <2>3. f[i + 1] = IF i + 1 \in P THEN Append(f[i], s[i + 1]) ELSE f[i]
    BY <1>2, <2>1 DEF Pass
  <2>4. i + 1 \in P <=> i + 1 > k
    BY <1>1, <2>1
  <2>5. CASE i + 1 <= k
    BY <1>1, <1>3, <2>2, <2>3, <2>4, <2>5
  <2>6. CASE i + 1 > k
    <3>1. k + 1 \in 1..Len(s) /\ i + 1 \in k + 1..Len(s)
      BY <1>1, <2>1, <2>6
    <3>2. SubSeq(s, k + 1, i + 1) = Append(SubSeq(s, k + 1, i), s[i + 1])
      BY <2>1, <3>1, SubSeqGrows, Zenon
    <3> QED
      BY <2>2, <2>3, <2>4, <2>6, <3>2
  <2> QED
    BY <1>1, <2>5, <2>6
<1> HIDE DEF T
<1>6. n \in T
  BY <1>1, <1>4, <1>5, Induction
<1> QED
  BY <1>1, <1>2, <1>6 DEF T
=============================================================================
