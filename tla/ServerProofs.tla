---------------------------- MODULE ServerProofs ----------------------------
(***************************************************************************)
(* Proofs about HttpRouting and Server: a documented request reaches the   *)
(* documented handler with its names, for any names and any targets that   *)
(* look like routes, and the process keeps its threads and sessions in     *)
(* order, for any number of connections, streams, threads and restarts.    *)
(***************************************************************************)
EXTENDS Server, FiniteSetTheorems, TLAPS

(* The smallest of a set of numbers with a smallest one.                   *)
LEMMA MinIs ==
    ASSUME NEW S \in SUBSET Nat, NEW k \in S, \A j \in S : k <= j
    PROVE  Min(S) = k
<1>1. /\ Min(S) \in S
      /\ \A j \in S : Min(S) <= j
  BY Zenon DEF Min
<1>2. Min(S) \in Nat /\ k \in Nat /\ Min(S) <= k /\ k <= Min(S)
  BY <1>1, Zenon
<1> QED
  BY <1>2

(* What a target is made of (the provers do not see that a word is a       *)
(* string).                                                                *)
Segment == STRING \cup {"api", "v1", "apps", "namespaces", "keys", "publish", "releases"}

(* A name is made of segments.                                             *)
LEMMA NameIs ==
    ASSUME NEW s \in Name
    PROVE  s \in Seq(Segment) /\ Len(s) \in Nat /\ Len(s) > 0
<1>1. s \in Seq(STRING) /\ s # <<>>
  BY DEF Name
<1>2. s \in Seq(Segment)
  BY <1>1 DEF Segment
<1> QED
  BY <1>1, <1>2

(* Where the segments of a prefix and of what follows are in a target.     *)
LEMMA Joined ==
    ASSUME NEW p \in Seq(Segment), NEW s \in Seq(Segment)
    PROVE  /\ p \o s \in Seq(Segment)
           /\ Len(p) \in Nat /\ Len(s) \in Nat /\ Len(p \o s) = Len(p) + Len(s)
           /\ \A i \in 1..Len(p) : (p \o s)[i] = p[i]
           /\ \A i \in Len(p) + 1..Len(p) + Len(s) : (p \o s)[i] = s[i - Len(p)]
           /\ SubSeq(p \o s, 1, Len(p)) = p
           /\ SubSeq(p \o s, Len(p) + 1, Len(p) + Len(s)) = s
  OBVIOUS

(* The first route whose condition holds is the one that is taken.         *)
LEMMA FirstRoute ==
    ASSUME NEW method, NEW target, NEW k \in 1..11,
           Routes(method, target)[k].on,
           \A j \in 1..k - 1 : ~Routes(method, target)[j].on
    PROVE  LET r == Routes(method, target)[k]
           IN  route(method, target) = IF method \in DOMAIN r.handlers
                                       THEN Call(r.handlers[method], r.args)
                                       ELSE Call("null", <<>>)
<1> DEFINE routes == Routes(method, target)
           S == {i \in DOMAIN routes : routes[i].on}
<1>1. DOMAIN routes = 1..11
  BY DEF Routes
<1> HIDE DEF routes
<1>2. S \in SUBSET Nat /\ k \in S /\ \A j \in S : k <= j
  BY <1>1 DEF routes
<1>3. Min(S) = k
  BY <1>2, MinIs
<1> QED
  BY <1>3, SMTT(30) DEF route, routes

(* A target /api/v1/x/..., for the x of applications or namespaces.        *)
Below(x, s) == <<"api", "v1", x>> \o s

(* Its segments.                                                           *)
IsBelow(target, x, s) ==
    /\ target \in Seq(Segment)
    /\ Len(s) \in Nat /\ Len(target) = 3 + Len(s)
    /\ target[1] = "api" /\ target[2] = "v1" /\ target[3] = x
    /\ \A i \in 4..3 + Len(s) : target[i] = s[i - 3]
    /\ SubSeq(target, 1, 3) = <<"api", "v1", x>>
    /\ SubSeq(target, 4, 3 + Len(s)) = s

(* They are where the parts are joined.                                    *)
LEMMA BelowIs ==
    ASSUME NEW x \in Segment, NEW s \in Seq(Segment)
    PROVE  IsBelow(Below(x, s), x, s)
<1> DEFINE p == <<"api", "v1", x>>
<1>1. p \in Seq(Segment)
  BY DEF Segment
<1>2. Len(p) = 3 /\ p[1] = "api" /\ p[2] = "v1" /\ p[3] = x
  OBVIOUS
<1> HIDE DEF p
<1>3. /\ p \o s \in Seq(Segment)
      /\ Len(p \o s) = Len(p) + Len(s)
      /\ \A i \in 1..Len(p) : (p \o s)[i] = p[i]
      /\ \A i \in Len(p) + 1..Len(p) + Len(s) : (p \o s)[i] = s[i - Len(p)]
      /\ SubSeq(p \o s, 1, Len(p)) = p
      /\ SubSeq(p \o s, Len(p) + 1, Len(p) + Len(s)) = s
  BY <1>1, Joined
<1> QED
  BY <1>1, <1>2, <1>3 DEF Below, IsBelow, p

(* Joining is associative.                                                 *)
LEMMA JoinAssociates ==
    ASSUME NEW p \in Seq(Segment), NEW s \in Seq(Segment), NEW t \in Seq(Segment)
    PROVE  (p \o s) \o t = p \o (s \o t)
  BY SMTT(30)

(* The conditions of the routes, in their order.                           *)
LEMMA Conditions ==
    ASSUME NEW method, NEW target
    PROVE  LET on(k) == Routes(method, target)[k].on
           IN  /\ on(1) <=> target = Health
               /\ on(2) <=> target = Login /\ method = "POST"
               /\ on(3) <=> target = Apps
               /\ on(4) <=> Under(target, Apps) /\ Word(target, "namespaces", 1) = {}
               /\ on(5) <=> Under(target, Apps) /\ Word(target, "namespaces", 1) # {}
               /\ on(6) <=> target = Namespaces /\ method = "POST"
               /\ on(7) <=> Under(target, Namespaces) /\ Keys(target, 1) # {}
               /\ on(8) <=> Under(target, Namespaces) /\ Word(target, "publish", 1) # {}
               /\ on(9) <=> Under(target, Namespaces) /\ Word(target, "releases", 1) # {}
               /\ on(10) <=> target = Notifications
  BY Zenon DEF Routes, Entry

(* The target of an application is none of the fixed ones.                 *)
LEMMA TargetOfApp ==
    ASSUME NEW s \in Seq(Segment), s # <<>>
    PROVE  LET target == Apps \o s
           IN  /\ target \notin {Health, Login, Apps}
               /\ Under(target, Apps)
<1> DEFINE target == Below("apps", s)
<1>1. "apps" \in Segment /\ target = Apps \o s
  BY DEF Below, Apps, Segment
<1>2. /\ Len(s) \in Nat /\ Len(s) > 0 /\ Len(target) = 3 + Len(s)
      /\ target[3] = "apps" /\ SubSeq(target, 1, 3) = Apps
  BY <1>1, BelowIs DEF Apps, IsBelow
<1>3. /\ Len(Health) = 1 /\ Len(Apps) = 3 /\ Login[3] = "auth"
  BY DEF Health, Login, Apps
<1> HIDE DEF target
<1>4. target # Health /\ target # Login /\ target # Apps
  <2>1. Len(target) # Len(Health) /\ Len(target) # Len(Apps) /\ target[3] # Login[3]
    BY <1>2, <1>3
  <2> QED
    BY <2>1, Zenon
<1>5. Under(target, Apps)
  BY <1>2, <1>3 DEF Under
<1> QED
  BY <1>1, <1>4, <1>5, Zenon

(* The target of a call: the name of an application or a namespace, the    *)
(* word of the route, and a key or nothing.                                *)
Parts(target, x, a, w, b) ==
    /\ target \in Seq(Segment)
    /\ Len(a) \in Nat /\ Len(b) \in Nat /\ Len(target) = 4 + Len(a) + Len(b)
    /\ target[1] = "api" /\ target[2] = "v1" /\ target[3] = x
    /\ \A i \in 4..3 + Len(a) : target[i] = a[i - 3]
    /\ target[4 + Len(a)] = w
    /\ SubSeq(target, 1, 3) = <<"api", "v1", x>>
    /\ SubSeq(target, 4, 3 + Len(a)) = a
    /\ From(target, 5 + Len(a)) = b

(* Its segments are where the parts are joined.                            *)
LEMMA BelowParts ==
    ASSUME NEW x \in Segment, NEW a \in Seq(Segment), NEW w \in Segment, NEW b \in Seq(Segment)
    PROVE  LET s == a \o <<w>> \o b
           IN  s \in Seq(Segment) /\ s # <<>> /\ Parts(Below(x, s), x, a, w, b)
<1> DEFINE s == a \o <<w>> \o b
           target == Below(x, s)
<1>1. Len(a) \in Nat /\ Len(b) \in Nat
  OBVIOUS
<1>2. /\ s \in Seq(Segment) /\ Len(s) = 1 + Len(a) + Len(b)
      /\ \A i \in 1..Len(a) : s[i] = a[i]
      /\ s[1 + Len(a)] = w
      /\ \A i \in 1..Len(b) : s[1 + Len(a) + i] = b[i]
  OBVIOUS
<1> HIDE DEF s
<1>3. /\ target \in Seq(Segment) /\ Len(target) = 3 + Len(s)
      /\ target[1] = "api" /\ target[2] = "v1" /\ target[3] = x
      /\ \A i \in 4..3 + Len(s) : target[i] = s[i - 3]
      /\ SubSeq(target, 1, 3) = <<"api", "v1", x>>
  <2>1. s \in Seq(Segment)
    BY <1>2
  <2>2. IsBelow(target, x, s)
    BY <2>1, BelowIs
  <2> HIDE DEF target
  <2> QED
    BY <2>2 DEF IsBelow
<1> HIDE DEF target
<1>4. ASSUME NEW i \in 4..3 + Len(a) PROVE target[i] = a[i - 3]
  <2>1. i - 3 \in 1..Len(a) /\ i \in 4..3 + Len(s)
    BY <1>1, <1>2
  <2> QED
    BY <1>2, <1>3, <2>1, Zenon
<1>5. target[4 + Len(a)] = w
  BY <1>1, <1>2, <1>3
<1>6. \A i \in 1..Len(b) : target[4 + Len(a) + i] = b[i]
  BY <1>1, <1>2, <1>3
<1>7. SubSeq(target, 4, 3 + Len(a)) = a
  BY <1>1, <1>2, <1>3, <1>4
<1>8. From(target, 5 + Len(a)) = b
  <2> DEFINE c == From(target, 5 + Len(a))
  <2>0. target \in Seq(Segment) /\ Len(target) = 4 + Len(a) + Len(b)
    BY <1>1, <1>2, <1>3
  <2>1. /\ c \in Seq(Segment) /\ Len(c) = Len(b)
        /\ \A j \in 1..Len(b) : c[j] = target[4 + Len(a) + j]
    BY <1>1, <2>0 DEF From
  <2> HIDE DEF c
  <2>2. \A j \in 1..Len(b) : c[j] = b[j]
    BY <1>6, <2>1, Zenon
  <2>3. c = b
    BY <2>1, <2>2
  <2> QED
    BY <2>3 DEF c
<1>9. s # <<>> /\ Len(target) = 4 + Len(a) + Len(b)
  BY <1>1, <1>2, <1>3
<1>10. Parts(target, x, a, w, b)
  BY <1>1, <1>3, <1>4, <1>5, <1>7, <1>8, <1>9, Zenon DEF Parts
<1> QED
  BY <1>2, <1>9, <1>10 DEF s, target

(* Where /keys/ is found first.                                            *)
LEMMA KeysFound ==
    ASSUME NEW target \in Seq(Segment), NEW k \in 1..Len(target) - 1,
           target[k] = "keys", \A i \in 1..k - 1 : target[i] # "keys",
           NEW from \in 1..k
    PROVE  Keys(target, from) # {} /\ Min(Keys(target, from)) = k
<1> DEFINE S == Keys(target, from)
<1>1. S \in SUBSET Nat /\ k \in S /\ \A j \in S : k <= j
  BY DEF Keys
<1> HIDE DEF S
<1> QED
  BY <1>1, MinIs DEF S

(* What the assumption on words says of each of them.                      *)
LEMMA Words ==
    /\ {"namespaces", "publish", "releases"} \subseteq DOMAIN Begins
    /\ \A x \in {"api", "v1", "apps"} : x \notin Begins["namespaces"]
    /\ "namespaces" \in Begins["namespaces"]
    /\ \A x \in {"api", "v1", "namespaces", "releases"} : x \notin Begins["publish"]
    /\ "publish" \in Begins["publish"]
    /\ \A x \in {"api", "v1", "namespaces"} : x \notin Begins["releases"]
    /\ "releases" \in Begins["releases"]
  BY RoutingAssumption

(* The form of the documented targets.                                     *)
LEMMA CallTarget ==
    ASSUME NEW p \in Seq(Segment), NEW a \in Seq(Segment), NEW w \in Segment,
           NEW b \in Seq(Segment)
    PROVE  /\ p \o a \o <<w>> \o b = p \o (a \o <<w>> \o b)
           /\ p \o a \o <<w>> = p \o (a \o <<w>> \o <<>>)
<1>1. <<w>> \in Seq(Segment) /\ a \o <<w>> \in Seq(Segment) /\ a \o <<w>> \o <<>> = a \o <<w>>
  OBVIOUS
<1>2. p \o a \o <<w>> = p \o (a \o <<w>>)
  BY <1>1, JoinAssociates
<1>3. (p \o (a \o <<w>>)) \o b = p \o (a \o <<w>> \o b)
  BY <1>1, JoinAssociates, SMTT(30)
<1> QED
  BY <1>1, <1>2, <1>3, Zenon

(* The documented target of a call, and what it is not.                    *)
LEMMA CallParts ==
    ASSUME NEW x \in {"apps", "namespaces"}, NEW a \in Seq(Segment), NEW w \in Segment,
           NEW b \in Seq(Segment)
    PROVE  LET prefix == <<"api", "v1", x>>
           IN  /\ Parts(prefix \o a \o <<w>> \o b, x, a, w, b)
               /\ Parts(prefix \o a \o <<w>>, x, a, w, <<>>)
<1> DEFINE prefix == <<"api", "v1", x>>
<1>1. x \in Segment /\ <<>> \in Seq(Segment) /\ prefix \in Seq(Segment)
  BY DEF Segment
<1>2. /\ Parts(Below(x, a \o <<w>> \o b), x, a, w, b)
      /\ Parts(Below(x, a \o <<w>> \o <<>>), x, a, w, <<>>)
  BY <1>1, BelowParts, Zenon
<1>3. /\ prefix \o a \o <<w>> \o b = prefix \o (a \o <<w>> \o b)
      /\ prefix \o a \o <<w>> = prefix \o (a \o <<w>> \o <<>>)
  BY <1>1, CallTarget, ZenonT(30)
<1> QED
  BY <1>2, <1>3, Zenon DEF Below

(* Such a target lies under the prefix of its kind, and is no fixed one.   *)
LEMMA PartsUnder ==
    ASSUME NEW target, NEW x \in {"apps", "namespaces"}, NEW a, NEW w, NEW b,
           Parts(target, x, a, w, b)
    PROVE  /\ target \notin {Health, Login, Apps, Namespaces}
           /\ Under(target, Apps) <=> x = "apps"
           /\ Under(target, Namespaces) <=> x = "namespaces"
<1>1. Len(target) > 3 /\ Len(target) # 1 /\ Len(target) # 3
  BY DEF Parts
<1>2. target[3] = x /\ SubSeq(target, 1, 3) = <<"api", "v1", x>>
  BY DEF Parts
<1>3. Len(Health) = 1 /\ Len(Apps) = 3 /\ Len(Namespaces) = 3 /\ Login[3] = "auth"
  BY DEF Health, Login, Apps, Namespaces
<1>4. target # Health /\ target # Login /\ target # Apps /\ target # Namespaces
  <2>1. x # "auth"
    OBVIOUS
  <2>2. target[3] # Login[3]
    BY <1>2, <1>3, <2>1, Zenon
  <2> QED
    BY <1>1, <1>3, <2>2, Zenon
<1>5. <<"api", "v1", x>> = Apps <=> x = "apps"
  BY DEF Apps
<1>6. <<"api", "v1", x>> = Namespaces <=> x = "namespaces"
  BY DEF Namespaces
<1>7. Under(target, Apps) <=> x = "apps"
  BY <1>1, <1>2, <1>3, <1>5, Zenon DEF Under
<1>8. Under(target, Namespaces) <=> x = "namespaces"
  BY <1>1, <1>2, <1>3, <1>6, Zenon DEF Under
<1> QED
  BY <1>4, <1>7, <1>8, Zenon

(* The segments before the word of the route are those of the prefix and   *)
(* of the name.                                                            *)
Behind(target, x, a) ==
    \A i \in 1..3 + Len(a) :
        target[i] \in {"api", "v1", x} \/ \E j \in DOMAIN a : target[i] = a[j]

(* So it is in every target that is made of such parts.                    *)
LEMMA PartsBefore ==
    ASSUME NEW target, NEW x, NEW a \in Seq(Segment), NEW w, NEW b, Parts(target, x, a, w, b)
    PROVE  Behind(target, x, a)
<1> SUFFICES ASSUME NEW i \in 1..3 + Len(a)
             PROVE  target[i] \in {"api", "v1", x} \/ \E j \in DOMAIN a : target[i] = a[j]
  BY Zenon DEF Behind
<1>1. CASE i \in 1..3
  BY <1>1 DEF Parts
<1>2. CASE i \in 4..3 + Len(a)
  <2>1. i - 3 \in DOMAIN a /\ target[i] = a[i - 3]
    BY <1>2 DEF Parts
  <2> QED
    BY <2>1, Zenon
<1> QED
  BY <1>1, <1>2

(* A request for a key of a namespace reaches its handler with the whole   *)
(* namespace and the whole key, whatever the key is.                       *)
LEMMA KeyRouted ==
    ASSUME NEW a \in Name, NEW key \in Name, \A i \in DOMAIN a : a[i] # "keys",
           NEW target, Parts(target, "namespaces", a, "keys", key),
           NEW method \in {"GET", "PUT", "DELETE"}
    PROVE  LET handlers == [GET |-> "handleGetConfig", PUT |-> "handleSetConfig",
                            DELETE |-> "handleDeleteConfig"]
           IN  route(method, target) = Call(handlers[method], <<a, key>>)
<1> DEFINE handlers == [GET |-> "handleGetConfig", PUT |-> "handleSetConfig",
                        DELETE |-> "handleDeleteConfig"]
           n == 4 + Len(a)
           R == Routes(method, target)
<1>1. a \in Seq(Segment) /\ Len(a) \in Nat /\ Len(a) > 0 /\ Len(key) \in Nat /\ Len(key) > 0
  BY NameIs
<1>2. /\ target \notin {Health, Login, Apps, Namespaces}
      /\ Under(target, Namespaces) /\ ~Under(target, Apps)
  BY PartsUnder
<1>3. \A i \in 1..3 + Len(a) : target[i] # "keys"
  <2>1. Behind(target, "namespaces", a)
    BY <1>1, PartsBefore
  <2> QED
    BY <2>1 DEF Behind
<1>4. /\ target \in Seq(Segment) /\ n \in 5..Len(target) - 1 /\ target[n] = "keys"
      /\ SubSeq(target, 4, n - 1) = a /\ From(target, n + 1) = key
  BY <1>1 DEF Parts
<1>5. \A i \in 1..n - 1 : target[i] # "keys"
  BY <1>1, <1>3
<1> HIDE DEF n
<1>6. \A from \in 1..5 : Keys(target, from) # {} /\ Min(Keys(target, from)) = n
  BY <1>4, <1>5, KeysFound, SMTT(30)
<1>7. R[7].on /\ ~R[1].on /\ ~R[2].on /\ ~R[3].on /\ ~R[4].on /\ ~R[5].on /\ ~R[6].on
  BY <1>2, <1>6, Conditions
<1>8. /\ R[7].handlers = handlers
      /\ R[7].args =
            <<extractPathParam(target, Keys(target, 5)),
              IF Keys(target, 1) = {} THEN <<>> ELSE From(target, Min(Keys(target, 1)) + 1)>>
  BY SMTT(30) DEF Routes, Entry
<1> HIDE DEF R
<1>9. R[7].args = <<a, key>>
  BY <1>4, <1>6, <1>8 DEF extractPathParam
<1>10. method \in DOMAIN R[7].handlers
  BY <1>8
<1>11. \A j \in 1..7 - 1 : ~R[j].on
  BY <1>7, SMTT(30)
<1>12. route(method, target) = Call(R[7].handlers[method], R[7].args)
  BY <1>7, <1>10, <1>11, FirstRoute, SMTT(30) DEF R
<1> QED
  BY <1>8, <1>9, <1>12, Zenon

(* The word of a route is first found behind a plain name.                 *)
LEMMA WordOfCall ==
    ASSUME NEW x, NEW word, NEW a \in Name, NEW target, Parts(target, x, a, word, <<>>)
    PROVE  /\ word \in Begins[word] /\ \A y \in {"api", "v1", x} : y \notin Begins[word]
           /\ \A i \in DOMAIN a : a[i] \notin Begins[word]
           => /\ Word(target, word, 1) # {}
              /\ extractPathParam(target, Word(target, word, 5)) = a
<1> DEFINE n == 4 + Len(a)
<1>1. a \in Seq(Segment) /\ Len(a) \in Nat /\ Len(a) > 0
  BY NameIs
<1>2. Behind(target, x, a)
  BY <1>1, PartsBefore
<1>3. /\ target \in Seq(Segment) /\ n \in 5..Len(target) /\ target[n] = word
      /\ SubSeq(target, 4, n - 1) = a /\ n - 1 = 3 + Len(a)
  BY <1>1 DEF Parts
<1> HIDE DEF n
<1>4. n \in 1..Len(target) /\ 1 \in 1..n /\ 5 \in 1..n
  BY <1>1, <1>3
<1> SUFFICES ASSUME word \in Begins[word], \A y \in {"api", "v1", x} : y \notin Begins[word],
                    \A i \in DOMAIN a : a[i] \notin Begins[word]
             PROVE  /\ Word(target, word, 1) # {}
                    /\ extractPathParam(target, Word(target, word, 5)) = a
  OBVIOUS
<1>5. \A i \in 1..n - 1 : target[i] \notin Begins[word]
  BY <1>2, <1>3, Zenon DEF Behind
<1>6. ASSUME NEW from \in {1, 5}
      PROVE  Word(target, word, from) # {} /\ Min(Word(target, word, from)) = n
  <2> DEFINE S == Word(target, word, from)
  <2>1. S \in SUBSET Nat
    BY DEF Word
  <2>2. n \in S
    BY <1>3, <1>4 DEF Word
  <2>3. \A j \in S : n <= j
    BY <1>3, <1>4, <1>5 DEF Word
  <2> HIDE DEF S
  <2> QED
    BY <2>1, <2>2, <2>3, MinIs DEF S
<1> QED
  BY <1>3, <1>6, Zenon DEF extractPathParam

(* /keys/ and the words of other routes are not found there.               *)
LEMMA NoKeys ==
    ASSUME NEW w, NEW a \in Name, NEW target, Parts(target, "namespaces", a, w, <<>>),
           \A i \in DOMAIN a : a[i] # "keys"
    PROVE  Keys(target, 1) = {}
<1>1. a \in Seq(Segment) /\ Len(a) \in Nat
  BY NameIs
<1>2. Behind(target, "namespaces", a)
  BY <1>1, PartsBefore
<1>3. \A i \in 1..3 + Len(a) : target[i] # "keys"
  BY <1>2 DEF Behind
<1>4. Len(target) - 1 = 3 + Len(a)
  BY DEF Parts
<1> QED
  BY <1>3, <1>4, Zenon DEF Keys

(* The word of the route to publish is not found in another target.        *)
LEMMA NoPublish ==
    ASSUME NEW a \in Name, NEW target, Parts(target, "namespaces", a, "releases", <<>>),
           \A i \in DOMAIN a : a[i] \notin Begins["publish"]
    PROVE  Word(target, "publish", 1) = {}
<1>1. a \in Seq(Segment) /\ Len(a) \in Nat
  BY NameIs
<1>2. Behind(target, "namespaces", a)
  BY <1>1, PartsBefore
<1>3. Len(target) = 4 + Len(a) /\ target[4 + Len(a)] = "releases"
  BY DEF Parts
<1>4. ASSUME NEW i \in 1..Len(target) PROVE target[i] \notin Begins["publish"]
  <2>1. i \in 1..3 + Len(a) \/ i = 4 + Len(a)
    BY <1>1, <1>3
  <2> QED
    BY <1>2, <1>3, <2>1, Words DEF Behind
<1> QED
  BY <1>4, Zenon DEF Word

(* A list of the namespaces of an application with a plain name.           *)
LEMMA NamespacesRouted ==
    ASSUME NEW a \in Name, NEW target, Parts(target, "apps", a, "namespaces", <<>>),
           \A i \in DOMAIN a : a[i] \notin Begins["namespaces"]
    PROVE  route("GET", target) = Call("handleListNamespaces", <<a>>)
<1> DEFINE R == Routes("GET", target)
<1>1. /\ target \notin {Health, Login, Apps, Namespaces}
      /\ Under(target, Apps)
  BY PartsUnder
<1>2. /\ Word(target, "namespaces", 1) # {}
      /\ extractPathParam(target, Word(target, "namespaces", 5)) = a
  BY Words, WordOfCall, SMTT(30)
<1>4. R[5].on
  BY <1>1, <1>2, Conditions, SMTT(30)
<1>5. ~R[1].on /\ ~R[2].on /\ ~R[3].on /\ ~R[4].on
  BY <1>1, <1>2, Conditions, SMTT(30)
<1>6. /\ R[5].handlers = [GET |-> "handleListNamespaces"]
      /\ R[5].args = <<extractPathParam(target, Word(target, "namespaces", 5))>>
  BY Zenon DEF Routes, Entry
<1> HIDE DEF R
<1>7. \A j \in 1..5 - 1 : ~R[j].on
  BY <1>5, SMTT(30)
<1>8. "GET" \in DOMAIN R[5].handlers /\ R[5].handlers["GET"] = "handleListNamespaces"
  BY <1>6 DEF AnyMethod, Methods
<1>9. route("GET", target) = Call(R[5].handlers["GET"], R[5].args)
  BY <1>4, <1>7, <1>8, FirstRoute, SMTT(30) DEF R
<1> QED
  BY <1>2, <1>6, <1>8, <1>9, Zenon

(* A publication of a namespace with a plain name.                         *)
LEMMA PublishRouted ==
    ASSUME NEW a \in Name, NEW target, Parts(target, "namespaces", a, "publish", <<>>),
           \A i \in DOMAIN a : a[i] # "keys" /\ a[i] \notin Begins["publish"]
    PROVE  route("POST", target) = Call("handlePublish", <<a>>)
<1> DEFINE R == Routes("POST", target)
<1>1. /\ target \notin {Health, Login, Apps, Namespaces}
      /\ Under(target, Namespaces) /\ ~Under(target, Apps)
  BY PartsUnder
<1>2. /\ Word(target, "publish", 1) # {}
      /\ extractPathParam(target, Word(target, "publish", 5)) = a
  BY Words, WordOfCall, SMTT(30)
<1>3. Keys(target, 1) = {}
  BY NoKeys
<1>4. R[8].on
  BY <1>1, <1>2, Conditions, SMTT(30)
<1>5. ~R[1].on /\ ~R[2].on /\ ~R[3].on /\ ~R[4].on /\ ~R[5].on /\ ~R[6].on /\ ~R[7].on
  BY <1>1, <1>2, <1>3, Conditions, SMTT(30)
<1>6. /\ R[8].handlers = AnyMethod("handlePublish")
      /\ R[8].args = <<extractPathParam(target, Word(target, "publish", 5))>>
  BY ZenonT(30) DEF Routes, Entry
<1> HIDE DEF R
<1>7. \A j \in 1..8 - 1 : ~R[j].on
  BY <1>5, SMTT(30)
<1>8. "POST" \in DOMAIN R[8].handlers /\ R[8].handlers["POST"] = "handlePublish"
  BY <1>6, SMTT(30) DEF AnyMethod, Methods
<1>9. route("POST", target) = Call(R[8].handlers["POST"], R[8].args)
  BY <1>4, <1>7, <1>8, FirstRoute, SMTT(30) DEF R
<1> QED
  BY <1>2, <1>6, <1>8, <1>9, Zenon

(* The releases of a namespace with a plain name.                          *)
LEMMA ReleasesRouted ==
    ASSUME NEW a \in Name, NEW target, Parts(target, "namespaces", a, "releases", <<>>),
           \A i \in DOMAIN a : /\ a[i] # "keys"
                                /\ a[i] \notin Begins["publish"] /\ a[i] \notin Begins["releases"]
    PROVE  route("GET", target) = Call("handleGetReleases", <<a>>)
<1> DEFINE R == Routes("GET", target)
<1>1. /\ target \notin {Health, Login, Apps, Namespaces}
      /\ Under(target, Namespaces) /\ ~Under(target, Apps)
  BY PartsUnder
<1>2. /\ Word(target, "releases", 1) # {}
      /\ extractPathParam(target, Word(target, "releases", 5)) = a
  BY Words, WordOfCall
<1>3. Keys(target, 1) = {} /\ Word(target, "publish", 1) = {}
  BY NoKeys, NoPublish, SMTT(30)
<1>4. R[9].on
  BY <1>1, <1>2, Conditions, SMTT(30)
<1>5. ~R[1].on /\ ~R[2].on /\ ~R[3].on /\ ~R[4].on /\ ~R[5].on /\ ~R[6].on /\ ~R[7].on /\ ~R[8].on
  BY <1>1, <1>2, <1>3, Conditions, SMTT(30)
<1>6. /\ R[9].handlers = AnyMethod("handleGetReleases")
      /\ R[9].args = <<extractPathParam(target, Word(target, "releases", 5))>>
  BY ZenonT(30) DEF Routes, Entry
<1> HIDE DEF R
<1>7. \A j \in 1..9 - 1 : ~R[j].on
  BY <1>5, SMTT(30)
<1>8. "GET" \in DOMAIN R[9].handlers /\ R[9].handlers["GET"] = "handleGetReleases"
  BY <1>6, SMTT(30) DEF AnyMethod, Methods
<1>9. route("GET", target) = Call(R[9].handlers["GET"], R[9].args)
  BY <1>4, <1>7, <1>8, FirstRoute, SMTT(30) DEF R
<1> QED
  BY <1>2, <1>6, <1>8, <1>9, Zenon

(* An application with a plain name.                                       *)
LEMMA AppRouted ==
    ASSUME NEW a \in Name, \A i \in DOMAIN a : a[i] \notin Begins["namespaces"],
           NEW method \in {"GET", "DELETE"}
    PROVE  LET handlers == [GET |-> "handleGetApp", DELETE |-> "handleDeleteApp"]
           IN  route(method, Apps \o a) = Call(handlers[method], <<a>>)
<1> DEFINE handlers == [GET |-> "handleGetApp", DELETE |-> "handleDeleteApp"]
           target == Apps \o a
           R == Routes(method, target)
<1>1. a \in Seq(Segment) /\ Len(a) \in Nat /\ Len(a) > 0 /\ a # <<>>
  BY NameIs
<1>2. target \notin {Health, Login, Apps} /\ Under(target, Apps)
  BY <1>1, TargetOfApp
<1>3. "apps" \in Segment /\ target = Below("apps", a)
  BY DEF Segment, Below, Apps
<1> HIDE DEF target
<1>4. /\ Len(target) = 3 + Len(a)
      /\ target[1] = "api" /\ target[2] = "v1" /\ target[3] = "apps"
      /\ \A i \in 4..3 + Len(a) : target[i] = a[i - 3]
      /\ SubSeq(target, 4, 3 + Len(a)) = a
  <2>1. a \in Seq(Segment) /\ "apps" \in Segment
    BY <1>1, <1>3
  <2>2. IsBelow(Below("apps", a), "apps", a)
    BY <2>1, BelowIs
  <2>3. IsBelow(target, "apps", a)
    BY <1>3, <2>2
  <2> QED
    BY <2>3 DEF IsBelow
<1>5. Word(target, "namespaces", 1) = {}
  <2>1. ASSUME NEW i \in 1..Len(target) PROVE target[i] \notin Begins["namespaces"]
    <3>1. CASE i \in 1..3
      <4>1. target[i] \in {"api", "v1", "apps"}
        BY <1>4, <3>1
      <4> QED
        BY <4>1, Words, Zenon
    <3>2. CASE i \in 4..3 + Len(a)
      <4>1. i - 3 \in DOMAIN a /\ target[i] = a[i - 3]
        BY <1>1, <1>4, <3>2
      <4> QED
        BY <4>1, Zenon
    <3> QED
      BY <1>1, <1>4, <3>1, <3>2
  <2> QED
    BY <2>1, Zenon DEF Word
<1>6. From(target, 4) = a
  BY <1>4, Zenon DEF From
<1>7. R[4].on /\ ~R[1].on /\ ~R[2].on /\ ~R[3].on
  BY <1>2, <1>5, Conditions, SMTT(30)
<1>8. R[4].handlers = handlers /\ R[4].args = <<From(target, 4)>>
  BY Zenon DEF Routes, Entry
<1> HIDE DEF R
<1>9. method \in DOMAIN R[4].handlers /\ \A j \in 1..4 - 1 : ~R[j].on
  BY <1>7, <1>8, SMTT(30)
<1>10. route(method, target) = Call(R[4].handlers[method], R[4].args)
  BY <1>7, <1>9, FirstRoute, SMTT(30) DEF R
<1> QED
  BY <1>6, <1>8, <1>10, Zenon DEF target

(* The fixed targets are told apart, and lie under no other one.           *)
LEMMA FixedTargets ==
    /\ Login # Health
    /\ Apps \notin {Health, Login}
    /\ Namespaces \notin {Health, Login, Apps}
    /\ Notifications \notin {Health, Login, Apps, Namespaces}
    /\ \A target \in {Apps, Namespaces, Notifications} :
         ~Under(target, Apps) /\ ~Under(target, Namespaces)
<1>1. /\ Len(Health) = 1 /\ Len(Login) = 4 /\ Len(Apps) = 3 /\ Len(Namespaces) = 3
      /\ Len(Notifications) = 3
  BY DEF Health, Login, Apps, Namespaces, Notifications
<1>2. Apps[3] = "apps" /\ Namespaces[3] = "namespaces" /\ Notifications[3] = "notifications"
  BY DEF Apps, Namespaces, Notifications
<1>3. Login # Health /\ Apps \notin {Health, Login} /\ Namespaces \notin {Health, Login}
      /\ Notifications \notin {Health, Login}
  BY <1>1
<1>4. Namespaces # Apps /\ Notifications # Apps /\ Notifications # Namespaces
  BY <1>2
<1>5. ASSUME NEW target \in {Apps, Namespaces, Notifications}
      PROVE  ~Under(target, Apps) /\ ~Under(target, Namespaces)
  BY <1>1, SMTT(30) DEF Under
<1> QED
  BY <1>3, <1>4, <1>5, Zenon

(* A request for a fixed target is served by the handler of its method.    *)
LEMMA FixedRouted ==
    /\ route("GET", Health) = Call("handleHealth", <<>>)
    /\ route("POST", Login) = Call("handleLogin", <<>>)
    /\ route("POST", Apps) = Call("handleCreateApp", <<>>)
    /\ route("GET", Apps) = Call("handleListApps", <<>>)
    /\ route("POST", Namespaces) = Call("handleCreateNamespace", <<>>)
    /\ route("GET", Notifications) = Call("handleNotifications", <<>>)
<1>1. route("GET", Health) = Call("handleHealth", <<>>)
  <2> DEFINE R == Routes("GET", Health)
  <2>1. R[1].on /\ \A j \in 1..1 - 1 : ~R[j].on
    BY FixedTargets, Conditions, SMTT(30)
  <2>2. R[1].handlers = AnyMethod("handleHealth") /\ R[1].args = <<>>
    BY DEF Routes, Entry
  <2> HIDE DEF R
  <2>3. "GET" \in DOMAIN R[1].handlers /\ R[1].handlers["GET"] = "handleHealth"
    BY <2>2, SMTT(30) DEF AnyMethod, Methods
  <2>4. route("GET", Health) = Call(R[1].handlers["GET"], R[1].args)
    BY <2>1, <2>3, FirstRoute, SMTT(30) DEF R
  <2> QED
    BY <2>2, <2>3, <2>4, Zenon
<1>2. route("POST", Login) = Call("handleLogin", <<>>)
  <2> DEFINE R == Routes("POST", Login)
  <2>1. R[2].on /\ \A j \in 1..2 - 1 : ~R[j].on
    BY FixedTargets, Conditions, SMTT(30)
  <2>2. R[2].handlers = AnyMethod("handleLogin") /\ R[2].args = <<>>
    BY DEF Routes, Entry
  <2> HIDE DEF R
  <2>3. "POST" \in DOMAIN R[2].handlers /\ R[2].handlers["POST"] = "handleLogin"
    BY <2>2, SMTT(30) DEF AnyMethod, Methods
  <2>4. route("POST", Login) = Call(R[2].handlers["POST"], R[2].args)
    BY <2>1, <2>3, FirstRoute, SMTT(30) DEF R
  <2> QED
    BY <2>2, <2>3, <2>4, Zenon
<1>3. route("POST", Apps) = Call("handleCreateApp", <<>>)
  <2> DEFINE R == Routes("POST", Apps)
  <2>1. R[3].on /\ \A j \in 1..3 - 1 : ~R[j].on
    BY FixedTargets, Conditions, SMTT(30)
  <2>2. R[3].handlers = [POST |-> "handleCreateApp", GET |-> "handleListApps"] /\ R[3].args = <<>>
    BY DEF Routes, Entry
  <2> HIDE DEF R
  <2>3. "POST" \in DOMAIN R[3].handlers /\ R[3].handlers["POST"] = "handleCreateApp"
    BY <2>2 DEF AnyMethod, Methods
  <2>4. route("POST", Apps) = Call(R[3].handlers["POST"], R[3].args)
    BY <2>1, <2>3, FirstRoute, SMTT(30) DEF R
  <2> QED
    BY <2>2, <2>3, <2>4, Zenon
<1>4. route("GET", Apps) = Call("handleListApps", <<>>)
  <2> DEFINE R == Routes("GET", Apps)
  <2>1. R[3].on /\ \A j \in 1..3 - 1 : ~R[j].on
    BY FixedTargets, Conditions, SMTT(30)
  <2>2. R[3].handlers = [POST |-> "handleCreateApp", GET |-> "handleListApps"] /\ R[3].args = <<>>
    BY DEF Routes, Entry
  <2> HIDE DEF R
  <2>3. "GET" \in DOMAIN R[3].handlers /\ R[3].handlers["GET"] = "handleListApps"
    BY <2>2, SMTT(30) DEF AnyMethod, Methods
  <2>4. route("GET", Apps) = Call(R[3].handlers["GET"], R[3].args)
    BY <2>1, <2>3, FirstRoute, SMTT(30) DEF R
  <2> QED
    BY <2>2, <2>3, <2>4, Zenon
<1>5. route("POST", Namespaces) = Call("handleCreateNamespace", <<>>)
  <2> DEFINE R == Routes("POST", Namespaces)
  <2>1. R[6].on /\ \A j \in 1..6 - 1 : ~R[j].on
    BY FixedTargets, Conditions, SMTT(30)
  <2>2. R[6].handlers = AnyMethod("handleCreateNamespace") /\ R[6].args = <<>>
    BY DEF Routes, Entry
  <2> HIDE DEF R
  <2>3. "POST" \in DOMAIN R[6].handlers /\ R[6].handlers["POST"] = "handleCreateNamespace"
    BY <2>2, SMTT(30) DEF AnyMethod, Methods
  <2>4. route("POST", Namespaces) = Call(R[6].handlers["POST"], R[6].args)
    BY <2>1, <2>3, FirstRoute, SMTT(30) DEF R
  <2> QED
    BY <2>2, <2>3, <2>4, Zenon
<1>6. route("GET", Notifications) = Call("handleNotifications", <<>>)
  <2> DEFINE R == Routes("GET", Notifications)
  <2>1. R[10].on /\ \A j \in 1..10 - 1 : ~R[j].on
    BY FixedTargets, Conditions, SMTT(30)
  <2>2. R[10].handlers = AnyMethod("handleNotifications") /\ R[10].args = <<>>
    BY DEF Routes, Entry
  <2> HIDE DEF R
  <2>3. "GET" \in DOMAIN R[10].handlers /\ R[10].handlers["GET"] = "handleNotifications"
    BY <2>2, SMTT(30) DEF AnyMethod, Methods
  <2>4. route("GET", Notifications) = Call(R[10].handlers["GET"], R[10].args)
    BY <2>1, <2>3, FirstRoute, SMTT(30) DEF R
  <2> QED
    BY <2>2, <2>3, <2>4, Zenon
<1> QED
  BY <1>1, <1>2, <1>3, <1>4, <1>5, <1>6, Zenon

(* For every documented call but the long poll, the target that the        *)
(* documentation gives for it leads handleRequest to this call: to its     *)
(* handler, with the names it was given, of any length and spelling, as    *)
(* long as no segment of the application or the namespace begins with the  *)
(* word of a route.  The key may be anything.                              *)
THEOREM RoutingCorrect ==
    ASSUME NEW call \in Documented, call.op # "longPoll", PlainNames(call)
    PROVE  LET request == DocumentedRequest(call)
           IN  route(request.method, request.target) = call
<1> DEFINE request == DocumentedRequest(call)
           Goal == route(request.method, request.target) = call
<1>1. /\ call = Call(call.op, call.args) /\ call.args \in Seq(Name) /\ Len(call.args) \in Nat
      /\ \/ call.op \in Nameless /\ Len(call.args) = 0
         \/ call.op \in OfApp \cup OfNamespace /\ Len(call.args) = 1
         \/ call.op \in OfKey /\ Len(call.args) = 2
  BY DEF Documented, Call
<1>2. CASE call.op \in Nameless /\ Len(call.args) = 0
  <2>1. call = Call(call.op, <<>>)
    BY <1>1, <1>2
  <2>2. CASE call.op = "handleHealth"
    BY <2>1, <2>2, FixedRouted DEF DocumentedRequest, Request
  <2>3. CASE call.op = "handleLogin"
    BY <2>1, <2>3, FixedRouted DEF DocumentedRequest, Request
  <2>4. CASE call.op = "handleCreateApp"
    BY <2>1, <2>4, FixedRouted DEF DocumentedRequest, Request
  <2>5. CASE call.op = "handleListApps"
    BY <2>1, <2>5, FixedRouted DEF DocumentedRequest, Request
  <2>6. CASE call.op = "handleCreateNamespace"
    BY <2>1, <2>6, FixedRouted DEF DocumentedRequest, Request
  <2>7. CASE call.op = "handleNotifications"
    BY <2>1, <2>7, FixedRouted DEF DocumentedRequest, Request
  <2> QED
    BY <1>2, <2>2, <2>3, <2>4, <2>5, <2>6, <2>7 DEF Nameless
<1>3. ASSUME call.args # <<>>, NEW a, a = call.args[1], a \in Name
      PROVE  /\ \A i \in DOMAIN a : a[i] # "keys"
             /\ \A word \in {"namespaces", "publish", "releases"} :
                   \A i \in DOMAIN a : a[i] \notin Begins[word]
  BY <1>3, Words DEF PlainNames
<1>4. CASE call.op \in OfApp \cup OfNamespace /\ Len(call.args) = 1
  <2> DEFINE a == call.args[1]
  <2>1. call.args # <<>> /\ a \in Name /\ call = Call(call.op, <<a>>)
    BY <1>1, <1>4
  <2> HIDE DEF a
  <2>2. /\ \A i \in DOMAIN a : a[i] # "keys"
        /\ \A word \in {"namespaces", "publish", "releases"} :
              \A i \in DOMAIN a : a[i] \notin Begins[word]
    BY <1>3, <2>1 DEF a
  <2>3. /\ Parts(Apps \o a \o <<"namespaces">>, "apps", a, "namespaces", <<>>)
        /\ Parts(Namespaces \o a \o <<"publish">>, "namespaces", a, "publish", <<>>)
        /\ Parts(Namespaces \o a \o <<"releases">>, "namespaces", a, "releases", <<>>)
    <3>1. /\ a \in Seq(Segment) /\ "namespaces" \in Segment /\ "publish" \in Segment
          /\ "releases" \in Segment /\ <<>> \in Seq(Segment)
      BY <2>1, NameIs DEF Segment
    <3> QED
      BY <3>1, CallParts, Zenon DEF Apps, Namespaces
  <2>4. CASE call.op = "handleGetApp"
    <3>1. request = Request("GET", Apps \o a)
      BY <2>4 DEF DocumentedRequest, a
    <3>2. route("GET", Apps \o a) = Call("handleGetApp", <<a>>)
      BY <2>1, <2>2, AppRouted, SMTT(30)
    <3> QED
      BY <2>1, <2>4, <3>1, <3>2 DEF Request
  <2>5. CASE call.op = "handleDeleteApp"
    <3>1. request = Request("DELETE", Apps \o a)
      BY <2>5 DEF DocumentedRequest, a
    <3>2. route("DELETE", Apps \o a) = Call("handleDeleteApp", <<a>>)
      BY <2>1, <2>2, AppRouted, SMTT(30)
    <3> QED
      BY <2>1, <2>5, <3>1, <3>2 DEF Request
  <2>6. CASE call.op = "handleListNamespaces"
    <3>1. request = Request("GET", Apps \o a \o <<"namespaces">>)
      BY <2>6, SMTT(30) DEF DocumentedRequest, a
    <3>2. route("GET", Apps \o a \o <<"namespaces">>) = Call("handleListNamespaces", <<a>>)
      BY <2>1, <2>2, <2>3, NamespacesRouted, SMTT(30)
    <3> QED
      BY <2>1, <2>6, <3>1, <3>2 DEF Request
  <2>7. CASE call.op = "handlePublish"
    <3>1. request = Request("POST", Namespaces \o a \o <<"publish">>)
      BY <2>7, SMTT(30) DEF DocumentedRequest, a
    <3>2. route("POST", Namespaces \o a \o <<"publish">>) = Call("handlePublish", <<a>>)
      BY <2>1, <2>2, <2>3, PublishRouted
    <3> QED
      BY <2>1, <2>7, <3>1, <3>2 DEF Request
  <2>8. CASE call.op = "handleGetReleases"
    <3>1. request = Request("GET", Namespaces \o a \o <<"releases">>)
      BY <2>8, SMTT(30) DEF DocumentedRequest, a
    <3>2. route("GET", Namespaces \o a \o <<"releases">>) = Call("handleGetReleases", <<a>>)
      BY <2>1, <2>2, <2>3, ReleasesRouted
    <3> QED
      BY <2>1, <2>8, <3>1, <3>2 DEF Request
  <2> QED
    BY <1>4, <2>4, <2>5, <2>6, <2>7, <2>8 DEF OfApp, OfNamespace
<1>5. CASE call.op \in OfKey /\ Len(call.args) = 2
  <2> DEFINE a == call.args[1]
             key == call.args[2]
             target == Namespaces \o a \o <<"keys">> \o key
  <2>1. call.args # <<>> /\ a \in Name /\ key \in Name /\ call = Call(call.op, <<a, key>>)
    BY <1>1, <1>5
  <2> HIDE DEF a, key
  <2>2. \A i \in DOMAIN a : a[i] # "keys"
    BY <1>3, <2>1 DEF a
  <2>3. Parts(target, "namespaces", a, "keys", key)
    <3>1. a \in Seq(Segment) /\ key \in Seq(Segment) /\ "keys" \in Segment
      BY <2>1, NameIs DEF Segment
    <3> QED
      BY <3>1, CallParts, Zenon DEF Namespaces
  <2> HIDE DEF target
  <2>4. CASE call.op = "handleGetConfig"
    <3>1. request = Request("GET", target)
      BY <2>4 DEF DocumentedRequest, a, key, target
    <3>2. route("GET", target) = Call("handleGetConfig", <<a, key>>)
      BY <2>1, <2>2, <2>3, KeyRouted, SMTT(30)
    <3> QED
      BY <2>1, <2>4, <3>1, <3>2 DEF Request
  <2>5. CASE call.op = "handleSetConfig"
    <3>1. request = Request("PUT", target)
      BY <2>5 DEF DocumentedRequest, a, key, target
    <3>2. route("PUT", target) = Call("handleSetConfig", <<a, key>>)
      BY <2>1, <2>2, <2>3, KeyRouted
    <3> QED
      BY <2>1, <2>5, <3>1, <3>2 DEF Request
  <2>6. CASE call.op = "handleDeleteConfig"
    <3>1. request = Request("DELETE", target)
      BY <2>6 DEF DocumentedRequest, a, key, target
    <3>2. route("DELETE", target) = Call("handleDeleteConfig", <<a, key>>)
      BY <2>1, <2>2, <2>3, KeyRouted
    <3> QED
      BY <2>1, <2>6, <3>1, <3>2 DEF Request
  <2> QED
    BY <1>5, <2>4, <2>5, <2>6 DEF OfKey
<1> QED
  BY <1>1, <1>2, <1>4, <1>5, Zenon

-----------------------------------------------------------------------------
(* The inductive invariant of the process.  TypeOK does not say which      *)
(* threads there are while main has started none (a restart would leave    *)
(* more than numThreads), that the connections in a handler are finitely   *)
(* many (without it their number is no number), or what a session that     *)
(* writes has done.                                                        *)
Handling == {c \in Connections : conn[c].state = "handling"}

AllRequests == UNION {Wanted[c] : c \in Connections}

Sessions ==
    [state : {"none", "backlog", "reading", "handling", "writing", "answered", "gone"},
     sent : BOOLEAN, request : AllRequests \cup {NoRequest},
     did : {Call("null", <<>>)} \cup {routed[call] : call \in Asked},
     status : Nat, code : Nat, peer : BOOLEAN]

SessionOK(c, session) ==
    /\ session \in Sessions
    /\ session.request \in Wanted[c] \cup {NoRequest}
    /\ session.state \in {"handling", "writing"} <=> session.request # NoRequest
    /\ session.state = "writing" => session.did = routed[session.request.call]

SessionsOK ==
    /\ conn \in [Connections -> Sessions]
    /\ \A c \in Connections : SessionOK(c, conn[c])

HandlersHaveThreads == IsFiniteSet(Handling) /\ Cardinality(Handling) <= threads

StreamsOK ==
    /\ stream \in [Streams -> {"none", "check", "write", "sleep", "done"}]
    /\ cancelled \in [Streams -> BOOLEAN]

ProcessOK ==
    /\ file \in Files
    /\ main \in {"parseFile", "store", "http", "spawn", "grpc", "join", "stop"} \cup Ended
    /\ numThreads \in Nat /\ threads \in Nat /\ faults \in Nat /\ restarts \in Nat
    /\ threads <= numThreads
    /\ main \in {"parseFile", "store", "http"} \cup Ended => threads = 0

SettingsOK == DOMAIN settings = DOMAIN Defaults /\ settings.http_threads \in Int

FlagsOK == accepting \in BOOLEAN /\ grpcUp \in BOOLEAN

ServerInv ==
    ProcessOK /\ SettingsOK /\ FlagsOK /\ SessionsOK /\ HandlersHaveThreads /\ StreamsOK

(* What the invariant says of the types.                                   *)
LEMMA InvTypes == ServerInv => TypeOK
<1> SUFFICES ASSUME ServerInv
             PROVE  TypeOK
  OBVIOUS
<1>1. {numThreads, threads, faults, restarts} \subseteq Nat
  BY SMTT(30) DEF ServerInv, ProcessOK
<1>2. ASSUME NEW c \in Connections
      PROVE  /\ conn[c].state \in {"none", "backlog", "reading", "handling", "writing",
                                   "answered", "gone"}
             /\ conn[c].request \in Wanted[c] \cup {NoRequest}
             /\ conn[c].state \in {"handling", "writing"} <=> conn[c].request # NoRequest
  BY DEF ServerInv, SessionsOK, SessionOK, Sessions
<1> QED
  BY <1>1, <1>2, Zenon DEF ServerInv, ProcessOK, SettingsOK, FlagsOK, HandlersHaveThreads,
                           Handling, StreamsOK, TypeOK

(* A session that is over, or has not begun.                               *)
LEMMA OverIs ==
    ASSUME NEW c \in Connections, NEW state \in {"none", "answered", "gone"}
    PROVE  SessionOK(c, Over(state)) /\ Over(state).state = state
  BY Zenon DEF Over, Fresh, SessionOK, Sessions

(* A connection that is not made yet.                                      *)
LEMMA FreshIs ==
    ASSUME NEW c \in Connections
    PROVE  SessionOK(c, Fresh) /\ Fresh.state = "none"
  BY DEF Fresh, SessionOK, Sessions

(* No connection is in a handler, and no thread is needed.                 *)
LEMMA NoHandler ==
    ASSUME NEW S, S = {}
    PROVE  IsFiniteSet(S) /\ Cardinality(S) = 0
  BY FS_EmptySet

(* The process begins.                                                     *)
LEMMA ServerBegins == Init => ServerInv
<1> SUFFICES ASSUME Init
             PROVE  ServerInv
  OBVIOUS
<1>1. ProcessOK /\ SettingsOK
  BY DEF Init, ProcessOK, SettingsOK, Defaults
<1>5. FlagsOK
  BY ZenonT(30) DEF Init, FlagsOK
<1>2. SessionsOK /\ Handling = {}
  <2>1. \A c \in Connections : conn[c] = Fresh
    BY DEF Init
  <2>2. conn = [c \in Connections |-> Fresh]
    BY DEF Init
  <2> QED
    BY <2>1, <2>2, FreshIs, Zenon DEF SessionsOK, Handling, SessionOK
<1>3. HandlersHaveThreads
  BY <1>2, NoHandler DEF HandlersHaveThreads, Init
<1>4. StreamsOK
  BY DEF Init, StreamsOK
<1> QED
  BY <1>1, <1>2, <1>3, <1>4, <1>5 DEF ServerInv

(* The end of the process leaves no thread, and no connection in a         *)
(* handler.                                                                *)
LEMMA EndKeeps ==
    ASSUME ServerInv, NEW how \in Ended, End(how), faults' \in Nat
    PROVE  ServerInv'
<1>1. ProcessOK' /\ SettingsOK'
  BY DEF ServerInv, End, ProcessOK, SettingsOK, Ended
<1>5. FlagsOK'
  BY Zenon DEF End, FlagsOK
<1>2. SessionsOK' /\ Handling' = {}
  <2>1. \A c \in Connections :
           SessionOK(c, conn'[c]) /\ conn'[c].state # "handling"
    BY OverIs DEF ServerInv, SessionsOK, End
  <2>2. conn' \in [Connections -> Sessions]
    BY <2>1 DEF End, SessionOK
  <2>3. \A c \in Connections : SessionOK(c, conn[c])' <=> SessionOK(c, conn'[c])
    BY DEF SessionOK
  <2> QED
    BY <2>1, <2>2, <2>3, SMTT(30) DEF SessionsOK, Handling
<1>3. HandlersHaveThreads'
  BY <1>2, NoHandler DEF HandlersHaveThreads, End
<1>4. StreamsOK'
  BY DEF ServerInv, StreamsOK, End
<1> QED
  BY <1>1, <1>2, <1>3, <1>4, <1>5, SMTT(30) DEF ServerInv

(* A step that leaves the sessions and the threads alone.                  *)
LEMMA SessionsKept ==
    ASSUME ServerInv, UNCHANGED <<conn, threads>>
    PROVE  SessionsOK' /\ HandlersHaveThreads'
<1>1. Handling' = Handling
  BY DEF Handling
<1>2. \A c \in Connections : SessionOK(c, conn[c])' <=> SessionOK(c, conn[c])
  BY DEF SessionOK
<1> QED
  BY <1>1, <1>2 DEF ServerInv, SessionsOK, HandlersHaveThreads

(* One session changes.  It goes into a handler only on a thread that runs *)
(* no other.                                                               *)
LEMMA SessionChanges ==
    ASSUME ServerInv, NEW c \in Connections, NEW session, SessionOK(c, session),
           conn' = [conn EXCEPT ![c] = session], UNCHANGED threads,
           session.state = "handling" => conn[c].state = "handling" \/ FreeThread
    PROVE  SessionsOK' /\ HandlersHaveThreads'
<1>1. /\ conn \in [Connections -> Sessions] /\ \A d \in Connections : SessionOK(d, conn[d])
      /\ IsFiniteSet(Handling) /\ Cardinality(Handling) <= threads /\ threads \in Nat
  BY DEF ServerInv, SessionsOK, HandlersHaveThreads, ProcessOK
<1>2. SessionsOK'
  <2>1. \A d \in Connections : SessionOK(d, conn'[d])
    BY <1>1, SMTT(30)
  <2>2. \A d \in Connections : SessionOK(d, conn[d])' <=> SessionOK(d, conn'[d])
    BY DEF SessionOK
  <2>3. conn' \in [Connections -> Sessions]
    BY <1>1 DEF SessionOK
  <2> QED
    BY <2>1, <2>2, <2>3 DEF SessionsOK
<1>3. HandlersHaveThreads'
  <2>1. Handling' \subseteq Handling \cup {c}
    BY <1>1 DEF Handling
  <2>2. CASE Handling' \subseteq Handling
    <3>1. IsFiniteSet(Handling') /\ Cardinality(Handling') <= Cardinality(Handling)
      BY <1>1, <2>2, FS_Subset
    <3>2. Cardinality(Handling) \in Nat /\ Cardinality(Handling') \in Nat
      BY <1>1, <3>1, FS_CardinalityType
    <3> QED
      BY <1>1, <3>1, <3>2 DEF HandlersHaveThreads
  <2>3. CASE ~(Handling' \subseteq Handling)
    <3>1. Handling' = Handling \cup {c} /\ c \notin Handling
      BY <1>1, <2>1, <2>3 DEF Handling
    <3>2. conn[c].state # "handling" /\ session.state = "handling"
      BY <1>1, <3>1 DEF Handling
    <3>3. Cardinality(Handling) < threads
      BY <3>2 DEF FreeThread, Handling
    <3>4. /\ IsFiniteSet(Handling \cup {c})
          /\ Cardinality(Handling \cup {c}) = Cardinality(Handling) + 1
      BY <1>1, <3>1, FS_AddElement
    <3>5. Cardinality(Handling) \in Nat
      BY <1>1, FS_CardinalityType
    <3>6. Cardinality(Handling) + 1 <= threads
      BY <1>1, <3>3, <3>5
    <3> QED
      BY <3>1, <3>4, <3>6, Zenon DEF HandlersHaveThreads
  <2> QED
    BY <2>2, <2>3
<1> QED
  BY <1>2, <1>3

(* The session that is on its way, after a change of what the client does. *)
LEMMA SessionMoves ==
    ASSUME NEW c \in Connections, NEW session, SessionOK(c, session)
    PROVE  /\ session.state = "none" => SessionOK(c, [session EXCEPT !.state = "backlog"])
           /\ session.state = "backlog" => SessionOK(c, [session EXCEPT !.state = "reading"])
           /\ SessionOK(c, [session EXCEPT !.sent = TRUE])
           /\ SessionOK(c, [session EXCEPT !.peer = FALSE])
           /\ [session EXCEPT !.state = "backlog"].state = "backlog"
           /\ [session EXCEPT !.state = "reading"].state = "reading"
           /\ [session EXCEPT !.sent = TRUE].state = session.state
           /\ [session EXCEPT !.peer = FALSE].state = session.state
<1>1. /\ session.state = "none" => SessionOK(c, [session EXCEPT !.state = "backlog"])
      /\ session.state = "backlog" => SessionOK(c, [session EXCEPT !.state = "reading"])
  BY DEF SessionOK, Sessions
<1>2. SessionOK(c, [session EXCEPT !.sent = TRUE])
  BY Zenon DEF SessionOK, Sessions
<1>3. SessionOK(c, [session EXCEPT !.peer = FALSE])
  BY Zenon DEF SessionOK, Sessions
<1>4. /\ [session EXCEPT !.state = "backlog"].state = "backlog"
      /\ [session EXCEPT !.state = "reading"].state = "reading"
      /\ [session EXCEPT !.sent = TRUE].state = session.state
      /\ [session EXCEPT !.peer = FALSE].state = session.state
  BY DEF SessionOK, Sessions
<1> QED
  BY <1>1, <1>2, <1>3, <1>4, Zenon

(* A client connects, sends or leaves.                                     *)
LEMMA ClientKeeps ==
    ASSUME ServerInv, NEW c \in Connections, Client(c)
    PROVE  ServerInv'
<1>1. UnchangedButConn
  BY DEF Client, connect, send, leave
<1>2. ProcessOK' /\ SettingsOK' /\ FlagsOK' /\ StreamsOK'
  BY <1>1, Zenon DEF ServerInv, UnchangedButConn, process, ProcessOK, SettingsOK, FlagsOK,
                     StreamsOK
<1>3. conn \in [Connections -> Sessions] /\ SessionOK(c, conn[c]) /\ UNCHANGED threads
  BY <1>1 DEF ServerInv, SessionsOK, UnchangedButConn, process
<1>4. PICK session : /\ conn' = [conn EXCEPT ![c] = session] /\ SessionOK(c, session)
                     /\ session.state = "handling" => conn[c].state = "handling"
  <2>1. CASE connect(c)
    <3> DEFINE session == [conn[c] EXCEPT !.state = "backlog"]
    <3>1. conn' = [conn EXCEPT ![c] = session]
      BY <1>3, <2>1 DEF connect
    <3>2. SessionOK(c, session) /\ (session.state = "handling" => conn[c].state = "handling")
      BY <1>3, <2>1, SessionMoves, Zenon DEF connect
    <3> QED
      BY <3>1, <3>2, Zenon
  <2>2. CASE send(c)
    <3> DEFINE session == [conn[c] EXCEPT !.sent = TRUE]
    <3>1. conn' = [conn EXCEPT ![c] = session]
      BY <1>3, <2>2 DEF send
    <3>2. SessionOK(c, session) /\ (session.state = "handling" => conn[c].state = "handling")
      BY <1>3, <2>2, SessionMoves, Zenon DEF send
    <3> QED
      BY <3>1, <3>2, Zenon
  <2>3. CASE leave(c)
    <3> DEFINE session == [conn[c] EXCEPT !.peer = FALSE]
    <3>1. conn' = [conn EXCEPT ![c] = session]
      BY <1>3, <2>3 DEF leave
    <3>2. SessionOK(c, session) /\ (session.state = "handling" => conn[c].state = "handling")
      BY <1>3, <2>3, SessionMoves, Zenon DEF leave
    <3> QED
      BY <3>1, <3>2, Zenon
  <2> QED
    BY <2>1, <2>2, <2>3 DEF Client
<1>5. SessionsOK' /\ HandlersHaveThreads'
  BY <1>3, <1>4, SessionChanges, Zenon
<1> QED
  BY <1>2, <1>5 DEF ServerInv

(* Codes and statuses are numbers.                                         *)
LEMMA CodesAreNumbers ==
    ASSUME NEW op, NEW body
    PROVE  Answers(op, body) \subseteq Nat /\ Status(op) \in Nat
<1>1. Codes(op) \subseteq Nat
  BY DEF Codes
<1>2. Status(op) \in Nat
  BY DEF Status
<1> QED
  BY <1>1, <1>2 DEF Answers

(* A request is read, and answered by the handler it is routed to.         *)
Answered(session, status, code) ==
    [session EXCEPT !.state = "writing", !.did = routed[session.request.call],
                    !.status = status, !.code = code]

(* A session stays what it may be, in either step.                         *)
LEMMA SessionServed ==
    ASSUME NEW c \in Connections, NEW session, SessionOK(c, session)
    PROVE  /\ \A request \in Wanted[c] :
                 SessionOK(c, [session EXCEPT !.state = "handling", !.request = request])
           /\ session.state = "handling" =>
                 \A status \in Nat, code \in Nat :
                    /\ SessionOK(c, Answered(session, status, code))
                    /\ Answered(session, status, code).state = "writing"
<1>1. ASSUME NEW request \in Wanted[c]
      PROVE  SessionOK(c, [session EXCEPT !.state = "handling", !.request = request])
  <2>1. request # NoRequest /\ request \in AllRequests
    BY ServerAssumption DEF AllRequests
  <2> QED
    BY <2>1, Zenon DEF SessionOK, Sessions
<1>2. ASSUME session.state = "handling", NEW status \in Nat, NEW code \in Nat
      PROVE  /\ SessionOK(c, Answered(session, status, code))
             /\ Answered(session, status, code).state = "writing"
  <2> DEFINE call == routed[session.request.call]
  <2>1. session.request \in Wanted[c] /\ session.request # NoRequest
    BY <1>2 DEF SessionOK
  <2>2. session.request.call \in Asked
    BY <2>1 DEF Asked
  <2>3. call \in {routed[asked] : asked \in Asked}
    BY <2>2
  <2>4. call = routed[session.request.call]
    OBVIOUS
  <2> HIDE DEF call
  <2>5. LET answer == [session EXCEPT !.state = "writing", !.did = call, !.status = status,
                                      !.code = code]
        IN  /\ answer \in Sessions /\ answer.state = "writing" /\ answer.did = call
            /\ answer.request = session.request
    BY <2>3, Zenon DEF SessionOK, Sessions
  <2> QED
    BY <2>1, <2>4, <2>5 DEF SessionOK, Answered
<1> QED
  BY <1>1, <1>2, Zenon

(* A completion handler runs.                                              *)
LEMMA SessionKeeps ==
    ASSUME ServerInv, NEW c \in Connections, Session(c)
    PROVE  ServerInv'
<1>1. conn \in [Connections -> Sessions] /\ SessionOK(c, conn[c])
  BY DEF ServerInv, SessionsOK
<1>2. ASSUME NEW session, SessionOK(c, session), conn' = [conn EXCEPT ![c] = session],
             session.state = "handling" => FreeThread,
             accepting' \in BOOLEAN, faults' \in Nat,
             UNCHANGED <<process, main, stream, cancelled>>
      PROVE  ServerInv'
  <2>1. SessionsOK' /\ HandlersHaveThreads'
    BY <1>2, SessionChanges, Zenon DEF process
  <2>2. ProcessOK'
    BY <1>2 DEF ServerInv, ProcessOK, process
  <2>3. SettingsOK' /\ FlagsOK' /\ StreamsOK'
    BY <1>2, Zenon DEF ServerInv, SettingsOK, FlagsOK, StreamsOK, process
  <2> QED
    BY <2>1, <2>2, <2>3 DEF ServerInv
<1>3. ASSUME UnchangedButConn
      PROVE  /\ accepting' \in BOOLEAN /\ faults' \in Nat
             /\ UNCHANGED <<process, main, stream, cancelled>>
  BY <1>3, Zenon DEF ServerInv, FlagsOK, ProcessOK, UnchangedButConn
<1>4. Fault => faults' \in Nat
  BY DEF Fault, ServerInv, ProcessOK
<1>5. faults \in Nat
  BY DEF ServerInv, ProcessOK
<1>6. CASE doAccept(c)
  <2>1. /\ UNCHANGED <<process, main, stream, cancelled>> /\ accepting' \in BOOLEAN
        /\ conn[c].state = "backlog"
    BY <1>6, Zenon DEF doAccept
  <2>2. CASE conn' = [conn EXCEPT ![c].state = "reading"] /\ UNCHANGED faults
    <3> DEFINE session == [conn[c] EXCEPT !.state = "reading"]
    <3>1. conn' = [conn EXCEPT ![c] = session]
      BY <1>1, <2>2
    <3>2. SessionOK(c, session) /\ session.state # "handling"
      BY <1>1, <2>1, SessionMoves, Zenon
    <3> QED
      BY <1>2, <1>5, <2>1, <2>2, <3>1, <3>2, Zenon
  <2>3. CASE conn' = [conn EXCEPT ![c] = Over("gone")] /\ UNCHANGED faults
    BY <1>2, <1>5, <2>1, <2>3, OverIs, Zenon
  <2>4. CASE Fault /\ UNCHANGED conn
    <3>1. SessionsOK' /\ HandlersHaveThreads'
      BY <2>1, <2>4, SessionsKept DEF process
    <3>2. ProcessOK'
      BY <1>4, <2>1, <2>4 DEF ServerInv, ProcessOK, process
    <3>3. SettingsOK' /\ FlagsOK' /\ StreamsOK'
      BY <2>1, Zenon DEF ServerInv, SettingsOK, FlagsOK, StreamsOK, process
    <3> QED
      BY <3>1, <3>2, <3>3 DEF ServerInv
  <2> QED
    BY <1>6, <2>2, <2>3, <2>4, Zenon DEF doAccept
<1>7. CASE readRequest(c)
  <2>1. FreeThread /\ UnchangedButConn
    BY <1>7, Zenon DEF readRequest
  <2>2. CASE conn' = [conn EXCEPT ![c] = Over("gone")]
    BY <1>2, <1>3, <2>1, <2>2, OverIs, Zenon
  <2>3. ASSUME NEW request \in Wanted[c],
               conn' = [conn EXCEPT ![c] = [@ EXCEPT !.state = "handling", !.request = request]]
        PROVE  ServerInv'
    <3> DEFINE session == [conn[c] EXCEPT !.state = "handling", !.request = request]
    <3>1. conn' = [conn EXCEPT ![c] = session]
      BY <1>1, <2>3
    <3>2. SessionOK(c, session)
      BY <1>1, SessionServed, Zenon
    <3> QED
      BY <1>2, <1>3, <2>1, <3>1, <3>2, ZenonT(30)
  <2> QED
    BY <1>7, <2>2, <2>3, ZenonT(30) DEF readRequest
<1>8. CASE handleRequest(c)
  <2> DEFINE body == conn[c].request.body
             call == routed[conn[c].request.call]
  <2>1. ASSUME UnchangedButConn, NEW code \in Answers(call.op, body),
               conn' = [conn EXCEPT ![c] = [@ EXCEPT !.state = "writing", !.did = call,
                                                     !.status = Status(call.op),
                                                     !.code = code]]
        PROVE  ServerInv'
    <3> DEFINE session == Answered(conn[c], Status(call.op), code)
    <3>1. conn' = [conn EXCEPT ![c] = session]
      BY <1>1, <2>1 DEF Answered
    <3>2. code \in Nat /\ Status(call.op) \in Nat
      BY CodesAreNumbers
    <3>3. SessionOK(c, session) /\ session.state = "writing"
      BY <1>1, <1>8, <3>2, SessionServed, Zenon DEF handleRequest
    <3> HIDE DEF session
    <3> QED
      BY <1>2, <1>3, <2>1, <3>1, <3>3, Zenon
  <2>2. ASSUME terminate, faults' \in Nat
        PROVE  ServerInv'
    BY <2>2, EndKeeps DEF terminate, Ended
  <2> QED
    BY <1>4, <1>5, <1>8, <2>1, <2>2, Zenon DEF handleRequest
<1>9. CASE written(c)
  BY <1>2, <1>3, <1>9, OverIs DEF written
<1> QED
  BY <1>6, <1>7, <1>8, <1>9 DEF Session

(* A gRPC call begins, is cancelled or goes on.                            *)
LEMMA StreamKeeps ==
    ASSUME ServerInv, NEW s \in Streams, WatchConfig(s) \/ cancel(s) \/ watchLoop(s)
    PROVE  ServerInv'
<1>1. CASE terminate /\ UNCHANGED faults
  <2>1. faults' \in Nat
    BY <1>1 DEF ServerInv, ProcessOK
  <2> QED
    BY <1>1, <2>1, EndKeeps DEF terminate, Ended
<1>2. ASSUME UnchangedButStream, StreamsOK'
      PROVE  ServerInv'
  <2>1. SessionsOK' /\ HandlersHaveThreads'
    BY <1>2, SessionsKept DEF UnchangedButStream, process
  <2>2. ProcessOK' /\ SettingsOK' /\ FlagsOK'
    BY <1>2, Zenon DEF ServerInv, ProcessOK, SettingsOK, FlagsOK, UnchangedButStream, process
  <2> QED
    BY <1>2, <2>1, <2>2 DEF ServerInv
<1>3. /\ stream \in [Streams -> {"none", "check", "write", "sleep", "done"}]
      /\ cancelled \in [Streams -> BOOLEAN]
  BY DEF ServerInv, StreamsOK
<1>4. CASE WatchConfig(s) /\ ~(terminate /\ UNCHANGED faults)
  <2>1. /\ stream' = [stream EXCEPT ![s] = "check"] /\ UNCHANGED cancelled
        /\ UnchangedButStream
    BY <1>4, Zenon DEF WatchConfig
  <2>2. StreamsOK'
    BY <1>3, <2>1 DEF StreamsOK
  <2> QED
    BY <1>2, <2>1, <2>2
<1>5. CASE cancel(s)
  <2>1. cancelled' \in [Streams -> BOOLEAN] /\ UNCHANGED stream /\ UnchangedButStream
    BY <1>3, <1>5 DEF cancel
  <2>2. StreamsOK'
    BY <1>3, <2>1, Zenon DEF StreamsOK
  <2> QED
    BY <1>2, <2>1, <2>2
<1>6. CASE watchLoop(s)
  <2>1. UNCHANGED cancelled /\ UnchangedButStream
    BY <1>6 DEF watchLoop
  <2>2. \E where \in {"done", "write", "sleep", "check"} : stream' = [stream EXCEPT ![s] = where]
    BY <1>6 DEF watchLoop
  <2>3. stream' \in [Streams -> {"none", "check", "write", "sleep", "done"}]
    BY <1>3, <2>2
  <2>4. StreamsOK'
    BY <1>3, <2>1, <2>3, Zenon DEF StreamsOK
  <2> QED
    BY <1>2, <2>1, <2>4
<1> QED
  BY <1>1, <1>4, <1>5, <1>6, Zenon

(* What the file gives for http.threads is a number, and the default is    *)
(* one.                                                                    *)
LEMMA ParsedSettings ==
    ASSUME NEW f \in Files
    PROVE  /\ DOMAIN parseString(f) = DOMAIN Defaults
           /\ parseString(f).http_threads \in Int
<1>1. "http_threads" \in DOMAIN f.given => f.given.http_threads \in Int
  BY ServerAssumption, SMTT(30)
<1>2. /\ DOMAIN Defaults = {"http_port", "http_threads", "grpc_port", "backend"}
      /\ Defaults.http_threads \in Int
  BY DEF Defaults
<1> QED
  BY <1>1, <1>2, SMTT(30) DEF parseString

(* The steps of main, and of the service manager.                          *)
LEMMA MainKeeps ==
    ASSUME ServerInv, Main \/ restart
    PROVE  ServerInv'
<1>1. Fault => faults' \in Nat
  BY DEF Fault, ServerInv, ProcessOK
<1>2. faults \in Nat
  BY DEF ServerInv, ProcessOK
<1>3. ASSUME terminate, Fault \/ UNCHANGED faults
      PROVE  ServerInv'
  BY <1>1, <1>2, <1>3, EndKeeps DEF terminate, Ended
<1>4. ASSUME UNCHANGED <<conn, threads, stream, cancelled>>, ProcessOK', SettingsOK', FlagsOK'
      PROVE  ServerInv'
  <2>1. SessionsOK' /\ HandlersHaveThreads'
    BY <1>4, SessionsKept
  <2>2. StreamsOK'
    BY <1>4, Zenon DEF ServerInv, StreamsOK
  <2> QED
    BY <1>4, <2>1, <2>2 DEF ServerInv
<1>5. ASSUME UNCHANGED settings
      PROVE  SettingsOK'
  BY <1>5, Zenon DEF ServerInv, SettingsOK
<1>6. ASSUME UNCHANGED <<accepting, grpcUp>>
      PROVE  FlagsOK'
  BY <1>6, Zenon DEF ServerInv, FlagsOK
<1>7. CASE parseFile
  <2>1. CASE terminate
    BY <1>3, <1>7, <2>1 DEF parseFile
  <2>2. CASE ~terminate
    <3>1. /\ settings' = parseString(file) /\ main = "parseFile" /\ main' = "store"
          /\ UNCHANGED <<file, numThreads, threads, accepting, grpcUp, conn, stream,
                         cancelled, restarts, faults>>
      BY <1>7, <2>2, Zenon DEF parseFile
    <3>2. ProcessOK'
      BY <3>1 DEF ServerInv, ProcessOK
    <3>3. SettingsOK'
      BY <3>1, ParsedSettings DEF ServerInv, ProcessOK, SettingsOK
    <3> QED
      BY <1>4, <1>6, <3>1, <3>2, <3>3
  <2> QED
    BY <2>1, <2>2
<1>8. CASE openStore
  <2>1. CASE terminate
    BY <1>3, <1>8, <2>1 DEF openStore
  <2>2. CASE ~terminate
    <3>1. /\ main = "store" /\ main' = "http"
          /\ UNCHANGED <<process, accepting, conn, stream, cancelled, faults>>
      BY <1>8, <2>2, Zenon DEF openStore
    <3>2. ProcessOK'
      BY <3>1 DEF ServerInv, ProcessOK, process
    <3> QED
      BY <1>4, <1>5, <1>6, <3>1, <3>2 DEF process
  <2> QED
    BY <2>1, <2>2
<1>9. CASE startHttp
  <2>1. CASE terminate
    BY <1>2, <1>3, <1>9, <2>1 DEF startHttp
  <2>2. CASE ~terminate
    <3>1. /\ main = "http" /\ main' = "spawn" /\ accepting' = TRUE
          /\ \E cores \in Cores : numThreads' = NumThreads(cores)
          /\ UNCHANGED <<file, settings, threads, grpcUp, restarts, conn, stream, cancelled,
                         faults>>
      BY <1>9, <2>2, Zenon DEF startHttp
    <3>2. numThreads' \in Nat
      BY <3>1, ServerAssumption DEF NumThreads, ServerInv, SettingsOK
    <3>3. ProcessOK'
      BY <3>1, <3>2 DEF ServerInv, ProcessOK
    <3>4. FlagsOK'
      BY <3>1, Zenon DEF ServerInv, FlagsOK
    <3> QED
      BY <1>4, <1>5, <3>1, <3>3, <3>4
  <2> QED
    BY <2>1, <2>2
<1>10. CASE spawn
  <2>1. CASE threads < numThreads /\ threads' = threads + 1 /\ UNCHANGED main
    <3>1. ProcessOK'
      BY <1>10, <2>1 DEF spawn, ServerInv, ProcessOK, Ended
    <3>2. /\ conn' = conn /\ UNCHANGED <<stream, cancelled, settings, accepting, grpcUp>>
      BY <1>10 DEF spawn
    <3>3. SessionsOK' /\ HandlersHaveThreads'
      <4>1. Handling' = Handling
        BY <3>2 DEF Handling
      <4>2. \A c \in Connections : SessionOK(c, conn[c])' <=> SessionOK(c, conn[c])
        BY <3>2 DEF SessionOK
      <4>3. SessionsOK'
        BY <3>2, <4>2 DEF ServerInv, SessionsOK
      <4>4. IsFiniteSet(Handling) /\ Cardinality(Handling) <= threads /\ threads \in Nat
        BY DEF ServerInv, HandlersHaveThreads, ProcessOK
      <4>5. Cardinality(Handling) \in Nat
        BY <4>4, FS_CardinalityType
      <4>6. Cardinality(Handling) <= threads'
        BY <2>1, <4>4, <4>5
      <4> QED
        BY <4>1, <4>3, <4>4, <4>6, Zenon DEF HandlersHaveThreads
    <3>4. StreamsOK'
      BY <3>2, Zenon DEF ServerInv, StreamsOK
    <3> QED
      BY <1>5, <1>6, <3>1, <3>2, <3>3, <3>4, SMTT(30) DEF ServerInv
  <2>2. CASE threads = numThreads /\ main' = "grpc" /\ UNCHANGED threads
    <3>1. ProcessOK'
      BY <1>10, <2>2 DEF spawn, ServerInv, ProcessOK, Ended
    <3> QED
      BY <1>4, <1>5, <1>6, <1>10, <2>2, <3>1, SMTT(30) DEF spawn
  <2> QED
    BY <1>10, <2>1, <2>2 DEF spawn
<1>11. CASE startGrpc
  <2>1. /\ main = "grpc" /\ main' = "join"
        /\ UNCHANGED <<file, settings, numThreads, threads, accepting, conn, stream, cancelled,
                       restarts>>
    BY <1>11, SMTT(30) DEF startGrpc
  <2>2. faults' \in Nat
    BY <1>1, <1>2, <1>11 DEF startGrpc
  <2>3. FlagsOK'
    BY <1>11, Zenon DEF startGrpc, ServerInv, FlagsOK
  <2>4. ProcessOK'
    BY <2>1, <2>2 DEF ServerInv, ProcessOK, Ended
  <2> QED
    BY <1>4, <1>5, <2>1, <2>3, <2>4, SMTT(30)
<1>12. CASE join
  <2>1. /\ main = "join" /\ main' = "stop"
        /\ UNCHANGED <<process, accepting, conn, stream, cancelled, faults>>
    BY <1>12 DEF join
  <2>2. ProcessOK'
    BY <2>1 DEF ServerInv, ProcessOK, process, Ended
  <2> QED
    BY <1>4, <1>5, <1>6, <2>1, <2>2 DEF process
<1>13. CASE stopGrpc
  BY <1>2, <1>13, EndKeeps, SMTT(30) DEF stopGrpc, Ended
<1>14. CASE restart
  <2>1. /\ main = "failed" /\ restarts' = restarts + 1 /\ main' = "parseFile"
        /\ settings' = Defaults /\ numThreads' = 0
        /\ UNCHANGED <<file, threads, accepting, grpcUp, conn, stream, cancelled, faults>>
    BY <1>14 DEF restart
  <2>2. ProcessOK'
    BY <2>1, SMTT(30) DEF ServerInv, ProcessOK, Ended
  <2>3. SettingsOK'
    BY <2>1 DEF SettingsOK, Defaults
  <2> QED
    BY <1>4, <1>6, <2>1, <2>2, <2>3, SMTT(30)
<1> QED
  BY <1>7, <1>8, <1>9, <1>10, <1>11, <1>12, <1>13, <1>14, SMTT(30) DEF Main

(* Every step of the server keeps the invariant.                           *)
LEMMA ServerStep == ServerInv /\ [Next]_vars => ServerInv'
<1> SUFFICES ASSUME ServerInv, [Next]_vars
             PROVE  ServerInv'
  OBVIOUS
<1>1. CASE UNCHANGED vars
  <2>1. SessionsOK' /\ HandlersHaveThreads'
    BY <1>1, SessionsKept DEF vars
  <2>2. ProcessOK' /\ SettingsOK' /\ FlagsOK' /\ StreamsOK'
    BY <1>1, Zenon DEF ServerInv, ProcessOK, SettingsOK, FlagsOK, StreamsOK, vars
  <2> QED
    BY <2>1, <2>2 DEF ServerInv
<1>2. CASE Quiet
  BY <1>1, <1>2 DEF Quiet
<1> QED
  BY <1>1, <1>2, MainKeeps, SessionKeeps, ClientKeeps, StreamKeeps DEF Next

(* The server's types hold for any clients, configuration files and number *)
(* of cores, through every failure and restart: in particular there are    *)
(* never more handlers in progress than threads, nor more threads than     *)
(* HttpServer::start was to run.                                           *)
THEOREM ServerTypes == Spec => []TypeOK
<1>1. Spec => []ServerInv
  BY ServerBegins, ServerStep, PTL DEF Spec
<1> QED
  BY <1>1, InvTypes, PTL

(* A session that has its answer ready was served by the handler that the  *)
(* documentation names for what its client asked for, with the names the   *)
(* client gave.                                                            *)
THEOREM AlwaysRoutedAsDocumented == Spec => []RoutedAsDocumented
<1>1. ServerInv => RoutedAsDocumented
  <2> SUFFICES ASSUME ServerInv, NEW c \in Connections, conn[c].state = "writing",
                      conn[c].request.call.op # "longPoll", PlainNames(conn[c].request.call)
               PROVE  conn[c].did = conn[c].request.call
    BY SMTT(30) DEF RoutedAsDocumented
  <2> DEFINE call == conn[c].request.call
             documented == DocumentedRequest(call)
  <2>1. conn[c].request \in Wanted[c] /\ conn[c].did = routed[call]
    BY DEF ServerInv, SessionsOK, SessionOK
  <2>2. call \in Documented
    BY <2>1, ServerAssumption, SMTT(30)
  <2>3. call \in Asked
    BY <2>1, SMTT(30) DEF Asked
  <2>4. routed[call] = route(documented.method, documented.target)
    BY <2>3 DEF routed
  <2>5. route(documented.method, documented.target) = call
    BY <2>2, RoutingCorrect
  <2> QED
    BY <2>1, <2>4, <2>5, SMTT(30)
<1>2. Spec => []ServerInv
  BY ServerBegins, ServerStep, PTL DEF Spec
<1> QED
  BY <1>1, <1>2, PTL
=============================================================================
