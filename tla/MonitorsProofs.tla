--------------------------- MODULE MonitorsProofs ---------------------------
(***************************************************************************)
(* Proofs about the two classes with a mutex and a condition variable:     *)
(* NotificationChannel, for every set of namespaces, clients and callbacks *)
(* and every bound on release ids, and MysqlConnectionPool, for every      *)
(* finite set of callers and every size of the pool.                       *)
(***************************************************************************)
EXTENDS NotificationChannel, MysqlConnectionPool, FiltersProofs, FiniteSetTheorems

(* Appending to the second of two joined sequences.                        *)
LEMMA AppendConcat ==
    ASSUME NEW d \in Seq(Ids), NEW p \in Seq(Ids), NEW x \in Ids
    PROVE  d \o Append(p, x) = Append(d \o p, x)
OBVIOUS

(* Take, field by field.                                                   *)
LEMMA TakeTypes ==
    ASSUME TypeOK, NEW c \in Clients, NEW ns \in Namespaces, Take(c, ns)
    PROVE  /\ pending_' \in [Namespaces -> Seq(Ids)]
           /\ delivered' \in [Namespaces -> Seq(Ids)]
           /\ last' \in [Clients -> [Namespaces -> Nat]]
           /\ pc' \in [Clients -> {"idle", "asleep", "awake"}]
<1>1. /\ pending_[ns] \in Seq(Ids)
      /\ pending_[ns] # <<>>
      /\ delivered[ns] \in Seq(Ids)
      /\ last[c] \in [Namespaces -> Nat]
  BY DEF Take, TypeOK
<1>2. /\ Head(pending_[ns]) \in Ids
      /\ Tail(pending_[ns]) \in Seq(Ids)
  BY <1>1
<1>3. Head(pending_[ns]) \in Nat
  BY <1>2, ChannelAssumption DEF Ids
<1>4. last' = [last EXCEPT ![c] = [last[c] EXCEPT ![ns] = Head(pending_[ns])]]
  BY DEF Take
<1>5. [last[c] EXCEPT ![ns] = Head(pending_[ns])] \in [Namespaces -> Nat]
  BY <1>1, <1>3
<1>6. last' \in [Clients -> [Namespaces -> Nat]]
  BY <1>4, <1>5 DEF TypeOK
<1>7. pending_' \in [Namespaces -> Seq(Ids)] /\ delivered' \in [Namespaces -> Seq(Ids)]
  BY <1>1, <1>2, SMTT(30) DEF Take, TypeOK
<1> QED
  BY <1>6, <1>7, SMTT(30) DEF Take, TypeOK

(* The outcome of a search of pending_, in the three places that make one. *)
LEMMA SearchTypes ==
    ASSUME TypeOK, NEW c \in Clients, NEW ns \in Namespaces,
           NEW label \in {"idle", "asleep"},
           Take(c, ns) \/ NothingTo(c, ns, label)
    PROVE  /\ pending_' \in [Namespaces -> Seq(Ids)]
           /\ delivered' \in [Namespaces -> Seq(Ids)]
           /\ last' \in [Clients -> [Namespaces -> Nat]]
           /\ pc' \in [Clients -> {"idle", "asleep", "awake"}]
<1>1. CASE Take(c, ns)
  BY <1>1, TakeTypes
<1>2. CASE NothingTo(c, ns, label)
  BY <1>2 DEF NothingTo, TypeOK
<1> QED
  BY <1>1, <1>2

(* The empty channel is well-typed, and steps keep it so.                  *)
LEMMA InitialType == Init => TypeOK
<1> SUFFICES ASSUME Init PROVE TypeOK
  OBVIOUS
<1>1. stuck \in BOOLEAN
  BY Zenon DEF Init
<1> QED
  BY <1>1, ChannelAssumption DEF Init, TypeOK

(* Every step preserves the types.                                         *)
LEMMA ChannelType == TypeOK /\ [Next]_vars => TypeOK'
<1> SUFFICES ASSUME TypeOK, [Next]_vars PROVE TypeOK'
  OBVIOUS
<1> USE ChannelAssumption
<1>1. ASSUME NEW ns \in Namespaces, unsubscribe(ns) PROVE TypeOK'
  BY <1>1 DEF unsubscribe, TypeOK
<1>2. ASSUME NEW ns \in Namespaces, NEW cb \in Callbacks, subscribe(ns, cb) PROVE TypeOK'
  <2>1. Len(history_[ns]) \in Nat
    BY DEF TypeOK
  <2> QED
    BY <1>2, <2>1 DEF subscribe, TypeOK
<1>3. ASSUME NEW ns \in Namespaces, NEW id \in Ids, publish(ns, id) PROVE TypeOK'
  <2>1. heard' \in [Callbacks -> Seq(Ids)]
    BY <1>3 DEF publish, CallAll, TypeOK
  <2>2. pc' \in [Clients -> {"idle", "asleep", "awake"}]
    BY <1>3 DEF publish, NotifyAll, TypeOK
  <2>3. history_' \in [Namespaces -> Seq(Ids)] /\ pending_' \in [Namespaces -> Seq(Ids)]
    BY <1>3 DEF publish, TypeOK
  <2> QED
    BY <1>3, <2>1, <2>2, <2>3 DEF publish, TypeOK
<1>4. ASSUME NEW ns \in Namespaces, NEW id \in Ids,
             publishThrows(ns, id) \/ publishReenters(ns, id)
      PROVE  TypeOK'
  <2>1. CutShort(ns, id)
    BY <1>4, Zenon DEF publishThrows, publishReenters
  <2>2. stuck' \in BOOLEAN
    BY <1>4, Zenon DEF publishThrows, publishReenters, TypeOK
  <2>3. heard' \in [Callbacks -> Seq(Ids)]
    BY <2>1 DEF CutShort, TypeOK
  <2>4. history_' \in [Namespaces -> Seq(Ids)]
    BY <2>1 DEF CutShort, TypeOK
  <2> QED
    BY <2>1, <2>2, <2>3, <2>4 DEF CutShort, TypeOK
<1>5. ASSUME NEW ns \in Namespaces, NEW c \in Clients, waitForNotification(c, ns)
      PROVE  TypeOK'
  <2>1. wait' \in [Clients -> Namespaces]
    BY <1>5 DEF waitForNotification, TypeOK
  <2> QED
    BY <1>5, <2>1, SearchTypes, Zenon DEF waitForNotification, TypeOK
<1>6. ASSUME NEW c \in Clients, wakeUp(c) PROVE TypeOK'
  <2>1. wait[c] \in Namespaces
    BY DEF TypeOK
  <2> QED
    BY <1>6, <2>1, SearchTypes, SMTT(30) DEF wakeUp, TypeOK
<1>7. ASSUME NEW c \in Clients, timeOut(c) PROVE TypeOK'
  <2>1. wait[c] \in Namespaces
    BY DEF TypeOK
  <2> QED
    BY <1>7, <2>1, SearchTypes, Zenon DEF timeOut, TypeOK
<1>8. CASE UNCHANGED vars
  BY <1>8 DEF vars, TypeOK
<1> QED
  BY <1>1, <1>2, <1>3, <1>4, <1>5, <1>6, <1>7, <1>8 DEF Next, Stuck

-----------------------------------------------------------------------------
(* A search of pending_ moves at most the first notification of the        *)
(* namespace to the end of delivered.                                      *)
LEMMA SearchOrder ==
    ASSUME TypeOK, TakenInOrder, NEW c \in Clients, NEW ns \in Namespaces,
           NEW label, Take(c, ns) \/ NothingTo(c, ns, label),
           UNCHANGED <<history_, cut>>
    PROVE  TakenInOrder'
<1>1. CASE Take(c, ns)
  <2> SUFFICES ASSUME NEW m \in Namespaces \ cut
               PROVE  delivered'[m] \o pending_'[m] = history_[m]
    BY Zenon DEF TakenInOrder
  <2>1. CASE m = ns
    <3> DEFINE d == delivered[ns]
               p == pending_[ns]
    <3>1. d \in Seq(Ids) /\ p \in Seq(Ids) /\ p # <<>>
      BY <1>1 DEF Take, TypeOK
    <3>2. delivered'[ns] = Append(d, Head(p)) /\ pending_'[ns] = Tail(p)
      BY <1>1 DEF Take, TypeOK
    <3>3. d \o p = history_[ns]
      BY <2>1, Zenon DEF TakenInOrder
    <3> HIDE DEF d, p
    <3>4. Append(d, Head(p)) \o Tail(p) = d \o p
      BY <3>1
    <3> QED
      BY <2>1, <3>2, <3>3, <3>4, Zenon
  <2>2. CASE m # ns
    BY <1>1, <2>2, Zenon DEF Take, TypeOK, TakenInOrder
  <2> QED
    BY <2>1, <2>2, Zenon
<1>2. CASE NothingTo(c, ns, label)
  BY <1>2, Zenon DEF NothingTo, TakenInOrder
<1> QED
  BY <1>1, <1>2

(* Each notification of a namespace is taken at most once, in the order of *)
(* publication, and none is lost, until a callback of the namespace throws *)
(* out of publish.                                                         *)
THEOREM DeliveryInOrder == Spec => []TakenInOrder
<1>1. Init => TypeOK /\ TakenInOrder
  BY InitialType DEF Init, TakenInOrder
<1>2. TypeOK /\ TakenInOrder /\ [Next]_vars => TypeOK' /\ TakenInOrder'
  <2> SUFFICES ASSUME TypeOK, TakenInOrder, [Next]_vars PROVE TakenInOrder'
    BY ChannelType
  <2>1. ASSUME NEW ns \in Namespaces, unsubscribe(ns) PROVE TakenInOrder'
    BY <2>1, Zenon DEF unsubscribe, TakenInOrder
  <2>2. ASSUME NEW ns \in Namespaces, NEW cb \in Callbacks, subscribe(ns, cb)
        PROVE  TakenInOrder'
    BY <2>2, Zenon DEF subscribe, TakenInOrder
  <2>3. ASSUME NEW ns \in Namespaces, NEW id \in Ids, publish(ns, id) PROVE TakenInOrder'
    <3> SUFFICES ASSUME NEW m \in Namespaces \ cut
                 PROVE  delivered'[m] \o pending_'[m] = history_'[m]
      BY <2>3, Zenon DEF TakenInOrder, publish
    <3>1. delivered[m] \in Seq(Ids) /\ pending_[m] \in Seq(Ids)
      BY DEF TypeOK
    <3>2. delivered[m] \o pending_[m] = history_[m] /\ delivered' = delivered
      BY <2>3, Zenon DEF TakenInOrder, publish
    <3>3. CASE m = ns
      <4>1. pending_'[m] = Append(pending_[m], id) /\ history_'[m] = Append(history_[m], id)
        BY <2>3, <3>3 DEF publish, TypeOK
      <4>2. delivered[m] \o Append(pending_[m], id) = Append(delivered[m] \o pending_[m], id)
        BY <3>1, AppendConcat, Zenon
      <4> QED
        BY <3>2, <4>1, <4>2
    <3>4. CASE m # ns
      BY <2>3, <3>2, <3>4 DEF publish, TypeOK
    <3> QED
      BY <3>3, <3>4, Zenon
  <2>4. ASSUME NEW ns \in Namespaces, NEW c \in Clients, waitForNotification(c, ns)
        PROVE  TakenInOrder'
    BY <2>4, SearchOrder DEF waitForNotification
  <2>5. ASSUME NEW c \in Clients, wakeUp(c) PROVE TakenInOrder'
    <3>1. wait[c] \in Namespaces
      BY DEF TypeOK
    <3> QED
      BY <2>5, <3>1, SearchOrder DEF wakeUp
  <2>6. ASSUME NEW c \in Clients, timeOut(c) PROVE TakenInOrder'
    <3>1. wait[c] \in Namespaces
      BY DEF TypeOK
    <3> QED
      BY <2>6, <3>1, SearchOrder DEF timeOut
  <2>7. ASSUME NEW ns \in Namespaces, NEW id \in Ids,
               publishThrows(ns, id) \/ publishReenters(ns, id)
        PROVE  TakenInOrder'
    <3>1. CutShort(ns, id)
      BY <2>7, Zenon DEF publishThrows, publishReenters
    <3> QED
      BY <3>1 DEF CutShort, TakenInOrder, TypeOK
  <2>8. CASE UNCHANGED vars
    BY <2>8, Zenon DEF vars, TakenInOrder
  <2> QED
    BY <2>1, <2>2, <2>3, <2>4, <2>5, <2>6, <2>7, <2>8 DEF Next, Stuck
<1> QED
  BY <1>1, <1>2, PTL DEF Spec

-----------------------------------------------------------------------------
(* After a search of pending_ no sleeping client has a notification of its *)
(* namespace pending: the search only shortens pending_, and only a client *)
(* that found nothing falls asleep.                                        *)
LEMMA SearchWakes ==
    ASSUME TypeOK, NoLostWakeup, NEW c \in Clients, NEW ns \in Namespaces,
           NEW label, Take(c, ns) \/ NothingTo(c, ns, label),
           wait' \in [Clients -> Namespaces],
           wait'[c] = ns,
           \A d \in Clients \ {c} : wait'[d] = wait[d]
    PROVE  NoLostWakeup'
<1> SUFFICES ASSUME NEW d \in Clients, pc'[d] = "asleep"
             PROVE  pending_'[wait'[d]] = <<>>
  BY DEF NoLostWakeup
<1> DEFINE m == wait'[d]
<1>1. m \in Namespaces
  OBVIOUS
<1> HIDE DEF m
<1>2. CASE Take(c, ns)
  <2>1. d # c /\ pc[d] = "asleep"
    BY <1>2 DEF Take, TypeOK
  <2>2. pending_[m] = <<>>
    BY <2>1 DEF NoLostWakeup, m
  <2>3. m # ns
    BY <1>2, <2>2 DEF Take
  <2> QED
    BY <1>1, <1>2, <2>2, <2>3 DEF Take, TypeOK, m
<1>3. CASE NothingTo(c, ns, label)
  <2>1. pending_' = pending_ /\ pending_[ns] = <<>>
    BY <1>3 DEF NothingTo
  <2>2. CASE d = c
    BY <2>1, <2>2
  <2>3. CASE d # c
    BY <1>3, <2>1, <2>3 DEF NothingTo, TypeOK, NoLostWakeup
  <2> QED
    BY <2>2, <2>3
<1> QED
  BY <1>2, <1>3

(* No client sleeps in wait_for while a notification of its namespace is   *)
(* pending, whatever callbacks do.                                         *)
THEOREM WakeupsNotLost == Spec => []NoLostWakeup
<1>1. Init => TypeOK /\ NoLostWakeup
  BY InitialType DEF Init, NoLostWakeup
<1>2. TypeOK /\ NoLostWakeup /\ [Next]_vars => TypeOK' /\ NoLostWakeup'
  <2> SUFFICES ASSUME TypeOK, NoLostWakeup, [Next]_vars PROVE NoLostWakeup'
    BY ChannelType
  <2>0. TypeOK'
    BY ChannelType
  <2>1. ASSUME NEW ns \in Namespaces, unsubscribe(ns) PROVE NoLostWakeup'
    BY <2>1 DEF unsubscribe, NoLostWakeup
  <2>2. ASSUME NEW ns \in Namespaces, NEW cb \in Callbacks, subscribe(ns, cb)
        PROVE  NoLostWakeup'
    BY <2>2 DEF subscribe, NoLostWakeup
  <2>3. ASSUME NEW ns \in Namespaces, NEW id \in Ids, publish(ns, id) PROVE NoLostWakeup'
    BY <2>3 DEF publish, NotifyAll, NoLostWakeup, TypeOK
  <2>4. ASSUME NEW ns \in Namespaces, NEW id \in Ids,
               publishThrows(ns, id) \/ publishReenters(ns, id)
        PROVE  NoLostWakeup'
    <3>1. CutShort(ns, id)
      BY <2>4, Zenon DEF publishThrows, publishReenters
    <3> QED
      BY <3>1 DEF CutShort, NoLostWakeup
  <2>5. ASSUME NEW ns \in Namespaces, NEW c \in Clients, waitForNotification(c, ns)
        PROVE  NoLostWakeup'
    <3>1. /\ wait'[c] = ns
          /\ \A d \in Clients \ {c} : wait'[d] = wait[d]
      BY <2>5 DEF waitForNotification, TypeOK
    <3>2. Take(c, ns) \/ NothingTo(c, ns, "asleep")
      BY <2>5 DEF waitForNotification
    <3>3. wait' \in [Clients -> Namespaces]
      BY <2>0 DEF TypeOK
    <3> QED
      BY <3>1, <3>2, <3>3, SearchWakes
  <2>6. ASSUME NEW c \in Clients, wakeUp(c) PROVE NoLostWakeup'
    <3>1. wait[c] \in Namespaces /\ wait' = wait /\ wait' \in [Clients -> Namespaces]
      BY <2>6 DEF wakeUp, TypeOK
    <3>2. \/ Take(c, wait[c])
          \/ NothingTo(c, wait[c], "asleep")
      BY <2>6 DEF wakeUp
    <3> QED
      BY <3>1, <3>2, SearchWakes
  <2>7. ASSUME NEW c \in Clients, timeOut(c) PROVE NoLostWakeup'
    <3>1. wait[c] \in Namespaces /\ wait' = wait /\ wait' \in [Clients -> Namespaces]
      BY <2>7 DEF timeOut, TypeOK
    <3>2. \/ Take(c, wait[c])
          \/ NothingTo(c, wait[c], "idle")
      BY <2>7 DEF timeOut
    <3> QED
      BY <3>1, <3>2, SearchWakes
  <2>8. CASE UNCHANGED vars
    BY <2>8 DEF vars, NoLostWakeup
  <2> QED
    BY <2>1, <2>2, <2>3, <2>4, <2>5, <2>6, <2>7, <2>8 DEF Next, Stuck
<1> QED
  BY <1>1, <1>2, PTL DEF Spec

-----------------------------------------------------------------------------
(* What callbacks hear.  A callback is subscribed to one namespace at a    *)
(* time, and joined no later than now.                                     *)
OneSubscription ==
    \A ns, m \in Namespaces : \A cb \in subscribers_[ns] : cb \in subscribers_[m] => ns = m

JoinedBefore ==
    \A ns \in Namespaces : \A cb \in subscribers_[ns] : joined[cb] <= Len(history_[ns])

HearingInv == TypeOK /\ OneSubscription /\ JoinedBefore /\ CallbacksHearAll

(* A slice that reaches the end, after another element is appended.        *)
LEMMA SubSeqAppend ==
    ASSUME NEW S, NEW s \in Seq(S), NEW x \in S, NEW k \in 0..Len(s)
    PROVE  SubSeq(Append(s, x), k + 1, Len(s) + 1) = Append(SubSeq(s, k + 1, Len(s)), x)
<1> DEFINE t == Append(s, x)
<1>1. /\ t \in Seq(S) /\ Len(t) = Len(s) + 1 /\ t[Len(s) + 1] = x
      /\ k + 1 \in 1..Len(t) /\ Len(s) + 1 \in k + 1..Len(t)
      /\ (Len(s) + 1) - 1 = Len(s)
  OBVIOUS
<1>2. SubSeq(t, k + 1, Len(s) + 1) = Append(SubSeq(t, k + 1, Len(s)), x)
  <2> HIDE DEF t
  <2> QED
    BY <1>1, SubSeqGrows, Zenon
<1>3. SubSeq(t, k + 1, Len(s)) = SubSeq(s, k + 1, Len(s))
  OBVIOUS
<1> QED
  BY <1>2, <1>3, Zenon

(* A notification that reaches every callback of its namespace, or the end *)
(* of the guarantee for it.                                                *)
LEMMA PublishHeard ==
    ASSUME HearingInv, NEW ns \in Namespaces, NEW id \in Ids,
           publish(ns, id) \/ CutShort(ns, id)
    PROVE  OneSubscription' /\ JoinedBefore' /\ CallbacksHearAll'
<1>1. /\ subscribers_' = subscribers_ /\ joined' = joined
      /\ history_' = [history_ EXCEPT ![ns] = Append(@, id)]
  BY DEF publish, CutShort
<1>2. ASSUME NEW m \in Namespaces, NEW cb \in subscribers_[m]
      PROVE  cb \in Callbacks /\ joined[cb] \in Nat /\ history_[m] \in Seq(Ids)
             /\ heard[cb] \in Seq(Ids) /\ joined[cb] <= Len(history_[m])
  BY DEF HearingInv, TypeOK, JoinedBefore
<1>3. OneSubscription'
  BY <1>1 DEF HearingInv, OneSubscription
<1>4. \A m \in Namespaces : history_'[m] = IF m = ns THEN Append(history_[m], id) ELSE history_[m]
  BY <1>1 DEF HearingInv, TypeOK
<1>5. JoinedBefore'
  <2> SUFFICES ASSUME NEW m \in Namespaces, NEW cb \in subscribers_[m]
               PROVE  joined[cb] <= Len(history_'[m])
    BY <1>1 DEF JoinedBefore
  <2>1. history_[m] \in Seq(Ids) /\ joined[cb] \in Nat /\ joined[cb] <= Len(history_[m])
    BY <1>2
  <2>2. Len(Append(history_[m], id)) = Len(history_[m]) + 1 /\ Len(history_[m]) \in Nat
    BY <2>1
  <2>3. CASE m = ns
    <3>1. Len(history_'[m]) = Len(history_[m]) + 1
      BY <1>4, <2>2, <2>3, Zenon
    <3> QED
      BY <2>1, <2>2, <3>1
  <2>4. CASE m # ns
    BY <1>4, <2>1, <2>4
  <2> QED
    BY <2>3, <2>4
<1>6. CallbacksHearAll'
  <2> SUFFICES ASSUME NEW m \in Namespaces \ cut', NEW cb \in subscribers_[m]
               PROVE  heard'[cb] = SubSeq(history_'[m], joined[cb] + 1, Len(history_'[m]))
    BY <1>1, Zenon DEF CallbacksHearAll
  <2>1. m \notin cut /\ (m = ns => publish(ns, id))
    BY DEF publish, CutShort
  <2>2. heard[cb] = SubSeq(history_[m], joined[cb] + 1, Len(history_[m]))
    BY <2>1 DEF HearingInv, CallbacksHearAll
  <2>3. CASE m = ns
    <3>1. heard'[cb] = Append(heard[cb], id)
      BY <1>2, <2>1, <2>3 DEF publish, CallAll
    <3>2. /\ history_[m] \in Seq(Ids) /\ joined[cb] \in 0..Len(history_[m])
          /\ Len(Append(history_[m], id)) = Len(history_[m]) + 1
      BY <1>2
    <3>3. SubSeq(Append(history_[m], id), joined[cb] + 1, Len(history_[m]) + 1)
             = Append(SubSeq(history_[m], joined[cb] + 1, Len(history_[m])), id)
      BY <3>2, SubSeqAppend, Zenon
    <3> QED
      BY <1>4, <2>2, <2>3, <3>1, <3>2, <3>3, Zenon
  <2>4. CASE m # ns
    <3>1. cb \notin subscribers_[ns]
      BY <2>4 DEF HearingInv, OneSubscription
    <3>2. heard'[cb] = heard[cb]
      BY <1>2, <3>1 DEF publish, CallAll, CutShort
    <3> QED
      BY <1>4, <2>2, <2>4, <3>2, Zenon
  <2> QED
    BY <2>3, <2>4
<1> QED
  BY <1>3, <1>5, <1>6

(* Every step preserves what callbacks have heard.                         *)
LEMMA HearingInductive == HearingInv /\ [Next]_vars => HearingInv'
<1> SUFFICES ASSUME HearingInv, [Next]_vars
             PROVE  OneSubscription' /\ JoinedBefore' /\ CallbacksHearAll'
  BY ChannelType DEF HearingInv
<1>1. ASSUME NEW ns \in Namespaces, unsubscribe(ns)
      PROVE  OneSubscription' /\ JoinedBefore' /\ CallbacksHearAll'
  BY <1>1 DEF unsubscribe, HearingInv, TypeOK, OneSubscription, JoinedBefore, CallbacksHearAll
<1>2. ASSUME NEW ns \in Namespaces, NEW cb \in Callbacks, subscribe(ns, cb)
      PROVE  OneSubscription' /\ JoinedBefore' /\ CallbacksHearAll'
  <2>1. /\ \A m \in Namespaces : cb \notin subscribers_[m]
        /\ \A m \in Namespaces : subscribers_'[m] = IF m = ns THEN subscribers_[m] \cup {cb}
                                                              ELSE subscribers_[m]
        /\ \A d \in Callbacks : heard'[d] = IF d = cb THEN <<>> ELSE heard[d]
        /\ \A d \in Callbacks : joined'[d] = IF d = cb THEN Len(history_[ns]) ELSE joined[d]
        /\ history_' = history_ /\ cut' = cut
    BY <1>2, Zenon DEF subscribe, HearingInv, TypeOK
  <2>2. \A m \in Namespaces : subscribers_[m] \subseteq Callbacks /\ Len(history_[m]) \in Nat
    BY DEF HearingInv, TypeOK
  <2>3. OneSubscription'
    <3> SUFFICES ASSUME NEW m \in Namespaces, NEW l \in Namespaces,
                        NEW d, d \in subscribers_'[m], d \in subscribers_'[l]
                 PROVE  m = l
      BY DEF OneSubscription
    <3>1. CASE d = cb
      BY <2>1, <3>1, Zenon
    <3>2. CASE d # cb
      BY <2>1, <3>2, ZenonT(30) DEF HearingInv, OneSubscription
    <3> QED
      BY <3>1, <3>2
  <2>4. JoinedBefore'
    <3> SUFFICES ASSUME NEW m \in Namespaces, NEW d \in subscribers_'[m]
                 PROVE  joined'[d] <= Len(history_[m])
      BY <2>1 DEF JoinedBefore
    <3>1. CASE d = cb
      <4>1. m = ns
        BY <2>1, <3>1, Zenon
      <4> QED
        BY <2>1, <2>2, <3>1, <4>1
    <3>2. CASE d # cb
      BY <2>1, <2>2, <3>2, Zenon DEF HearingInv, JoinedBefore
    <3> QED
      BY <3>1, <3>2
  <2>5. SubSeq(history_[ns], Len(history_[ns]) + 1, Len(history_[ns])) = <<>>
    BY <2>2, EmptySlice
  <2>6. CallbacksHearAll'
    <3> SUFFICES ASSUME NEW m \in Namespaces \ cut, NEW d \in subscribers_'[m]
                 PROVE  heard'[d] = SubSeq(history_[m], joined'[d] + 1, Len(history_[m]))
      BY <2>1 DEF CallbacksHearAll
    <3>1. CASE d = cb
      BY <2>1, <2>5, <3>1, Zenon
    <3>2. CASE d # cb
      BY <2>1, <2>2, <3>2, ZenonT(30) DEF HearingInv, CallbacksHearAll
    <3> QED
      BY <3>1, <3>2
  <2> QED
    BY <2>3, <2>4, <2>6
<1>3. ASSUME NEW ns \in Namespaces, NEW id \in Ids,
             publish(ns, id) \/ publishThrows(ns, id) \/ publishReenters(ns, id)
      PROVE  OneSubscription' /\ JoinedBefore' /\ CallbacksHearAll'
  <2>1. publish(ns, id) \/ CutShort(ns, id)
    BY <1>3, Zenon DEF publishThrows, publishReenters
  <2> QED
    BY <2>1, PublishHeard
<1>4. CASE UNCHANGED <<subscribers_, history_, heard, joined, cut>>
  BY <1>4 DEF HearingInv, OneSubscription, JoinedBefore, CallbacksHearAll
<1> QED
  BY <1>1, <1>2, <1>3, <1>4
     DEF Next, Stuck, vars, waitForNotification, wakeUp, timeOut

(* A subscribed callback has heard every notification since it subscribed, *)
(* in order, until a callback of its namespace cuts publish short.         *)
THEOREM CallbacksAlwaysHear == Spec => []CallbacksHearAll
<1>1. Init => HearingInv
  BY InitialType DEF Init, HearingInv, OneSubscription, JoinedBefore, CallbacksHearAll
<1> QED
  BY <1>1, HearingInductive, PTL DEF Spec, HearingInv

-----------------------------------------------------------------------------
(* Catching up.  The ids of a namespace grow, and what is pending, or was  *)
(* taken last, has been announced.                                         *)
Announced(ns) == {history_[ns][i] : i \in DOMAIN history_[ns]}

Growing ==
    \A ns \in Namespaces : \A i, j \in DOMAIN history_[ns] :
        i < j => history_[ns][i] < history_[ns][j]

AllAnnounced ==
    \A ns \in Namespaces :
        /\ \A i \in DOMAIN pending_[ns] : pending_[ns][i] \in Announced(ns)
        /\ \A c \in Clients : last[c][ns] \in Announced(ns) \cup {0}

CatchUpInv == TypeOK /\ Growing /\ AllAnnounced

(* A search that takes the first pending notification.                     *)
LEMMA SearchAnnounced ==
    ASSUME CatchUpInv, NEW c \in Clients, NEW ns \in Namespaces, NEW label,
           Take(c, ns) \/ NothingTo(c, ns, label), history_' = history_
    PROVE  Growing' /\ AllAnnounced'
<1>1. Growing'
  BY DEF CatchUpInv, Growing
<1>2. CASE NothingTo(c, ns, label)
  BY <1>1, <1>2 DEF NothingTo, CatchUpInv, AllAnnounced, Announced
<1>3. CASE Take(c, ns)
  <2> DEFINE p == pending_[ns]
  <2>1. p \in Seq(Ids) /\ p # <<>> /\ 1 \in DOMAIN p /\ Head(p) = p[1]
    BY <1>3 DEF Take, CatchUpInv, TypeOK
  <2>2. \A i \in DOMAIN Tail(p) : i + 1 \in DOMAIN p /\ Tail(p)[i] = p[i + 1]
    BY <2>1
  <2>3. \A i \in DOMAIN p : p[i] \in Announced(ns)
    BY DEF CatchUpInv, AllAnnounced
  <2>4. \A m \in Namespaces : Announced(m)' = Announced(m)
    BY DEF Announced
  <2>5. \A m \in Namespaces : pending_'[m] = IF m = ns THEN Tail(p) ELSE pending_[m]
    BY <1>3 DEF Take, CatchUpInv, TypeOK
  <2>6. \A d \in Clients, m \in Namespaces :
            last'[d][m] = IF d = c /\ m = ns THEN Head(p) ELSE last[d][m]
    BY <1>3, Zenon DEF Take, CatchUpInv, TypeOK
  <2> HIDE DEF p
  <2>7. AllAnnounced'
    <3> SUFFICES ASSUME NEW m \in Namespaces
                 PROVE  /\ \A i \in DOMAIN pending_'[m] : pending_'[m][i] \in Announced(m)
                        /\ \A d \in Clients : last'[d][m] \in Announced(m) \cup {0}
      BY <2>4 DEF AllAnnounced
    <3>1. /\ \A i \in DOMAIN pending_[m] : pending_[m][i] \in Announced(m)
          /\ \A d \in Clients : last[d][m] \in Announced(m) \cup {0}
      BY DEF CatchUpInv, AllAnnounced
    <3>2. \A i \in DOMAIN pending_'[m] : pending_'[m][i] \in Announced(m)
      BY <2>2, <2>3, <2>5, <3>1, Zenon
    <3>3. \A d \in Clients : last'[d][m] \in Announced(m) \cup {0}
      BY <2>1, <2>3, <2>6, <3>1
    <3> QED
      BY <3>2, <3>3
  <2> QED
    BY <1>1, <2>7
<1> QED
  BY <1>2, <1>3

(* A notification is announced before anything else happens to it.         *)
LEMMA PublishAnnounced ==
    ASSUME CatchUpInv, NEW ns \in Namespaces, NEW id \in Ids,
           publish(ns, id) \/ CutShort(ns, id)
    PROVE  Growing' /\ AllAnnounced'
<1> DEFINE h == history_[ns]
<1>1. /\ \A m \in Namespaces : history_'[m] = IF m = ns THEN Append(h, id) ELSE history_[m]
      /\ \A i \in DOMAIN h : h[i] < id
      /\ last' = last
  BY Zenon DEF publish, CutShort, CatchUpInv, TypeOK
<1>2. /\ h \in Seq(Ids)
      /\ DOMAIN Append(h, id) = DOMAIN h \cup {Len(h) + 1}
      /\ \A i \in DOMAIN h : Append(h, id)[i] = h[i] /\ i < Len(h) + 1
      /\ Append(h, id)[Len(h) + 1] = id
  BY DEF CatchUpInv, TypeOK
<1>3. \A m \in Namespaces :
          pending_'[m] = pending_[m] \/ (m = ns /\ pending_'[m] = Append(pending_[m], id))
  BY DEF publish, CutShort, CatchUpInv, TypeOK
<1>4. Growing'
  <2> SUFFICES ASSUME NEW m \in Namespaces,
                      NEW i \in DOMAIN history_'[m], NEW j \in DOMAIN history_'[m], i < j
               PROVE  history_'[m][i] < history_'[m][j]
    BY DEF Growing
  <2>1. CASE m # ns
    BY <1>1, <2>1 DEF CatchUpInv, Growing
  <2>2. CASE m = ns
    <3>1. i \in DOMAIN h /\ history_'[m][i] = h[i]
      <4>0. history_'[m] = Append(h, id)
        BY <1>1, <2>2, Zenon
      <4>1. DOMAIN history_'[m] = DOMAIN h \cup {Len(h) + 1} /\ DOMAIN h \subseteq Nat
        BY <1>2, <4>0
      <4>2. i # Len(h) + 1
        BY <1>2, <4>1
      <4> QED
        BY <1>1, <1>2, <2>2, <4>1, <4>2, Zenon
    <3>2. CASE j = Len(h) + 1
      BY <1>1, <1>2, <2>2, <3>1, <3>2, Zenon
    <3>3. CASE j \in DOMAIN h
      BY <1>1, <1>2, <2>2, <3>1, <3>3, Zenon DEF CatchUpInv, Growing
    <3> QED
      BY <1>1, <1>2, <2>2, <3>2, <3>3, Zenon
  <2> QED
    BY <2>1, <2>2
<1>5. \A m \in Namespaces : Announced(m)' = IF m = ns THEN Announced(m) \cup {id} ELSE Announced(m)
  <2> SUFFICES ASSUME NEW m \in Namespaces
               PROVE  Announced(m)' = IF m = ns THEN Announced(m) \cup {id} ELSE Announced(m)
    OBVIOUS
  <2>1. CASE m # ns
    BY <1>1, <2>1 DEF Announced
  <2>2. CASE m = ns
    <3>1. Announced(m)' = {Append(h, id)[i] : i \in DOMAIN h \cup {Len(h) + 1}}
      BY <1>1, <1>2, <2>2, Zenon DEF Announced
    <3>2. Announced(m) = {h[i] : i \in DOMAIN h}
      BY <2>2 DEF Announced
    <3> QED
      BY <1>2, <2>2, <3>1, <3>2, SMTT(30)
  <2> QED
    BY <2>1, <2>2
<1>6. AllAnnounced'
  <2> SUFFICES ASSUME NEW m \in Namespaces
               PROVE  /\ \A i \in DOMAIN pending_'[m] : pending_'[m][i] \in Announced(m)'
                      /\ \A c \in Clients : last'[c][m] \in Announced(m)' \cup {0}
    BY DEF AllAnnounced
  <2>1. /\ \A i \in DOMAIN pending_[m] : pending_[m][i] \in Announced(m)
        /\ \A c \in Clients : last[c][m] \in Announced(m) \cup {0}
    BY DEF CatchUpInv, AllAnnounced
  <2>2. \A c \in Clients : last'[c][m] \in Announced(m)' \cup {0}
    BY <1>1, <1>5, <2>1
  <2>3. CASE pending_'[m] = pending_[m]
    BY <1>5, <2>1, <2>2, <2>3, SMTT(30)
  <2>4. CASE m = ns /\ pending_'[m] = Append(pending_[m], id)
    <3>1. pending_[m] \in Seq(Ids)
      BY DEF CatchUpInv, TypeOK
    <3>2. \A i \in DOMAIN Append(pending_[m], id) :
             \/ i \in DOMAIN pending_[m] /\ Append(pending_[m], id)[i] = pending_[m][i]
             \/ Append(pending_[m], id)[i] = id
      BY <3>1
    <3> QED
      BY <1>5, <2>1, <2>2, <2>4, <3>2
  <2> QED
    BY <1>3, <2>3, <2>4
<1> QED
  BY <1>4, <1>6

(* Every step preserves CatchUpInv.                                        *)
LEMMA CatchUpInductive == CatchUpInv /\ [Next]_vars => CatchUpInv'
<1> SUFFICES ASSUME CatchUpInv, [Next]_vars PROVE Growing' /\ AllAnnounced'
  BY ChannelType DEF CatchUpInv
<1>1. ASSUME NEW ns \in Namespaces, NEW id \in Ids,
             publish(ns, id) \/ publishThrows(ns, id) \/ publishReenters(ns, id)
      PROVE  Growing' /\ AllAnnounced'
  <2>1. publish(ns, id) \/ CutShort(ns, id)
    BY <1>1, Zenon DEF publishThrows, publishReenters
  <2> QED
    BY <2>1, PublishAnnounced
<1>2. ASSUME NEW ns \in Namespaces, NEW c \in Clients, waitForNotification(c, ns)
      PROVE  Growing' /\ AllAnnounced'
  BY <1>2, SearchAnnounced, SMTT(30) DEF waitForNotification
<1>3. ASSUME NEW c \in Clients, wakeUp(c) \/ timeOut(c) PROVE Growing' /\ AllAnnounced'
  <2>1. wait[c] \in Namespaces
    BY DEF CatchUpInv, TypeOK
  <2> QED
    BY <1>3, <2>1, SearchAnnounced DEF wakeUp, timeOut
<1>4. CASE UNCHANGED <<history_, pending_, last>>
  BY <1>4 DEF CatchUpInv, Growing, AllAnnounced, Announced
<1> QED
  BY <1>1, <1>2, <1>3, <1>4 DEF Next, Stuck, vars, subscribe, unsubscribe

(* Where the ids grow, getMissedNotifications answers with the end of the  *)
(* history after the last id its caller took.                              *)
LEMMA MissedIsTail ==
    ASSUME CatchUpInv, NEW ns \in Namespaces, NEW i \in 0..Len(history_[ns]), NEW id \in Nat,
           IF i = 0 THEN id = 0 ELSE id = history_[ns][i]
    PROVE  getMissedNotifications(ns, id) = SubSeq(history_[ns], i + 1, Len(history_[ns]))
<1> DEFINE h == history_[ns]
<1>1. h \in Seq(Ids) /\ DOMAIN h = 1..Len(h) /\ Len(h) \in Nat
  BY DEF CatchUpInv, TypeOK
<1>2. \A j \in DOMAIN h : h[j] \in Nat /\ h[j] > 0
  BY <1>1, ChannelAssumption DEF Ids
<1>3. \A j, k \in DOMAIN h : j < k => h[j] < h[k]
  BY DEF CatchUpInv, Growing
<1> HIDE DEF h
<1>4. ASSUME NEW j \in DOMAIN h PROVE h[j] > id <=> j > i
  <2>1. CASE i = 0
    BY <1>1, <1>2, <2>1
  <2>2. CASE i # 0
    <3>1. i \in DOMAIN h /\ id = h[i]
      BY <1>1, <2>2 DEF h
    <3>2. j \in Nat /\ i \in Nat /\ (j < i \/ j = i \/ i < j)
      BY <1>1, <3>1
    <3> QED
      BY <1>2, <1>3, <3>1, <3>2
  <2> QED
    BY <2>1, <2>2
<1>5. getMissedNotifications(ns, id) = Filter(h, {j \in DOMAIN h : h[j] > id})
  BY DEF getMissedNotifications, h
<1>6. \A j \in DOMAIN h : j \in {k \in DOMAIN h : h[k] > id} <=> j > i
  BY <1>4
<1>7. i \in 0..Len(h)
  BY DEF h
<1> QED
  BY <1>1, <1>5, <1>6, <1>7, FilterTail, Zenon DEF h

(* A client that comes back with the last release it took is told exactly  *)
(* what was published after it, also where publish was cut short.          *)
THEOREM CatchUpAlwaysComplete == Spec => []CatchUpComplete
<1>1. Init => CatchUpInv
  BY InitialType DEF Init, CatchUpInv, Growing, AllAnnounced
<1>2. CatchUpInv => CatchUpComplete
  <2> SUFFICES ASSUME CatchUpInv, NEW c \in Clients, NEW ns \in Namespaces
               PROVE  \E i \in 0..Len(history_[ns]) :
                         /\ IF i = 0 THEN last[c][ns] = 0 ELSE last[c][ns] = history_[ns][i]
                         /\ getMissedNotifications(ns, last[c][ns])
                               = SubSeq(history_[ns], i + 1, Len(history_[ns]))
    BY DEF CatchUpComplete
  <2>1. last[c][ns] \in Nat /\ history_[ns] \in Seq(Ids)
    BY DEF CatchUpInv, TypeOK
  <2>2. PICK i \in 0..Len(history_[ns]) :
           IF i = 0 THEN last[c][ns] = 0 ELSE last[c][ns] = history_[ns][i]
    <3>1. CASE last[c][ns] = 0
      BY <2>1, <3>1
    <3>2. CASE last[c][ns] \in Announced(ns)
      BY <2>1, <3>2 DEF Announced
    <3> QED
      BY <3>1, <3>2 DEF CatchUpInv, AllAnnounced
  <2> QED
    BY <2>1, <2>2, MissedIsTail, SMTT(30)
<1> QED
  BY <1>1, <1>2, CatchUpInductive, PTL DEF Spec

-----------------------------------------------------------------------------
(* The pool.                                                               *)

(* A thread has a connection exactly while it uses it: without this, two   *)
(* calls of a thread could follow one another with the connection of the   *)
(* first one lost to it and not given back.                                *)
UsersConnected == \A t \in Callers : at[t] = "using" <=> conn[t] # NoConnection

PoolInv == PoolTypeOK /\ ConnectionsApart /\ UsersConnected

(* What PopFront takes is new to everybody.                                *)
LEMMA PopFrontApart ==
    ASSUME PoolInv, NEW t \in Callers, at[t] # "using", PopFront(t)
    PROVE  /\ pool_' \in Seq(Connections)
           /\ at' \in [Callers -> {"idle", "asleep", "awake", "using"}]
           /\ conn' \in [Callers -> Connections \cup {NoConnection}]
           /\ UNCHANGED leaked => ConnectionsApart'
           /\ UsersConnected'
<1> DEFINE c == Head(pool_)
<1>1. /\ pool_ \in Seq(Connections)
      /\ pool_ # <<>>
      /\ pool_' = Tail(pool_)
      /\ conn' = [conn EXCEPT ![t] = c]
      /\ at' = [at EXCEPT ![t] = "using"]
  BY DEF PopFront, PoolInv, PoolTypeOK
<1>2. /\ Len(pool_) \in Nat \ {0}
      /\ DOMAIN pool_ = 1..Len(pool_)
      /\ c = pool_[1]
      /\ c \in Connections
      /\ pool_' \in Seq(Connections)
      /\ DOMAIN pool_' = 1..Len(pool_) - 1
      /\ \A i \in DOMAIN pool_' : pool_'[i] = pool_[i + 1] /\ i + 1 \in DOMAIN pool_
      /\ 1 \in DOMAIN pool_
  BY <1>1
<1>3. c # NoConnection
  BY <1>2, PoolAssumption DEF Connections, NoConnection
<1>4. conn \in [Callers -> Connections \cup {NoConnection}]
      /\ at \in [Callers -> {"idle", "asleep", "awake", "using"}]
  BY DEF PoolInv, PoolTypeOK
<1>5. \A u \in Callers : conn'[u] = (IF u = t THEN c ELSE conn[u])
  BY <1>1, <1>4
<1>6. \A i \in DOMAIN pool_' : pool_'[i] # c
  BY <1>2 DEF PoolInv, ConnectionsApart
<1>7. \A u \in Callers : conn[u] # c
  BY <1>2 DEF PoolInv, ConnectionsApart
<1>8. \A u, w \in Callers : u # w /\ conn'[u] # NoConnection => conn'[u] # conn'[w]
  BY <1>5, <1>7, <1>3, SMTT(30) DEF PoolInv, ConnectionsApart
<1>9. \A u \in Callers : \A i \in DOMAIN pool_' : pool_'[i] # conn'[u]
  BY <1>2, <1>5, <1>6, SMTT(30) DEF PoolInv, ConnectionsApart
<1>10. \A i, j \in DOMAIN pool_' : i # j => pool_'[i] # pool_'[j]
  <2>1. \A i, j \in DOMAIN pool_' : i # j => i + 1 # j + 1
    BY <1>2
  <2> QED
    BY <1>2, <2>1 DEF PoolInv, ConnectionsApart
<1>11. /\ \A u \in Callers : conn'[u] \notin leaked
       /\ \A i \in DOMAIN pool_' : pool_'[i] \notin leaked
  BY <1>2, <1>5 DEF PoolInv, ConnectionsApart
<1>12. UNCHANGED leaked => ConnectionsApart'
  BY <1>8, <1>9, <1>10, <1>11 DEF ConnectionsApart
<1>13. UsersConnected'
  BY <1>1, <1>3, <1>4, <1>5 DEF PoolInv, UsersConnected
<1> QED
  BY <1>1, <1>2, <1>4, <1>12, <1>13

(* Threads that fall asleep or wake up, and calls that start, touch no     *)
(* connection.                                                             *)
LEMMA SleepApart ==
    ASSUME PoolInv, NEW t \in Callers, at[t] # "using", Sleep(t)
    PROVE  /\ pool_' \in Seq(Connections)
           /\ at' \in [Callers -> {"idle", "asleep", "awake", "using"}]
           /\ conn' \in [Callers -> Connections \cup {NoConnection}]
           /\ UNCHANGED leaked => ConnectionsApart'
           /\ UsersConnected'
BY DEF PoolInv, PoolTypeOK, ConnectionsApart, UsersConnected, Sleep

(* What notify_one makes of the threads: the one that releases is idle,    *)
(* and nobody else starts or stops using a connection.                     *)
LEMMA SignalTypes ==
    ASSUME PoolInv, NEW t \in Callers, at[t] = "using", SignalOne(t)
    PROVE  /\ at' \in [Callers -> {"idle", "asleep", "awake", "using"}]
           /\ \A u \in Callers : at'[u] = "using" <=> at[u] = "using" /\ u # t
<1>1. at \in [Callers -> {"idle", "asleep", "awake", "using"}]
  BY DEF PoolInv, PoolTypeOK
<1>2. CASE at' = [at EXCEPT ![t] = "idle"]
  BY <1>1, <1>2
<1>3. ASSUME NEW u \in Callers, at[u] = "asleep", at' = [at EXCEPT ![t] = "idle", ![u] = "awake"]
      PROVE  /\ at' \in [Callers -> {"idle", "asleep", "awake", "using"}]
             /\ \A w \in Callers : at'[w] = "using" <=> at[w] = "using" /\ w # t
  BY <1>1, <1>3
<1> QED
  BY <1>2, <1>3 DEF SignalOne

(* A connection given back is no longer its user's.                        *)
LEMMA ReleaseApart ==
    ASSUME PoolInv, NEW t \in Callers, release(t)
    PROVE  PoolInv'
<1> DEFINE c == conn[t]
<1>1. /\ pool_ \in Seq(Connections)
      /\ conn \in [Callers -> Connections \cup {NoConnection}]
      /\ conn' = [conn EXCEPT ![t] = NoConnection]
      /\ pool_' = Append(pool_, c)
      /\ at[t] = "using"
      /\ SignalOne(t)
      /\ UNCHANGED <<keeps, calls, leaked>>
  BY DEF release, PoolInv, PoolTypeOK
<1>2. c \in Connections /\ c # NoConnection
  BY <1>1 DEF PoolInv, UsersConnected
<1>3. NoConnection \notin Connections
  BY PoolAssumption, SMTT(30) DEF Connections, NoConnection
<1>4. /\ pool_' \in Seq(Connections)
      /\ DOMAIN pool_ = 1..Len(pool_)
      /\ DOMAIN pool_' = 1..Len(pool_) + 1
      /\ Len(pool_) \in Nat
      /\ \A i \in DOMAIN pool_ : pool_'[i] = pool_[i]
      /\ pool_'[Len(pool_) + 1] = c
  BY <1>1, <1>2
<1>5. \A i \in DOMAIN pool_' : i \in DOMAIN pool_ \/ i = Len(pool_) + 1
  BY <1>4
<1>6. \A i \in DOMAIN pool_' : pool_'[i] \in Connections
  BY <1>4
<1>7. \A u \in Callers : conn'[u] = (IF u = t THEN NoConnection ELSE conn[u])
  BY <1>1
<1>8. \A u \in Callers : u # t => conn[u] # c
  BY <1>2 DEF PoolInv, ConnectionsApart
<1>9. \A u, w \in Callers : u # w /\ conn'[u] # NoConnection => conn'[u] # conn'[w]
  BY <1>7, SMTT(30) DEF PoolInv, ConnectionsApart
<1>10. \A u \in Callers : \A i \in DOMAIN pool_' : pool_'[i] # conn'[u]
  BY <1>3, <1>4, <1>5, <1>6, <1>7, <1>8, SMTT(30) DEF PoolInv, ConnectionsApart
<1>11. \A i \in DOMAIN pool_ : pool_[i] # c
  BY SMTT(30) DEF PoolInv, ConnectionsApart
<1>12. \A i, j \in DOMAIN pool_' : i # j => pool_'[i] # pool_'[j]
  BY <1>4, <1>5, <1>11 DEF PoolInv, ConnectionsApart
<1>13. NoConnection \notin leaked
  BY <1>3, SMTT(30) DEF PoolInv, PoolTypeOK
<1>14. /\ \A u \in Callers : conn'[u] \notin leaked
       /\ \A i \in DOMAIN pool_' : pool_'[i] \notin leaked
  BY <1>4, <1>5, <1>7, <1>13, SMTT(30) DEF PoolInv, ConnectionsApart
<1>15. ConnectionsApart'
  BY <1>1, <1>9, <1>10, <1>12, <1>14 DEF ConnectionsApart
<1>16. /\ at' \in [Callers -> {"idle", "asleep", "awake", "using"}]
       /\ \A u \in Callers : at'[u] = "using" <=> at[u] = "using" /\ u # t
  BY <1>1, SignalTypes
<1>17. UsersConnected'
  BY <1>7, <1>16, SMTT(30) DEF PoolInv, UsersConnected
<1>18. PoolTypeOK'
  BY <1>1, <1>4, <1>16, Zenon DEF PoolInv, PoolTypeOK
<1> QED
  BY <1>15, <1>17, <1>18 DEF PoolInv

(* A connection that a transaction method keeps is nobody's.               *)
LEMMA KeepApart ==
    ASSUME PoolInv, NEW t \in Callers, endTransactionMethod(t)
    PROVE  PoolInv'
<1>1. /\ conn \in [Callers -> Connections \cup {NoConnection}]
      /\ conn' = [conn EXCEPT ![t] = NoConnection]
      /\ leaked' = leaked \cup {conn[t]}
      /\ at[t] = "using"
      /\ at' = [at EXCEPT ![t] = "idle"]
      /\ UNCHANGED <<pool_, calls>>
  BY DEF endTransactionMethod, PoolInv, PoolTypeOK
<1>2. conn[t] \in Connections /\ conn[t] # NoConnection
  BY <1>1 DEF PoolInv, UsersConnected
<1>3. NoConnection \notin Connections
  BY PoolAssumption DEF Connections, NoConnection
<1>4. PoolTypeOK'
  <2>1. keeps' \in [Callers -> BOOLEAN]
    BY Zenon DEF endTransactionMethod, PoolInv, PoolTypeOK
  <2> QED
    BY <1>1, <1>2, <2>1, ZenonT(30) DEF PoolInv, PoolTypeOK
<1>5. \A i \in DOMAIN pool_ : pool_[i] \in Connections
  BY DEF PoolInv, PoolTypeOK
<1>6. \A u \in Callers : conn'[u] = (IF u = t THEN NoConnection ELSE conn[u])
  BY <1>1
<1>7. NoConnection \notin leaked'
  BY <1>1, <1>2, <1>3 DEF PoolInv, PoolTypeOK
<1>8. ConnectionsApart'
  BY <1>1, <1>2, <1>3, <1>5, <1>6, <1>7 DEF PoolInv, ConnectionsApart
<1>9. UsersConnected'
  BY <1>1, <1>6 DEF PoolInv, PoolTypeOK, UsersConnected
<1> QED
  BY <1>4, <1>8, <1>9 DEF PoolInv

(* The invariant holds at first.                                           *)
LEMMA PoolInitial == PoolInit => PoolInv
<1> SUFFICES ASSUME PoolInit PROVE PoolInv
  OBVIOUS
<1>1. NoConnection \notin Connections
  BY PoolAssumption DEF Connections, NoConnection
<1>2. pool_ \in Seq(Connections) /\ \A i \in DOMAIN pool_ : pool_[i] = i /\ i \in Connections
  BY PoolAssumption DEF PoolInit, Connections
<1>3. PoolTypeOK
  BY <1>2 DEF PoolInit, PoolTypeOK
<1> QED
  BY <1>1, <1>2, <1>3 DEF PoolInit, PoolInv, ConnectionsApart, UsersConnected

(* Every step preserves the invariant.                                     *)
LEMMA PoolInductive == PoolInv /\ [PoolNext]_poolVars => PoolInv'
<1> SUFFICES ASSUME PoolInv, [PoolNext]_poolVars PROVE PoolInv'
  OBVIOUS
<1>1. ASSUME NEW t \in Callers, NEW transaction \in BOOLEAN, acquire(t, transaction)
      PROVE  PoolInv'
  <2>1. /\ at[t] # "using"
        /\ UNCHANGED leaked
        /\ calls' \in [Callers -> Nat]
    BY <1>1 DEF acquire, PoolInv, PoolTypeOK
  <2>2. keeps' \in [Callers -> BOOLEAN]
    BY <1>1, Zenon DEF acquire, PoolInv, PoolTypeOK
  <2>3. /\ pool_' \in Seq(Connections)
        /\ at' \in [Callers -> {"idle", "asleep", "awake", "using"}]
        /\ conn' \in [Callers -> Connections \cup {NoConnection}]
        /\ ConnectionsApart'
        /\ UsersConnected'
    BY <1>1, <2>1, PopFrontApart, SleepApart DEF acquire
  <2> QED
    BY <2>1, <2>2, <2>3 DEF PoolInv, PoolTypeOK
<1>2. ASSUME NEW t \in Callers, wakeToAcquire(t) PROVE PoolInv'
  <2>1. at[t] # "using" /\ UNCHANGED <<keeps, calls, leaked>>
    BY <1>2 DEF wakeToAcquire
  <2>2. /\ pool_' \in Seq(Connections)
        /\ at' \in [Callers -> {"idle", "asleep", "awake", "using"}]
        /\ conn' \in [Callers -> Connections \cup {NoConnection}]
        /\ ConnectionsApart'
        /\ UsersConnected'
    BY <1>2, <2>1, PopFrontApart, SleepApart DEF wakeToAcquire
  <2> QED
    BY <2>1, <2>2 DEF PoolInv, PoolTypeOK
<1>3. ASSUME NEW t \in Callers, spuriousWakeUp(t) PROVE PoolInv'
  BY <1>3 DEF spuriousWakeUp, PoolInv, PoolTypeOK, ConnectionsApart, UsersConnected
<1>4. CASE UNCHANGED poolVars
  BY <1>4 DEF poolVars, PoolInv, PoolTypeOK, ConnectionsApart, UsersConnected
<1> QED
  BY <1>1, <1>2, <1>3, <1>4, ReleaseApart, KeepApart, Zenon
     DEF PoolNext, PoolCall, PoolStep, PoolQuiet

(* ConnectionsApart, for every pool and any number of callers: no two      *)
(* methods of MysqlConfigStore run statements on one connection at once.   *)
THEOREM ConnectionsAlwaysApart == PoolSpec => []ConnectionsApart
<1>1. PoolInit => PoolInv
  BY PoolInitial
<1>2. PoolInv /\ [PoolNext]_poolVars => PoolInv'
  BY PoolInductive
<1>3. PoolInv => ConnectionsApart
  BY DEF PoolInv
<1> QED
  BY <1>1, <1>2, <1>3, PTL DEF PoolSpec

-----------------------------------------------------------------------------
(* The threads on their way to a connection.                               *)
Awake == {t \in Callers : at[t] = "awake"}

(* The callers on their way to a connection can be counted.                *)
LEMMA AwakeFinite ==
    /\ IsFiniteSet(Awake) /\ Cardinality(Awake) \in Nat
    /\ IsFiniteSet(Awake') /\ Cardinality(Awake') \in Nat
<1>1. Awake \subseteq Callers /\ Awake' \subseteq Callers
  BY DEF Awake
<1> QED
  BY <1>1, PoolAssumption, FS_Subset, FS_CardinalityType

(* A search of the pool keeps SleepersServed: who takes a connection was   *)
(* awake for it or came from outside, and who falls asleep found none.     *)
LEMMA SearchServed ==
    ASSUME PoolInv, SleepersServed, NEW t \in Callers, at[t] \in {"idle", "awake"},
           PopFront(t) \/ Sleep(t)
    PROVE  SleepersServed'
<1>1. at \in [Callers -> {"idle", "asleep", "awake", "using"}] /\ pool_ \in Seq(Connections)
  BY DEF PoolInv, PoolTypeOK
<1>2. CASE Sleep(t)
  <2>1. Len(pool_') = 0
    BY <1>1, <1>2, SMTT(30) DEF Sleep
  <2> QED
    BY <2>1, AwakeFinite DEF SleepersServed, Awake
<1>3. CASE PopFront(t)
  <2>1. /\ at' = [at EXCEPT ![t] = "using"]
        /\ pool_ # <<>>
        /\ pool_' = Tail(pool_)
    BY <1>3 DEF PopFront
  <2>2. Len(pool_) \in Nat /\ Len(pool_') = Len(pool_) - 1
    BY <1>1, <2>1
  <2> SUFFICES ASSUME NEW u \in Callers, at'[u] = "asleep" PROVE Len(pool_') <= Cardinality(Awake')
    BY DEF SleepersServed, Awake
  <2>3. at[u] = "asleep"
    BY <1>1, <2>1
  <2>4. Len(pool_) <= Cardinality(Awake)
    BY <2>3 DEF SleepersServed, Awake
  <2>5. Awake' = Awake \ {t}
    BY <1>1, <2>1 DEF Awake
  <2>6. Cardinality(Awake') = IF t \in Awake THEN Cardinality(Awake) - 1 ELSE Cardinality(Awake)
    BY <2>5, AwakeFinite, FS_RemoveElement
  <2> QED
    BY <2>2, <2>4, <2>6, AwakeFinite
<1> QED
  BY <1>2, <1>3

(* A thread that wakes up is one more on its way.                          *)
LEMMA WokenServed ==
    ASSUME at \in [Callers -> {"idle", "asleep", "awake", "using"}],
           NEW u \in Callers, at[u] = "asleep", at'[u] = "awake",
           \A w \in Callers \ {u} : at'[w] = "awake" <=> at[w] = "awake"
    PROVE  Cardinality(Awake') = Cardinality(Awake) + 1
<1>1. Awake' = Awake \cup {u} /\ u \notin Awake
  BY DEF Awake
<1> QED
  BY <1>1, AwakeFinite, FS_AddElement

(* Every step preserves SleepersServed.                                    *)
LEMMA ServedInductive ==
    PoolInv /\ SleepersServed /\ [PoolNext]_poolVars => SleepersServed'
<1> SUFFICES ASSUME PoolInv, SleepersServed, [PoolNext]_poolVars PROVE SleepersServed'
  OBVIOUS
<1>1. at \in [Callers -> {"idle", "asleep", "awake", "using"}] /\ pool_ \in Seq(Connections)
  BY DEF PoolInv, PoolTypeOK
<1>2. ASSUME NEW t \in Callers, NEW transaction \in BOOLEAN, acquire(t, transaction)
      PROVE  SleepersServed'
  BY <1>2, SearchServed DEF acquire
<1>3. ASSUME NEW t \in Callers, wakeToAcquire(t) PROVE SleepersServed'
  BY <1>3, SearchServed DEF wakeToAcquire
<1>4. ASSUME NEW t \in Callers, spuriousWakeUp(t) PROVE SleepersServed'
  <2>1. Cardinality(Awake') = Cardinality(Awake) + 1
    BY <1>1, <1>4, WokenServed DEF spuriousWakeUp
  <2>2. Len(pool_) \in Nat /\ Len(pool_) <= Cardinality(Awake) /\ pool_' = pool_
    BY <1>1, <1>4 DEF spuriousWakeUp, SleepersServed, Awake
  <2>3. Len(pool_') <= Cardinality(Awake')
    BY <2>1, <2>2, AwakeFinite
  <2> QED
    BY <2>3 DEF SleepersServed, Awake
<1>5. ASSUME NEW t \in Callers, release(t) PROVE SleepersServed'
  <2>1. at[t] = "using" /\ pool_' = Append(pool_, conn[t]) /\ SignalOne(t)
    BY <1>5 DEF release
  <2>2. conn[t] \in Connections
    BY <2>1 DEF PoolInv, PoolTypeOK, UsersConnected
  <2>3. Len(pool_) \in Nat /\ Len(pool_') = Len(pool_) + 1
    BY <1>1, <2>1, <2>2
  <2>4. ASSUME at' = [at EXCEPT ![t] = "idle"], \A u \in Callers : at[u] # "asleep"
        PROVE  SleepersServed'
    BY <1>1, <2>4 DEF SleepersServed
  <2>5. ASSUME NEW u \in Callers, at[u] = "asleep",
               at' = [at EXCEPT ![t] = "idle", ![u] = "awake"]
        PROVE  SleepersServed'
    <3>1. Cardinality(Awake') = Cardinality(Awake) + 1
      BY <1>1, <2>1, <2>5, WokenServed
    <3>2. Len(pool_) <= Cardinality(Awake)
      BY <2>5 DEF SleepersServed, Awake
    <3>3. Len(pool_') <= Cardinality(Awake')
      BY <2>3, <3>1, <3>2, AwakeFinite
    <3> QED
      BY <3>3 DEF SleepersServed, Awake
  <2> QED
    BY <2>1, <2>4, <2>5 DEF SignalOne
<1>6. ASSUME NEW t \in Callers, endTransactionMethod(t) PROVE SleepersServed'
  <2>1. at[t] = "using" /\ at' = [at EXCEPT ![t] = "idle"] /\ pool_' = pool_
    BY <1>6 DEF endTransactionMethod
  <2>2. Awake' = Awake
    BY <1>1, <2>1 DEF Awake
  <2>3. \A u \in Callers : at'[u] = "asleep" => at[u] = "asleep"
    BY <1>1, <2>1
  <2> QED
    BY <2>1, <2>2, <2>3, Zenon DEF SleepersServed, Awake
<1>7. CASE UNCHANGED poolVars
  BY <1>7 DEF poolVars, SleepersServed
<1> QED
  BY <1>2, <1>3, <1>4, <1>5, <1>6, <1>7, Zenon DEF PoolNext, PoolCall, PoolStep, PoolQuiet

(* SleepersServed, for every pool and any number of callers: release need  *)
(* not notify more than one thread.                                        *)
THEOREM SleepersAlwaysServed == PoolSpec => []SleepersServed
<1>1. PoolInit => PoolInv /\ SleepersServed
  BY PoolInitial DEF PoolInit, SleepersServed
<1>2. PoolInv /\ SleepersServed /\ [PoolNext]_poolVars => (PoolInv /\ SleepersServed)'
  BY PoolInductive, ServedInductive
<1> QED
  BY <1>1, <1>2, PTL DEF PoolSpec
=============================================================================
