------------------------ MODULE NotificationChannel ------------------------
(***************************************************************************)
(* NotificationChannel: subscribers with callbacks, and clients that wait  *)
(* for the next notification of a namespace with a timeout (long polling). *)
(*                                                                         *)
(* Every method runs under mutex_, which only cv_.wait_for gives up: a     *)
(* method is one step, except that waitForNotification may fall asleep and *)
(* continue in later steps.  A notification is its releaseId.  pending_ is *)
(* one vector in the code, always searched for the first notification of a *)
(* namespace: here, one sequence per namespace.  Publishers announce the   *)
(* releases of a namespace in the order of their ids (the server has no    *)
(* publisher yet).  Callbacks run with mutex_ held; one may throw, or call *)
(* the channel, and then the thread of publish waits for itself.           *)
(***************************************************************************)
EXTENDS Naturals, Sequences, Filters

CONSTANTS Namespaces,
          Clients,        \* the threads that call waitForNotification
          Callbacks,      \* the callback objects, each subscribed once at a time
          MaxReleaseId    \* bound: release ids

ASSUME ChannelAssumption == MaxReleaseId \in Nat

VARIABLES subscribers_,   \* namespace -> its callbacks
          history_,       \* namespace -> all its notifications
          pending_,       \* namespace -> its notifications nobody has taken
          pc,             \* client -> "idle", "asleep" in wait_for, or "awake"
          wait,           \* client -> the namespace it waits for
          delivered,      \* history: namespace -> the notifications taken, in order
          last,           \* history: client -> namespace -> last releaseId it took
          heard,          \* history: callback -> what it was called with since subscribe
          joined,         \* history: callback -> Len(history_) at subscribe
          cut,            \* history: namespaces in which a callback cut publish short
          stuck           \* a callback has called the channel: mutex_ is held for ever

vars == <<subscribers_, history_, pending_, pc, wait, delivered, last, heard, joined, cut,
          stuck>>

Ids == 1..MaxReleaseId

TypeOK ==
    /\ subscribers_ \in [Namespaces -> SUBSET Callbacks]
    /\ history_ \in [Namespaces -> Seq(Ids)]
    /\ pending_ \in [Namespaces -> Seq(Ids)]
    /\ pc \in [Clients -> {"idle", "asleep", "awake"}]
    /\ wait \in [Clients -> Namespaces]
    /\ delivered \in [Namespaces -> Seq(Ids)]
    /\ last \in [Clients -> [Namespaces -> Nat]]
    /\ heard \in [Callbacks -> Seq(Ids)]
    /\ joined \in [Callbacks -> Nat]
    /\ cut \subseteq Namespaces
    /\ stuck \in BOOLEAN

Init ==
    /\ subscribers_ = [ns \in Namespaces |-> {}]
    /\ history_ = [ns \in Namespaces |-> <<>>]
    /\ pending_ = [ns \in Namespaces |-> <<>>]
    /\ pc = [c \in Clients |-> "idle"]
    /\ wait \in [Clients -> Namespaces]
    /\ delivered = [ns \in Namespaces |-> <<>>]
    /\ last = [c \in Clients |-> [ns \in Namespaces |-> 0]]
    /\ heard = [cb \in Callbacks |-> <<>>]
    /\ joined = [cb \in Callbacks |-> 0]
    /\ cut = {}
    /\ stuck = FALSE

-----------------------------------------------------------------------------
(* Callbacks.                                                              *)

subscribe(ns, cb) ==
    /\ ~stuck
    /\ \A m \in Namespaces : cb \notin subscribers_[m]
    /\ subscribers_' = [subscribers_ EXCEPT ![ns] = @ \cup {cb}]
    /\ heard' = [heard EXCEPT ![cb] = <<>>]
    /\ joined' = [joined EXCEPT ![cb] = Len(history_[ns])]
    /\ UNCHANGED <<history_, pending_, pc, wait, delivered, last, cut, stuck>>

(* Removes every callback of the namespace.                                *)
unsubscribe(ns) ==
    /\ ~stuck
    /\ subscribers_' = [subscribers_ EXCEPT ![ns] = {}]
    /\ UNCHANGED <<history_, pending_, pc, wait, delivered, last, heard, joined, cut, stuck>>

(* The loop over subscribers_ in publish.                                  *)
CallEverybody(ns, id) ==                                      \* mistaken
    heard' = [cb \in Callbacks |-> Append(heard[cb], id)]

CallAll(ns, id) ==
    heard' = [cb \in Callbacks |->
                IF cb \in subscribers_[ns] THEN Append(heard[cb], id) ELSE heard[cb]]

(* cv_.notify_all: every sleeping client gets to look again.               *)
NotifyOne ==                                                  \* mistaken
    IF \E c \in Clients : pc[c] = "asleep"
    THEN \E c \in Clients : pc[c] = "asleep" /\ pc' = [pc EXCEPT ![c] = "awake"]
    ELSE UNCHANGED pc

NotifyAll == pc' = [c \in Clients |-> IF pc[c] = "asleep" THEN "awake" ELSE pc[c]]

publish(ns, id) ==
    /\ ~stuck
    /\ \A i \in DOMAIN history_[ns] : history_[ns][i] < id
    /\ history_' = [history_ EXCEPT ![ns] = Append(@, id)]
    /\ CallAll(ns, id)
    /\ pending_' = [pending_ EXCEPT ![ns] = Append(@, id)]
    /\ NotifyAll
    /\ UNCHANGED <<subscribers_, wait, delivered, last, joined, cut, stuck>>

(* publish up to a callback that does not return, history_ extended and    *)
(* pending_ not, with the callbacks up to that one called.                 *)
CutShort(ns, id) ==
    /\ ~stuck
    /\ \A i \in DOMAIN history_[ns] : history_[ns][i] < id
    /\ history_' = [history_ EXCEPT ![ns] = Append(@, id)]
    /\ \E called \in SUBSET subscribers_[ns] :
          /\ called # {}
          /\ heard' = [cb \in Callbacks |->
                         IF cb \in called THEN Append(heard[cb], id) ELSE heard[cb]]
    /\ cut' = cut \cup {ns}
    /\ UNCHANGED <<subscribers_, pending_, pc, wait, delivered, last, joined>>

(* The callback throws: the exception leaves publish, which unlocks.       *)
publishThrows(ns, id) == CutShort(ns, id) /\ UNCHANGED stuck

(* The callback calls a method of the channel, which locks mutex_ again.   *)
publishReenters(ns, id) == CutShort(ns, id) /\ stuck' = TRUE

-----------------------------------------------------------------------------
(* Long polling.                                                           *)

(* The search of pending_, and its outcome: the client takes the first     *)
(* notification of the namespace and returns true, or fails to find one.   *)
TakeLast(c, ns) ==                                            \* mistaken
    /\ pending_[ns] # <<>>
    /\ delivered' = [delivered EXCEPT ![ns] = Append(@, pending_[ns][Len(pending_[ns])])]
    /\ last' = [last EXCEPT ![c][ns] = pending_[ns][Len(pending_[ns])]]
    /\ pending_' = [pending_ EXCEPT ![ns] = SubSeq(@, 1, Len(@) - 1)]
    /\ pc' = [pc EXCEPT ![c] = "idle"]

Take(c, ns) ==
    /\ pending_[ns] # <<>>
    /\ delivered' = [delivered EXCEPT ![ns] = Append(@, Head(pending_[ns]))]
    /\ last' = [last EXCEPT ![c][ns] = Head(pending_[ns])]
    /\ pending_' = [pending_ EXCEPT ![ns] = Tail(@)]
    /\ pc' = [pc EXCEPT ![c] = "idle"]

NothingTo(c, ns, label) ==
    /\ pending_[ns] = <<>>
    /\ pc' = [pc EXCEPT ![c] = label]
    /\ UNCHANGED <<pending_, delivered, last>>

(* waitForNotification up to its return or to the sleep in wait_for, whose *)
(* predicate is the same search once more.                                 *)
waitForNotification(c, ns) ==
    /\ ~stuck
    /\ pc[c] = "idle"
    /\ wait' = [wait EXCEPT ![c] = ns]
    /\ Take(c, ns) \/ NothingTo(c, ns, "asleep")
    /\ UNCHANGED <<subscribers_, history_, heard, joined, cut, stuck>>

(* A client awakened by notify_all evaluates the predicate, and sleeps on  *)
(* when another client was faster.                                         *)
wakeUp(c) ==
    LET ns == wait[c]
    IN  /\ ~stuck
        /\ pc[c] = "awake"
        /\ Take(c, ns) \/ NothingTo(c, ns, "asleep")
        /\ UNCHANGED <<subscribers_, history_, wait, heard, joined, cut, stuck>>

(* The timeout: wait_for returns what the predicate says then.  A client   *)
(* that was notified and has not run yet may time out too.                 *)
SleepOn(c) ==                                                 \* mistaken
    LET ns == wait[c]
    IN  /\ ~stuck
        /\ pc[c] \in {"asleep", "awake"}
        /\ Take(c, ns) \/ NothingTo(c, ns, "asleep")
        /\ UNCHANGED <<subscribers_, history_, wait, heard, joined, cut, stuck>>

timeOut(c) ==
    LET ns == wait[c]
    IN  /\ ~stuck
        /\ pc[c] \in {"asleep", "awake"}
        /\ Take(c, ns) \/ NothingTo(c, ns, "idle")
        /\ UNCHANGED <<subscribers_, history_, wait, heard, joined, cut, stuck>>

(* What a client that comes back with the last release it knows is told.   *)
FromTheLast(ns, lastReleaseId) ==                             \* mistaken
    Filter(history_[ns], {i \in DOMAIN history_[ns] : history_[ns][i] >= lastReleaseId})

getMissedNotifications(ns, lastReleaseId) ==
    Filter(history_[ns], {i \in DOMAIN history_[ns] : history_[ns][i] > lastReleaseId})

-----------------------------------------------------------------------------
(* Every thread waits for mutex_.                                          *)
Stuck == stuck /\ UNCHANGED vars

Next ==
    \/ \E ns \in Namespaces :
        \/ unsubscribe(ns)
        \/ \E cb \in Callbacks : subscribe(ns, cb)
        \/ \E id \in Ids :
            publish(ns, id) \/ publishThrows(ns, id) \/ publishReenters(ns, id)
        \/ \E c \in Clients : waitForNotification(c, ns)
    \/ \E c \in Clients : wakeUp(c) \/ timeOut(c)
    \/ Stuck

Spec == Init /\ [][Next]_vars

(* A thread that was notified is scheduled, and clocks run.  Nobody need   *)
(* publish, wait or subscribe.                                             *)
Fairness == \A c \in Clients : WF_vars(wakeUp(c)) /\ WF_vars(timeOut(c))

-----------------------------------------------------------------------------
(* Every notification of a namespace is taken at most once, in the order   *)
(* of publication, and none is lost between history_ and pending_, though  *)
(* several clients search and erase from pending_, as long as no callback  *)
(* of that namespace has cut publish short.                                *)
TakenInOrder ==
    \A ns \in Namespaces \ cut : delivered[ns] \o pending_[ns] = history_[ns]

(* No client sleeps in wait_for while a notification of its namespace is   *)
(* pending: publish wakes all sleepers, because the one it would pick may   *)
(* wait for another namespace.                                             *)
NoLostWakeup ==
    \A c \in Clients : pc[c] = "asleep" => pending_[wait[c]] = <<>>

(* A client that comes back with the last release it took is told exactly  *)
(* what was published after it, whoever has taken those notifications and  *)
(* even where a callback cut publish short.                                *)
CatchUpComplete ==
    \A c \in Clients, ns \in Namespaces :
        \E i \in 0..Len(history_[ns]) :
            /\ IF i = 0 THEN last[c][ns] = 0 ELSE last[c][ns] = history_[ns][i]
            /\ getMissedNotifications(ns, last[c][ns])
                  = SubSeq(history_[ns], i + 1, Len(history_[ns]))

(* A subscribed callback has been called with every notification since its *)
(* subscription, in order, as long as none of its namespace has cut        *)
(* publish short.                                                          *)
CallbacksHearAll ==
    \A ns \in Namespaces \ cut : \A cb \in subscribers_[ns] :
        heard[cb] = SubSeq(history_[ns], joined[cb] + 1, Len(history_[ns]))

(* Every waitForNotification returns, with or without a notification, for  *)
(* all namespaces as long as no callback of any of them calls the channel. *)
EveryWaitReturns == \A c \in Clients : pc[c] # "idle" ~> (pc[c] = "idle" \/ stuck)

=============================================================================
