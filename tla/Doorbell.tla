------------------------------ MODULE Doorbell ------------------------------
(***************************************************************************)
(* The sync doorbell: a committed mutation tells the connected devices of  *)
(* its user that a collection changed (internal/events, cmd/server/sync).  *)
(*                                                                         *)
(*   commit -> bells -> Hub.Publish -> subscription -> SSE stream -> pull  *)
(*                                                                         *)
(* On SQLite the after-commit callback of the mutation's own goroutine     *)
(* calls the hub, so two commits may reach it in either order.  On         *)
(* PostgreSQL NOTIFY delivers to one listener connection, which may break: *)
(* what is committed until LISTEN is restored is never announced, and the  *)
(* server ends the streams that would have missed it.  bells is a set, so  *)
(* both deliveries, and PostgreSQL's order, are among its behaviours.      *)
(*                                                                         *)
(* A device follows API.md: it pulls when its stream is ready and when it  *)
(* hears of a version it does not have.                                    *)
(***************************************************************************)
EXTENDS Integers

CONSTANTS
    Collections,     \* one user's collections
    Devices,         \* that user's devices, one stream each
    MaxVersion       \* bound on a collection's current_version

ASSUME VersionAssumption == MaxVersion \in Nat

VARIABLES
    current_version, \* collections.current_version
    bells,           \* committed notifications the hub has not seen
    listener,        \* where Listen stands; "attached" is SQLite, without one
    subscribers,     \* Hub.subscribers
    evicted,         \* subscriptions CloseAll has unlinked but not yet closed
    subscriptions,   \* each device's Subscription
    streams,         \* each device's stream handler
    cursor,          \* the version each device has pulled of each collection
    due              \* the collections each device knows it must pull

vars == <<current_version, bells, listener, subscribers, evicted,
          subscriptions, streams, cursor, due>>

Bell == [collection : Collections, version : Nat]

\* pending holds 0 for a collection without a pending change.
Silent == [c \in Collections |-> 0]

Subscription == [pending : [Collections -> Nat], wake : BOOLEAN, closed : BOOLEAN]

\* changes: what Drain returned and the handler has not written yet.
Stream == [pc : {"off", "ready", "wait", "drain", "send"},
           changes : [Collections -> Nat]]

Fresh  == [pending |-> Silent, wake |-> FALSE, closed |-> FALSE]
Closed == [Fresh EXCEPT !.closed = TRUE]
Off    == [pc |-> "off", changes |-> Silent]

ListenerStates == {"attached", "down", "listening", "up", "lost"}

TypeOK ==
    /\ current_version \in [Collections -> Nat]
    /\ bells \subseteq Bell
    /\ listener \in ListenerStates
    /\ subscribers \subseteq Devices
    /\ evicted \subseteq Devices
    /\ subscriptions \in [Devices -> Subscription]
    /\ streams \in [Devices -> Stream]
    /\ cursor \in [Devices -> [Collections -> Nat]]
    /\ due \in [Devices -> SUBSET Collections]

Init ==
    /\ current_version = Silent
    /\ bells = {}
    /\ listener \in {"attached", "down"}
    /\ subscribers = {}
    /\ evicted = {}
    /\ subscriptions = [d \in Devices |-> Closed]
    /\ streams = [d \in Devices |-> Off]
    /\ cursor = [d \in Devices |-> Silent]
    /\ due = [d \in Devices |-> {}]

-----------------------------------------------------------------------------
(* Commit and delivery                                                      *)

\* Whether a notification committed now is kept for the hub.
Reachable == listener \in {"attached", "listening", "up"}

\* Publisher.Publish in the mutation's transaction, and its commit.
Commit(c) ==
    /\ current_version[c] < MaxVersion
    /\ current_version' = [current_version EXCEPT ![c] = @ + 1]
    /\ bells' = IF Reachable
                THEN bells \cup {[collection |-> c, version |-> current_version[c] + 1]}
                ELSE bells
    /\ UNCHANGED <<listener, subscribers, evicted, subscriptions, streams, cursor, due>>

\* Bug: a change that arrives while the wake slot is taken is dropped.
EnqueueIfIdle(sub, b) ==
    IF sub.closed \/ sub.wake THEN sub
    ELSE [sub EXCEPT !.pending[b.collection] = b.version, !.wake = TRUE]

\* Subscription.enqueue: the newest version of each collection is pending.
Enqueue(sub, b) ==
    IF sub.closed THEN sub
    ELSE [sub EXCEPT !.pending[b.collection] = IF b.version > @ THEN b.version ELSE @,
                     !.wake = TRUE]

\* Hub.Publish, under the hub's lock.  The listener's goroutine delivers only
\* between two calls of CloseAll.
Ring ==
    /\ listener \in {"attached", "up"} /\ evicted = {}
    /\ \E b \in bells :
         /\ bells' = bells \ {b}
         /\ subscriptions' = [d \in Devices |->
              IF d \in subscribers THEN Enqueue(subscriptions[d], b)
              ELSE subscriptions[d]]
    /\ UNCHANGED <<current_version, listener, subscribers, evicted, streams, cursor, due>>

-----------------------------------------------------------------------------
(* The PostgreSQL listener                                                  *)

\* Bug: the streams opened during the backoff are not ended.
ConnectAndServe ==
    /\ listener = "down" /\ evicted = {}
    /\ listener' \in {"up", "lost"}
    /\ bells' = {}
    /\ UNCHANGED <<current_version, subscribers, evicted, subscriptions, streams,
                   cursor, due>>

\* LISTEN succeeds, or the attempt fails and the streams are ended again.
Connect ==
    /\ listener = "down" /\ evicted = {}
    /\ listener' \in {"listening", "lost"}
    /\ bells' = {}
    /\ UNCHANGED <<current_version, subscribers, evicted, subscriptions, streams,
                   cursor, due>>

\* WaitForNotification fails: what the connection had not delivered is gone.
Lose ==
    /\ listener = "up" /\ evicted = {}
    /\ listener' = "lost"
    /\ bells' = {}
    /\ UNCHANGED <<current_version, subscribers, evicted, subscriptions, streams,
                   cursor, due>>

AfterEvict == IF listener = "listening" THEN "up" ELSE "down"

\* Bug: CloseAll leaves the closed subscriptions in the hub.
EvictInPlace ==
    /\ listener \in {"listening", "lost"}
    /\ evicted' = subscribers
    /\ listener' = AfterEvict
    /\ UNCHANGED <<current_version, bells, subscribers, subscriptions, streams, cursor, due>>

\* CloseAll: the map is replaced under the hub's lock, ...
Evict ==
    /\ listener \in {"listening", "lost"}
    /\ evicted' = subscribers
    /\ subscribers' = {}
    /\ listener' = AfterEvict
    /\ UNCHANGED <<current_version, bells, subscriptions, streams, cursor, due>>

\* ... and each subscription it held is closed outside of it.
CloseEvicted(d) ==
    /\ d \in evicted
    /\ evicted' = evicted \ {d}
    /\ subscriptions' = [subscriptions EXCEPT ![d].closed = TRUE]
    /\ UNCHANGED <<current_version, bells, listener, subscribers, streams, cursor, due>>

-----------------------------------------------------------------------------
(* The stream handler                                                       *)

\* handleSyncEvents subscribes before it sends ready.
Open(d) ==
    /\ streams[d].pc = "off"
    /\ streams' = [streams EXCEPT ![d].pc = "ready"]
    /\ subscribers' = subscribers \cup {d}
    /\ subscriptions' = [subscriptions EXCEPT ![d] = Fresh]
    /\ UNCHANGED <<current_version, bells, listener, evicted, cursor, due>>

\* The device hears ready and pulls everything.
Ready(d) ==
    /\ streams[d].pc = "ready"
    /\ streams' = [streams EXCEPT ![d].pc = "wait"]
    /\ due' = [due EXCEPT ![d] = Collections]
    /\ UNCHANGED <<current_version, bells, listener, subscribers, evicted,
                   subscriptions, cursor>>

\* The select takes the wake token; a closed channel yields its token first.
Wake(d) ==
    /\ streams[d].pc = "wait" /\ subscriptions[d].wake
    /\ streams' = [streams EXCEPT ![d].pc = "drain"]
    /\ subscriptions' = [subscriptions EXCEPT ![d].wake = FALSE]
    /\ UNCHANGED <<current_version, bells, listener, subscribers, evicted, cursor, due>>

Drain(d) ==
    /\ streams[d].pc = "drain" /\ ~subscriptions[d].closed
    /\ streams' = [streams EXCEPT ![d] =
         [pc |-> "send", changes |-> subscriptions[d].pending]]
    /\ subscriptions' = [subscriptions EXCEPT ![d].pending = Silent]
    /\ UNCHANGED <<current_version, bells, listener, subscribers, evicted, cursor, due>>

\* The events are written and flushed: the device hears of newer versions.
Send(d) ==
    /\ streams[d].pc = "send"
    /\ streams' = [streams EXCEPT ![d] = [pc |-> "wait", changes |-> Silent]]
    /\ due' = [due EXCEPT ![d] =
         @ \cup {c \in Collections : streams[d].changes[c] > cursor[d][c]}]
    /\ UNCHANGED <<current_version, bells, listener, subscribers, evicted,
                   subscriptions, cursor>>

\* The handler returns and its deferred Unsubscribe runs.  A CloseAll that
\* still holds the subscription closes it a second time, which does nothing.
Leave(d) ==
    /\ streams' = [streams EXCEPT ![d] = Off]
    /\ subscribers' = subscribers \ {d}
    /\ evicted' = evicted \ {d}
    /\ subscriptions' = [subscriptions EXCEPT ![d] = Closed]
    /\ UNCHANGED <<current_version, bells, listener, cursor, due>>

\* The wake channel is closed, or Drain reports that it is.
End(d) ==
    /\ subscriptions[d].closed
    /\ streams[d].pc = "drain" \/ (streams[d].pc = "wait" /\ ~subscriptions[d].wake)
    /\ Leave(d)

\* The device goes away, or a write to it fails.
Disconnect(d) == streams[d].pc \in {"ready", "wait", "send"} /\ Leave(d)

\* GET .../objects from the cursor, as one step.
Pull(d) ==
    \E c \in due[d] :
        /\ cursor' = [cursor EXCEPT ![d][c] = current_version[c]]
        /\ due' = [due EXCEPT ![d] = @ \ {c}]
        /\ UNCHANGED <<current_version, bells, listener, subscribers, evicted,
                       subscriptions, streams>>

\* The server stops and starts: nothing of the doorbell is persistent.
Restart ==
    /\ bells' = {}
    /\ listener' = IF listener = "attached" THEN "attached" ELSE "down"
    /\ subscribers' = {} /\ evicted' = {}
    /\ subscriptions' = [d \in Devices |-> Closed]
    /\ streams' = [d \in Devices |-> Off]
    /\ UNCHANGED <<current_version, cursor, due>>

-----------------------------------------------------------------------------

StreamStep(d) ==
    \/ Open(d) \/ Ready(d) \/ Wake(d) \/ Drain(d) \/ Send(d)
    \/ End(d) \/ Disconnect(d) \/ Pull(d)

ListenerStep ==
    \/ Ring \/ Connect \/ Lose \/ Evict
    \/ \E d \in Devices : CloseEvicted(d)

Next ==
    \/ \E c \in Collections : Commit(c)
    \/ ListenerStep
    \/ \E d \in Devices : StreamStep(d)
    \/ Restart

Spec == Init /\ [][Next]_vars

\* Goroutines are scheduled, attempts to connect end, a handler's writes do,
\* and devices do pull.  Nothing else is promised: streams need not be opened,
\* connections may be lost and the server restarted for ever.
FairSpec ==
    /\ Spec
    /\ WF_vars(Ring) /\ WF_vars(Connect) /\ WF_vars(Evict)
    /\ \A d \in Devices :
         /\ WF_vars(CloseEvicted(d))
         /\ WF_vars(Ready(d)) /\ WF_vars(Wake(d)) /\ WF_vars(Drain(d))
         /\ WF_vars(Send(d)) /\ WF_vars(End(d)) /\ WF_vars(Pull(d))

-----------------------------------------------------------------------------
(* Properties                                                               *)

Listening(d) == streams[d].pc \in {"wait", "drain", "send"}

Behind(d, c) == cursor[d][c] < current_version[c]

\* The current version of c is on its way to device d: in its handler's hands,
\* pending with the handler due to look, or before the hub.
OnItsWay(d, c) ==
    \/ streams[d].pc = "send" /\ streams[d].changes[c] = current_version[c]
    \/ /\ subscriptions[d].pending[c] = current_version[c]
       /\ subscriptions[d].wake \/ streams[d].pc = "drain"
    \/ /\ [collection |-> c, version |-> current_version[c]] \in bells
       /\ d \in subscribers

\* The stream of device d is going to be ended.
Ending(d) ==
    \/ subscriptions[d].closed
    \/ d \in evicted
    \/ d \in subscribers /\ listener \in {"down", "listening", "lost"}

\* API.md: "so you fall back to reconnect-and-pull instead of sitting on a
\* silently-dead stream".  A device behind the server knows it must pull, or
\* is about to hear so, or is about to lose its stream: no change is silent,
\* however commits, deliveries, coalescing and listener losses interleave.
NoChangeIsSilent ==
    \A d \in Devices, c \in Collections :
        Listening(d) /\ Behind(d, c) => c \in due[d] \/ OnItsWay(d, c) \/ Ending(d)

\* The hub publishes to open subscriptions of running handlers only, so it
\* never sends on a closed channel and keeps nothing of a stream that ended.
HubHoldsOpenStreams ==
    \A d \in subscribers :
        ~subscriptions[d].closed /\ streams[d].pc # "off" /\ d \notin evicted

\* The doorbell works without the safety poll: a connected device that is
\* behind catches up or loses its stream.
DevicesCatchUp ==
    \A d \in Devices, c \in Collections : \A v \in 1 .. MaxVersion :
        Listening(d) /\ current_version[c] = v
            ~> cursor[d][c] >= v \/ streams[d].pc = "off"
=============================================================================
