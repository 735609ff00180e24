--------------------------- MODULE DoorbellProofs ---------------------------
(***************************************************************************)
(* No change is silent, for any number of devices, collections and         *)
(* versions.  NoChangeIsSilent is not inductive: it rests on no version    *)
(* being announced before it is committed (Announced), on the hub holding  *)
(* open streams only, and on every stream that runs being in the hub,      *)
(* taken out of it to be closed, or closed (Covered).                      *)
(***************************************************************************)
EXTENDS Doorbell, TLAPS

\* Nothing runs ahead of the collection's cursor.
Announced ==
    /\ \A b \in bells : b.version <= current_version[b.collection]
    /\ \A d \in Devices, c \in Collections :
         subscriptions[d].pending[c] <= current_version[c]

\* A running stream is in the hub, on CloseAll's list, or closed.  CloseAll
\* finishes one list before it takes the next.
Covered ==
    /\ \A d \in Devices : streams[d].pc # "off" =>
         d \in subscribers \/ d \in evicted \/ subscriptions[d].closed
    /\ \A d \in evicted : streams[d].pc # "off"
    /\ listener \in {"listening", "lost"} => evicted = {}

\* Ring delivers the notification b.
RingOf(b) ==
    /\ bells' = bells \ {b}
    /\ subscriptions' = [d \in Devices |->
         IF d \in subscribers THEN Enqueue(subscriptions[d], b) ELSE subscriptions[d]]

IInv == TypeOK /\ Announced /\ HubHoldsOpenStreams /\ Covered /\ NoChangeIsSilent

-----------------------------------------------------------------------------

\* A queued change keeps a subscription well typed.
LEMMA EnqueueTyped ==
    ASSUME NEW sub \in Subscription, NEW b \in Bell
    PROVE  /\ Enqueue(sub, b) \in Subscription
           /\ Enqueue(sub, b).closed = sub.closed
           /\ ~sub.closed => Enqueue(sub, b).wake
           /\ \A c \in Collections :
                \/ Enqueue(sub, b).pending[c] = sub.pending[c]
                \/ /\ c = b.collection /\ b.version > sub.pending[c]
                   /\ Enqueue(sub, b).pending[c] = b.version
           /\ ~sub.closed /\ sub.pending[b.collection] <= b.version
                => Enqueue(sub, b).pending[b.collection] = b.version
  <1> DEFINE c == b.collection
             newest == IF b.version > sub.pending[c] THEN b.version ELSE sub.pending[c]
             next == [sub EXCEPT !.pending[c] = newest, !.wake = TRUE]
  <1>1. /\ c \in Collections /\ b.version \in Nat
        /\ sub.pending \in [Collections -> Nat] /\ sub.closed \in BOOLEAN
    BY DEF Subscription, Bell
  <1>2. newest \in Nat
    BY <1>1
  <1>3. /\ next \in Subscription /\ next.closed = sub.closed /\ next.wake
        /\ next.pending = [sub.pending EXCEPT ![c] = newest]
    BY <1>1, <1>2 DEF Subscription
  <1>4. Enqueue(sub, b) = IF sub.closed THEN sub ELSE next
    BY <1>1 DEF Enqueue
  <1> HIDE DEF next
  <1> QED
    BY <1>1, <1>2, <1>3, <1>4

\* Fresh and silent values are well typed.
LEMMA ConstantsTyped ==
    /\ Silent \in [Collections -> Nat]
    /\ Fresh \in Subscription /\ Closed \in Subscription
    /\ Off \in Stream
    /\ Off.pc = "off" /\ Fresh.pending = Silent /\ ~Fresh.closed
    /\ Closed.closed /\ Closed.pending = Silent
    /\ \A c \in Collections : Silent[c] = 0
  BY DEF Silent, Fresh, Closed, Off, Subscription, Stream

\* Initially nothing runs and nothing is announced.
LEMMA InitInv == Init => IInv
  <1> SUFFICES ASSUME Init PROVE IInv
    OBVIOUS
  <1>1. TypeOK
    BY ConstantsTyped DEF Init, TypeOK, ListenerStates
  <1>2. Announced
    BY ConstantsTyped DEF Init, Announced
  <1>3. HubHoldsOpenStreams
    BY DEF Init, HubHoldsOpenStreams
  <1>4. Covered
    BY ConstantsTyped DEF Init, Covered
  <1>5. NoChangeIsSilent
    BY ConstantsTyped DEF Init, NoChangeIsSilent, Listening
  <1> QED
    BY <1>1, <1>2, <1>3, <1>4, <1>5 DEF IInv

\* The state stays well typed.
LEMMA TypeStep == TypeOK /\ [Next]_vars => TypeOK'
  <1> SUFFICES ASSUME TypeOK, [Next]_vars PROVE TypeOK'
    OBVIOUS
  <1> USE DEF TypeOK
  <1>1. ASSUME NEW c \in Collections, Commit(c) PROVE TypeOK'
    BY <1>1 DEF Commit, Bell
  <1>2. CASE Ring
    <2>1. PICK b \in bells : RingOf(b)
      BY <1>2 DEF Ring, RingOf
    <2>2. subscriptions' \in [Devices -> Subscription]
      BY <2>1, EnqueueTyped DEF RingOf
    <2> QED
      BY <1>2, <2>2 DEF Ring
  <1>3. CASE Connect
    BY <1>3 DEF Connect, ListenerStates
  <1>4. CASE Lose
    BY <1>4 DEF Lose, ListenerStates
  <1>5. CASE Evict
    BY <1>5 DEF Evict, AfterEvict, ListenerStates
  <1>6. ASSUME NEW d \in Devices, CloseEvicted(d) PROVE TypeOK'
    BY <1>6 DEF CloseEvicted, Subscription
  <1>7. ASSUME NEW d \in Devices, StreamStep(d) PROVE TypeOK'
    <2>1. CASE Open(d)
      BY <2>1, ConstantsTyped DEF Open, Stream
    <2>2. CASE Ready(d)
      BY <2>2 DEF Ready, Stream
    <2>3. CASE Wake(d)
      BY <2>3, ZenonT(60) DEF Wake, Stream, Subscription
    <2>4. CASE Drain(d)
      BY <2>4, ConstantsTyped DEF Drain, Stream, Subscription
    <2>5. CASE Send(d)
      BY <2>5, ConstantsTyped DEF Send, Stream
    <2>6. CASE Leave(d)
      BY <2>6, ConstantsTyped DEF Leave
    <2>7. CASE Pull(d)
      BY <2>7 DEF Pull
    <2> QED
      BY <1>7, <2>1, <2>2, <2>3, <2>4, <2>5, <2>6, <2>7 DEF StreamStep, End, Disconnect
  <1>8. CASE Restart
    BY <1>8, ConstantsTyped DEF Restart, ListenerStates
  <1>9. CASE UNCHANGED vars
    BY <1>9 DEF vars
  <1> QED
    BY <1>1, <1>2, <1>3, <1>4, <1>5, <1>6, <1>7, <1>8, <1>9 DEF Next, ListenerStep

\* Versions are announced after they are committed, never before.
LEMMA AnnouncedStep == TypeOK /\ Announced /\ [Next]_vars => Announced'
  <1> SUFFICES ASSUME TypeOK, Announced, [Next]_vars PROVE Announced'
    OBVIOUS
  <1> USE DEF TypeOK, Announced
  <1>1. ASSUME NEW c \in Collections, Commit(c) PROVE Announced'
    <2>1. \A x \in Collections : current_version[x] <= current_version'[x]
      BY <1>1 DEF Commit
    <2>2. current_version' \in [Collections -> Nat]
      BY <1>1 DEF Commit
    <2>3. ASSUME NEW b \in bells' PROVE b.version <= current_version'[b.collection]
      <3>1. CASE b \in bells
        BY <2>1, <2>2, <3>1 DEF Bell
      <3>2. CASE b = [collection |-> c, version |-> current_version[c] + 1]
        BY <1>1, <3>2 DEF Commit
      <3> QED
        BY <1>1, <3>1, <3>2 DEF Commit
    <2>4. ASSUME NEW d \in Devices, NEW x \in Collections
          PROVE  subscriptions'[d].pending[x] <= current_version'[x]
      BY <1>1, <2>1, <2>2 DEF Commit, Subscription
    <2> QED
      BY <2>3, <2>4
  <1>2. CASE Ring
    <2>1. PICK b \in bells : RingOf(b)
      BY <1>2 DEF Ring, RingOf
    <2>2. UNCHANGED current_version
      BY <1>2 DEF Ring
    <2>3. ASSUME NEW d \in Devices, NEW x \in Collections
          PROVE  subscriptions'[d].pending[x] <= current_version[x]
      <3>1. \/ subscriptions'[d].pending[x] = subscriptions[d].pending[x]
            \/ x = b.collection /\ subscriptions'[d].pending[x] = b.version
        BY <2>1, EnqueueTyped DEF RingOf
      <3> QED
        BY <2>1, <3>1
    <2> QED
      BY <2>1, <2>2, <2>3 DEF RingOf
  <1>3. CASE Connect \/ Lose \/ Evict
    BY <1>3 DEF Connect, Lose, Evict
  <1>4. ASSUME NEW d \in Devices, CloseEvicted(d) PROVE Announced'
    BY <1>4 DEF CloseEvicted, Subscription
  <1>5. ASSUME NEW d \in Devices, StreamStep(d) PROVE Announced'
    <2>1. CASE Open(d)
      BY <2>1, ConstantsTyped DEF Open
    <2>2. CASE Ready(d) \/ Send(d) \/ Pull(d)
      BY <2>2 DEF Ready, Send, Pull
    <2>3. CASE Wake(d)
      BY <2>3 DEF Wake, Subscription
    <2>4. CASE Drain(d)
      BY <2>4, ConstantsTyped DEF Drain, Subscription
    <2>5. CASE Leave(d)
      BY <2>5, ConstantsTyped DEF Leave
    <2> QED
      BY <1>5, <2>1, <2>2, <2>3, <2>4, <2>5 DEF StreamStep, End, Disconnect
  <1>6. CASE Restart
    BY <1>6, ConstantsTyped DEF Restart
  <1>7. CASE UNCHANGED vars
    BY <1>7 DEF vars
  <1> QED
    BY <1>1, <1>2, <1>3, <1>4, <1>5, <1>6, <1>7 DEF Next, ListenerStep

-----------------------------------------------------------------------------

\* Streams enter the hub open, and are closed only once they are out of it.
LEMMA HubStep ==
    TypeOK /\ HubHoldsOpenStreams /\ Covered /\ [Next]_vars
        => HubHoldsOpenStreams' /\ Covered'
  <1> SUFFICES ASSUME TypeOK, HubHoldsOpenStreams, Covered, [Next]_vars
               PROVE  HubHoldsOpenStreams' /\ Covered'
    OBVIOUS
  <1> USE DEF TypeOK, HubHoldsOpenStreams, Covered
  <1>1. ASSUME NEW c \in Collections, Commit(c)
        PROVE  HubHoldsOpenStreams' /\ Covered'
    BY <1>1 DEF Commit
  <1>2. CASE Ring
    <2>1. PICK b \in bells : RingOf(b)
      BY <1>2 DEF Ring, RingOf
    <2>2. \A d \in Devices : subscriptions'[d].closed = subscriptions[d].closed
      BY <2>1, EnqueueTyped DEF RingOf
    <2> QED
      BY <1>2, <2>2 DEF Ring
  <1>3. CASE Connect
    BY <1>3 DEF Connect
  <1>4. CASE Lose
    BY <1>4 DEF Lose
  <1>5. CASE Evict
    BY <1>5 DEF Evict, AfterEvict
  <1>6. ASSUME NEW d \in Devices, CloseEvicted(d)
        PROVE  HubHoldsOpenStreams' /\ Covered'
    <2>1. subscriptions'[d].closed
      BY <1>6 DEF CloseEvicted, Subscription
    <2>2. \A x \in Devices \ {d} : subscriptions'[x] = subscriptions[x]
      BY <1>6 DEF CloseEvicted
    <2> QED
      BY <1>6, <2>1, <2>2 DEF CloseEvicted
  <1>7. ASSUME NEW d \in Devices, StreamStep(d)
        PROVE  HubHoldsOpenStreams' /\ Covered'
    <2>1. CASE Open(d)
      <3>1. /\ streams'[d].pc = "ready" /\ ~subscriptions'[d].closed
            /\ d \notin evicted /\ d \in subscribers'
        BY <2>1, ConstantsTyped DEF Open, Stream
      <3>2. \A x \in Devices \ {d} : /\ subscriptions'[x] = subscriptions[x]
                                      /\ streams'[x] = streams[x]
        BY <2>1 DEF Open
      <3> QED
        BY <2>1, <3>1, <3>2 DEF Open
    <2>2. CASE Pull(d)
      BY <2>2 DEF Pull
    <2>3. CASE Leave(d)
      <3>1. streams'[d].pc = "off" /\ d \notin subscribers' /\ d \notin evicted'
        BY <2>3, ConstantsTyped DEF Leave
      <3>2. \A x \in Devices \ {d} : /\ subscriptions'[x] = subscriptions[x]
                                      /\ streams'[x] = streams[x]
        BY <2>3 DEF Leave
      <3> QED
        BY <2>3, <3>1, <3>2 DEF Leave
    <2>4. CASE Ready(d) \/ Wake(d) \/ Drain(d) \/ Send(d)
      <3>1. streams[d].pc # "off" /\ streams'[d].pc # "off"
        BY <2>4 DEF Ready, Wake, Drain, Send, Stream
      <3>2. \A x \in Devices \ {d} : streams'[x] = streams[x]
        BY <2>4 DEF Ready, Wake, Drain, Send
      <3>3. \A x \in Devices : subscriptions'[x].closed = subscriptions[x].closed
        <4>1. CASE Ready(d) \/ Send(d)
          BY <4>1 DEF Ready, Send
        <4>2. CASE Wake(d)
          BY <4>2 DEF Wake, Subscription
        <4>3. CASE Drain(d)
          BY <4>3 DEF Drain, Subscription
        <4> QED
          BY <2>4, <4>1, <4>2, <4>3
      <3>4. UNCHANGED <<subscribers, evicted, listener>>
        BY <2>4 DEF Ready, Wake, Drain, Send
      <3> QED
        BY <3>1, <3>2, <3>3, <3>4
    <2> QED
      BY <1>7, <2>1, <2>2, <2>3, <2>4 DEF StreamStep, End, Disconnect
  <1>8. CASE Restart
    BY <1>8, ConstantsTyped DEF Restart
  <1>9. CASE UNCHANGED vars
    BY <1>9 DEF vars
  <1> QED
    BY <1>1, <1>2, <1>3, <1>4, <1>5, <1>6, <1>7, <1>8, <1>9 DEF Next, ListenerStep

-----------------------------------------------------------------------------

\* What NoChangeIsSilent says of one device and one collection.
Heard(d, c) ==
    Listening(d) /\ Behind(d, c) => c \in due[d] \/ OnItsWay(d, c) \/ Ending(d)

\* A commit is noted for the hub, or the listener is going to end the stream.
LEMMA CommitHeard ==
    ASSUME IInv, NEW x \in Collections, Commit(x), NEW d \in Devices, NEW c \in Collections
    PROVE  Heard(d, c)'
  <1> USE DEF IInv, TypeOK
  <1>1. CASE c = x /\ Listening(d)
    <2>1. CASE d \in subscribers /\ Reachable
      BY <1>1, <2>1 DEF Commit, Heard, OnItsWay
    <2>2. CASE d \in subscribers /\ ~Reachable
      BY <2>2 DEF Commit, Heard, Ending, Reachable, ListenerStates
    <2>3. CASE d \notin subscribers
      BY <1>1, <2>3 DEF Commit, Heard, Ending, Covered, Listening
    <2> QED
      BY <2>1, <2>2, <2>3
  <1>2. CASE c # x
    BY <1>2 DEF Commit, Heard, Listening, Behind, OnItsWay, Ending, NoChangeIsSilent
  <1>3. CASE ~Listening(d)
    BY <1>3 DEF Commit, Heard, Listening
  <1> QED
    BY <1>1, <1>2, <1>3

\* The hub's coalescing keeps the newest version of each collection.
LEMMA RingHeard ==
    ASSUME IInv, Ring, NEW d \in Devices, NEW c \in Collections
    PROVE  Heard(d, c)'
  <1> USE DEF IInv, TypeOK
  <1>1. PICK b \in bells : RingOf(b)
    BY DEF Ring, RingOf
  <1>2. SUFFICES ASSUME Listening(d)', Behind(d, c)'
                 PROVE  (c \in due[d] \/ OnItsWay(d, c) \/ Ending(d))'
    BY DEF Heard
  <1>3. Listening(d) /\ Behind(d, c)
    BY <1>2 DEF Ring, Listening, Behind
  <1>4. b \in Bell /\ subscriptions[d] \in Subscription /\ b.version <= current_version[b.collection]
        /\ subscriptions[d].pending[c] <= current_version[c]
    BY DEF Announced
  <1>5. CASE d \notin subscribers
    BY <1>3, <1>5 DEF Ring, Covered, Listening, Ending
  <1>6. CASE d \in subscribers
    <2>1. subscriptions'[d] = Enqueue(subscriptions[d], b) /\ ~subscriptions[d].closed
      BY <1>1, <1>6 DEF RingOf, HubHoldsOpenStreams
    <2>2. subscriptions'[d].wake
      BY <1>4, <2>1, EnqueueTyped
    <2>3. CASE c \in due[d] \/ Ending(d)
      BY <1>6, <2>3, <2>1, <1>4, EnqueueTyped DEF Ring, Ending
    <2>4. CASE streams[d].pc = "send" /\ streams[d].changes[c] = current_version[c]
      BY <2>4 DEF Ring, OnItsWay
    <2>5. CASE subscriptions[d].pending[c] = current_version[c]
      <3>1. subscriptions'[d].pending[c] = current_version[c]
        <4>1. ~(c = b.collection /\ b.version > subscriptions[d].pending[c])
          BY <1>4, <2>5 DEF Bell, Subscription
        <4> QED
          BY <1>4, <2>1, <2>5, <4>1, EnqueueTyped
      <3> QED
        BY <2>2, <3>1 DEF Ring, OnItsWay
    <2>6. CASE [collection |-> c, version |-> current_version[c]] = b
      <3>1. subscriptions'[d].pending[c] = current_version[c]
        <4>1. b.collection = c /\ b.version = current_version[c]
          BY <2>6
        <4>2. subscriptions[d].pending[b.collection] <= b.version
          BY <1>4, <4>1
        <4>3. Enqueue(subscriptions[d], b).pending[b.collection] = b.version
          BY <1>4, <2>1, <4>2, EnqueueTyped
        <4> QED
          BY <2>1, <4>1, <4>3
      <3> QED
        BY <2>2, <3>1 DEF Ring, OnItsWay
    <2>7. CASE [collection |-> c, version |-> current_version[c]] \in bells \ {b}
      BY <1>1, <1>6, <2>7 DEF Ring, RingOf, OnItsWay
    <2> QED
      BY <1>3, <2>3, <2>4, <2>5, <2>6, <2>7 DEF NoChangeIsSilent, OnItsWay
  <1> QED
    BY <1>5, <1>6

\* Whatever the listener loses, it ends the streams that would have heard it.
LEMMA ListenerHeard ==
    ASSUME IInv, Connect \/ Lose \/ Evict \/ (\E x \in Devices : CloseEvicted(x)),
           NEW d \in Devices, NEW c \in Collections
    PROVE  Heard(d, c)'
  <1> USE DEF IInv, TypeOK
  <1>1. CASE Connect
    BY <1>1 DEF Connect, Heard, Listening, Covered, Ending
  <1>2. CASE Lose
    BY <1>2 DEF Lose, Heard, Listening, Covered, Ending
  <1>3. CASE Evict
    BY <1>3 DEF Evict, AfterEvict, Heard, Listening, Covered, Ending
  <1>4. ASSUME NEW x \in Devices, CloseEvicted(x)
        PROVE  Heard(d, c)'
    <2>1. CASE d = x
      BY <1>4, <2>1 DEF CloseEvicted, Heard, Ending, Subscription
    <2>2. CASE d # x
      BY <1>4, <2>2 DEF CloseEvicted, Heard, NoChangeIsSilent, Listening, Behind, OnItsWay, Ending
    <2> QED
      BY <2>1, <2>2
  <1> QED
    BY <1>1, <1>2, <1>3, <1>4

\* A handler hands over every change it has taken, and a device every pull.
LEMMA StreamHeard ==
    ASSUME IInv, NEW x \in Devices, StreamStep(x), NEW d \in Devices, NEW c \in Collections
    PROVE  Heard(d, c)'
  <1> USE DEF IInv, TypeOK
  <1>1. Heard(d, c)
    BY DEF NoChangeIsSilent, Heard
  <1>2. CASE d # x
    <2>1. /\ subscriptions'[d] = subscriptions[d] /\ streams'[d] = streams[d]
          /\ cursor'[d] = cursor[d] /\ due'[d] = due[d]
          /\ (d \in subscribers' <=> d \in subscribers) /\ (d \in evicted' <=> d \in evicted)
          /\ UNCHANGED <<current_version, bells, listener>>
      BY <1>2 DEF StreamStep, Open, Ready, Wake, Drain, Send, End, Disconnect, Leave, Pull
    <2> QED
      BY <1>1, <2>1 DEF Heard, Listening, Behind, OnItsWay, Ending
  <1>3. CASE d = x
    <2>1. CASE Open(d)
      BY <2>1 DEF Open, Heard, Listening, Stream
    <2>2. CASE Ready(d)
      BY <2>2 DEF Ready, Heard
    <2>3. CASE Wake(d)
      BY <1>1, <2>3 DEF Wake, Heard, Listening, Behind, OnItsWay, Ending, Stream, Subscription
    <2>4. CASE Drain(d)
      BY <1>1, <2>4 DEF Drain, Heard, Listening, Behind, OnItsWay, Ending, Stream, Subscription
    <2>5. CASE Send(d)
      BY <1>1, <2>5 DEF Send, Heard, Listening, Behind, OnItsWay, Ending, Stream
    <2>6. CASE Leave(d)
      BY <2>6, ConstantsTyped DEF Leave, Heard, Listening
    <2>7. CASE Pull(d)
      BY <1>1, <2>7 DEF Pull, Heard, Listening, Behind, OnItsWay, Ending
    <2> QED
      BY <1>3, <2>1, <2>2, <2>3, <2>4, <2>5, <2>6, <2>7 DEF StreamStep, End, Disconnect
  <1> QED
    BY <1>2, <1>3

\* The invariant is inductive.
LEMMA NextInv == IInv /\ [Next]_vars => IInv'
  <1> SUFFICES ASSUME IInv, [Next]_vars PROVE IInv'
    OBVIOUS
  <1>1. TypeOK' /\ Announced' /\ HubHoldsOpenStreams' /\ Covered'
    BY TypeStep, AnnouncedStep, HubStep DEF IInv
  <1>2. ASSUME NEW d \in Devices, NEW c \in Collections
        PROVE  Heard(d, c)'
    <2>1. CASE Restart
      BY <2>1, ConstantsTyped DEF Restart, Heard, Listening
    <2>2. CASE UNCHANGED vars
      BY <2>2 DEF vars, IInv, NoChangeIsSilent, Heard, Listening, Behind, OnItsWay, Ending
    <2> QED
      BY <2>1, <2>2, CommitHeard, RingHeard, ListenerHeard, StreamHeard DEF Next, ListenerStep
  <1>3. NoChangeIsSilent'
    BY <1>2 DEF NoChangeIsSilent, Heard
  <1> QED
    BY <1>1, <1>3 DEF IInv

\* A connected device that is behind its server knows it, is about to hear it
\* or is about to lose its stream (events.go, listener.go, sync.go).
THEOREM NoSilence == Spec => []NoChangeIsSilent
  <1>1. IInv => NoChangeIsSilent
    BY DEF IInv
  <1> QED
    BY InitInv, NextInv, <1>1, PTL DEF Spec

\* The hub never holds a closed or abandoned subscription, so Publish never
\* sends on a closed channel (events.go).
THEOREM HubStaysOpen == Spec => []HubHoldsOpenStreams
  <1>1. IInv => HubHoldsOpenStreams
    BY DEF IInv
  <1> QED
    BY InitInv, NextInv, <1>1, PTL DEF Spec
=============================================================================
