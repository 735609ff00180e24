--------------------------- MODULE VaultKeyProofs ---------------------------
(***************************************************************************)
(* A vault key gives way only to a rotation that had seen it, for any      *)
(* devices, clock and resolution of the timestamp.                         *)
(***************************************************************************)
EXTENDS VaultKey, TLAPS

IInv == TypeOK /\ TokensNameOneKey /\ NoKeyIsAhead

\* Truncation stays within a millisecond below the time.
LEMMA TruncateBounds ==
    ASSUME NEW t \in Nat
    PROVE  Truncate(t) \in Nat /\ Truncate(t) <= t /\ t < Truncate(t) + Millisecond
  <1>1. t % Millisecond \in 0 .. Millisecond - 1 /\ t % Millisecond <= t
    BY UnitAssumption
  <1> QED
    BY <1>1, UnitAssumption DEF Truncate

\* A new revision is later than the one it replaces.
LEMMA RevisionAdvances ==
    ASSUME TypeOK
    PROVE  NextRevision(key) \in Nat /\ (key # None => key.revision < NextRevision(key))
  <1>1. Truncate(clock) \in Nat
    BY TruncateBounds DEF TypeOK
  <1>2. CASE key = None
    BY <1>1, <1>2 DEF NextRevision
  <1>3. CASE key # None
    <2>1. key.revision \in Nat
      BY <1>3 DEF TypeOK, Key
    <2>2. /\ Truncate(key.revision) + Millisecond \in Nat
          /\ key.revision < Truncate(key.revision) + Millisecond
      BY <2>1, TruncateBounds, UnitAssumption
    <2> QED
      BY <1>1, <1>3, <2>1, <2>2 DEF NextRevision
  <1> QED
    BY <1>2, <1>3

\* What the server stores for a request is a key.
LEMMA StoredTyped ==
    ASSUME TypeOK, NEW r \in requests
    PROVE  Stored(r) \in Key /\ Stored(r) # None /\ Stored(r).revision = NextRevision(key)
  BY RevisionAdvances, NoneIsNoKey DEF Stored, TypeOK, Key, Request

-----------------------------------------------------------------------------

\* The state stays well typed.
LEMMA TypeStep == TypeOK /\ [Next]_vars => TypeOK'
  <1> SUFFICES ASSUME TypeOK, [Next]_vars PROVE TypeOK'
    OBVIOUS
  <1> USE DEF TypeOK
  <1>1. CASE Tick
    BY <1>1, BoundsAssumption DEF Tick
  <1>2. ASSUME NEW d \in Devices, Send(d) PROVE TypeOK'
    BY <1>2 DEF Send, Request
  <1>3. ASSUME NEW d \in Devices, GetKey(d) PROVE TypeOK'
    BY <1>3 DEF GetKey, Reply
  <1>4. ASSUME NEW r \in requests, PutKey(r) PROVE TypeOK'
    <2>1. CASE StoreFor(r)
      BY <2>1, <1>4, StoredTyped DEF StoreFor, Reply, Request
    <2>2. CASE AnswerFor(r) /\ key # None
      BY <2>2 DEF AnswerFor, Reply, Request
    <2>3. CASE Refuse(r)
      BY <2>3 DEF Refuse
    <2> QED
      BY <1>4, <2>1, <2>2, <2>3 DEF PutKey, ClaimKey, AnswerClaim, RotateKey, Conflict
  <1>5. ASSUME NEW r \in requests, LoseRequest(r) PROVE TypeOK'
    BY <1>5 DEF LoseRequest
  <1>6. ASSUME NEW reply \in replies, Receive(reply) PROVE TypeOK'
    BY <1>6 DEF Receive, Reply
  <1>7. ASSUME NEW reply \in replies, LoseReply(reply) PROVE TypeOK'
    BY <1>7 DEF LoseReply
  <1>8. CASE DeleteCollection
    BY <1>8 DEF DeleteCollection
  <1>9. CASE UNCHANGED vars
    BY <1>9 DEF vars
  <1> QED
    BY <1>1, <1>2, <1>3, <1>4, <1>5, <1>6, <1>7, <1>8, <1>9 DEF Next

-----------------------------------------------------------------------------

\* A step that stores nothing leaves nobody with a key nobody held, and the
\* stored key in place unless the collection goes.
Keeps ==
    /\ Held' \subseteq Held
    /\ key' = key \/ ~collection'
    /\ collection' => collection

\* The stored key's successor is the only new key.
Stores(r) ==
    /\ key' = Stored(r) /\ Held' \subseteq Held \cup {Stored(r)}
    /\ UNCHANGED collection
    /\ key = None \/ (r.rotates /\ key # None /\ TokenMatches(r))

\* Every step either keeps the key or stores one for a request.
LEMMA StepCases ==
    ASSUME TypeOK, [Next]_vars
    PROVE  Keeps \/ (collection /\ \E r \in requests : Stores(r))
  <1> USE DEF TypeOK
  <1>1. CASE Tick
    BY <1>1 DEF Tick, Keeps, Held
  <1>2. ASSUME NEW d \in Devices, Send(d) PROVE Keeps
    BY <1>2 DEF Send, Keeps, Held
  <1>3. ASSUME NEW d \in Devices, GetKey(d) PROVE Keeps
    BY <1>3 DEF GetKey, Keeps, Held
  <1>4. ASSUME NEW r \in requests, PutKey(r)
        PROVE  Keeps \/ (collection /\ Stores(r))
    <2>1. CASE ClaimKey(r) \/ RotateKey(r)
      BY <2>1 DEF ClaimKey, RotateKey, StoreFor, Stores, Held
    <2>2. CASE AnswerClaim(r) \/ Conflict(r)
      BY <2>2 DEF AnswerClaim, Conflict, AnswerFor, Keeps, Held
    <2>3. CASE Refuse(r)
      BY <2>3 DEF Refuse, Keeps, Held
    <2> QED
      BY <1>4, <2>1, <2>2, <2>3 DEF PutKey
  <1>5. ASSUME NEW r \in requests, LoseRequest(r) PROVE Keeps
    BY <1>5 DEF LoseRequest, Keeps, Held
  <1>6. ASSUME NEW reply \in replies, Receive(reply) PROVE Keeps
    BY <1>6 DEF Receive, Keeps, Held, Reply
  <1>7. ASSUME NEW reply \in replies, LoseReply(reply) PROVE Keeps
    BY <1>7 DEF LoseReply, Keeps, Held
  <1>8. CASE DeleteCollection
    BY <1>8 DEF DeleteCollection, Keeps, Held
  <1>9. CASE UNCHANGED vars
    BY <1>9 DEF vars, Keeps, Held
  <1> QED
    BY <1>1, <1>2, <1>3, <1>4, <1>5, <1>6, <1>7, <1>8, <1>9 DEF Next

\* Whoever holds a key holds a key.
LEMMA HeldTyped == TypeOK => Held \subseteq Key
  BY DEF TypeOK, Held, Request, Reply

\* The invariant is inductive.
LEMMA NextInv == IInv /\ [Next]_vars => IInv'
  <1> SUFFICES ASSUME IInv, [Next]_vars PROVE IInv'
    OBVIOUS
  <1>1. TypeOK /\ TypeOK'
    BY TypeStep DEF IInv
  <1>2. CASE Keeps
    BY <1>1, <1>2 DEF IInv, Keeps, TokensNameOneKey, NoKeyIsAhead
  <1>3. ASSUME collection, NEW r \in requests, Stores(r) PROVE IInv'
    <2>1. Stored(r).revision \in Nat /\ Stored(r) # None
      BY <1>1, StoredTyped, RevisionAdvances
    <2>2. \A k \in Held : k.revision \in Nat /\ k.revision < Stored(r).revision
      <3> SUFFICES ASSUME NEW k \in Held
                   PROVE  k.revision \in Nat /\ k.revision < Stored(r).revision
        OBVIOUS
      <3>1. k.revision \in Nat
        BY <1>1, HeldTyped DEF Key
      <3>2. key # None /\ k.revision <= key.revision
        BY <1>3 DEF IInv, NoKeyIsAhead
      <3>3. key.revision \in Nat /\ key.revision < Stored(r).revision
        BY <1>1, <3>2, StoredTyped, RevisionAdvances DEF TypeOK, Key
      <3> QED
        BY <2>1, <3>1, <3>2, <3>3
    <2>3. \A k \in Held' : k \in Held \/ k = Stored(r)
      BY <1>3 DEF Stores
    <2>4. TokensNameOneKey'
      BY <2>1, <2>2, <2>3 DEF IInv, TokensNameOneKey
    <2>5. NoKeyIsAhead'
      BY <1>3, <2>1, <2>2, <2>3 DEF NoKeyIsAhead, Stores
    <2> QED
      BY <1>1, <2>4, <2>5 DEF IInv
  <1> QED
    BY <1>1, <1>2, <1>3, StepCases

\* Initially no device holds a key, and there is at most the stored one.
LEMMA InitInv == Init => IInv
  <1> SUFFICES ASSUME Init PROVE IInv
    OBVIOUS
  <1>1. TypeOK
    BY BoundsAssumption DEF Init, TypeOK, Key
  <1>2. Held \subseteq {key} \ {None}
    BY DEF Init, Held
  <1>3. key # None => key.revision \in Nat
    BY <1>1 DEF TypeOK, Key
  <1> QED
    BY <1>1, <1>2, <1>3 DEF IInv, TokensNameOneKey, NoKeyIsAhead

\* IInv holds of every reachable state.
LEMMA Reachable == Spec => []IInv
  BY InitInv, NextInv, PTL DEF Spec

-----------------------------------------------------------------------------

\* A revision token never names two keys (nextRevision, key.go).
THEOREM TokensStayUnique == Spec => []TokensNameOneKey
  <1>1. IInv => TokensNameOneKey
    BY DEF IInv
  <1> QED
    BY Reachable, <1>1, PTL

\* Devices hold only committed keys, the stored one the latest (PutKey,
\* key.go).
THEOREM KeysStayBehind == Spec => []NoKeyIsAhead
  <1>1. IInv => NoKeyIsAhead
    BY DEF IInv
  <1> QED
    BY Reachable, <1>1, PTL

\* No write replaces a key its writer had not seen, however claims, rotations,
\* their retries and the clock interleave (PutKey, key.go).
THEOREM KeysAreNotOverwritten == Spec => OnlyTheSeenKeyIsReplaced
  <1> DEFINE Step == key # None /\ key' # key /\ collection' =>
                       \E r \in requests : /\ r.rotates /\ r.saw = key
                                           /\ key'.material = r.material
  <1>1. ASSUME IInv, [Next]_vars PROVE Step
    <2> SUFFICES ASSUME key # None, key' # key, collection'
                 PROVE  \E r \in requests : /\ r.rotates /\ r.saw = key
                                            /\ key'.material = r.material
      OBVIOUS
    <2>1. PICK r \in requests : Stores(r)
      BY <1>1, StepCases DEF Keeps, IInv
    <2>2. r.rotates /\ r.saw.revision = key.revision /\ key'.material = r.material
      BY <2>1 DEF Stores, TokenMatches, Stored
    <2>3. r.saw \in Held /\ key \in Held
      BY <1>1, <2>2 DEF IInv, TypeOK, Held
    <2>4. r.saw = key
      BY <1>1, <2>2, <2>3 DEF IInv, TokensNameOneKey
    <2> QED
      BY <2>2, <2>4
  <1>2. IInv /\ [Next]_vars => [Step]_vars
    BY <1>1
  <1> QED
    BY Reachable, <1>2, PTL DEF Spec, OnlyTheSeenKeyIsReplaced
=============================================================================
