------------------------------ MODULE VaultKey ------------------------------
(***************************************************************************)
(* The wrapped vault key of one collection (internal/collections/key.go,   *)
(* API.md "Vault key material").  Devices claim an unset key, rotate a key *)
(* they have seen, and adopt whatever key an answer brings.  PutKey is one *)
(* transaction that holds the collection's row; its revision token is a    *)
(* timestamp, from a clock that may stand still or be set back.            *)
(***************************************************************************)
EXTENDS Integers, FiniteSets

CONSTANTS
    Devices,         \* one user's devices
    Materials,       \* what a device may store: salt, KDF and wrapped key
    None,            \* no key
    Millisecond,     \* clock units in a millisecond
    MaxClock,        \* bound on the clock
    MaxRevision,     \* bound on key_updated_at
    MaxMessages      \* bound on requests and answers under way

Key == [material : Materials, revision : Nat]

ASSUME UnitAssumption == Millisecond \in Nat \ {0}
ASSUME BoundsAssumption == MaxClock \in Nat /\ MaxRevision \in Nat /\ MaxMessages \in Nat
ASSUME NoneIsNoKey == None \notin Key

VARIABLES
    clock,           \* time.Now()
    collection,      \* whether the collection's row exists
    key,             \* its four key columns, set together or all NULL
    requests,        \* PutKey requests the server has not handled
    replies,         \* answers that bring a key, not received yet
    known            \* the key each device goes by

vars == <<clock, collection, key, requests, replies, known>>

\* saw is the key the device went by.  The server reads of it only the token
\* previous_key_updated_at of a rotation.
Request == [device : Devices, material : Materials, rotates : BOOLEAN,
            saw : Key \cup {None}]

Reply == [device : Devices, key : Key]

TypeOK ==
    /\ clock \in Nat
    /\ collection \in BOOLEAN
    /\ key \in Key \cup {None}
    /\ requests \subseteq Request
    /\ \A r \in requests : r.rotates => r.saw # None
    /\ replies \subseteq Reply
    /\ known \in [Devices -> Key \cup {None}]

\* The columns are timestamptz: a key kept by an earlier server may have a
\* revision between two milliseconds.
Init ==
    /\ clock \in 0 .. MaxClock
    /\ collection = TRUE
    /\ key \in [material : Materials, revision : 0 .. MaxClock] \cup {None}
    /\ requests = {}
    /\ replies = {}
    /\ known = [d \in Devices |-> None]

\* The wall clock runs, and may be set back.
Tick ==
    /\ clock' \in 0 .. MaxClock
    /\ UNCHANGED <<collection, key, requests, replies, known>>

-----------------------------------------------------------------------------
(* Devices and the network                                                  *)

RoomForOne == Cardinality(requests) + Cardinality(replies) < MaxMessages

\* A device claims the key or rotates the one it goes by; again, if it likes.
Send(d) ==
    /\ RoomForOne
    /\ \E m \in Materials, rotates \in BOOLEAN :
         /\ rotates => known[d] # None
         /\ requests' = requests \cup
              {[device |-> d, material |-> m, rotates |-> rotates, saw |-> known[d]]}
    /\ UNCHANGED <<clock, collection, key, replies, known>>

\* "Adopt what you get back": an answer may come late, after a later one.
Receive(reply) ==
    /\ known' = [known EXCEPT ![reply.device] = reply.key]
    /\ replies' = replies \ {reply}
    /\ UNCHANGED <<clock, collection, key, requests>>

LoseRequest(r) ==
    /\ requests' = requests \ {r}
    /\ UNCHANGED <<clock, collection, key, replies, known>>

LoseReply(reply) ==
    /\ replies' = replies \ {reply}
    /\ UNCHANGED <<clock, collection, key, requests, known>>

-----------------------------------------------------------------------------
(* The server                                                               *)

GetKey(d) ==
    /\ collection /\ key # None /\ RoomForOne
    /\ replies' = replies \cup {[device |-> d, key |-> key]}
    /\ UNCHANGED <<clock, collection, key, requests, known>>

Truncate(t) == t - (t % Millisecond)

\* Bug: the wall clock alone names the revision.
WallClock(current) == Truncate(clock)

\* nextRevision: the wall clock, or one millisecond past the stored revision.
NextRevision(current) ==
    LET now == Truncate(clock)
        earliest == Truncate(current.revision) + Millisecond
    IN  IF current = None THEN now ELSE IF now < earliest THEN earliest ELSE now

Stored(r) == [material |-> r.material, revision |-> NextRevision(key)]

\* Bug: the key is answered although the commit failed.
AnswerUncommitted(r) ==
    /\ NextRevision(key) <= MaxRevision
    /\ requests' = requests \ {r}
    /\ replies' = replies \cup {[device |-> r.device, key |-> Stored(r)]}
    /\ key' \in {key, Stored(r)}
    /\ UNCHANGED <<clock, collection, known>>

\* The transaction commits the key and answers with what it stored.
StoreFor(r) ==
    /\ NextRevision(key) <= MaxRevision
    /\ key' = Stored(r)
    /\ requests' = requests \ {r}
    /\ replies' = replies \cup {[device |-> r.device, key |-> Stored(r)]}
    /\ UNCHANGED <<clock, collection, known>>

\* The answer is the key that stays in place.
AnswerFor(r) ==
    /\ requests' = requests \ {r}
    /\ replies' = replies \cup {[device |-> r.device, key |-> key]}
    /\ UNCHANGED <<clock, collection, key, known>>

\* Bug: a claim does not look whether there is a key.
ClaimBlindly(r) == collection /\ ~r.rotates /\ StoreFor(r)

ClaimKey(r)    == collection /\ ~r.rotates /\ key = None /\ StoreFor(r)
AnswerClaim(r) == collection /\ ~r.rotates /\ key # None /\ AnswerFor(r)

TokenMatches(r) == r.saw.revision = key.revision

RotateKey(r) ==
    collection /\ r.rotates /\ key # None /\ TokenMatches(r) /\ StoreFor(r)

\* 409 with currentKey.
Conflict(r) ==
    collection /\ r.rotates /\ key # None /\ ~TokenMatches(r) /\ AnswerFor(r)

\* 404, or 400 for a rotation of no key: no key comes back.
Refuse(r) ==
    /\ ~collection \/ (r.rotates /\ key = None)
    /\ requests' = requests \ {r}
    /\ UNCHANGED <<clock, collection, key, replies, known>>

\* Collection ids are not reused, so a deleted one stays deleted.
DeleteCollection ==
    /\ collection
    /\ collection' = FALSE
    /\ key' = None
    /\ UNCHANGED <<clock, requests, replies, known>>

-----------------------------------------------------------------------------

PutKey(r) ==
    ClaimKey(r) \/ AnswerClaim(r) \/ RotateKey(r) \/ Conflict(r) \/ Refuse(r)

Next ==
    \/ Tick
    \/ \E d \in Devices : Send(d) \/ GetKey(d)
    \/ \E r \in requests : PutKey(r) \/ LoseRequest(r)
    \/ \E reply \in replies : Receive(reply) \/ LoseReply(reply)
    \/ DeleteCollection

Spec == Init /\ [][Next]_vars

-----------------------------------------------------------------------------
(* Properties                                                               *)

\* Every key that is stored, adopted, seen or on its way.
Held ==
    ({key} \cup {known[d] : d \in Devices} \cup {r.saw : r \in requests}
        \cup {reply.key : reply \in replies}) \ {None}

\* A revision token names one key for ever, whatever the clock does between
\* two rotations: otherwise two devices that hold the token both rotate, and
\* the second overwrites the first (nextRevision's comment).
TokensNameOneKey == \A k1, k2 \in Held : k1.revision = k2.revision => k1 = k2

\* A key that a device has been given is the stored one or an earlier one:
\* none is answered that was not committed, and none comes back.
NoKeyIsAhead == collection => \A k \in Held : key # None /\ k.revision <= key.revision

\* DESIGN.md: "The winner's key is never overwritten either way."  A stored
\* key gives way only to a rotation by a device that had seen that very key.
OnlyTheSeenKeyIsReplaced ==
    [][ key # None /\ key' # key /\ collection' =>
          \E r \in requests : /\ r.rotates /\ r.saw = key
                              /\ key'.material = r.material ]_vars
=============================================================================
