------------------------------ MODULE Database ------------------------------
(***************************************************************************)
(* The state every part of the server shares: the tables of one user's     *)
(* collection contents (migrations/sqlite/001_baseline.sql and its         *)
(* PostgreSQL twin) and the blob files under the storage directory.        *)
(*                                                                         *)
(* One user is modelled: every query of the server is scoped by user_id.   *)
(* A transaction is one step.  On SQLite that is the DSN's                 *)
(* _txlock=immediate; on PostgreSQL it is the advisory lock on the         *)
(* Mutation ID followed by the row locks, collection first.                *)
(***************************************************************************)
EXTENDS Integers

CONSTANTS
    Collections,       \* identifiers uuid.NewV7 may mint for collections
    Objects,           \* ... for objects
    Blobs,             \* ... for blob storage keys
    MutationIDs,       \* Mutation-Id values clients choose
    None,              \* SQL NULL, a missing row, an absent Mutation-Id
    StagedLifetime,    \* 24 hours: how long a staged blob may be claimed
    RetainedLifetime,  \* 365 days: how long a superseded blob is kept
    PendingLifetime,   \* 24 hours: how long an in-progress claim is kept
    OutcomeLifetime,   \* 30 days: how long a declined outcome is kept
    MaxTime,           \* bound on the clock
    MaxVersion         \* bound on a collection's current_version

ASSUME LifetimeAssumption ==
    /\ StagedLifetime \in Nat \ {0}
    /\ RetainedLifetime \in Nat
    /\ PendingLifetime \in Nat
    /\ OutcomeLifetime \in Nat
    /\ MaxTime \in Nat
    /\ MaxVersion \in Nat

ASSUME NoneAssumption ==
    None \notin Collections \cup Objects \cup Blobs \cup MutationIDs \cup Nat

\* One generator mints every identifier.
ASSUME IdentifierAssumption ==
    /\ Collections \cap Objects = {} /\ Collections \cap Blobs = {}
    /\ Objects \cap Blobs = {}

VARIABLES
    now,               \* the clock, in units of the lifetimes above
    minted,            \* identifiers handed out: a UUIDv7 is never minted twice
    collections,       \* the ids in the collections table
    current_version,   \* collections.current_version, the pull cursor
    objects,           \* the objects table: a row, or None
    blob_ledger,       \* the blob_ledger table: a row, or None
    mutation_results,  \* the mutation_results table: a row, or None
    files              \* the blob keys with a file in the storage directory

database == <<now, minted, collections, current_version, objects,
              blob_ledger, mutation_results, files>>

-----------------------------------------------------------------------------
(* Rows *)

MutationKinds == {"create", "update", "delete"}

\* legacy_shared is left out: migration 010 gave it to keys that several objects
\* named, no statement writes it, and no query claims, releases or removes it.
BlobStates == {"staged", "claimed", "retained", "purgeable"}

\* created_by is a history field: the Mutation-Id that created the object.
ObjectRow == [collection_id : Collections, version : Nat, change_seq : Nat,
              deleted : BOOLEAN, blob_key : Blobs,
              created_by : MutationIDs \cup {None}]

\* since is state_changed_at; stagedBlobSize reads created_at instead, but
\* only of staged rows, whose two timestamps are written together.
LedgerRow == [state : BlobStates, collection_id : Collections \cup {None},
              object_id : Objects \cup {None}, object_version : Nat, since : Nat]

\* What a mutation is answered, and what mutation_results.result stores.
Errors == {"", "version conflict", "blob is not staged", "blob is in use",
           "Mutation-Id reused for different intent"}

Result == [status : {0, 102, 200, 201, 204, 404, 409}, error : Errors,
           object_id : Objects \cup {None}, version : Nat]

MutationRow == [kind : MutationKinds, collection_id : Collections,
                object_id : Objects \cup {None},
                requested_version : Nat \cup {None},
                result : Result, created_at : Nat]

Outcome(status, error, o, v) ==
    [status |-> status, error |-> error, object_id |-> o, version |-> v]

Pending  == Outcome(102, "", None, 0)
NotFound == Outcome(404, "", None, 0)

ASSUME RowAssumption == None \notin ObjectRow \cup LedgerRow \cup MutationRow

DatabaseTypeOK ==
    /\ now \in Nat
    /\ minted \subseteq Objects \cup Blobs \cup Collections
    /\ collections \subseteq Collections
    /\ current_version \in [Collections -> Nat]
    /\ objects \in [Objects -> ObjectRow \cup {None}]
    /\ blob_ledger \in [Blobs -> LedgerRow \cup {None}]
    /\ mutation_results \in [MutationIDs -> MutationRow \cup {None}]
    /\ files \subseteq Blobs

DatabaseInit ==
    /\ now = 0
    \* Accounts from before the one-vault cap start with several collections.
    /\ collections \in SUBSET Collections
    /\ minted = collections
    /\ current_version = [c \in Collections |-> 0]
    /\ objects = [o \in Objects |-> None]
    /\ blob_ledger = [k \in Blobs |-> None]
    /\ mutation_results = [m \in MutationIDs |-> None]
    /\ files = {}

-----------------------------------------------------------------------------
(* Row predicates and updates several operations share *)

StagedRow == [state |-> "staged", collection_id |-> None, object_id |-> None,
              object_version |-> 0, since |-> now]

InState(k, s) == blob_ledger[k] # None /\ blob_ledger[k].state = s

\* stagedBlobSize: the key may be claimed, strictly inside the staging window.
Claimable(k) ==
    InState(k, "staged") /\ blob_ledger[k].since > now - StagedLifetime

\* Bug: OR binds looser than AND, and age alone makes a row eligible.
PurgeableByAge(k) ==
    blob_ledger[k] # None /\ blob_ledger[k].since < now - StagedLifetime

\* Bug: eligibility forgets the rows of deleted collections.
PurgeableButNotMarked(k) ==
    \/ InState(k, "staged") /\ blob_ledger[k].since < now - StagedLifetime
    \/ InState(k, "retained") /\ blob_ledger[k].since < now - RetainedLifetime

\* Bug: eligibility forgets staged rows nobody claimed.
PurgeableButNotStaged(k) ==
    \/ InState(k, "retained") /\ blob_ledger[k].since < now - RetainedLifetime
    \/ InState(k, "purgeable")

\* The WHERE clause eligibleBlobKeys and purgeBlobRow share.
Purgeable(k) ==
    \/ InState(k, "staged") /\ blob_ledger[k].since < now - StagedLifetime
    \/ InState(k, "retained") /\ blob_ledger[k].since < now - RetainedLifetime
    \/ InState(k, "purgeable")

\* Bug: the superseded blob keeps its claim.
KeepClaim(ledger, k) == ledger

\* UPDATE ... SET state = 'retained' WHERE blob_key = k AND state = 'claimed'.
Release(ledger, k) ==
    IF ledger[k] # None /\ ledger[k].state = "claimed"
    THEN [ledger EXCEPT ![k] =
            [@ EXCEPT !.state = "retained", !.object_id = None,
                      !.object_version = 0, !.since = now]]
    ELSE ledger

\* UPDATE ... SET state = 'claimed', collection, object, version.
Claim(ledger, k, c, o, v) ==
    [ledger EXCEPT ![k] =
        [state |-> "claimed", collection_id |-> c, object_id |-> o,
         object_version |-> v, since |-> now]]

Tick ==
    /\ now < MaxTime
    /\ now' = now + 1
    /\ UNCHANGED <<minted, collections, current_version, objects, blob_ledger,
                   mutation_results, files>>
=============================================================================
