--------------------------- MODULE ObjectMutations ---------------------------
(***************************************************************************)
(* The request handlers that change collection contents: blob upload and   *)
(* deletion, object create, update and delete on the classic routes and on *)
(* the single-round-trip routes, and the claim and deletion of the         *)
(* collection.  A handler is several transactions and file operations,     *)
(* and other handlers and maintenance run between any two of them:         *)
(*                                                                         *)
(*   upload          stage row, write file                                 *)
(*   create          [prepare, replay if not prepared], transaction        *)
(*   create-inline   [prepare, replay], stage row, write file, transaction *)
(*   update-inline   stage row, write file, prepare, transaction           *)
(*   update, delete  prepare, transaction                                  *)
(*   delete-blob     transaction, unlink file                              *)
(*                                                                         *)
(* The transaction of a mutation is one of the actions AnswerMismatch,     *)
(* AnswerStored, RefuseNotFound, RefuseConflict, RefuseNotStaged,          *)
(* ApplyCreate, ApplyUpdate, ApplyDelete and RedeleteTombstone, whose      *)
(* guards are the successive early returns of CreateReserved, Update and   *)
(* Delete.  An entry of a batch is an inline request of its own.           *)
(***************************************************************************)
EXTENDS Database

CONSTANTS
    Requests,     \* concurrent request slots
    Operations    \* the operations clients issue

Creates == {"create", "create-inline"}
Updates == {"update", "update-inline"}
Mutations == Creates \cup Updates \cup {"delete"}
AllOperations == Mutations \cup {"upload", "delete-blob"}

ASSUME OperationsAssumption == Operations \subseteq AllOperations

VARIABLES
    known,        \* blob keys some client has been told
    requests      \* the local state of each request's handler

Stages == {"idle", "stage", "put", "prepare", "reserve", "tx", "unlink"}

\* A finished request keeps its intent and its answer until the slot is reused.
RequestState ==
    [pc : Stages, op : AllOperations, mutation_id : MutationIDs \cup {None},
     collection_id : Collections \cup {None}, object_id : Objects \cup {None},
     version : Nat \cup {None}, blob_key : Blobs \cup {None},
     prepared : BOOLEAN, answer : Result]

NoAnswer == Outcome(0, "", None, 0)

\* A slot whose request was never issued, or was cut off without an answer.
Unused == [pc |-> "idle", op |-> "upload", mutation_id |-> None,
           collection_id |-> None, object_id |-> None, version |-> None,
           blob_key |-> None, prepared |-> FALSE, answer |-> NoAnswer]

\* Bug: the ledger records the route instead of the mutation kind.
RouteAsKind(q) == q.op

Kind(q) == IF q.op \in Creates THEN "create"
           ELSE IF q.op \in Updates THEN "update"
           ELSE q.op

Inline(q) == q.op \in {"create-inline", "update-inline"}

-----------------------------------------------------------------------------
(* Requests clients send: identifiers they have been told, any version.     *)

Versions(op) ==
    IF op \in Creates THEN {None}
    ELSE IF op = "delete" THEN 1 .. MaxVersion \cup {None}
    ELSE 1 .. MaxVersion + 1

Submitted(op) ==
    [pc : {"prepare"}, op : {op}, mutation_id : MutationIDs \cup {None},
     collection_id : Collections \cap minted,
     object_id : IF op \in Creates THEN {None} ELSE Objects \cap minted,
     version : Versions(op),
     blob_key : IF op \in {"create", "update"} THEN known ELSE {None},
     prepared : {FALSE}, answer : {NoAnswer}]

Arriving(r, ops) ==
    IF requests[r].pc = "idle"
    THEN UNION {Submitted(op) : op \in ops \cap Operations}
    ELSE {}

\* The handler of r moves on, or returns its answer.
Continue(r, q, pc) == requests' = [requests EXCEPT ![r] = [q EXCEPT !.pc = pc]]

Respond(r, q, answer) ==
    requests' = [requests EXCEPT ![r] =
        [q EXCEPT !.pc = "idle", !.blob_key = None, !.prepared = FALSE,
                  !.answer = answer]]

-----------------------------------------------------------------------------
(* blobs.Stage: the ledger row first, then the file.                        *)

\* The INSERT of Stage, for an upload, an inline update that has just
\* arrived, or an inline create that holds its reservation.
StageRow(r, q, k) ==
    /\ k \in Blobs \ minted
    /\ minted' = minted \cup {k}
    /\ blob_ledger' = [blob_ledger EXCEPT ![k] = StagedRow]
    /\ requests' = [requests EXCEPT ![r] = [q EXCEPT !.pc = "put", !.blob_key = k]]
    /\ UNCHANGED <<now, collections, current_version, objects,
                   mutation_results, files, known>>

Stage(r) ==
    \E k \in Blobs :
        \/ requests[r].pc = "stage" /\ StageRow(r, requests[r], k)
        \/ \E q \in Arriving(r, {"update-inline"}) : StageRow(r, q, k)
        \/ /\ requests[r].pc = "idle" /\ "upload" \in Operations
           /\ StageRow(r, Unused, k)

\* Bug: a failed write is taken for a successful one.
WriteUnchecked(k) == files' \in {files, files \cup {k}}

\* Store.Put.
WriteFile(k) == files' = files \cup {k}

\* The second half of Stage.  An upload then tells the client the key.
Put(r) ==
    LET q == requests[r] IN
    /\ q.pc = "put"
    /\ WriteFile(q.blob_key)
    /\ \/ /\ q.op = "upload"
          /\ known' = known \cup {q.blob_key}
          /\ Respond(r, q, Outcome(201, "", None, 0))
       \/ /\ q.op = "create-inline"
          /\ Continue(r, q, "tx")
          /\ UNCHANGED known
       \/ /\ q.op = "update-inline"
          /\ Continue(r, q, "prepare")
          /\ UNCHANGED known
    /\ UNCHANGED <<now, minted, collections, current_version, objects,
                   blob_ledger, mutation_results>>

-----------------------------------------------------------------------------
(* The Mutation ID protocol: prepareMutation, replay, saveResult.           *)

\* The in-progress row prepareMutation inserts.
PendingRow(q) ==
    [kind |-> Kind(q), collection_id |-> q.collection_id,
     object_id |-> q.object_id, requested_version |-> q.version,
     result |-> Pending, created_at |-> now]

\* The intent comparison in replay: a create's row is matched on its kind and
\* collection alone.
Matches(row, q) ==
    /\ row.kind = Kind(q)
    /\ row.collection_id = q.collection_id
    /\ Kind(q) = "create" \/ /\ row.object_id = q.object_id
                             /\ row.requested_version = q.version

\* The Mutation ID of q carries an outcome, or another request's claim.
Recorded(q) == q.mutation_id # None /\ mutation_results[q.mutation_id] # None

Mismatched(q) == Recorded(q) /\ ~Matches(mutation_results[q.mutation_id], q)

\* Bug: a request that inserted the row assumes it is still its own.
PreparedIsEnough(q) == Recorded(q) => ~Mismatched(q) /\ q.prepared

\* Nothing to replay: no row, or the in-progress row this request inserted.
Fresh(q) ==
    Recorded(q) => /\ ~Mismatched(q)
                   /\ q.prepared
                   /\ mutation_results[q.mutation_id].result.status = 102

\* Where a request goes once its Mutation ID is claimed.
Reserved(q) == IF q.op = "create-inline" THEN "stage" ELSE "tx"

\* prepareMutation: an autocommitted INSERT ... ON CONFLICT DO NOTHING.  A
\* create whose ID was already there goes on to ReserveCreate's replay.
Prepare(r) ==
    \E q \in Arriving(r, {"create", "create-inline", "update", "delete"})
              \cup {p \in {requests[r]} : p.pc = "prepare"} :
        /\ \/ /\ q.mutation_id = None
              /\ Continue(r, q, Reserved(q))
              /\ UNCHANGED mutation_results
           \/ /\ Recorded(q)
              /\ Continue(r, q, IF Kind(q) = "create" THEN "reserve" ELSE "tx")
              /\ UNCHANGED mutation_results
           \/ /\ q.mutation_id # None /\ ~Recorded(q)
              /\ mutation_results' =
                   [mutation_results EXCEPT ![q.mutation_id] = PendingRow(q)]
              /\ Continue(r, [q EXCEPT !.prepared = TRUE], Reserved(q))
        /\ UNCHANGED <<now, minted, collections, current_version, objects,
                       blob_ledger, files, known>>

Mismatch == Outcome(409, "Mutation-Id reused for different intent", None, 0)

\* The second half of ReserveCreate, in its own transaction: answer what the
\* ID already carries, or go on when its row has expired in the meantime.
ReserveReplay(r) ==
    LET q == requests[r] IN
    /\ q.pc = "reserve"
    /\ \/ ~Recorded(q) /\ Continue(r, q, Reserved(q))
       \/ Mismatched(q) /\ Respond(r, q, Mismatch)
       \/ /\ Recorded(q) /\ ~Mismatched(q)
          /\ Respond(r, q, mutation_results[q.mutation_id].result)
    /\ UNCHANGED <<database, known>>

\* saveResult: an upsert that keeps the kind, collection and created_at of a
\* row that is already there.
SaveResult(q, result, o) ==
    mutation_results' =
        IF q.mutation_id = None THEN mutation_results
        ELSE [mutation_results EXCEPT ![q.mutation_id] =
                IF @ = None
                THEN [PendingRow(q) EXCEPT !.object_id = o, !.result = result]
                ELSE [@ EXCEPT !.object_id = o, !.requested_version = q.version,
                               !.result = result]]

-----------------------------------------------------------------------------
(* The mutation transaction.                                                *)

AnswerMismatch(r) ==
    LET q == requests[r] IN
    /\ q.pc = "tx"
    /\ Mismatched(q)
    /\ Respond(r, q, Mismatch)
    /\ UNCHANGED <<database, known>>

\* A recorded outcome is replayed; an in-progress claim of another request
\* (or of an attempt that was cut off) answers "mutation still in progress".
AnswerStored(r) ==
    LET q == requests[r] IN
    /\ q.pc = "tx"
    /\ Recorded(q) /\ ~Mismatched(q) /\ ~Fresh(q)
    /\ Respond(r, q, mutation_results[q.mutation_id].result)
    /\ UNCHANGED <<database, known>>

\* Past the replay: the transaction owns the Mutation ID.
Owns(r) == requests[r].pc = "tx" /\ Fresh(requests[r])

\* The outcome is saved and answered; collection contents stay as they are.
Decline(r, result) ==
    LET q == requests[r] IN
    /\ SaveResult(q, result, q.object_id)
    /\ Respond(r, q, result)
    /\ UNCHANGED <<now, minted, collections, current_version, objects,
                   blob_ledger, files, known>>

\* lockCollection and the object lookup.
Found(q) ==
    /\ q.collection_id \in collections
    /\ Kind(q) # "create" =>
         /\ objects[q.object_id] # None
         /\ objects[q.object_id].collection_id = q.collection_id

\* Bug: an update may repeat the version the object already has.
VersionNotBehind(q) ==
    LET cur == objects[q.object_id].version IN
    /\ Kind(q) = "update" => q.version \in {cur, cur + 1}
    /\ Kind(q) = "delete" => q.version \in {None, cur}

VersionMatches(q) ==
    LET cur == objects[q.object_id].version IN
    /\ Kind(q) = "update" => q.version = cur + 1
    /\ Kind(q) = "delete" => q.version \in {None, cur}

RefuseNotFound(r) ==
    /\ Owns(r)
    /\ ~Found(requests[r])
    /\ Decline(r, NotFound)

RefuseConflict(r) ==
    LET q == requests[r] IN
    /\ Owns(r) /\ Found(q)
    /\ ~VersionMatches(q)
    /\ Decline(r, Outcome(409, "version conflict", None, objects[q.object_id].version))

RefuseNotStaged(r) ==
    LET q == requests[r] IN
    /\ Owns(r) /\ Found(q) /\ VersionMatches(q)
    /\ Kind(q) # "delete"
    /\ ~Claimable(q.blob_key)
    /\ Decline(r, Outcome(409, "blob is not staged", None, 0))

\* Bug: the cursor is read but not advanced.
KeepCursor(c) == current_version[c] < MaxVersion /\ UNCHANGED current_version

\* UPDATE collections SET current_version = current_version + 1.
Advance(c) ==
    /\ current_version[c] < MaxVersion
    /\ current_version' = [current_version EXCEPT ![c] = @ + 1]

ApplyCreate(r) ==
    LET q == requests[r]
        c == q.collection_id IN
    /\ Owns(r) /\ Found(q) /\ Kind(q) = "create"
    /\ Claimable(q.blob_key)
    /\ \E o \in Objects \ minted :
         /\ minted' = minted \cup {o}
         /\ Advance(c)
         /\ objects' = [objects EXCEPT ![o] =
              [collection_id |-> c, version |-> 1,
               change_seq |-> current_version[c] + 1, deleted |-> FALSE,
               blob_key |-> q.blob_key, created_by |-> q.mutation_id]]
         /\ blob_ledger' = Claim(blob_ledger, q.blob_key, c, o, 1)
         /\ SaveResult(q, Outcome(201, "", o, 1), o)
         /\ Respond(r, q, Outcome(201, "", o, 1))
    /\ known' = known \cup {q.blob_key}
    /\ UNCHANGED <<now, collections, files>>

\* The new version claims its blob and releases the one it supersedes.  The
\* row's deleted flag is left alone: a tombstone stays a tombstone.
ApplyUpdate(r) ==
    LET q == requests[r]
        c == q.collection_id
        o == q.object_id
        result == Outcome(200, "", o, q.version) IN
    /\ Owns(r) /\ Found(q) /\ VersionMatches(q) /\ Kind(q) = "update"
    /\ Claimable(q.blob_key)
    /\ Advance(c)
    /\ objects' = [objects EXCEPT ![o] =
         [@ EXCEPT !.version = q.version, !.blob_key = q.blob_key,
                   !.change_seq = current_version[c] + 1]]
    /\ blob_ledger' = Claim(Release(blob_ledger, objects[o].blob_key),
                            q.blob_key, c, o, q.version)
    /\ SaveResult(q, result, o)
    /\ Respond(r, q, result)
    /\ known' = known \cup {q.blob_key}
    /\ UNCHANGED <<now, minted, collections, files>>

\* A soft delete keeps the row as a tombstone and releases its blob.
ApplyDelete(r) ==
    LET q == requests[r]
        c == q.collection_id
        o == q.object_id
        result == Outcome(200, "", o, objects[o].version + 1) IN
    /\ Owns(r) /\ Found(q) /\ VersionMatches(q) /\ Kind(q) = "delete"
    /\ ~objects[o].deleted
    /\ Advance(c)
    /\ objects' = [objects EXCEPT ![o] =
         [@ EXCEPT !.deleted = TRUE, !.version = objects[o].version + 1,
                   !.change_seq = current_version[c] + 1]]
    /\ blob_ledger' = Release(blob_ledger, objects[o].blob_key)
    /\ SaveResult(q, result, o)
    /\ Respond(r, q, result)
    /\ UNCHANGED <<now, minted, collections, files, known>>

\* Deleting a tombstone succeeds without a new version.
RedeleteTombstone(r) ==
    LET q == requests[r] IN
    /\ Owns(r) /\ Found(q) /\ VersionMatches(q) /\ Kind(q) = "delete"
    /\ objects[q.object_id].deleted
    /\ Decline(r, Outcome(200, "", q.object_id, objects[q.object_id].version))

-----------------------------------------------------------------------------
(* blobs.Delete, and the collection's own operations.                       *)

\* The transaction of blobs.Delete: only a staged row, or a key without a
\* row, lets the file be removed.
DeleteBlobRow(r) ==
    \E k \in known :
        /\ requests[r].pc = "idle" /\ "delete-blob" \in Operations
        /\ \/ /\ blob_ledger[k] # None /\ ~InState(k, "staged")
              /\ Respond(r, [Unused EXCEPT !.op = "delete-blob"],
                         Outcome(409, "blob is in use", None, 0))
              /\ UNCHANGED blob_ledger
           \/ /\ blob_ledger[k] = None \/ InState(k, "staged")
              /\ blob_ledger' = [blob_ledger EXCEPT ![k] = None]
              /\ requests' = [requests EXCEPT ![r] =
                   [Unused EXCEPT !.pc = "unlink", !.op = "delete-blob", !.blob_key = k]]
        /\ UNCHANGED <<now, minted, collections, current_version, objects,
                       mutation_results, files, known>>

\* store.Remove, after the commit.
Unlink(r) ==
    /\ requests[r].pc = "unlink"
    /\ files' = files \ {requests[r].blob_key}
    /\ Respond(r, requests[r], Outcome(204, "", None, 0))
    /\ UNCHANGED <<now, minted, collections, current_version, objects,
                   blob_ledger, mutation_results, known>>

\* The client went away, an I/O call failed, or the server died: the handler
\* stops where it is, an open transaction rolls back, nobody gets an answer.
Abort(r) ==
    /\ requests[r].pc # "idle"
    /\ requests' = [requests EXCEPT ![r] = Unused]
    /\ UNCHANGED <<database, known>>

\* collections.Claim creates a collection only for an account that has none.
ClaimCollection ==
    /\ collections = {}
    /\ \E c \in Collections \ minted :
         /\ minted' = minted \cup {c}
         /\ collections' = {c}
    /\ UNCHANGED <<now, current_version, objects, blob_ledger,
                   mutation_results, files, known, requests>>

\* The ledger after the foreign key set object_id to NULL and claimed and
\* retained blobs of c became purgeable.
LedgerWithout(c) ==
    [k \in Blobs |->
        IF /\ blob_ledger[k] # None
           /\ blob_ledger[k].collection_id = c
           /\ blob_ledger[k].state \in {"claimed", "retained"}
        THEN [blob_ledger[k] EXCEPT !.state = "purgeable", !.object_id = None,
                                    !.since = now]
        ELSE blob_ledger[k]]

\* collections.Delete: objects cascade, Mutation IDs scoped to c are forgotten.
DeleteCollection(c) ==
    /\ c \in collections
    /\ collections' = collections \ {c}
    /\ blob_ledger' = LedgerWithout(c)
    /\ objects' = [o \in Objects |->
         IF objects[o] # None /\ objects[o].collection_id = c THEN None ELSE objects[o]]
    /\ mutation_results' = [m \in MutationIDs |->
         IF mutation_results[m] # None /\ mutation_results[m].collection_id = c
         THEN None ELSE mutation_results[m]]
    /\ UNCHANGED <<now, minted, current_version, files, known, requests>>

-----------------------------------------------------------------------------
(* What a client reads back                                                 *)

\* RecoverCreate: what became of the create that carried m.
RecoverCreate(c, m) ==
    LET row == mutation_results[m] IN
    IF \/ c \notin collections \/ row = None
       \/ row.collection_id # c \/ row.kind # "create"
       \/ row.result.status \in {404, 409}
    THEN NotFound
    ELSE row.result

ObjectMutationsTypeOK ==
    /\ known \subseteq Blobs
    /\ requests \in [Requests -> RequestState]

ObjectMutationsInit ==
    /\ known = {}
    /\ requests = [r \in Requests |-> Unused]

\* One step of the transaction that decides a mutation.
MutationTransaction(r) ==
    \/ AnswerMismatch(r)  \/ AnswerStored(r)
    \/ RefuseNotFound(r)  \/ RefuseConflict(r)  \/ RefuseNotStaged(r)
    \/ ApplyCreate(r)     \/ ApplyUpdate(r)
    \/ ApplyDelete(r)     \/ RedeleteTombstone(r)

HandlerStep(r) ==
    \/ Stage(r) \/ Put(r) \/ Prepare(r) \/ ReserveReplay(r)
    \/ MutationTransaction(r)
    \/ DeleteBlobRow(r) \/ Unlink(r) \/ Abort(r)

RequestStep ==
    \/ \E r \in Requests : HandlerStep(r)
    \/ ClaimCollection
    \/ \E c \in Collections : DeleteCollection(c)
=============================================================================
