---------------------- MODULE CollectionContentsProofs ----------------------
(***************************************************************************)
(* Safety of CollectionContents, for every value of its constants.  The    *)
(* inductive invariant is Typed, Minted, and the named parts below.  Of    *)
(* all steps only five change what the tables say about objects: an        *)
(* accepted create, update or delete and the claim and deletion of a       *)
(* collection.  The others are Quiet.                                      *)
(***************************************************************************)
EXTENDS CollectionContents, TLAPS

(* Typing.  That of a handler's local state depends on where the handler    *)
(* is, so TypeOK is proved together with HandlersHold.                      *)
\* What a handler at stage q.pc has in hand.
Holds(q) ==
    /\ q.pc = "stage" => q.op = "create-inline"
    /\ q.pc = "reserve" => q.op \in Creates
    /\ q.pc = "put" => q.op \in {"upload", "create-inline", "update-inline"}
    /\ q.pc \in {"prepare", "tx"} => q.op \in Mutations
    /\ q.pc # "idle" /\ q.op \in Mutations => q.collection_id \in Collections
    /\ q.pc # "idle" /\ q.op \in Updates \cup {"delete"} => q.object_id \in Objects
    /\ \/ q.pc = "put"
       \/ q.pc = "tx" /\ q.op # "delete"
       \/ q.pc \in {"prepare", "reserve"} /\ q.op \in {"create"} \cup Updates
       => q.blob_key \in Blobs

HandlersHold == \A r \in Requests : Holds(requests[r])

Typed == TypeOK /\ HandlersHold

-----------------------------------------------------------------------------
(* Lemmas about the operators                                               *)

\* The kind of a mutation determines its routes.
LEMMA KindOfOp ==
    ASSUME NEW q
    PROVE  /\ Kind(q) = "create" <=> q.op \in Creates
           /\ Kind(q) = "update" <=> q.op \in Updates
           /\ Kind(q) = "delete" <=> q.op = "delete"
           /\ q.op \in Mutations => Kind(q) \in MutationKinds
  BY DEF Kind, Creates, Updates, Mutations, MutationKinds

\* An outcome with typed parts is a result.
LEMMA OutcomeTyped ==
    ASSUME NEW s \in {0, 102, 200, 201, 204, 404, 409}, NEW e \in Errors,
           NEW o \in Objects \cup {None}, NEW v \in Nat
    PROVE  Outcome(s, e, o, v) \in Result
  BY DEF Outcome, Result

\* Releasing and claiming keep the ledger well typed.
LEMMA LedgerTyped ==
    ASSUME DatabaseTypeOK, NEW ledger \in [Blobs -> LedgerRow \cup {None}],
           NEW k, NEW c \in Collections, NEW o \in Objects, NEW v \in Nat
    PROVE  /\ Release(ledger, k) \in [Blobs -> LedgerRow \cup {None}]
           /\ Claim(ledger, k, c, o, v) \in [Blobs -> LedgerRow \cup {None}]
  BY ZenonT(60) DEF DatabaseTypeOK, Release, Claim, LedgerRow, BlobStates

\* The row an INSERT into the ledger writes is well typed.
LEMMA StagedRowTyped ==
    ASSUME DatabaseTypeOK
    PROVE  StagedRow \in LedgerRow
  BY DEF DatabaseTypeOK, StagedRow, LedgerRow, BlobStates

\* A request that arrives is well formed.
LEMMA SubmittedTyped ==
    ASSUME TypeOK, NEW op \in AllOperations \cap Mutations, NEW q \in Submitted(op)
    PROVE  q \in RequestState /\ q.op = op /\ q.pc = "prepare" /\ ~q.prepared
           /\ (op \notin {"create-inline"} \cup {"update-inline"} => Holds(q))
           /\ q.collection_id \in Collections
           /\ (op \in Updates => q.object_id \in Objects)
  <1>1. /\ q.pc = "prepare" /\ q.op = op /\ q.prepared = FALSE
        /\ q.answer = NoAnswer
        /\ q.mutation_id \in MutationIDs \cup {None}
        /\ q.collection_id \in Collections
        /\ q = [pc |-> q.pc, op |-> q.op, mutation_id |-> q.mutation_id,
                collection_id |-> q.collection_id, object_id |-> q.object_id,
                version |-> q.version, blob_key |-> q.blob_key,
                prepared |-> q.prepared, answer |-> q.answer]
    BY DEF Submitted
  <1>2. NoAnswer \in Result
    BY DEF NoAnswer, Outcome, Result, Errors
  <1>3. q.object_id \in Objects \cup {None} /\ (op \notin Creates => q.object_id \in Objects)
    BY DEF Submitted, Creates, Versions
  <1>4. q.version \in Nat \cup {None}
    <2>1. CASE op \in Creates
      BY <2>1 DEF Submitted, Creates, Versions
    <2>2. CASE op = "delete"
      BY <2>2, LifetimeAssumption DEF Submitted, Creates, Versions
    <2>3. CASE op \in Updates
      <3>1. q.version \in 1 .. MaxVersion + 1
        BY <2>3 DEF Submitted, Updates, Creates, Versions
      <3> QED
        BY <3>1, LifetimeAssumption
    <2> QED
      BY <2>1, <2>2, <2>3 DEF Mutations
  <1>5. q.blob_key \in Blobs \cup {None} /\ (op \in {"create", "update"} => q.blob_key \in Blobs)
    BY DEF Submitted, TypeOK, ObjectMutationsTypeOK
  <1>6. q \in RequestState
    BY <1>1, <1>2, <1>3, <1>4, <1>5 DEF RequestState, Stages, Mutations, AllOperations
  <1> QED
    BY <1>1, <1>3, <1>5, <1>6 DEF Holds, Creates, Updates, Mutations

RequestsTyped == requests \in [Requests -> RequestState] /\ HandlersHold

\* A slot that takes a well-formed request state keeps the handlers well typed.
LEMMA RequestMoves ==
    ASSUME RequestsTyped, NEW r \in Requests, NEW q \in RequestState, Holds(q),
           requests' = [requests EXCEPT ![r] = q]
    PROVE  RequestsTyped'
  BY DEF RequestsTyped, HandlersHold, Holds

\* So does a handler that moves on and holds what its next stage needs,
LEMMA RequestContinues ==
    ASSUME RequestsTyped, NEW r \in Requests, NEW q \in RequestState,
           NEW pc \in Stages, Holds([q EXCEPT !.pc = pc]), Continue(r, q, pc)
    PROVE  RequestsTyped'
  BY RequestMoves DEF Continue, RequestState

\* and a handler that answers.
LEMMA RequestEnds ==
    ASSUME RequestsTyped, NEW r \in Requests, NEW q \in RequestState,
           NEW answer \in Result, Respond(r, q, answer)
    PROVE  RequestsTyped'
  <1> DEFINE p == [q EXCEPT !.pc = "idle", !.blob_key = None, !.prepared = FALSE,
                            !.answer = answer]
  <1>1. p \in RequestState
    BY DEF RequestState, Stages
  <1>2. Holds(p)
    BY DEF Holds, RequestState
  <1> QED
    BY <1>1, <1>2, RequestMoves DEF Respond

\* An unused slot is well formed.
LEMMA UnusedTyped == Unused \in RequestState /\ Holds(Unused)
  <1>1. NoAnswer \in Result
    BY DEF NoAnswer, Outcome, Result, Errors
  <1> QED
    BY <1>1 DEF Unused, RequestState, Stages, Holds, AllOperations, Mutations,
                Creates, Updates

\* Saving an outcome keeps mutation_results well typed.
LEMMA SaveTyped ==
    ASSUME DatabaseTypeOK, NEW q \in RequestState, q.op \in Mutations,
           q.collection_id \in Collections, NEW result \in Result,
           NEW o \in Objects \cup {None}, SaveResult(q, result, o)
    PROVE  mutation_results' \in [MutationIDs -> MutationRow \cup {None}]
  <1>1. Pending \in Result
    BY DEF Pending, Outcome, Result, Errors
  <1>2. PendingRow(q) \in MutationRow
    BY <1>1, KindOfOp DEF PendingRow, MutationRow, RequestState, DatabaseTypeOK
  <1>3. [PendingRow(q) EXCEPT !.object_id = o, !.result = result] \in MutationRow
    BY <1>2 DEF MutationRow
  <1>4. \A row \in MutationRow :
          [row EXCEPT !.object_id = o, !.requested_version = q.version,
                      !.result = result] \in MutationRow
    BY DEF MutationRow, RequestState
  <1> QED
    BY <1>3, <1>4 DEF SaveResult, DatabaseTypeOK

-----------------------------------------------------------------------------
(* Typing                                                                   *)

\* Inserting the ledger row of a fresh key keeps the state well typed.
LEMMA StageRowTyped ==
    ASSUME Typed, NEW r \in Requests, NEW q \in RequestState, NEW k \in Blobs,
           StageRow(r, q, k), UNCHANGED maintenance,
           q.op \in {"upload", "create-inline", "update-inline"},
           q.op # "upload" => q.collection_id \in Collections,
           q.op = "update-inline" => q.object_id \in Objects
    PROVE  Typed'
  <1> USE DEF Typed, TypeOK, ObjectMutationsTypeOK, MaintenanceTypeOK
  <1> DEFINE p == [q EXCEPT !.pc = "put", !.blob_key = k]
  <1>1. p \in RequestState /\ Holds(p)
    BY DEF RequestState, Stages, Holds, Creates, Updates, Mutations
  <1>2. RequestsTyped'
    BY <1>1, RequestMoves DEF StageRow, RequestsTyped
  <1>3. DatabaseTypeOK'
    BY StagedRowTyped DEF StageRow, DatabaseTypeOK
  <1> QED
    BY <1>2, <1>3 DEF StageRow, RequestsTyped

\* blobs.Stage's first half keeps the state well typed, on every route.
LEMMA StageTyped ==
    ASSUME Typed, NEW r \in Requests, Stage(r), UNCHANGED maintenance
    PROVE  Typed'
  <1>1. ASSUME NEW k \in Blobs, requests[r].pc = "stage", StageRow(r, requests[r], k)
        PROVE  Typed'
    <2>1. requests[r] \in RequestState /\ requests[r].op = "create-inline"
      BY <1>1 DEF Typed, TypeOK, ObjectMutationsTypeOK, HandlersHold, Holds
    <2>2. requests[r].collection_id \in Collections
      BY <1>1, <2>1 DEF Typed, HandlersHold, Holds, Mutations, Creates
    <2> QED
      BY <1>1, <2>1, <2>2, StageRowTyped
  <1>2. ASSUME NEW k \in Blobs, NEW q \in Arriving(r, {"update-inline"}),
               StageRow(r, q, k)
        PROVE  Typed'
    <2>1. q \in Submitted("update-inline")
      BY <1>2 DEF Arriving
    <2>2. "update-inline" \in AllOperations \cap Mutations /\ "update-inline" \in Updates
      BY DEF AllOperations, Mutations, Updates
    <2>3. /\ q \in RequestState /\ q.op = "update-inline"
          /\ q.collection_id \in Collections /\ q.object_id \in Objects
      BY <2>1, <2>2, SubmittedTyped DEF Typed
    <2> QED
      BY <1>2, <2>3, StageRowTyped
  <1>3. ASSUME NEW k \in Blobs, StageRow(r, Unused, k)
        PROVE  Typed'
    <2>1. Unused.op = "upload"
      BY DEF Unused
    <2> QED
      BY <1>3, <2>1, UnusedTyped, StageRowTyped
  <1> QED
    BY <1>1, <1>2, <1>3 DEF Stage

\* blobs.Stage's second half, the file, keeps the state well typed.
LEMMA PutTyped ==
    ASSUME Typed, NEW r \in Requests, Put(r), UNCHANGED maintenance
    PROVE  Typed'
  <1> USE DEF Typed, TypeOK, ObjectMutationsTypeOK, MaintenanceTypeOK
  <1> DEFINE q == requests[r]
  <1>1. q \in RequestState /\ Holds(q) /\ q.pc = "put" /\ q.blob_key \in Blobs
    BY DEF Put, HandlersHold, Holds
  <1>2. DatabaseTypeOK'
    BY <1>1 DEF Put, WriteFile, DatabaseTypeOK
  <1>3. CASE q.op = "upload" /\ Respond(r, q, Outcome(201, "", None, 0))
             /\ known' = known \cup {q.blob_key}
    <2>1. Outcome(201, "", None, 0) \in Result
      BY DEF Outcome, Result, Errors
    <2>2. RequestsTyped'
      BY <1>1, <1>3, <2>1, RequestEnds DEF RequestsTyped
    <2> QED
      BY <1>1, <1>2, <1>3, <2>2 DEF RequestsTyped
  <1>4. CASE q.op = "create-inline" /\ Continue(r, q, "tx") /\ UNCHANGED known
    <2>1. Holds([q EXCEPT !.pc = "tx"])
      BY <1>1, <1>4 DEF Holds, RequestState, Creates, Updates, Mutations
    <2>2. RequestsTyped'
      BY <1>1, <1>4, <2>1, RequestContinues DEF RequestsTyped, Stages
    <2> QED
      BY <1>2, <1>4, <2>2 DEF RequestsTyped
  <1>5. CASE q.op = "update-inline" /\ Continue(r, q, "prepare") /\ UNCHANGED known
    <2>1. Holds([q EXCEPT !.pc = "prepare"])
      BY <1>1, <1>5 DEF Holds, RequestState, Creates, Updates, Mutations
    <2>2. RequestsTyped'
      BY <1>1, <1>5, <2>1, RequestContinues DEF RequestsTyped, Stages
    <2> QED
      BY <1>2, <1>5, <2>2 DEF RequestsTyped
  <1> QED
    BY <1>3, <1>4, <1>5 DEF Put

\* A request whose Mutation ID is claimed goes on with what it needs.
LEMMA ReservedTyped ==
    ASSUME RequestsTyped, NEW r \in Requests, NEW q \in RequestState,
           q.op \in Mutations, q.collection_id \in Collections,
           q.op \in Updates \cup {"delete"} => q.object_id \in Objects,
           q.op \in {"create"} \cup Updates => q.blob_key \in Blobs,
           Continue(r, q, Reserved(q))
    PROVE  RequestsTyped'
  <1>1. Holds([q EXCEPT !.pc = Reserved(q)])
    BY DEF Holds, Reserved, RequestState, Creates, Updates, Mutations
  <1> QED
    BY <1>1, RequestContinues DEF Reserved, Stages

\* prepareMutation keeps the state well typed, whether it inserts or not.
LEMMA PrepareTyped ==
    ASSUME Typed, NEW r \in Requests, Prepare(r), UNCHANGED maintenance
    PROVE  Typed'
  <1> DEFINE arriving == Arriving(r, {"create", "create-inline", "update", "delete"})
  <1>1. RequestsTyped /\ DatabaseTypeOK
    BY DEF Typed, TypeOK, ObjectMutationsTypeOK, RequestsTyped
  <1>2. PICK q \in arriving \cup {p \in {requests[r]} : p.pc = "prepare"} :
          \/ q.mutation_id = None /\ Continue(r, q, Reserved(q)) /\ UNCHANGED mutation_results
          \/ /\ Recorded(q)
             /\ Continue(r, q, IF Kind(q) = "create" THEN "reserve" ELSE "tx")
             /\ UNCHANGED mutation_results
          \/ /\ q.mutation_id # None
             /\ mutation_results' = [mutation_results EXCEPT ![q.mutation_id] = PendingRow(q)]
             /\ Continue(r, [q EXCEPT !.prepared = TRUE], Reserved(q))
    BY DEF Prepare
  <1>3. /\ q \in RequestState /\ q.pc = "prepare" /\ q.op \in Mutations
        /\ q.collection_id \in Collections
        /\ q.op \in Updates \cup {"delete"} => q.object_id \in Objects
        /\ q.op \in {"create"} \cup Updates => q.blob_key \in Blobs
    <2>1. CASE q \in arriving
      <3>1. PICK op \in {"create", "create-inline", "update", "delete"} : q \in Submitted(op)
        BY <2>1 DEF Arriving
      <3>2. /\ op \in AllOperations \cap Mutations
            /\ op \in {"create", "update", "delete"} => op \notin {"create-inline"} \cup {"update-inline"}
        BY DEF AllOperations, Mutations, Creates, Updates
      <3>3. /\ q \in RequestState /\ q.op = op /\ q.pc = "prepare"
            /\ op \in {"create", "update", "delete"} => Holds(q)
            /\ q.collection_id \in Collections
        BY <3>1, <3>2, SubmittedTyped DEF Typed
      <3> QED
        BY <3>2, <3>3 DEF Holds, Creates, Updates, Mutations
    <2>2. CASE q = requests[r] /\ q.pc = "prepare"
      BY <1>1, <2>2 DEF RequestsTyped, HandlersHold, Holds, Mutations
    <2> QED
      BY <1>2, <2>1, <2>2
  <1>4. ASSUME UNCHANGED mutation_results, RequestsTyped'
        PROVE  Typed'
    BY <1>1, <1>4 DEF Prepare, Typed, TypeOK, DatabaseTypeOK, ObjectMutationsTypeOK,
                      MaintenanceTypeOK, RequestsTyped
  <1>5. CASE q.mutation_id = None /\ Continue(r, q, Reserved(q)) /\ UNCHANGED mutation_results
    BY <1>1, <1>3, <1>4, <1>5, ReservedTyped
  <1>6. CASE /\ Continue(r, q, IF Kind(q) = "create" THEN "reserve" ELSE "tx")
             /\ UNCHANGED mutation_results
    <2> DEFINE pc == IF Kind(q) = "create" THEN "reserve" ELSE "tx"
    <2>1. Holds([q EXCEPT !.pc = pc])
      BY <1>3, KindOfOp DEF Holds, RequestState, Creates, Updates, Mutations
    <2>2. RequestsTyped'
      BY <1>1, <1>3, <1>6, <2>1, RequestContinues DEF Stages
    <2> QED
      BY <1>4, <1>6, <2>2
  <1>7. CASE /\ mutation_results' = [mutation_results EXCEPT ![q.mutation_id] = PendingRow(q)]
             /\ Continue(r, [q EXCEPT !.prepared = TRUE], Reserved(q))
    <2> DEFINE p == [q EXCEPT !.prepared = TRUE]
    <2>1. p \in RequestState /\ Reserved(p) = Reserved(q)
      BY <1>3 DEF RequestState, Reserved
    <2>2. RequestsTyped'
      <3>1. /\ p.op = q.op /\ p.collection_id = q.collection_id
            /\ p.object_id = q.object_id /\ p.blob_key = q.blob_key
        BY <1>3 DEF RequestState
      <3> HIDE DEF p
      <3> QED
        BY <1>1, <1>3, <1>7, <2>1, <3>1, ReservedTyped DEF p
    <2>3. PendingRow(q) \in MutationRow
      BY <1>1, <1>3, KindOfOp, ZenonT(60)
      DEF PendingRow, Pending, Outcome, Errors, Result, MutationRow, RequestState, DatabaseTypeOK
    <2>4. DatabaseTypeOK'
      BY <1>1, <1>7, <2>3 DEF Prepare, DatabaseTypeOK
    <2> QED
      BY <1>1, <2>2, <2>4 DEF Prepare, Typed, TypeOK, ObjectMutationsTypeOK, MaintenanceTypeOK, RequestsTyped
  <1> QED
    BY <1>2, <1>5, <1>6, <1>7

\* An answer that leaves the database alone.
LEMMA AnswerTyped ==
    ASSUME Typed, NEW r \in Requests, NEW answer \in Result,
           Respond(r, requests[r], answer), UNCHANGED <<database, known, maintenance>>
    PROVE  Typed'
  <1>1. RequestsTyped /\ requests[r] \in RequestState
    BY DEF Typed, TypeOK, ObjectMutationsTypeOK, RequestsTyped
  <1>2. RequestsTyped'
    BY <1>1, RequestEnds
  <1> QED
    BY <1>2 DEF Typed, TypeOK, DatabaseTypeOK, ObjectMutationsTypeOK, MaintenanceTypeOK,
                RequestsTyped, database

\* The answer to a reused Mutation ID is a result.
LEMMA MismatchTyped == Mismatch \in Result
  BY DEF Mismatch, Outcome, Result, Errors

\* What a transaction can rely on.
LEMMA AtTransaction ==
    ASSUME Typed, NEW r \in Requests, requests[r].pc = "tx"
    PROVE  LET q == requests[r] IN
           /\ RequestsTyped /\ DatabaseTypeOK
           /\ q \in RequestState /\ q.op \in Mutations
           /\ q.collection_id \in Collections
           /\ Kind(q) # "create" => q.object_id \in Objects
           /\ Kind(q) # "delete" => q.blob_key \in Blobs
           /\ Recorded(q) => /\ mutation_results[q.mutation_id] \in MutationRow
                             /\ mutation_results[q.mutation_id].result \in Result
  <1>1. RequestsTyped /\ DatabaseTypeOK /\ requests[r] \in RequestState /\ Holds(requests[r])
    BY DEF Typed, TypeOK, ObjectMutationsTypeOK, RequestsTyped, HandlersHold
  <1>2. requests[r].op \in Mutations /\ requests[r].collection_id \in Collections
    BY <1>1 DEF Holds
  <1>3. /\ Kind(requests[r]) # "create" => requests[r].object_id \in Objects
        /\ Kind(requests[r]) # "delete" => requests[r].blob_key \in Blobs
    BY <1>1, <1>2, KindOfOp DEF Holds, Mutations
  <1>4. Recorded(requests[r]) =>
          /\ mutation_results[requests[r].mutation_id] \in MutationRow
          /\ mutation_results[requests[r].mutation_id].result \in Result
    BY <1>1 DEF Recorded, RequestState, DatabaseTypeOK, MutationRow
  <1> QED
    BY <1>1, <1>2, <1>3, <1>4

\* ReserveCreate's replay keeps the state well typed.
LEMMA ReserveReplayTyped ==
    ASSUME Typed, NEW r \in Requests, ReserveReplay(r), UNCHANGED maintenance
    PROVE  Typed'
  <1> DEFINE q == requests[r]
  <1>1. RequestsTyped /\ DatabaseTypeOK /\ q \in RequestState /\ Holds(q) /\ q.pc = "reserve"
    BY DEF Typed, TypeOK, ObjectMutationsTypeOK, RequestsTyped, HandlersHold, ReserveReplay
  <1>2. CASE Continue(r, q, Reserved(q))
    <2>1. RequestsTyped'
      <3>1. /\ q.op \in Mutations /\ q.collection_id \in Collections
            /\ q.op \in {"create"} \cup Updates => q.blob_key \in Blobs
            /\ q.op \notin Updates \cup {"delete"}
        BY <1>1 DEF Holds, Mutations, Creates, Updates
      <3> QED
        BY <1>1, <1>2, <3>1, ReservedTyped
    <2> QED
      BY <2>1 DEF ReserveReplay, Typed, TypeOK, DatabaseTypeOK, ObjectMutationsTypeOK,
                  MaintenanceTypeOK, RequestsTyped, database
  <1>3. CASE Respond(r, q, Mismatch)
    BY <1>3, MismatchTyped, AnswerTyped DEF ReserveReplay
  <1>4. CASE Recorded(q) /\ Respond(r, q, mutation_results[q.mutation_id].result)
    <2>1. mutation_results[q.mutation_id].result \in Result
      BY <1>1, <1>4 DEF Recorded, RequestState, DatabaseTypeOK, MutationRow
    <2> QED
      BY <1>4, <2>1, AnswerTyped DEF ReserveReplay
  <1> QED
    BY <1>2, <1>3, <1>4 DEF ReserveReplay

\* A declined mutation saves and answers a typed outcome.
LEMMA DeclineTyped ==
    ASSUME Typed, NEW r \in Requests, requests[r].pc = "tx", NEW result \in Result,
           Decline(r, result), UNCHANGED maintenance
    PROVE  Typed'
  <1> DEFINE q == requests[r]
  <1>1. /\ RequestsTyped /\ DatabaseTypeOK /\ q \in RequestState
        /\ q.op \in Mutations /\ q.collection_id \in Collections
    BY AtTransaction
  <1>2. mutation_results' \in [MutationIDs -> MutationRow \cup {None}]
    <2>1. q.object_id \in Objects \cup {None}
      BY <1>1 DEF RequestState
    <2> QED
      BY <1>1, <2>1, SaveTyped DEF Decline
  <1>3. RequestsTyped'
    BY <1>1, RequestEnds DEF Decline
  <1> QED
    BY <1>1, <1>2, <1>3
    DEF Decline, Typed, TypeOK, DatabaseTypeOK, ObjectMutationsTypeOK, MaintenanceTypeOK,
        RequestsTyped

\* The early returns of a mutation transaction keep the state well typed.
LEMMA RefusalsTyped ==
    ASSUME Typed, NEW r \in Requests, UNCHANGED maintenance,
           \/ AnswerMismatch(r) \/ AnswerStored(r) \/ RefuseNotFound(r)
           \/ RefuseConflict(r) \/ RefuseNotStaged(r) \/ RedeleteTombstone(r)
    PROVE  Typed'
  <1> DEFINE q == requests[r]
  <1>1. CASE AnswerMismatch(r)
    BY <1>1, MismatchTyped, AnswerTyped DEF AnswerMismatch
  <1>2. CASE AnswerStored(r)
    BY <1>2, AtTransaction, AnswerTyped DEF AnswerStored
  <1>3. CASE RefuseNotFound(r)
    <2>1. NotFound \in Result
      BY DEF NotFound, Outcome, Result, Errors
    <2> QED
      BY <1>3, <2>1, DeclineTyped DEF RefuseNotFound, Owns
  <1>4. CASE RefuseConflict(r)
    <2>1. Outcome(409, "version conflict", None, objects[q.object_id].version) \in Result
      <3>1. Kind(q) # "create" /\ q.pc = "tx"
        BY <1>4, AtTransaction, KindOfOp DEF RefuseConflict, Owns, VersionMatches
      <3>2. objects[q.object_id].version \in Nat
        BY <1>4, <3>1, AtTransaction DEF RefuseConflict, Found, DatabaseTypeOK, ObjectRow
      <3> QED
        BY <3>2 DEF Outcome, Result, Errors
    <2> QED
      BY <1>4, <2>1, DeclineTyped DEF RefuseConflict, Owns
  <1>5. CASE RefuseNotStaged(r)
    <2>1. Outcome(409, "blob is not staged", None, 0) \in Result
      BY DEF Outcome, Result, Errors
    <2> QED
      BY <1>5, <2>1, DeclineTyped DEF RefuseNotStaged, Owns
  <1>6. CASE RedeleteTombstone(r)
    <2>1. Outcome(200, "", q.object_id, objects[q.object_id].version) \in Result
      <3>1. q.pc = "tx" /\ Kind(q) # "create" /\ objects[q.object_id] # None
        BY <1>6 DEF RedeleteTombstone, Owns, Found
      <3>2. q.object_id \in Objects /\ objects[q.object_id].version \in Nat
        BY <3>1, AtTransaction DEF DatabaseTypeOK, ObjectRow
      <3> QED
        BY <3>2 DEF Outcome, Result, Errors
    <2> QED
      BY <1>6, <2>1, DeclineTyped DEF RedeleteTombstone, Owns
  <1> QED
    BY <1>1, <1>2, <1>3, <1>4, <1>5, <1>6

\* An accepted mutation, given that each table it writes stays well typed.
LEMMA AcceptedTyped ==
    ASSUME Typed, NEW r \in Requests, requests[r].pc = "tx",
           NEW result \in Result, NEW o \in Objects,
           SaveResult(requests[r], result, o), Respond(r, requests[r], result),
           UNCHANGED <<now, collections, files, maintenance>>,
           minted' \subseteq Objects \cup Blobs \cup Collections,
           Advance(requests[r].collection_id),
           objects' \in [Objects -> ObjectRow \cup {None}],
           blob_ledger' \in [Blobs -> LedgerRow \cup {None}],
           known' \subseteq Blobs
    PROVE  Typed'
  <1>1. /\ RequestsTyped /\ DatabaseTypeOK /\ requests[r] \in RequestState
        /\ requests[r].op \in Mutations /\ requests[r].collection_id \in Collections
    BY AtTransaction
  <1>2. mutation_results' \in [MutationIDs -> MutationRow \cup {None}]
    BY <1>1, SaveTyped
  <1>3. current_version' \in [Collections -> Nat]
    BY <1>1 DEF Advance, DatabaseTypeOK
  <1>4. RequestsTyped'
    BY <1>1, RequestEnds
  <1> QED
    BY <1>1, <1>2, <1>3, <1>4
    DEF Typed, TypeOK, DatabaseTypeOK, ObjectMutationsTypeOK, MaintenanceTypeOK, RequestsTyped

\* An accepted create, update or delete keeps the state well typed.
LEMMA ApplyTyped ==
    ASSUME Typed, NEW r \in Requests, UNCHANGED maintenance,
           ApplyCreate(r) \/ ApplyUpdate(r) \/ ApplyDelete(r)
    PROVE  Typed'
  <1> DEFINE q == requests[r]
             c == q.collection_id
  <1>1. q.pc = "tx"
    BY DEF ApplyCreate, ApplyUpdate, ApplyDelete, Owns
  <1>2. /\ RequestsTyped /\ DatabaseTypeOK /\ q \in RequestState /\ c \in Collections
        /\ Kind(q) # "create" => q.object_id \in Objects
        /\ Kind(q) # "delete" => q.blob_key \in Blobs
    BY <1>1, AtTransaction
  <1>3. /\ objects \in [Objects -> ObjectRow \cup {None}]
        /\ blob_ledger \in [Blobs -> LedgerRow \cup {None}]
        /\ current_version[c] + 1 \in Nat
        /\ known \subseteq Blobs
        /\ minted \subseteq Objects \cup Blobs \cup Collections
    BY <1>2 DEF Typed, TypeOK, ObjectMutationsTypeOK, DatabaseTypeOK
  <1>4. CASE ApplyCreate(r)
    <2>1. PICK o \in Objects \ minted :
            /\ minted' = minted \cup {o}
            /\ Advance(c)
            /\ objects' = [objects EXCEPT ![o] =
                 [collection_id |-> c, version |-> 1,
                  change_seq |-> current_version[c] + 1, deleted |-> FALSE,
                  blob_key |-> q.blob_key, created_by |-> q.mutation_id]]
            /\ blob_ledger' = Claim(blob_ledger, q.blob_key, c, o, 1)
            /\ SaveResult(q, Outcome(201, "", o, 1), o)
            /\ Respond(r, q, Outcome(201, "", o, 1))
      BY <1>4 DEF ApplyCreate
    <2>2. Kind(q) = "create"
      BY <1>4 DEF ApplyCreate
    <2>3. objects' \in [Objects -> ObjectRow \cup {None}]
      BY <1>2, <1>3, <2>1, <2>2 DEF ObjectRow, RequestState
    <2>4. blob_ledger' \in [Blobs -> LedgerRow \cup {None}]
      BY <1>2, <1>3, <2>1, LedgerTyped, ZenonT(60)
    <2>5. Outcome(201, "", o, 1) \in Result
      BY DEF Outcome, Result, Errors
    <2>6. known' \subseteq Blobs /\ UNCHANGED <<now, collections, files>>
      BY <1>2, <1>3, <1>4, <2>2, ZenonT(60) DEF ApplyCreate
    <2>7. minted' \subseteq Objects \cup Blobs \cup Collections
      BY <1>3, <2>1, ZenonT(60)
    <2> QED
      BY <1>1, <2>1, <2>3, <2>4, <2>5, <2>6, <2>7, AcceptedTyped
  <1>5. CASE ApplyUpdate(r)
    <2> DEFINE o == q.object_id
    <2>1. /\ Kind(q) = "update" /\ o \in Objects /\ objects[o] \in ObjectRow
          /\ q.version = objects[o].version + 1
      BY <1>2, <1>3, <1>5 DEF ApplyUpdate, Found, VersionMatches
    <2>2. q.version \in Nat
      BY <2>1 DEF ObjectRow
    <2>3. objects' \in [Objects -> ObjectRow \cup {None}]
      <3> DEFINE row == [objects[o] EXCEPT !.version = q.version, !.blob_key = q.blob_key,
                                           !.change_seq = current_version[c] + 1]
      <3>1. row \in ObjectRow
        BY <1>2, <1>3, <2>1, <2>2 DEF ObjectRow
      <3>2. objects' = [objects EXCEPT ![o] = row]
        BY <1>5 DEF ApplyUpdate
      <3> QED
        BY <1>3, <3>1, <3>2
    <2>4. blob_ledger' \in [Blobs -> LedgerRow \cup {None}]
      BY <1>2, <1>3, <1>5, <2>1, <2>2, LedgerTyped DEF ApplyUpdate
    <2>5. Outcome(200, "", o, q.version) \in Result
      BY <2>1, <2>2 DEF Outcome, Result, Errors
    <2>6. known' \subseteq Blobs
      BY <1>2, <1>3, <1>5, <2>1 DEF ApplyUpdate
    <2> QED
      BY <1>1, <1>3, <1>5, <2>1, <2>3, <2>4, <2>5, <2>6, AcceptedTyped DEF ApplyUpdate
  <1>6. CASE ApplyDelete(r)
    <2> DEFINE o == q.object_id
    <2>1. /\ o \in Objects /\ objects[o] \in ObjectRow
          /\ objects[o].version + 1 \in Nat
      <3>1. Kind(q) = "delete"
        BY <1>6 DEF ApplyDelete
      <3>2. o \in Objects /\ objects[o] \in ObjectRow
        BY <1>2, <1>3, <1>6, <3>1 DEF ApplyDelete, Found
      <3> QED
        BY <3>2 DEF ObjectRow
    <2>2. objects' \in [Objects -> ObjectRow \cup {None}]
      <3> DEFINE row == [objects[o] EXCEPT !.deleted = TRUE, !.version = objects[o].version + 1,
                                           !.change_seq = current_version[c] + 1]
      <3>1. row \in ObjectRow
        BY <1>3, <2>1 DEF ObjectRow
      <3>2. objects' = [objects EXCEPT ![o] = row]
        BY <1>6 DEF ApplyDelete
      <3> QED
        BY <1>3, <3>1, <3>2
    <2>3. blob_ledger' \in [Blobs -> LedgerRow \cup {None}]
      BY <1>2, <1>3, <1>6, <2>1, LedgerTyped DEF ApplyDelete
    <2>4. Outcome(200, "", o, objects[o].version + 1) \in Result
      BY <2>1 DEF Outcome, Result, Errors
    <2> QED
      BY <1>1, <1>3, <1>6, <2>1, <2>2, <2>3, <2>4, AcceptedTyped DEF ApplyDelete
  <1> QED
    BY <1>4, <1>5, <1>6

\* DELETE of a blob, and a handler that stops, keep the state well typed.
LEMMA BlobDeletionTyped ==
    ASSUME Typed, NEW r \in Requests, UNCHANGED maintenance,
           DeleteBlobRow(r) \/ Unlink(r) \/ Abort(r)
    PROVE  Typed'
  <1>1. RequestsTyped /\ DatabaseTypeOK /\ requests[r] \in RequestState /\ known \subseteq Blobs
    BY DEF Typed, TypeOK, ObjectMutationsTypeOK, RequestsTyped
  <1>2. CASE DeleteBlobRow(r)
    <2>1. PICK k \in known :
            /\ \/ /\ Respond(r, [Unused EXCEPT !.op = "delete-blob"],
                              Outcome(409, "blob is in use", None, 0))
                  /\ UNCHANGED blob_ledger
               \/ /\ blob_ledger' = [blob_ledger EXCEPT ![k] = None]
                  /\ requests' = [requests EXCEPT ![r] =
                       [Unused EXCEPT !.pc = "unlink", !.op = "delete-blob", !.blob_key = k]]
      BY <1>2 DEF DeleteBlobRow
    <2>2. Outcome(409, "blob is in use", None, 0) \in Result
      BY DEF Outcome, Result, Errors
    <2>3. [Unused EXCEPT !.op = "delete-blob"] \in RequestState
      BY UnusedTyped DEF RequestState, AllOperations
    <2>4. /\ [Unused EXCEPT !.pc = "unlink", !.op = "delete-blob", !.blob_key = k] \in RequestState
          /\ Holds([Unused EXCEPT !.pc = "unlink", !.op = "delete-blob", !.blob_key = k])
      <3> DEFINE p == [Unused EXCEPT !.pc = "unlink", !.op = "delete-blob", !.blob_key = k]
      <3>1. k \in Blobs
        BY <1>1, <2>1
      <3>2. p \in RequestState
        BY <3>1, UnusedTyped DEF RequestState, Stages, AllOperations
      <3>3. p.pc = "unlink" /\ p.op = "delete-blob"
        BY UnusedTyped DEF RequestState
      <3> HIDE DEF p
      <3>4. Holds(p)
        BY <3>3 DEF Holds, Mutations, Creates, Updates
      <3> QED
        BY <3>2, <3>4 DEF p
    <2>5. RequestsTyped'
      BY <1>1, <2>1, <2>2, <2>3, <2>4, RequestEnds, RequestMoves
    <2>6. blob_ledger' \in [Blobs -> LedgerRow \cup {None}]
      BY <1>1, <2>1 DEF DatabaseTypeOK
    <2> QED
      BY <1>1, <1>2, <2>5, <2>6
      DEF DeleteBlobRow, Typed, TypeOK, DatabaseTypeOK, ObjectMutationsTypeOK,
          MaintenanceTypeOK, RequestsTyped
  <1>3. CASE Unlink(r)
    <2>1. Outcome(204, "", None, 0) \in Result
      BY DEF Outcome, Result, Errors
    <2>2. RequestsTyped'
      BY <1>1, <1>3, <2>1, RequestEnds DEF Unlink
    <2> QED
      BY <1>1, <1>3, <2>2
      DEF Unlink, Typed, TypeOK, DatabaseTypeOK, ObjectMutationsTypeOK,
          MaintenanceTypeOK, RequestsTyped
  <1>4. CASE Abort(r)
    <2>1. RequestsTyped'
      BY <1>1, <1>4, UnusedTyped, RequestMoves DEF Abort
    <2> QED
      BY <1>1, <1>4, <2>1
      DEF Abort, database, Typed, TypeOK, DatabaseTypeOK, ObjectMutationsTypeOK,
          MaintenanceTypeOK, RequestsTyped
  <1> QED
    BY <1>2, <1>3, <1>4

\* Claiming and deleting a collection keep the state well typed.
LEMMA CollectionStepsTyped ==
    ASSUME Typed, UNCHANGED maintenance,
           ClaimCollection \/ \E c \in Collections : DeleteCollection(c)
    PROVE  Typed'
  <1>1. CASE ClaimCollection
    BY <1>1 DEF ClaimCollection, Typed, TypeOK, DatabaseTypeOK, ObjectMutationsTypeOK,
                MaintenanceTypeOK, HandlersHold
  <1>2. ASSUME NEW c \in Collections, DeleteCollection(c)
        PROVE  Typed'
    <2>1. blob_ledger' \in [Blobs -> LedgerRow \cup {None}]
      <3>1. \A row \in LedgerRow :
              [row EXCEPT !.state = "purgeable", !.object_id = None, !.since = now] \in LedgerRow
        BY DEF LedgerRow, BlobStates, Typed, TypeOK, DatabaseTypeOK
      <3> QED
        BY <1>2, <3>1 DEF DeleteCollection, LedgerWithout, Typed, TypeOK, DatabaseTypeOK
    <2>2. /\ objects' \in [Objects -> ObjectRow \cup {None}]
          /\ mutation_results' \in [MutationIDs -> MutationRow \cup {None}]
      BY <1>2 DEF DeleteCollection, Typed, TypeOK, DatabaseTypeOK
    <2> QED
      BY <1>2, <2>1, <2>2
      DEF DeleteCollection, Typed, TypeOK, DatabaseTypeOK, ObjectMutationsTypeOK,
          MaintenanceTypeOK, HandlersHold
  <1> QED
    BY <1>1, <1>2

\* A job moves on with a subset of the blobs to visit.
LEMMA EnterTyped ==
    ASSUME MaintenanceTypeOK, NEW s \in Maintainers, NEW pc \in JobStages,
           NEW todo \in SUBSET Blobs, Enter(s, pc, todo)
    PROVE  MaintenanceTypeOK'
  BY DEF MaintenanceTypeOK, Enter, Resting, MaintainerState

\* Every step and every fault of a job keeps the state well typed.
LEMMA JobStepsTyped ==
    ASSUME Typed, NEW s \in Maintainers, JobStep(s) \/ Fault(s),
           UNCHANGED <<known, requests>>
    PROVE  Typed'
  <1> DEFINE m == maintenance[s]
  <1>1. DatabaseTypeOK /\ MaintenanceTypeOK /\ m \in MaintainerState
    BY DEF Typed, TypeOK, MaintenanceTypeOK
  <1>2. m.todo \in SUBSET Blobs /\ {} \in SUBSET Blobs
    BY <1>1 DEF MaintainerState
  <1>3. ASSUME UNCHANGED <<tables, files>>, MaintenanceTypeOK',
               blob_ledger' \in [Blobs -> LedgerRow \cup {None}],
               mutation_results' \in [MutationIDs -> MutationRow \cup {None}]
        PROVE  Typed'
    BY <1>1, <1>3 DEF tables, Typed, TypeOK, DatabaseTypeOK, ObjectMutationsTypeOK, HandlersHold
  <1>4. ASSUME UNCHANGED database, MaintenanceTypeOK'
        PROVE  Typed'
    BY <1>1, <1>3, <1>4 DEF database, tables, DatabaseTypeOK
  <1>5. CASE StartWalk(s)
    <2>1. MaintenanceTypeOK'
      BY <1>1, <1>5, EnterTyped DEF StartWalk, DatabaseTypeOK, JobStages
    <2> QED
      BY <1>4, <1>5, <2>1 DEF StartWalk
  <1>6. CASE Stat(s)
    <2>1. PICK k \in m.todo :
            \/ maintenance' = [maintenance EXCEPT ![s] =
                 [m EXCEPT !.pc = "adopt", !.todo = m.todo \ {k}, !.key = k]]
            \/ Enter(s, "expire-pending", {})
      BY <1>6 DEF Stat
    <2>2. [m EXCEPT !.pc = "adopt", !.todo = m.todo \ {k}, !.key = k] \in MaintainerState
      BY <1>1, <1>2 DEF MaintainerState, JobStages
    <2>3. MaintenanceTypeOK'
      BY <1>1, <1>2, <2>1, <2>2, EnterTyped DEF MaintenanceTypeOK, JobStages
    <2> QED
      BY <1>4, <1>6, <2>3 DEF Stat
  <1>7. CASE Adopt(s)
    <2>1. MaintenanceTypeOK'
      BY <1>1, <1>2, <1>7, EnterTyped DEF Adopt, JobStages
    <2>2. blob_ledger' \in [Blobs -> LedgerRow \cup {None}]
      BY <1>1, <1>7, StagedRowTyped DEF Adopt, DatabaseTypeOK
    <2> QED
      BY <1>1, <1>3, <1>7, <2>1, <2>2 DEF Adopt, DatabaseTypeOK
  <1>8. CASE EndWalk(s)
    <2>1. MaintenanceTypeOK'
      BY <1>1, <1>2, <1>8, EnterTyped DEF EndWalk, JobStages
    <2> QED
      BY <1>4, <1>8, <2>1 DEF EndWalk
  <1>9. ASSUME NEW expired, Forget(expired)
        PROVE  mutation_results' \in [MutationIDs -> MutationRow \cup {None}]
    BY <1>1, <1>9 DEF Forget, DatabaseTypeOK
  <1>10. CASE ExpirePending(s)
    <2>1. MaintenanceTypeOK'
      BY <1>1, <1>2, <1>10, EnterTyped DEF ExpirePending, JobStages
    <2> QED
      BY <1>1, <1>3, <1>9, <1>10, <2>1 DEF ExpirePending, DatabaseTypeOK
  <1>11. CASE ExpireOther(s)
    <2>1. MaintenanceTypeOK'
      BY <1>1, <1>2, <1>11, EnterTyped DEF ExpireOther, JobStages
    <2> QED
      BY <1>1, <1>3, <1>9, <1>11, <2>1 DEF ExpireOther, DatabaseTypeOK
  <1>12. CASE ListEligible(s)
    <2>1. MaintenanceTypeOK'
      BY <1>1, <1>2, <1>12, EnterTyped DEF ListEligible, JobStages
    <2> QED
      BY <1>4, <1>12, <2>1 DEF ListEligible
  <1>13. CASE PurgeRow(s)
    <2>1. PICK k \in m.todo :
            \/ /\ blob_ledger' = [blob_ledger EXCEPT ![k] = None]
               /\ maintenance' = [maintenance EXCEPT ![s] =
                    [pc |-> "remove", todo |-> m.todo \ {k}, key |-> k, purged |-> TRUE]]
            \/ /\ maintenance' = [maintenance EXCEPT ![s] = [m EXCEPT !.todo = m.todo \ {k}]]
               /\ UNCHANGED blob_ledger
      BY <1>13 DEF PurgeRow
    <2>2. /\ [m EXCEPT !.todo = m.todo \ {k}] \in MaintainerState
          /\ [pc |-> "remove", todo |-> m.todo \ {k}, key |-> k, purged |-> TRUE]
               \in MaintainerState
      BY <1>1, <1>2 DEF MaintainerState, JobStages
    <2>3. MaintenanceTypeOK'
      BY <1>1, <2>1, <2>2 DEF MaintenanceTypeOK
    <2>4. blob_ledger' \in [Blobs -> LedgerRow \cup {None}]
      BY <1>1, <2>1 DEF DatabaseTypeOK
    <2> QED
      BY <1>1, <1>3, <1>13, <2>3, <2>4 DEF PurgeRow, DatabaseTypeOK
  <1>14. CASE RemoveFile(s)
    <2>1. [m EXCEPT !.pc = "purge", !.key = None] \in MaintainerState
      BY <1>1 DEF MaintainerState, JobStages
    <2>2. MaintenanceTypeOK'
      BY <1>1, <1>14, <2>1 DEF RemoveFile, MaintenanceTypeOK
    <2> QED
      BY <1>1, <1>14, <2>2
      DEF RemoveFile, tables, Typed, TypeOK, DatabaseTypeOK, ObjectMutationsTypeOK, HandlersHold
  <1>15. CASE EndPass(s)
    <2>1. MaintenanceTypeOK'
      BY <1>1, <1>2, <1>15, EnterTyped DEF EndPass, JobStages
    <2> QED
      BY <1>4, <1>15, <2>1 DEF EndPass
  <1>16. CASE Fault(s)
    <2>1. [m EXCEPT !.pc = "purge", !.key = None] \in MaintainerState
      BY <1>1 DEF MaintainerState, JobStages
    <2>2. MaintenanceTypeOK'
      BY <1>1, <1>2, <1>16, <2>1, EnterTyped DEF Fault, MaintenanceTypeOK, JobStages
    <2> QED
      BY <1>4, <1>16, <2>2 DEF Fault
  <1> QED
    BY <1>5, <1>6, <1>7, <1>8, <1>10, <1>11, <1>12, <1>13, <1>14, <1>15, <1>16 DEF JobStep

\* The initial state is well typed.
LEMMA InitTyped == Init => Typed
  <1> SUFFICES ASSUME Init PROVE Typed
    OBVIOUS
  <1>1. DatabaseTypeOK
    BY DEF Init, DatabaseInit, DatabaseTypeOK
  <1>2. ObjectMutationsTypeOK /\ HandlersHold
    BY UnusedTyped DEF Init, ObjectMutationsInit, ObjectMutationsTypeOK, HandlersHold
  <1>3. MaintenanceTypeOK
    BY DEF Init, MaintenanceInit, MaintenanceTypeOK, MaintainerState, Resting, JobStages
  <1> QED
    BY <1>1, <1>2, <1>3 DEF Typed, TypeOK

\* Typed is inductive.
LEMMA NextTyped == Typed /\ [Next]_vars => Typed'
  <1> SUFFICES ASSUME Typed, [Next]_vars PROVE Typed'
    OBVIOUS
  <1>1. ASSUME NEW r \in Requests, HandlerStep(r), UNCHANGED maintenance
        PROVE  Typed'
    BY <1>1, StageTyped, PutTyped, PrepareTyped, ReserveReplayTyped, RefusalsTyped,
       ApplyTyped, BlobDeletionTyped
    DEF HandlerStep, MutationTransaction
  <1>2. ASSUME NEW s \in Maintainers, JobStep(s) \/ Fault(s), UNCHANGED <<known, requests>>
        PROVE  Typed'
    BY <1>2, JobStepsTyped
  <1>3. CASE Tick /\ UNCHANGED <<known, requests, maintenance>>
    BY <1>3 DEF Tick, Typed, TypeOK, DatabaseTypeOK, ObjectMutationsTypeOK,
                MaintenanceTypeOK, HandlersHold
  <1>4. CASE UNCHANGED vars
    BY <1>4 DEF vars, database, Typed, TypeOK, DatabaseTypeOK, ObjectMutationsTypeOK,
                MaintenanceTypeOK, HandlersHold
  <1> QED
    BY <1>1, <1>2, <1>3, <1>4, CollectionStepsTyped DEF Next, RequestStep

\* Every reachable state is well typed: no handler or job ever writes a row the
\* schema would not accept, or goes on without what its next step needs.
THEOREM TypeCorrect == Spec => []TypeOK
  <1>1. Typed => TypeOK
    BY DEF Typed
  <1> QED
    BY <1>1, InitTyped, NextTyped, PTL DEF Spec

-----------------------------------------------------------------------------
(* What the steps do to the rows                                            *)

\* Every identifier in use was handed out by uuid.NewV7.
Minted ==
    /\ \A o \in Objects : objects[o] # None => o \in minted
    /\ \A k \in Blobs : blob_ledger[k] # None => k \in minted
    /\ files \subseteq minted /\ known \subseteq minted
    /\ \A r \in Requests : requests[r].blob_key \in minted \cup {None}
    /\ \A s \in Maintainers :
         maintenance[s].todo \subseteq minted /\ maintenance[s].key \in minted \cup {None}

\* A quiet step leaves a ledger row alone, stages a blob that has none, or
\* removes one no object version claims.
QuietRow(k) ==
    \/ blob_ledger'[k] = blob_ledger[k]
    \/ blob_ledger[k] = None /\ blob_ledger'[k] = StagedRow /\ k \in minted'
    \/ blob_ledger[k] # None /\ ~InState(k, "claimed") /\ blob_ledger'[k] = None

\* Outcomes are recorded where there was none or a claim.
Recording(m) ==
    \/ mutation_results'[m] = mutation_results[m]
    \/ mutation_results[m] = None
    \/ mutation_results[m].result.status = 102

\* They are forgotten unless they are a successful create's.
Forgetting(m) ==
    /\ mutation_results'[m] = None
    /\ mutation_results[m] # None
    /\ ~(mutation_results[m].kind = "create" /\ mutation_results[m].result.status \in {200, 201})

Quiet ==
    /\ UNCHANGED <<collections, current_version, objects>>
    /\ minted \subseteq minted'
    /\ \A k \in Blobs : k \in minted' \ minted => blob_ledger'[k] # None
    /\ \A k \in Blobs : QuietRow(k)
    /\ \A m \in MutationIDs : Recording(m) \/ Forgetting(m)

-----------------------------------------------------------------------------
(* Which steps are quiet                                                    *)

\* A transaction that owns its Mutation ID overwrites no outcome.
LEMMA OwnerRecords ==
    ASSUME Typed, NEW r \in Requests, Owns(r), NEW result, NEW o,
           SaveResult(requests[r], result, o)
    PROVE  \A m \in MutationIDs : Recording(m)
  <1> DEFINE q == requests[r]
  <1>1. mutation_results \in [MutationIDs -> MutationRow \cup {None}]
    BY DEF Typed, TypeOK, DatabaseTypeOK
  <1>2. CASE q.mutation_id = None \/ ~Recorded(q)
    BY <1>1, <1>2 DEF SaveResult, Recording, Recorded
  <1>3. CASE Recorded(q)
    BY <1>1, <1>3 DEF SaveResult, Recording, Owns, Fresh
  <1> QED
    BY <1>2, <1>3

\* Uploads, reservations, replays and refusals are quiet.
LEMMA QuietRequests ==
    ASSUME Typed, Minted, NEW r \in Requests, HandlerStep(r), UNCHANGED maintenance,
           ~ApplyCreate(r), ~ApplyUpdate(r), ~ApplyDelete(r)
    PROVE  Quiet
  <1>1. /\ blob_ledger \in [Blobs -> LedgerRow \cup {None}]
        /\ mutation_results \in [MutationIDs -> MutationRow \cup {None}]
        /\ known \subseteq Blobs
    BY DEF Typed, TypeOK, DatabaseTypeOK, ObjectMutationsTypeOK
  <1>2. CASE Stage(r)
    <2>1. PICK k, q : k \in Blobs \ minted /\ StageRow(r, q, k)
      BY <1>2 DEF Stage, StageRow
    <2>2. blob_ledger[k] = None /\ k \in minted'
      BY <2>1 DEF StageRow, Minted
    <2>3. \A j \in Blobs : QuietRow(j)
      BY <1>1, <2>1, <2>2 DEF StageRow, QuietRow
    <2>4. \A j \in Blobs : j \in minted' \ minted => blob_ledger'[j] # None
      <3>1. StagedRow # None
        BY StagedRowTyped, RowAssumption DEF Typed, TypeOK
      <3> QED
        BY <1>1, <2>1, <3>1 DEF StageRow
    <2> QED
      BY <2>1, <2>3, <2>4 DEF StageRow, Quiet, Recording
  <1>3. CASE Put(r)
    BY <1>3 DEF Put, Quiet, QuietRow, Recording
  <1>4. CASE Prepare(r)
    <2>1. PICK q :
            \/ UNCHANGED mutation_results
            \/ /\ q.mutation_id # None /\ ~Recorded(q)
               /\ mutation_results' = [mutation_results EXCEPT ![q.mutation_id] = PendingRow(q)]
      BY <1>4 DEF Prepare
    <2>2. \A m \in MutationIDs : Recording(m)
      BY <1>1, <2>1 DEF Recording, Recorded
    <2> QED
      BY <1>4, <2>2 DEF Prepare, Quiet, QuietRow
  <1>5. ASSUME UNCHANGED database
        PROVE  Quiet
    BY <1>5 DEF database, Quiet, QuietRow, Recording
  <1>6. ASSUME NEW result, Owns(r), Decline(r, result)
        PROVE  Quiet
    <2>1. \A m \in MutationIDs : Recording(m)
      BY <1>6, OwnerRecords DEF Decline
    <2> QED
      BY <1>6, <2>1 DEF Decline, Quiet, QuietRow
  <1>7. CASE DeleteBlobRow(r)
    <2>1. PICK k \in known :
            \/ UNCHANGED blob_ledger
            \/ /\ blob_ledger[k] = None \/ InState(k, "staged")
               /\ blob_ledger' = [blob_ledger EXCEPT ![k] = None]
      BY <1>7 DEF DeleteBlobRow
    <2>2. \A j \in Blobs : QuietRow(j)
      BY <1>1, <2>1 DEF QuietRow, InState
    <2> QED
      BY <1>7, <2>2 DEF DeleteBlobRow, Quiet, Recording
  <1>8. CASE Unlink(r)
    BY <1>8 DEF Unlink, Quiet, QuietRow, Recording
  <1> QED
    BY <1>2, <1>3, <1>4, <1>5, <1>6, <1>7, <1>8
    DEF HandlerStep, MutationTransaction, ReserveReplay, AnswerMismatch, AnswerStored,
        RefuseNotFound, RefuseConflict, RefuseNotStaged, RedeleteTombstone, Abort

\* Every job step, every fault and the clock are quiet.
LEMMA QuietJobs ==
    ASSUME Typed, Minted, NEW s \in Maintainers, JobStep(s) \/ Fault(s),
           UNCHANGED <<known, requests>>
    PROVE  Quiet
  <1> DEFINE m == maintenance[s]
  <1>1. /\ blob_ledger \in [Blobs -> LedgerRow \cup {None}]
        /\ mutation_results \in [MutationIDs -> MutationRow \cup {None}]
        /\ m \in MaintainerState
    BY DEF Typed, TypeOK, DatabaseTypeOK, MaintenanceTypeOK
  <1>2. ASSUME UNCHANGED database
        PROVE  Quiet
    BY <1>2 DEF database, Quiet, QuietRow, Recording
  <1>3. CASE Adopt(s)
    <2>1. m.key \in Blobs => m.key \in minted'
      BY <1>3, NoneAssumption DEF Adopt, tables, Minted
    <2>2. \A k \in Blobs : QuietRow(k)
      BY <1>1, <1>3, <2>1 DEF Adopt, QuietRow
    <2> QED
      BY <1>3, <2>2 DEF Adopt, tables, Quiet, Recording
  <1>4. CASE ExpirePending(s)
    BY <1>1, <1>4
    DEF ExpirePending, PendingExpired, Recordings, Forget, tables, Quiet, QuietRow, Recording,
        Forgetting
  <1>5. CASE ExpireOther(s)
    BY <1>1, <1>5
    DEF ExpireOther, OutcomeExpired, Recordings, Forget, tables, Quiet, QuietRow, Recording,
        Forgetting
  <1>6. CASE PurgeRow(s)
    <2>1. PICK k \in m.todo :
            \/ Purgeable(k) /\ blob_ledger' = [blob_ledger EXCEPT ![k] = None]
            \/ UNCHANGED blob_ledger
      BY <1>6 DEF PurgeRow
    <2>2. \A j \in Blobs : QuietRow(j)
      BY <1>1, <2>1 DEF QuietRow, Purgeable, InState
    <2> QED
      BY <1>6, <2>2 DEF PurgeRow, tables, Quiet, Recording
  <1>7. CASE RemoveFile(s)
    BY <1>7 DEF RemoveFile, tables, Quiet, QuietRow, Recording
  <1> QED
    BY <1>2, <1>3, <1>4, <1>5, <1>6, <1>7
    DEF JobStep, StartWalk, Stat, EndWalk, ListEligible, EndPass, Fault

\* Every step is one of the five that change contents, or quiet.
LEMMA StepCases ==
    ASSUME Typed, Minted, [Next]_vars
    PROVE  \/ \E r \in Requests : ApplyCreate(r) \/ ApplyUpdate(r) \/ ApplyDelete(r)
           \/ ClaimCollection
           \/ \E c \in Collections : DeleteCollection(c)
           \/ Quiet
  <1>1. CASE Tick
    BY <1>1 DEF Tick, Quiet, QuietRow, Recording
  <1>2. CASE UNCHANGED vars
    BY <1>2 DEF vars, database, Quiet, QuietRow, Recording
  <1> QED
    BY <1>1, <1>2, QuietRequests, QuietJobs DEF Next, RequestStep

-----------------------------------------------------------------------------
(* Minted is an invariant                                                   *)

\* A new request in slot r holds a key that was minted.
LEMMA MintedRequest ==
    ASSUME Typed, Minted, NEW r \in Requests, NEW q, minted \subseteq minted',
           requests' = [requests EXCEPT ![r] = q],
           q.blob_key \in minted' \cup {None}
    PROVE  \A s \in Requests : requests'[s].blob_key \in minted' \cup {None}
  BY DEF Minted, Typed, TypeOK, ObjectMutationsTypeOK

\* The keys an arriving request names are known, hence minted.
LEMMA ArrivingMinted ==
    ASSUME Typed, Minted, NEW r \in Requests, NEW ops \in SUBSET AllOperations,
           NEW q \in Arriving(r, ops)
    PROVE  q.blob_key \in minted \cup {None}
  <1>1. PICK op \in ops : q \in Submitted(op)
    BY DEF Arriving
  <1> QED
    BY <1>1 DEF Submitted, Minted

\* Requests only use identifiers that were minted.
LEMMA MintedRequests ==
    ASSUME Typed, Minted, NEW r \in Requests, HandlerStep(r), UNCHANGED maintenance
    PROVE  Minted'
  <1> DEFINE q == requests[r]
  <1>1. /\ q \in RequestState /\ q.blob_key \in minted \cup {None}
        /\ objects \in [Objects -> ObjectRow \cup {None}]
        /\ blob_ledger \in [Blobs -> LedgerRow \cup {None}]
    BY DEF Typed, TypeOK, DatabaseTypeOK, ObjectMutationsTypeOK, Minted
  <1>2. ASSUME NEW p, requests' = [requests EXCEPT ![r] = p],
               p.blob_key \in minted' \cup {None}, minted \subseteq minted',
               \A o \in Objects : objects'[o] # None => o \in minted',
               \A k \in Blobs : blob_ledger'[k] # None => k \in minted',
               files' \subseteq minted', known' \subseteq minted'
        PROVE  Minted'
    <2>1. \A s \in Requests : requests'[s].blob_key \in minted' \cup {None}
      BY <1>2, MintedRequest
    <2> QED
      BY <1>2, <2>1 DEF Minted
  <1>3. ASSUME NEW p \in RequestState, NEW answer, Respond(r, p, answer), minted \subseteq minted',
               \A o \in Objects : objects'[o] # None => o \in minted',
               \A k \in Blobs : blob_ledger'[k] # None => k \in minted',
               files' \subseteq minted', known' \subseteq minted'
        PROVE  Minted'
    <2>1. [p EXCEPT !.pc = "idle", !.blob_key = None, !.prepared = FALSE,
                    !.answer = answer].blob_key = None
      BY DEF RequestState
    <2> QED
      BY <1>2, <1>3, <2>1 DEF Respond
  <1>4. ASSUME NEW p \in RequestState, NEW pc, Continue(r, p, pc),
               p.blob_key \in minted \cup {None}, minted' = minted,
               UNCHANGED <<objects, blob_ledger, files, known>>
        PROVE  Minted'
    <2>1. [p EXCEPT !.pc = pc].blob_key = p.blob_key
      BY DEF RequestState
    <2> QED
      BY <1>2, <1>4, <2>1 DEF Continue, Minted
  <1>5. CASE Stage(r)
    <2>1. PICK k \in Blobs \ minted, p \in RequestState : StageRow(r, p, k)
      <3>1. ASSUME NEW p \in Arriving(r, {"update-inline"})
            PROVE  p \in RequestState
        <4>1. p \in Submitted("update-inline")
          BY DEF Arriving
        <4>2. "update-inline" \in AllOperations \cap Mutations
          BY DEF AllOperations, Mutations, Updates
        <4> QED
          BY <3>1, <4>1, <4>2, SubmittedTyped DEF Typed
      <3> QED
        BY <1>1, <1>5, <3>1, UnusedTyped DEF Stage, StageRow
    <2>2. [p EXCEPT !.pc = "put", !.blob_key = k].blob_key = k
      BY DEF RequestState
    <2>3. minted' = minted \cup {k} /\ UNCHANGED <<objects, files, known>>
      BY <2>1 DEF StageRow
    <2>4. \A j \in Blobs : blob_ledger'[j] # None => j \in minted'
      BY <1>1, <2>1 DEF StageRow, Minted
    <2> QED
      BY <1>2, <2>1, <2>2, <2>3, <2>4 DEF StageRow, Minted
  <1>6. CASE Put(r)
    <2>1. q.blob_key \in minted
      BY <1>1, <1>6, NoneAssumption DEF Put, Typed, HandlersHold, Holds
    <2>2. /\ files' \subseteq minted' /\ known' \subseteq minted'
          /\ minted' = minted /\ UNCHANGED <<objects, blob_ledger>>
      BY <1>6, <2>1 DEF Put, WriteFile, Minted
    <2>3. CASE Respond(r, q, Outcome(201, "", None, 0))
      BY <1>1, <1>3, <2>2, <2>3 DEF Minted
    <2>4. ASSUME NEW pc, Continue(r, q, pc)
          PROVE  Minted'
      <3>1. [q EXCEPT !.pc = pc].blob_key = q.blob_key
        BY <1>1 DEF RequestState
      <3> QED
        BY <1>2, <2>1, <2>2, <2>4, <3>1 DEF Continue, Minted
    <2> QED
      BY <1>6, <2>3, <2>4 DEF Put
  <1>7. CASE Prepare(r)
    <2> DEFINE ops == {"create", "create-inline", "update", "delete"}
    <2>1. PICK p \in Arriving(r, ops) \cup {x \in {q} : x.pc = "prepare"} :
            \/ \E pc : Continue(r, p, pc)
            \/ \E pc : Continue(r, [p EXCEPT !.prepared = TRUE], pc)
      BY <1>7 DEF Prepare
    <2>2. ops \in SUBSET (AllOperations \cap Mutations)
      BY DEF AllOperations, Mutations, Creates, Updates
    <2>3. p \in RequestState /\ p.blob_key \in minted \cup {None}
      <3>1. CASE p \in Arriving(r, ops)
        <4>1. PICK op \in ops : p \in Submitted(op)
          BY <3>1 DEF Arriving
        <4>2. p \in RequestState
          BY <2>2, <4>1, SubmittedTyped DEF Typed
        <4>3. p.blob_key \in minted \cup {None}
          BY <2>2, <3>1, ArrivingMinted
        <4> QED
          BY <4>2, <4>3
      <3> QED
        BY <1>1, <2>1, <3>1
    <2>4. /\ [p EXCEPT !.prepared = TRUE] \in RequestState
          /\ [p EXCEPT !.prepared = TRUE].blob_key = p.blob_key
      BY <2>3 DEF RequestState
    <2> QED
      BY <1>4, <1>7, <2>1, <2>3, <2>4 DEF Prepare
  <1>8. ASSUME NEW answer, Respond(r, q, answer),
               UNCHANGED <<minted, objects, blob_ledger, files, known>>
        PROVE  Minted'
    BY <1>1, <1>3, <1>8 DEF Minted
  <1>9. CASE ReserveReplay(r)
    BY <1>1, <1>4, <1>8, <1>9 DEF ReserveReplay, database
  <1>10. ASSUME NEW result, Decline(r, result)
         PROVE  Minted'
    BY <1>8, <1>10 DEF Decline
  <1>11. CASE ApplyCreate(r) \/ ApplyUpdate(r) \/ ApplyDelete(r)
    <2>1. PICK answer : Respond(r, q, answer)
      BY <1>11, ZenonT(60) DEF ApplyCreate, ApplyUpdate, ApplyDelete
    <2>2. q.pc = "tx"
      BY <1>11, ZenonT(60) DEF ApplyCreate, ApplyUpdate, ApplyDelete, Owns
    <2>3. Kind(q) # "delete" => q.blob_key \in minted
      BY <1>1, <2>2, AtTransaction, NoneAssumption
    <2>4. /\ minted \subseteq minted' /\ files' \subseteq minted' /\ known' \subseteq minted'
      BY <1>11, <2>3, ZenonT(60) DEF ApplyCreate, ApplyUpdate, ApplyDelete, Minted
    <2>5. \A o \in Objects : objects'[o] # None => o \in minted'
      BY <1>1, <1>11, ZenonT(60) DEF ApplyCreate, ApplyUpdate, ApplyDelete, Found, Minted
    <2>6. \A k \in Blobs : blob_ledger'[k] # None => k \in minted'
      BY <1>1, <1>11, <2>4 DEF ApplyCreate, ApplyUpdate, ApplyDelete, Claimable, InState,
                               Claim, Release, Minted
    <2> QED
      BY <1>1, <1>3, <2>1, <2>4, <2>5, <2>6
  <1>12. CASE DeleteBlobRow(r)
    <2>1. PICK k \in known :
            \/ /\ \E answer : Respond(r, [Unused EXCEPT !.op = "delete-blob"], answer)
               /\ UNCHANGED blob_ledger
            \/ /\ blob_ledger' = [blob_ledger EXCEPT ![k] = None]
               /\ requests' = [requests EXCEPT ![r] =
                    [Unused EXCEPT !.pc = "unlink", !.op = "delete-blob", !.blob_key = k]]
      BY <1>12 DEF DeleteBlobRow
    <2>2. [Unused EXCEPT !.op = "delete-blob"] \in RequestState
      BY UnusedTyped DEF RequestState, AllOperations
    <2>3. [Unused EXCEPT !.pc = "unlink", !.op = "delete-blob", !.blob_key = k].blob_key = k
      BY DEF Unused
    <2>4. /\ k \in minted' /\ UNCHANGED <<minted, objects, files, known>>
          /\ \A j \in Blobs : blob_ledger'[j] # None => j \in minted'
      BY <1>1, <1>12, <2>1 DEF DeleteBlobRow, Minted
    <2> QED
      BY <1>2, <1>3, <2>1, <2>2, <2>3, <2>4 DEF Minted
  <1>13. CASE Unlink(r)
    BY <1>1, <1>3, <1>13 DEF Unlink, Minted
  <1>14. CASE Abort(r)
    <2>1. Unused.blob_key = None
      BY DEF Unused
    <2> QED
      BY <1>2, <1>14, <2>1 DEF Abort, database, Minted
  <1>15. CASE AnswerMismatch(r) \/ AnswerStored(r)
    BY <1>8, <1>15 DEF AnswerMismatch, AnswerStored, database
  <1> QED
    BY <1>5, <1>6, <1>7, <1>9, <1>10, <1>11, <1>12, <1>13, <1>14, <1>15
    DEF HandlerStep, MutationTransaction, RefuseNotFound, RefuseConflict, RefuseNotStaged,
        RedeleteTombstone

\* Jobs only use blob keys that were minted.
LEMMA MintedJobs ==
    ASSUME Typed, Minted, NEW s \in Maintainers, JobStep(s) \/ Fault(s),
           UNCHANGED <<known, requests>>
    PROVE  Minted'
  <1> DEFINE m == maintenance[s]
  <1>1. /\ m \in MaintainerState /\ m.todo \subseteq minted /\ m.key \in minted \cup {None}
        /\ maintenance \in [Maintainers -> MaintainerState]
        /\ blob_ledger \in [Blobs -> LedgerRow \cup {None}]
    BY DEF Typed, TypeOK, DatabaseTypeOK, MaintenanceTypeOK, Minted
  <1>2. minted' = minted /\ objects' = objects
    BY DEF JobStep, Fault, StartWalk, Stat, Adopt, EndWalk, ExpirePending, ExpireOther,
           ListEligible, PurgeRow, RemoveFile, EndPass, database, tables
  <1>3. ASSUME NEW n, maintenance' = [maintenance EXCEPT ![s] = n],
               n.todo \subseteq minted, n.key \in minted \cup {None},
               \A k \in Blobs : blob_ledger'[k] # None => k \in minted,
               files' \subseteq minted
        PROVE  Minted'
    BY <1>1, <1>2, <1>3 DEF Minted
  <1>4. ASSUME NEW pc, NEW todo, Enter(s, pc, todo), todo \subseteq minted,
               \A k \in Blobs : blob_ledger'[k] # None => k \in minted,
               files' \subseteq minted
        PROVE  Minted'
    <2>1. /\ [Resting EXCEPT !.pc = pc, !.todo = todo].todo = todo
          /\ [Resting EXCEPT !.pc = pc, !.todo = todo].key = None
      BY DEF Resting
    <2> QED
      BY <1>3, <1>4, <2>1 DEF Enter
  <1>5. CASE Stat(s)
    <2>1. PICK k \in m.todo :
            \/ maintenance' = [maintenance EXCEPT ![s] =
                 [m EXCEPT !.pc = "adopt", !.todo = m.todo \ {k}, !.key = k]]
            \/ Enter(s, "expire-pending", {})
      BY <1>5 DEF Stat
    <2> DEFINE n == [m EXCEPT !.pc = "adopt", !.todo = m.todo \ {k}, !.key = k]
    <2>2. n.todo = m.todo \ {k} /\ n.key = k
      BY <1>1 DEF MaintainerState
    <2> HIDE DEF n
    <2>3. UNCHANGED <<blob_ledger, files>>
      BY <1>5 DEF Stat, database
    <2> QED
      <3>1. /\ m.todo \ {k} \subseteq minted /\ k \in minted /\ {} \subseteq minted
            /\ \A j \in Blobs : blob_ledger'[j] # None => j \in minted
            /\ files' \subseteq minted
        BY <1>1, <2>1, <2>3 DEF Minted
      <3>2. CASE maintenance' = [maintenance EXCEPT ![s] = n]
        BY <1>3, <2>2, <3>1, <3>2
      <3>3. CASE Enter(s, "expire-pending", {})
        BY <1>4, <3>1, <3>3
      <3> QED
        BY <2>1, <3>2, <3>3 DEF n
  <1>6. CASE Adopt(s)
    <2>1. \A k \in Blobs : blob_ledger'[k] # None => k \in minted
      BY <1>1, <1>6, NoneAssumption DEF Adopt, Minted
    <2> QED
      BY <1>1, <1>4, <1>6, <2>1 DEF Adopt, Minted
  <1>7. CASE ExpirePending(s) \/ ExpireOther(s)
    BY <1>4, <1>7 DEF ExpirePending, ExpireOther, Minted
  <1>8. CASE ListEligible(s)
    <2>1. {k \in Blobs : Purgeable(k)} \subseteq minted
      BY DEF Purgeable, InState, Minted
    <2> QED
      BY <1>4, <1>8, <2>1 DEF ListEligible, database, Minted
  <1>9. CASE PurgeRow(s)
    <2>1. PICK k \in m.todo :
            \/ /\ blob_ledger' = [blob_ledger EXCEPT ![k] = None]
               /\ maintenance' = [maintenance EXCEPT ![s] =
                    [pc |-> "remove", todo |-> m.todo \ {k}, key |-> k, purged |-> TRUE]]
            \/ /\ maintenance' = [maintenance EXCEPT ![s] = [m EXCEPT !.todo = m.todo \ {k}]]
               /\ UNCHANGED blob_ledger
      BY <1>9 DEF PurgeRow
    <2>2. /\ [m EXCEPT !.todo = m.todo \ {k}].todo = m.todo \ {k}
          /\ [m EXCEPT !.todo = m.todo \ {k}].key = m.key
      BY <1>1 DEF MaintainerState
    <2>3. (\A j \in Blobs : blob_ledger'[j] # None => j \in minted) /\ files' = files
      BY <1>1, <1>9, <2>1 DEF PurgeRow, Minted
    <2> QED
      BY <1>1, <1>3, <2>1, <2>2, <2>3, ZenonT(60) DEF Minted
  <1>10. ASSUME maintenance' = [maintenance EXCEPT ![s] = [m EXCEPT !.pc = "purge", !.key = None]],
                blob_ledger' = blob_ledger, files' \subseteq minted
         PROVE  Minted'
    <2>1. /\ [m EXCEPT !.pc = "purge", !.key = None].todo = m.todo
          /\ [m EXCEPT !.pc = "purge", !.key = None].key = None
      BY <1>1 DEF MaintainerState
    <2> QED
      BY <1>1, <1>3, <1>10, <2>1 DEF Minted
  <1>11. CASE RemoveFile(s)
    BY <1>10, <1>11 DEF RemoveFile, Minted
  <1>12. CASE Fault(s)
    BY <1>4, <1>10, <1>12 DEF Fault, database, Minted
  <1>13. CASE StartWalk(s) \/ EndWalk(s) \/ EndPass(s)
    BY <1>4, <1>13 DEF StartWalk, EndWalk, EndPass, database, Minted
  <1> QED
    BY <1>5, <1>6, <1>7, <1>8, <1>9, <1>11, <1>12, <1>13 DEF JobStep

\* Nothing is in use at first.
LEMMA InitMinted == Init => Minted
  BY DEF Init, DatabaseInit, ObjectMutationsInit, MaintenanceInit, Unused, Resting, Minted

\* Minted is inductive.
LEMMA NextMinted == Typed /\ Minted /\ [Next]_vars => Minted'
  <1> SUFFICES ASSUME Typed, Minted, [Next]_vars PROVE Minted'
    OBVIOUS
  <1>1. CASE ClaimCollection /\ UNCHANGED maintenance
    BY <1>1 DEF ClaimCollection, Minted
  <1>2. ASSUME NEW c \in Collections, DeleteCollection(c), UNCHANGED maintenance
        PROVE  Minted'
    BY <1>2 DEF DeleteCollection, LedgerWithout, Minted
  <1>3. CASE Tick /\ UNCHANGED <<known, requests, maintenance>>
    BY <1>3 DEF Tick, Minted
  <1>4. CASE UNCHANGED vars
    BY <1>4 DEF vars, database, Minted
  <1> QED
    BY <1>1, <1>2, <1>3, <1>4, MintedRequests, MintedJobs DEF Next, RequestStep

-----------------------------------------------------------------------------
(* Claims                                                                   *)

\* The claims invariant is inductive once identifiers are never minted twice.
LEMMA NextClaims ==
    Typed /\ Minted /\ ClaimNamesItsVersion /\ [Next]_vars => ClaimNamesItsVersion'
  <1> SUFFICES ASSUME Typed, Minted, ClaimNamesItsVersion, [Next]_vars
               PROVE  ClaimNamesItsVersion'
    OBVIOUS
  <1>1. /\ objects \in [Objects -> ObjectRow \cup {None}]
        /\ blob_ledger \in [Blobs -> LedgerRow \cup {None}]
        /\ collections \subseteq Collections
    BY DEF Typed, TypeOK, DatabaseTypeOK
  <1> DEFINE Names(k) == LET row == blob_ledger[k] IN
                         /\ row.collection_id \in collections
                         /\ row.object_id \in Objects
                         /\ objects[row.object_id] # None
                         /\ objects[row.object_id].collection_id = row.collection_id
                         /\ objects[row.object_id].blob_key = k
                         /\ objects[row.object_id].version = row.object_version
  <1>2. ASSUME NEW r \in Requests, ApplyCreate(r)
        PROVE  ClaimNamesItsVersion'
    <2> DEFINE q == requests[r]
               c == q.collection_id
    <2>1. PICK o \in Objects \ minted :
            /\ objects' = [objects EXCEPT ![o] =
                 [collection_id |-> c, version |-> 1,
                  change_seq |-> current_version[c] + 1, deleted |-> FALSE,
                  blob_key |-> q.blob_key, created_by |-> q.mutation_id]]
            /\ blob_ledger' = Claim(blob_ledger, q.blob_key, c, o, 1)
      BY <1>2 DEF ApplyCreate
    <2>2. c \in collections /\ collections' = collections
      BY <1>2 DEF ApplyCreate, Found
    <2>3. ASSUME NEW k \in Blobs, InState(k, "claimed")', k = q.blob_key
          PROVE  Names(k)'
      <3>1. blob_ledger'[k] = [state |-> "claimed", collection_id |-> c, object_id |-> o,
                               object_version |-> 1, since |-> now]
        BY <1>1, <2>1, <2>3 DEF Claim
      <3>2. /\ objects'[o].version = 1 /\ objects'[o].blob_key = k
            /\ objects'[o].collection_id = c
        BY <1>1, <2>1, <2>3
      <3>3. objects'[o] # None
        <4>1. q.pc = "tx" /\ Kind(q) = "create"
          BY <1>2 DEF ApplyCreate, Owns
        <4>2. /\ q \in RequestState /\ c \in Collections /\ q.blob_key \in Blobs
              /\ current_version[c] + 1 \in Nat
          BY <4>1, AtTransaction DEF DatabaseTypeOK
        <4>3. objects'[o] \in ObjectRow
          BY <1>1, <2>1, <4>2 DEF ObjectRow, RequestState
        <4> QED
          BY <4>3, RowAssumption
      <3> QED
        BY <2>1, <2>2, <3>1, <3>2, <3>3
    <2>4. ASSUME NEW k \in Blobs, InState(k, "claimed")', k # q.blob_key
          PROVE  Names(k)'
      <3>1. blob_ledger'[k] = blob_ledger[k] /\ Names(k)
        BY <1>1, <2>1, <2>4 DEF Claim, InState, ClaimNamesItsVersion
      <3>2. objects'[blob_ledger[k].object_id] = objects[blob_ledger[k].object_id]
        BY <1>1, <2>1, <3>1 DEF Minted
      <3> QED
        BY <2>2, <3>1, <3>2
    <2> QED
      BY <2>3, <2>4 DEF ClaimNamesItsVersion
  \* An update and a delete release the claim on o's blob, the only one that
  \* names o.
  <1>3. ASSUME NEW o \in Objects, NEW k \in Blobs, InState(k, "claimed"),
               Release(blob_ledger, objects[o].blob_key)[k] # None,
               Release(blob_ledger, objects[o].blob_key)[k].state = "claimed"
        PROVE  /\ Release(blob_ledger, objects[o].blob_key)[k] = blob_ledger[k]
               /\ Names(k) /\ blob_ledger[k].object_id # o
    <2>1. k # objects[o].blob_key
      BY <1>1, <1>3, NoneAssumption DEF Release, InState, LedgerRow
    <2> QED
      BY <1>1, <1>3, <2>1 DEF Release, InState, ClaimNamesItsVersion
  <1>4. ASSUME NEW r \in Requests, ApplyUpdate(r)
        PROVE  ClaimNamesItsVersion'
    <2> DEFINE q == requests[r]
               c == q.collection_id
               o == q.object_id
               released == Release(blob_ledger, objects[o].blob_key)
    <2>1. /\ objects' = [objects EXCEPT ![o] =
               [objects[o] EXCEPT !.version = q.version, !.blob_key = q.blob_key,
                                  !.change_seq = current_version[c] + 1]]
          /\ blob_ledger' = Claim(released, q.blob_key, c, o, q.version)
          /\ collections' = collections /\ c \in collections
      BY <1>4 DEF ApplyUpdate, Found
    <2>2. o \in Objects /\ objects[o] \in ObjectRow /\ objects[o].collection_id = c
      <3>1. Kind(q) = "update" /\ q.pc = "tx" /\ objects[o] # None /\ objects[o].collection_id = c
        BY <1>4 DEF ApplyUpdate, Owns, Found
      <3> QED
        BY <1>1, <3>1, AtTransaction
    <2>3. DOMAIN released = Blobs
      BY <1>1 DEF Release
    <2>4. ASSUME NEW k \in Blobs, InState(k, "claimed")', k = q.blob_key
          PROVE  Names(k)'
      <3>1. blob_ledger'[k] = [state |-> "claimed", collection_id |-> c, object_id |-> o,
                               object_version |-> q.version, since |-> now]
        BY <2>1, <2>3, <2>4 DEF Claim
      <3>2. /\ objects'[o].version = q.version /\ objects'[o].blob_key = q.blob_key
            /\ objects'[o].collection_id = c /\ objects'[o] # None
        <4> DEFINE row == [objects[o] EXCEPT !.version = q.version, !.blob_key = q.blob_key,
                                             !.change_seq = current_version[c] + 1]
        <4>1. objects'[o] = row
          BY <1>1, <2>1, <2>2
        <4>2. /\ row.version = q.version /\ row.blob_key = q.blob_key
              /\ row.collection_id = c
          BY <2>2 DEF ObjectRow
        <4>3. row \in ObjectRow
          <5>1. Kind(q) = "update" /\ q.pc = "tx" /\ q.version = objects[o].version + 1
            BY <1>4 DEF ApplyUpdate, Owns, VersionMatches
          <5>2. q.blob_key \in Blobs /\ current_version[c] + 1 \in Nat
            BY <5>1, AtTransaction DEF DatabaseTypeOK
          <5>3. q.version \in Nat
            BY <2>2, <5>1 DEF ObjectRow
          <5> QED
            BY <2>2, <5>2, <5>3 DEF ObjectRow
        <4> HIDE DEF row
        <4> QED
          BY <4>1, <4>2, <4>3, RowAssumption
      <3> QED
        BY <2>1, <2>2, <2>4, <3>1, <3>2
    <2>5. ASSUME NEW k \in Blobs, InState(k, "claimed")', k # q.blob_key
          PROVE  Names(k)'
      <3>1. blob_ledger'[k] = released[k]
        BY <2>1, <2>3, <2>5 DEF Claim
      <3>2. released[k] # None /\ released[k].state = "claimed"
        BY <2>5, <3>1 DEF InState
      <3>3. InState(k, "claimed")
        BY <1>1, <3>2 DEF Release, InState
      <3>4. released[k] = blob_ledger[k] /\ Names(k) /\ blob_ledger[k].object_id # o
        BY <1>3, <2>2, <3>2, <3>3
      <3>5. objects'[blob_ledger[k].object_id] = objects[blob_ledger[k].object_id]
        BY <1>1, <2>1, <3>4
      <3> QED
        BY <2>1, <3>1, <3>4, <3>5
    <2> QED
      BY <2>4, <2>5 DEF ClaimNamesItsVersion
  <1>5. ASSUME NEW r \in Requests, ApplyDelete(r)
        PROVE  ClaimNamesItsVersion'
    <2> DEFINE o == requests[r].object_id
               released == Release(blob_ledger, objects[o].blob_key)
    <2>1. /\ \A p \in Objects : p # o => objects'[p] = objects[p]
          /\ blob_ledger' = released /\ collections' = collections
      BY <1>1, <1>5 DEF ApplyDelete
    <2>2. o \in Objects
      <3>1. Kind(requests[r]) = "delete" /\ requests[r].pc = "tx"
        BY <1>5 DEF ApplyDelete, Owns
      <3> QED
        BY <3>1, AtTransaction
    <2>3. ASSUME NEW k \in Blobs, InState(k, "claimed")'
          PROVE  Names(k)'
      <3>1. released[k] # None /\ released[k].state = "claimed"
        BY <2>1, <2>3 DEF InState
      <3>2. InState(k, "claimed")
        BY <1>1, <3>1 DEF Release, InState
      <3>3. released[k] = blob_ledger[k] /\ Names(k) /\ blob_ledger[k].object_id # o
        BY <1>3, <2>2, <3>1, <3>2
      <3> QED
        BY <2>1, <3>3
    <2> QED
      BY <2>3 DEF ClaimNamesItsVersion
  <1>6. CASE ClaimCollection
    BY <1>1, <1>6 DEF ClaimCollection, InState, ClaimNamesItsVersion
  <1>7. ASSUME NEW c \in Collections, DeleteCollection(c)
        PROVE  ClaimNamesItsVersion'
    <2>1. ASSUME NEW k \in Blobs, InState(k, "claimed")'
          PROVE  Names(k)'
      <3>1. /\ blob_ledger'[k] = blob_ledger[k] /\ InState(k, "claimed")
            /\ blob_ledger[k].collection_id # c
        BY <1>1, <1>7, <2>1 DEF DeleteCollection, LedgerWithout, InState, LedgerRow
      <3>2. Names(k)
        BY <3>1 DEF ClaimNamesItsVersion
      <3> QED
        BY <1>7, <3>1, <3>2 DEF DeleteCollection
    <2> QED
      BY <2>1 DEF ClaimNamesItsVersion
  <1>8. CASE Quiet
    BY <1>8 DEF Quiet, QuietRow, StagedRow, InState, ClaimNamesItsVersion
  <1> QED
    BY <1>2, <1>4, <1>5, <1>6, <1>7, <1>8, StepCases

\* A claimed blob always is the current content of the object version its ledger
\* row names, in a live collection: an update releases exactly the claim it
\* supersedes, and no interleaving of requests and jobs leaves a claim behind.
THEOREM ClaimsNameTheirVersion == Spec => []ClaimNamesItsVersion
  <1>1. Init => ClaimNamesItsVersion
    BY DEF Init, DatabaseInit, InState, ClaimNamesItsVersion
  <1> QED
    BY <1>1, InitTyped, NextTyped, InitMinted, NextMinted, NextClaims, PTL DEF Spec

-----------------------------------------------------------------------------
(* What an accepted mutation does to the objects table                      *)

\* A create appends to its collection's order of changes.
LEMMA CreateAddsARow ==
    ASSUME Typed, NEW r \in Requests, ApplyCreate(r)
    PROVE  LET q == requests[r]
               c == q.collection_id IN
           \E o \in Objects \ minted :
             /\ objects' = [objects EXCEPT ![o] = objects'[o]]
             /\ objects'[o] \in ObjectRow /\ objects'[o] # None
             /\ objects'[o].collection_id = c /\ objects'[o].version = 1
             /\ objects'[o].change_seq = current_version[c] + 1
             /\ objects'[o].created_by = q.mutation_id
             /\ objects'[o].deleted = FALSE
             /\ c \in collections /\ collections' = collections
             /\ current_version' = [current_version EXCEPT ![c] = current_version[c] + 1]
             /\ SaveResult(q, Outcome(201, "", o, 1), o)
             /\ Respond(r, q, Outcome(201, "", o, 1))
  <1> DEFINE q == requests[r]
             c == q.collection_id
             row == [collection_id |-> c, version |-> 1,
                     change_seq |-> current_version[c] + 1, deleted |-> FALSE,
                     blob_key |-> q.blob_key, created_by |-> q.mutation_id]
  <1>1. PICK o \in Objects \ minted :
          /\ objects' = [objects EXCEPT ![o] = row]
          /\ Advance(c) /\ SaveResult(q, Outcome(201, "", o, 1), o)
          /\ Respond(r, q, Outcome(201, "", o, 1))
    BY DEF ApplyCreate
  <1>2. /\ q.pc = "tx" /\ Kind(q) = "create"
        /\ c \in collections /\ collections' = collections
    BY DEF ApplyCreate, Owns, Found
  <1>3. q \in RequestState /\ c \in Collections /\ q.blob_key \in Blobs /\ DatabaseTypeOK
    BY <1>2, AtTransaction
  <1>4. row \in ObjectRow
    BY <1>3 DEF ObjectRow, RequestState, DatabaseTypeOK
  <1>5. objects'[o] = row
    BY <1>1, <1>3 DEF DatabaseTypeOK
  <1>6. current_version' = [current_version EXCEPT ![c] = current_version[c] + 1]
    BY <1>1 DEF Advance
  <1>7. row # None
    BY <1>4, RowAssumption
  <1>8. /\ row.collection_id = c /\ row.version = 1 /\ row.created_by = q.mutation_id
        /\ row.change_seq = current_version[c] + 1 /\ row.deleted = FALSE
    OBVIOUS
  <1> HIDE DEF row
  <1>9. objects' = [objects EXCEPT ![o] = objects'[o]]
    BY <1>1, <1>5
  <1> QED
    BY <1>1, <1>2, <1>4, <1>5, <1>6, <1>7, <1>8, <1>9

\* An update or a delete moves its object to the end of that order.
LEMMA EditChangesARow ==
    ASSUME Typed, NEW r \in Requests, ApplyUpdate(r) \/ ApplyDelete(r)
    PROVE  LET q == requests[r]
               c == q.collection_id
               o == q.object_id IN
           /\ o \in Objects /\ objects[o] # None /\ objects[o].collection_id = c
           /\ objects' = [objects EXCEPT ![o] = objects'[o]]
           /\ objects'[o] \in ObjectRow /\ objects'[o] # None
           /\ objects'[o].collection_id = c
           /\ objects'[o].version = objects[o].version + 1
           /\ objects'[o].change_seq = current_version[c] + 1
           /\ objects'[o].created_by = objects[o].created_by
           /\ objects[o].deleted => objects'[o].deleted
           /\ c \in collections /\ collections' = collections
           /\ current_version' = [current_version EXCEPT ![c] = current_version[c] + 1]
           /\ \E result : SaveResult(q, result, o)
  <1> DEFINE q == requests[r]
             c == q.collection_id
             o == q.object_id
             updated == [objects[o] EXCEPT !.version = q.version, !.blob_key = q.blob_key,
                                           !.change_seq = current_version[c] + 1]
             deleted == [objects[o] EXCEPT !.deleted = TRUE, !.version = objects[o].version + 1,
                                           !.change_seq = current_version[c] + 1]
  <1>1. /\ q.pc = "tx" /\ Kind(q) # "create" /\ objects[o] # None /\ objects[o].collection_id = c
        /\ c \in collections /\ collections' = collections
    BY DEF ApplyUpdate, ApplyDelete, Owns, Found
  <1>2. /\ DatabaseTypeOK /\ q \in RequestState /\ c \in Collections /\ o \in Objects
        /\ Kind(q) # "delete" => q.blob_key \in Blobs
    BY <1>1, AtTransaction
  <1>3. objects[o] \in ObjectRow /\ current_version[c] + 1 \in Nat
    BY <1>1, <1>2 DEF DatabaseTypeOK
  <1>4. /\ current_version' = [current_version EXCEPT ![c] = current_version[c] + 1]
        /\ \E result : SaveResult(q, result, o)
    BY DEF ApplyUpdate, ApplyDelete, Advance
  <1>5. CASE ApplyUpdate(r)
    <2>1. objects' = [objects EXCEPT ![o] = updated] /\ objects'[o] = updated
      BY <1>2, <1>5 DEF ApplyUpdate, DatabaseTypeOK
    <2>2. q.version = objects[o].version + 1 /\ q.version \in Nat /\ q.blob_key \in Blobs
      <3>1. Kind(q) = "update" /\ q.version = objects[o].version + 1
        BY <1>5 DEF ApplyUpdate, VersionMatches
      <3>2. objects[o].version \in Nat
        BY <1>3 DEF ObjectRow
      <3> QED
        BY <1>2, <3>1, <3>2
    <2>3. /\ updated \in ObjectRow
          /\ updated.collection_id = c /\ updated.version = objects[o].version + 1
          /\ updated.change_seq = current_version[c] + 1
          /\ updated.created_by = objects[o].created_by
          /\ updated.deleted = objects[o].deleted
      BY <1>1, <1>3, <2>2 DEF ObjectRow
    <2> HIDE DEF updated
    <2>4. objects'[o] \in ObjectRow /\ objects'[o] # None
      BY <2>1, <2>3, RowAssumption
    <2>5. objects' = [objects EXCEPT ![o] = objects'[o]]
      BY <2>1
    <2>6. objects[o].deleted => objects'[o].deleted
      BY <2>1, <2>3, Zenon
    <2>7. /\ objects'[o].collection_id = c /\ objects'[o].version = objects[o].version + 1
          /\ objects'[o].change_seq = current_version[c] + 1
          /\ objects'[o].created_by = objects[o].created_by
      BY <2>1, <2>3
    <2> QED
      BY <1>1, <1>2, <1>4, <2>4, <2>5, <2>6, <2>7, Zenon
  <1>6. CASE ApplyDelete(r)
    <2>1. objects' = [objects EXCEPT ![o] = deleted] /\ objects'[o] = deleted
      BY <1>2, <1>6 DEF ApplyDelete, DatabaseTypeOK
    <2>2. /\ deleted \in ObjectRow
          /\ deleted.collection_id = c /\ deleted.version = objects[o].version + 1
          /\ deleted.change_seq = current_version[c] + 1
          /\ deleted.created_by = objects[o].created_by
          /\ deleted.deleted = TRUE
      <3>1. objects[o].version + 1 \in Nat
        BY <1>3 DEF ObjectRow
      <3>2. deleted \in ObjectRow
        BY <1>3, <3>1 DEF ObjectRow
      <3>3. /\ deleted.collection_id = c /\ deleted.version = objects[o].version + 1
            /\ deleted.change_seq = current_version[c] + 1
            /\ deleted.created_by = objects[o].created_by
        BY <1>1, <1>3 DEF ObjectRow
      <3>4. deleted.deleted = TRUE
        BY <1>3 DEF ObjectRow
      <3> QED
        BY <3>2, <3>3, <3>4
    <2> HIDE DEF deleted
    <2>3. objects'[o] \in ObjectRow /\ objects'[o] # None
      BY <2>1, <2>2, RowAssumption
    <2>4. objects' = [objects EXCEPT ![o] = objects'[o]]
      BY <2>1
    <2>5. objects'[o].deleted
      BY <2>1, <2>2, Zenon
    <2>6. /\ objects'[o].collection_id = c /\ objects'[o].version = objects[o].version + 1
          /\ objects'[o].change_seq = current_version[c] + 1
          /\ objects'[o].created_by = objects[o].created_by
      BY <2>1, <2>2
    <2> QED
      BY <1>1, <1>2, <1>4, <2>3, <2>4, <2>5, <2>6, Zenon
  <1> QED
    BY <1>5, <1>6

-----------------------------------------------------------------------------
(* The pull cursor                                                          *)

\* The cursor invariant is inductive.
LEMMA NextCursor ==
    Typed /\ Minted /\ CursorOrdersChanges /\ [Next]_vars => CursorOrdersChanges'
  <1> SUFFICES ASSUME Typed, Minted, CursorOrdersChanges, [Next]_vars
               PROVE  CursorOrdersChanges'
    OBVIOUS
  <1>1. /\ objects \in [Objects -> ObjectRow \cup {None}]
        /\ current_version \in [Collections -> Nat]
        /\ collections \subseteq Collections
    BY DEF Typed, TypeOK, DatabaseTypeOK
  \* A row at the next cursor value of its collection comes after all others.
  <1>2. ASSUME NEW o \in Objects, NEW c \in collections,
               objects' = [objects EXCEPT ![o] = objects'[o]],
               objects'[o].collection_id = c,
               objects'[o].change_seq = current_version[c] + 1,
               current_version' = [current_version EXCEPT ![c] = current_version[c] + 1],
               collections' = collections
        PROVE  CursorOrdersChanges'
    <2>1. ASSUME NEW p \in Objects, objects'[p] # None
          PROVE  /\ objects'[p].collection_id \in collections'
                 /\ objects'[p].change_seq \in 1 .. current_version'[objects'[p].collection_id]
                 /\ p # o /\ objects'[p].collection_id = c
                      => objects'[p].change_seq <= current_version[c]
      <3>1. CASE p = o
        BY <1>1, <1>2, <3>1
      <3>2. CASE p # o
        <4>1. objects'[p] = objects[p]
          BY <1>1, <1>2, <3>2
        <4>2. /\ objects[p].collection_id \in collections
              /\ objects[p].change_seq \in 1 .. current_version[objects[p].collection_id]
          BY <2>1, <4>1 DEF CursorOrdersChanges
        <4> QED
          BY <1>1, <1>2, <3>2, <4>1, <4>2
      <3> QED
        BY <3>1, <3>2
    <2>2. ASSUME NEW p \in Objects, NEW x \in Objects \ {p}, objects'[p] # None,
                 objects'[x] # None, objects'[x].collection_id = objects'[p].collection_id
          PROVE  objects'[x].change_seq # objects'[p].change_seq
      <3>1. CASE p # o /\ x # o
        BY <1>1, <1>2, <2>2, <3>1 DEF CursorOrdersChanges
      <3>2. CASE p = o
        BY <1>1, <1>2, <2>1, <2>2, <3>2
      <3>3. CASE x = o
        BY <1>1, <1>2, <2>1, <2>2, <3>3
      <3> QED
        BY <3>1, <3>2, <3>3
    <2> QED
      BY <2>1, <2>2 DEF CursorOrdersChanges
  <1>3. ASSUME NEW r \in Requests, ApplyCreate(r)
        PROVE  CursorOrdersChanges'
    BY <1>2, <1>3, CreateAddsARow
  <1>4. ASSUME NEW r \in Requests, ApplyUpdate(r) \/ ApplyDelete(r)
        PROVE  CursorOrdersChanges'
    BY <1>2, <1>4, EditChangesARow
  <1>5. CASE ClaimCollection
    BY <1>5 DEF ClaimCollection, CursorOrdersChanges
  <1>6. ASSUME NEW c \in Collections, DeleteCollection(c)
        PROVE  CursorOrdersChanges'
    BY <1>6 DEF DeleteCollection, CursorOrdersChanges
  <1>7. CASE Quiet
    BY <1>7 DEF Quiet, CursorOrdersChanges
  <1> QED
    BY <1>3, <1>4, <1>5, <1>6, <1>7, StepCases

\* Pulling in change_seq order up to current_version misses no object and sees no
\* tie, whichever requests commit concurrently.
THEOREM CursorOrders == Spec => []CursorOrdersChanges
  <1>1. Init => CursorOrdersChanges
    BY DEF Init, DatabaseInit, CursorOrdersChanges
  <1> QED
    BY <1>1, InitTyped, NextTyped, InitMinted, NextMinted, NextCursor, PTL DEF Spec

-----------------------------------------------------------------------------
(* Exactly-once creates                                                     *)

\* row is the outcome of the create that made object o in collection c.
Records(row, c, o) ==
    /\ row # None
    /\ row.kind = "create" /\ row.collection_id = c
    /\ row.result = Outcome(201, "", o, 1)

\* The outcome of the create that made an object is on record while it exists.
CreatesAreRecorded ==
    \A o \in Objects : objects[o] # None /\ objects[o].created_by # None =>
        Records(mutation_results[objects[o].created_by], objects[o].collection_id, o)

\* A row that carries an outcome is not in progress.
LEMMA RecordedStatus ==
    ASSUME NEW row, NEW c, NEW o, Records(row, c, o)
    PROVE  row # None /\ row.kind = "create" /\ row.result.status = 201
  <1>1. Outcome(201, "", o, 1).status = 201
    BY DEF Outcome
  <1> QED
    BY <1>1 DEF Records

\* The create transaction leaves its outcome on record under its Mutation ID.
LEMMA CreateRecords ==
    ASSUME Typed, NEW r \in Requests, ApplyCreate(r), requests[r].mutation_id # None,
           NEW n \in Objects, SaveResult(requests[r], Outcome(201, "", n, 1), n)
    PROVE  Records(mutation_results'[requests[r].mutation_id], requests[r].collection_id, n)
  <1> DEFINE q == requests[r]
             m == q.mutation_id
             result == Outcome(201, "", n, 1)
             first == [PendingRow(q) EXCEPT !.object_id = n, !.result = result]
             again == [mutation_results[m] EXCEPT !.object_id = n,
                          !.requested_version = q.version, !.result = result]
  <1>1. Owns(r) /\ Kind(q) = "create" /\ q.pc = "tx"
    BY DEF ApplyCreate, Owns
  <1>2. DatabaseTypeOK /\ q \in RequestState /\ q.collection_id \in Collections /\ m \in MutationIDs
    BY <1>1, AtTransaction DEF RequestState
  <1>3. result \in Result
    BY DEF Outcome, Result, Errors
  <1>4. CASE mutation_results[m] = None
    <2>1. mutation_results'[m] = first
      BY <1>2, <1>4 DEF SaveResult, DatabaseTypeOK
    <2>2. /\ first.kind = "create" /\ first.collection_id = q.collection_id
          /\ first.result = result
      BY <1>1 DEF PendingRow
    <2>3. first \in MutationRow
      <3>1. now \in Nat
        BY <1>2 DEF DatabaseTypeOK
      <3> QED
        BY <1>1, <1>2, <1>3, <3>1 DEF PendingRow, MutationRow, MutationKinds, RequestState
    <2> HIDE DEF first
    <2> QED
      BY <2>1, <2>2, <2>3, RowAssumption DEF Records
  <1>5. CASE mutation_results[m] # None
    <2>1. mutation_results'[m] = again
      BY <1>2, <1>5 DEF SaveResult, DatabaseTypeOK
    <2>2. mutation_results[m] \in MutationRow
      BY <1>2, <1>5 DEF DatabaseTypeOK
    <2>3. mutation_results[m].kind = "create" /\ mutation_results[m].collection_id = q.collection_id
      BY <1>1, <1>5 DEF Owns, Fresh, Recorded, Mismatched, Matches
    <2>4. /\ again.kind = "create" /\ again.collection_id = q.collection_id
          /\ again.result = result
      BY <2>2, <2>3 DEF MutationRow
    <2>5. again \in MutationRow
      BY <1>2, <1>3, <2>2 DEF MutationRow, RequestState
    <2> HIDE DEF again
    <2> QED
      BY <2>1, <2>4, <2>5, RowAssumption DEF Records
  <1> QED
    BY <1>4, <1>5

\* What CreatesAreRecoverable needs of mutation_results is inductive.
LEMMA NextRecorded ==
    Typed /\ Minted /\ CreatesAreRecorded /\ [Next]_vars => CreatesAreRecorded'
  <1> SUFFICES ASSUME Typed, Minted, CreatesAreRecorded, [Next]_vars
               PROVE  CreatesAreRecorded'
    OBVIOUS
  <1>1. objects \in [Objects -> ObjectRow \cup {None}]
    BY DEF Typed, TypeOK, DatabaseTypeOK
  <1>2. ASSUME NEW o \in Objects, objects[o] # None, objects[o].created_by # None
        PROVE  /\ objects[o].created_by \in MutationIDs
               /\ Records(mutation_results[objects[o].created_by], objects[o].collection_id, o)
    <2>1. objects[o].created_by \in MutationIDs
      BY <1>1, <1>2 DEF ObjectRow
    <2> QED
      BY <1>2, <2>1 DEF CreatesAreRecorded
  \* Recording leaves such an outcome alone.
  <1>3. ASSUME NEW o \in Objects, objects[o] # None, objects[o].created_by # None,
               Recording(objects[o].created_by)
        PROVE  Records(mutation_results'[objects[o].created_by], objects[o].collection_id, o)
    <2> DEFINE row == mutation_results[objects[o].created_by]
    <2>1. Records(row, objects[o].collection_id, o) /\ row # None /\ row.result.status = 201
      BY <1>2, <1>3, RecordedStatus
    <2>2. mutation_results'[objects[o].created_by] = row
      BY <1>3, <2>1 DEF Recording
    <2> QED
      BY <2>1, <2>2
  <1>4. ASSUME NEW r \in Requests, ApplyCreate(r)
        PROVE  CreatesAreRecorded'
    <2> DEFINE q == requests[r]
    <2>1. PICK n \in Objects \ minted :
            /\ objects' = [objects EXCEPT ![n] = objects'[n]]
            /\ objects'[n].collection_id = q.collection_id
            /\ objects'[n].created_by = q.mutation_id
            /\ SaveResult(q, Outcome(201, "", n, 1), n)
      BY <1>4, CreateAddsARow
    <2>2. \A m \in MutationIDs : Recording(m)
      BY <1>4, <2>1, OwnerRecords DEF ApplyCreate
    <2>3. ASSUME NEW o \in Objects, objects'[o] # None, objects'[o].created_by # None
          PROVE  Records(mutation_results'[objects'[o].created_by], objects'[o].collection_id, o)
      <3>1. CASE o = n
        BY <1>4, <2>1, <2>3, <3>1, CreateRecords
      <3>2. CASE o # n
        <4>1. objects'[o] = objects[o]
          BY <1>1, <2>1, <3>2
        <4> QED
          BY <1>2, <1>3, <2>2, <2>3, <4>1
      <3> QED
        BY <3>1, <3>2
    <2> QED
      BY <2>3 DEF CreatesAreRecorded
  <1>5. ASSUME NEW r \in Requests, ApplyUpdate(r) \/ ApplyDelete(r)
        PROVE  CreatesAreRecorded'
    <2> DEFINE e == requests[r].object_id
    <2>1. /\ e \in Objects /\ objects[e] # None
          /\ objects' = [objects EXCEPT ![e] = objects'[e]]
          /\ objects'[e].collection_id = objects[e].collection_id
          /\ objects'[e].created_by = objects[e].created_by
          /\ \E result : SaveResult(requests[r], result, e)
      BY <1>5, EditChangesARow
    <2>2. \A m \in MutationIDs : Recording(m)
      BY <1>5, <2>1, OwnerRecords DEF ApplyUpdate, ApplyDelete
    <2>3. ASSUME NEW o \in Objects, objects'[o] # None, objects'[o].created_by # None
          PROVE  Records(mutation_results'[objects'[o].created_by], objects'[o].collection_id, o)
      <3>1. /\ objects[o] # None /\ objects'[o].created_by = objects[o].created_by
            /\ objects'[o].collection_id = objects[o].collection_id
        BY <1>1, <2>1, <2>3
      <3> QED
        BY <1>2, <1>3, <2>2, <2>3, <3>1
    <2> QED
      BY <2>3 DEF CreatesAreRecorded
  <1>6. CASE ClaimCollection
    BY <1>6 DEF ClaimCollection, CreatesAreRecorded
  <1>7. ASSUME NEW c \in Collections, DeleteCollection(c)
        PROVE  CreatesAreRecorded'
    <2>1. ASSUME NEW o \in Objects, objects'[o] # None, objects'[o].created_by # None
          PROVE  Records(mutation_results'[objects'[o].created_by], objects'[o].collection_id, o)
      <3>1. objects'[o] = objects[o] /\ objects[o].collection_id # c /\ objects[o] # None
        BY <1>7, <2>1 DEF DeleteCollection
      <3>2. /\ objects[o].created_by \in MutationIDs
            /\ Records(mutation_results[objects[o].created_by], objects[o].collection_id, o)
        BY <1>2, <2>1, <3>1
      <3>3. mutation_results[objects[o].created_by].collection_id # c
        BY <3>1, <3>2 DEF Records
      <3>4. mutation_results'[objects[o].created_by] = mutation_results[objects[o].created_by]
        BY <1>7, <3>2, <3>3 DEF DeleteCollection
      <3> QED
        BY <3>1, <3>2, <3>4
    <2> QED
      BY <2>1 DEF CreatesAreRecorded
  <1>8. CASE Quiet
    <2>1. ASSUME NEW o \in Objects, objects[o] # None, objects[o].created_by # None
          PROVE  Recording(objects[o].created_by)
      <3>1. /\ objects[o].created_by \in MutationIDs
            /\ Records(mutation_results[objects[o].created_by], objects[o].collection_id, o)
        BY <1>2, <2>1
      <3> QED
        BY <1>8, <3>1, RecordedStatus DEF Quiet, Forgetting
    <2> QED
      BY <1>3, <1>8, <2>1 DEF Quiet, CreatesAreRecorded
  <1> QED
    BY <1>4, <1>5, <1>6, <1>7, <1>8, StepCases

\* No interleaving of retries, expiry, crashes and deletions makes a create
\* unrecoverable: while the object exists its Mutation ID answers with it, so one
\* Mutation ID never makes two objects.
THEOREM CreatesStayRecoverable == Spec => []CreatesAreRecoverable
  <1>1. Init => CreatesAreRecorded
    BY DEF Init, DatabaseInit, CreatesAreRecorded
  <1>2. Init => CursorOrdersChanges
    BY DEF Init, DatabaseInit, CursorOrdersChanges
  <1>3. CursorOrdersChanges /\ CreatesAreRecorded => CreatesAreRecoverable
    <2> SUFFICES ASSUME CursorOrdersChanges, CreatesAreRecorded, NEW o \in Objects,
                        objects[o] # None, objects[o].created_by # None
                 PROVE  RecoverCreate(objects[o].collection_id, objects[o].created_by)
                          = Outcome(201, "", o, 1)
      BY DEF CreatesAreRecoverable
    <2> DEFINE row == mutation_results[objects[o].created_by]
    <2>1. Records(row, objects[o].collection_id, o) /\ objects[o].collection_id \in collections
      BY DEF CreatesAreRecorded, CursorOrdersChanges
    <2>2. row # None /\ row.kind = "create" /\ row.result.status \notin {404, 409}
      BY <2>1, RecordedStatus
    <2> QED
      BY <2>1, <2>2 DEF RecoverCreate, Records
  <1> QED
    BY <1>1, <1>2, <1>3, InitTyped, NextTyped, InitMinted, NextMinted, NextCursor, NextRecorded,
       PTL DEF Spec

-----------------------------------------------------------------------------
(* Action properties                                                        *)

\* Every step keeps or forgets a recorded outcome.
LEMMA StepKeepsOutcomes ==
    ASSUME Typed, Minted, [Next]_vars, NEW m \in MutationIDs
    PROVE  OutcomeKept(m)
  <1> USE DEF OutcomeKept
  <1>1. CASE Recording(m) \/ Forgetting(m)
    BY <1>1 DEF Recording, Forgetting
  <1>2. ASSUME NEW r \in Requests, ApplyCreate(r) \/ ApplyUpdate(r) \/ ApplyDelete(r)
        PROVE  Recording(m)
    BY <1>2, OwnerRecords DEF ApplyCreate, ApplyUpdate, ApplyDelete
  <1>3. CASE ClaimCollection
    BY <1>3 DEF ClaimCollection
  <1>4. ASSUME NEW c \in Collections, DeleteCollection(c)
        PROVE  mutation_results'[m] # None => mutation_results'[m] = mutation_results[m]
    BY <1>4 DEF DeleteCollection
  <1>5. CASE Quiet
    BY <1>1, <1>5 DEF Quiet
  <1> QED
    BY <1>1, <1>2, <1>3, <1>4, <1>5, StepCases

\* A recorded outcome is never replaced, so every retry that finds one is answered
\* what the first request was.
THEOREM OutcomesStayFinal == Spec => OutcomesAreFinal
  <1>1. Typed /\ Minted /\ [Next]_vars =>
          [\A m \in MutationIDs : OutcomeKept(m)]_vars
    BY StepKeepsOutcomes
  <1> QED
    BY <1>1, InitTyped, NextTyped, InitMinted, NextMinted, PTL DEF Spec, OutcomesAreFinal

\* Every step is at most one change of a collection.
LEMMA StepIsOneChange ==
    ASSUME Typed, Minted, [Next]_vars, NEW c \in Collections
    PROVE  OneChange(c)
  <1>1. /\ objects \in [Objects -> ObjectRow \cup {None}]
        /\ current_version \in [Collections -> Nat]
    BY DEF Typed, TypeOK, DatabaseTypeOK
  <1>2. ASSUME current_version' = current_version,
               \A o \in Objects : objects'[o] \in {objects[o], None}
        PROVE  OneChange(c)
    BY <1>2 DEF OneChange, Moved, Changed, Appeared
  <1>3. ASSUME NEW o \in Objects, NEW d \in Collections,
               objects' = [objects EXCEPT ![o] = objects'[o]], objects'[o].collection_id = d,
               current_version' = [current_version EXCEPT ![d] = current_version[d] + 1],
               c # d
        PROVE  OneChange(c)
    BY <1>1, <1>3 DEF OneChange, Moved, Changed, Appeared
  <1>4. ASSUME NEW r \in Requests, ApplyCreate(r)
        PROVE  OneChange(c)
    <2> DEFINE d == requests[r].collection_id
    <2>1. PICK o \in Objects \ minted :
            /\ objects' = [objects EXCEPT ![o] = objects'[o]]
            /\ objects'[o] # None
            /\ objects'[o].collection_id = d /\ objects'[o].version = 1
            /\ objects'[o].change_seq = current_version[d] + 1
            /\ d \in collections
            /\ current_version' = [current_version EXCEPT ![d] = current_version[d] + 1]
      BY <1>4, CreateAddsARow
    <2>2. Appeared(o) /\ d \in Collections
      BY <2>1 DEF Appeared, Minted, Typed, TypeOK, DatabaseTypeOK
    <2>3. CASE c = d
      <3>1. Moved(c) = {o}
        BY <1>1, <2>1, <2>2, <2>3 DEF Moved, Changed, Appeared
      <3> QED
        BY <1>1, <2>1, <2>2, <2>3, <3>1 DEF OneChange
    <2> QED
      BY <1>3, <2>1, <2>2, <2>3
  <1>5. ASSUME NEW r \in Requests, ApplyUpdate(r) \/ ApplyDelete(r)
        PROVE  OneChange(c)
    <2> DEFINE d == requests[r].collection_id
               o == requests[r].object_id
    <2>1. /\ o \in Objects /\ objects[o] # None
          /\ objects' = [objects EXCEPT ![o] = objects'[o]]
          /\ objects'[o] # None /\ objects'[o].collection_id = d
          /\ objects'[o].version = objects[o].version + 1
          /\ objects'[o].change_seq = current_version[d] + 1
          /\ objects[o].deleted => objects'[o].deleted
          /\ d \in collections
          /\ current_version' = [current_version EXCEPT ![d] = current_version[d] + 1]
      BY <1>5, EditChangesARow, Zenon
    <2>2. d \in Collections /\ objects[o].version \in Nat
      BY <1>1, <2>1 DEF Typed, TypeOK, DatabaseTypeOK, ObjectRow
    <2>3. Changed(o) /\ ~Appeared(o)
      BY <2>1, <2>2 DEF Changed, Appeared
    <2>4. CASE c = d
      <3>1. Moved(c) = {o}
        BY <1>1, <2>1, <2>3, <2>4 DEF Moved, Changed, Appeared
      <3>2. current_version'[c] = current_version[c] + 1 /\ objects'[o].change_seq = current_version'[c]
        BY <1>1, <2>1, <2>2, <2>4
      <3> QED
        BY <2>1, <2>3, <3>1, <3>2, Zenon DEF OneChange
    <2> QED
      BY <1>3, <2>1, <2>2, <2>4
  <1>6. CASE ClaimCollection
    BY <1>2, <1>6 DEF ClaimCollection
  <1>7. ASSUME NEW d \in Collections, DeleteCollection(d)
        PROVE  OneChange(c)
    BY <1>2, <1>7 DEF DeleteCollection
  <1>8. CASE Quiet
    BY <1>2, <1>8 DEF Quiet
  <1> QED
    BY <1>4, <1>5, <1>6, <1>7, <1>8, StepCases

\* Every accepted mutation is exactly one change of its collection, and nothing
\* else advances a cursor.
THEOREM MutationsStayChanges == Spec => MutationsAreChanges
  <1>1. Typed /\ Minted /\ [Next]_vars => [\A c \in Collections : OneChange(c)]_vars
    BY StepIsOneChange
  <1> QED
    BY <1>1, InitTyped, NextTyped, InitMinted, NextMinted, PTL DEF Spec, MutationsAreChanges

-----------------------------------------------------------------------------
(* The ledger implements the abstract lifetime                              *)

\* An empty ledger is an initial state of BlobLifetime.
LEMMA InitLifetime == Init => Lifetime!Init
  <1> SUFFICES ASSUME Init PROVE LedgerStage = [k \in Blobs |-> "unborn"]
    BY DEF Lifetime!Init
  <1>1. ASSUME NEW k \in Blobs
        PROVE  blob_ledger[k] = None /\ k \notin minted
    BY IdentifierAssumption DEF Init, DatabaseInit
  <1> QED
    BY <1>1 DEF LedgerStage

\* The row of k is in state s after the step.
Becomes(k, s) == blob_ledger'[k] # None /\ blob_ledger'[k].state = s

\* How a step changes the row of k.
LedgerMove(k) ==
    \/ blob_ledger'[k] = blob_ledger[k]
    \/ blob_ledger[k] = None /\ Becomes(k, "staged") /\ k \in minted'
    \/ InState(k, "staged") /\ Becomes(k, "claimed")
    \/ InState(k, "claimed") /\ Becomes(k, "retained")
    \/ (InState(k, "claimed") \/ InState(k, "retained")) /\ Becomes(k, "purgeable")
    \/ blob_ledger[k] # None /\ ~InState(k, "claimed") /\ blob_ledger'[k] = None

\* A claim takes a staged blob, a release lets a claimed one go.
LEMMA ClaimMoves ==
    ASSUME DatabaseTypeOK, NEW k \in Blobs, NEW old, NEW new, Claimable(new),
           NEW c \in Collections, NEW o \in Objects, NEW v \in Nat,
           \/ blob_ledger' = Claim(Release(blob_ledger, old), new, c, o, v)
           \/ blob_ledger' = Claim(blob_ledger, new, c, o, v)
    PROVE  LedgerMove(k)
  <1>1. blob_ledger \in [Blobs -> LedgerRow \cup {None}] /\ now \in Nat
    BY DEF DatabaseTypeOK
  <1>2. CASE k = new
    <2> DEFINE row == [state |-> "claimed", collection_id |-> c, object_id |-> o,
                       object_version |-> v, since |-> now]
    <2>1. blob_ledger'[k] = row
      BY <1>1, <1>2 DEF Claim, Release
    <2>2. row \in LedgerRow /\ row.state = "claimed"
      BY <1>1 DEF LedgerRow, BlobStates
    <2> HIDE DEF row
    <2> QED
      BY <1>2, <2>1, <2>2, RowAssumption DEF LedgerMove, Becomes, Claimable
  <1>3. CASE k # new /\ blob_ledger'[k] = Release(blob_ledger, old)[k] /\ k = old /\ InState(k, "claimed")
    <2> DEFINE row == [blob_ledger[k] EXCEPT !.state = "retained", !.object_id = None,
                                             !.object_version = 0, !.since = now]
    <2>1. blob_ledger'[k] = row
      BY <1>1, <1>3 DEF Release, InState
    <2>2. row \in LedgerRow /\ row.state = "retained"
      BY <1>1, <1>3 DEF InState, LedgerRow, BlobStates
    <2> HIDE DEF row
    <2> QED
      BY <1>3, <2>1, <2>2, RowAssumption DEF LedgerMove, Becomes
  <1>4. CASE k # new /\ ~(blob_ledger'[k] = Release(blob_ledger, old)[k] /\ k = old /\ InState(k, "claimed"))
    <2>1. blob_ledger'[k] = blob_ledger[k]
      BY <1>1, <1>4 DEF Claim, Release, InState
    <2> QED
      BY <2>1 DEF LedgerMove
  <1> QED
    BY <1>2, <1>3, <1>4

\* A step takes each blob along one of BlobLifetime's moves, or leaves it.
LEMMA StepMoves ==
    ASSUME Typed, Minted, [Next]_vars, NEW k \in Blobs
    PROVE  LedgerMove(k)
  <1>1. DatabaseTypeOK /\ blob_ledger \in [Blobs -> LedgerRow \cup {None}] /\ now \in Nat
    BY DEF Typed, TypeOK, DatabaseTypeOK
  <1>2. ASSUME NEW r \in Requests, ApplyCreate(r)
        PROVE  LedgerMove(k)
    <2>1. requests[r].collection_id \in Collections
      BY <1>2, AtTransaction DEF ApplyCreate, Owns
    <2>2. /\ Claimable(requests[r].blob_key)
          /\ \E o \in Objects : blob_ledger' =
               Claim(blob_ledger, requests[r].blob_key, requests[r].collection_id, o, 1)
      BY <1>2 DEF ApplyCreate
    <2>3. 1 \in Nat
      OBVIOUS
    <2> QED
      BY <1>1, <2>1, <2>2, <2>3, ClaimMoves
  <1>3. ASSUME NEW r \in Requests, ApplyUpdate(r)
        PROVE  LedgerMove(k)
    <2> DEFINE q == requests[r]
    <2>1. Kind(q) = "update" /\ q.pc = "tx" /\ objects[q.object_id] # None
          /\ q.version = objects[q.object_id].version + 1
      BY <1>3 DEF ApplyUpdate, Owns, Found, VersionMatches
    <2>2. q.collection_id \in Collections /\ q.object_id \in Objects
      BY <2>1, AtTransaction
    <2>3. q.version \in Nat
      BY <1>1, <2>1, <2>2 DEF DatabaseTypeOK, ObjectRow
    <2>4. /\ Claimable(q.blob_key)
          /\ blob_ledger' = Claim(Release(blob_ledger, objects[q.object_id].blob_key),
                                  q.blob_key, q.collection_id, q.object_id, q.version)
      BY <1>3 DEF ApplyUpdate
    <2> QED
      BY <1>1, <2>2, <2>3, <2>4, ClaimMoves
  <1>4. ASSUME NEW r \in Requests, ApplyDelete(r)
        PROVE  LedgerMove(k)
    <2> DEFINE old == objects[requests[r].object_id].blob_key
               row == [blob_ledger[k] EXCEPT !.state = "retained", !.object_id = None,
                                             !.object_version = 0, !.since = now]
    <2>1. blob_ledger' = Release(blob_ledger, old)
      BY <1>4 DEF ApplyDelete
    <2>2. CASE k = old /\ InState(k, "claimed")
      <3>1. blob_ledger'[k] = row
        BY <1>1, <2>1, <2>2 DEF Release, InState
      <3>2. row \in LedgerRow /\ row.state = "retained"
        BY <1>1, <2>2 DEF InState, LedgerRow, BlobStates
      <3> HIDE DEF row
      <3> QED
        BY <2>2, <3>1, <3>2, RowAssumption DEF LedgerMove, Becomes
    <2>3. CASE ~(k = old /\ InState(k, "claimed"))
      <3>1. blob_ledger'[k] = blob_ledger[k]
        BY <1>1, <2>1, <2>3 DEF Release, InState
      <3> QED
        BY <3>1 DEF LedgerMove
    <2> QED
      BY <2>2, <2>3
  <1>5. ASSUME NEW c \in Collections, DeleteCollection(c)
        PROVE  LedgerMove(k)
    <2> DEFINE row == [blob_ledger[k] EXCEPT !.state = "purgeable", !.object_id = None,
                                             !.since = now]
    <2>1. CASE blob_ledger'[k] = blob_ledger[k]
      BY <2>1 DEF LedgerMove
    <2>2. CASE blob_ledger'[k] = row /\ (InState(k, "claimed") \/ InState(k, "retained"))
      <3>1. row \in LedgerRow /\ row.state = "purgeable"
        BY <1>1, <2>2 DEF InState, LedgerRow, BlobStates
      <3> HIDE DEF row
      <3> QED
        BY <2>2, <3>1, RowAssumption DEF LedgerMove, Becomes
    <2> QED
      BY <1>5, <2>1, <2>2 DEF DeleteCollection, LedgerWithout, InState
  <1>6. CASE Quiet
    <2>1. QuietRow(k)
      BY <1>6 DEF Quiet
    <2>2. StagedRow # None /\ StagedRow.state = "staged"
      BY <1>1, StagedRowTyped, RowAssumption DEF StagedRow
    <2> QED
      BY <2>1, <2>2 DEF QuietRow, LedgerMove, Becomes
  <1>7. CASE ClaimCollection
    BY <1>7 DEF ClaimCollection, LedgerMove
  <1> QED
    BY <1>2, <1>3, <1>4, <1>5, <1>6, <1>7, StepCases

\* Identifiers stay minted, and a blob is minted with its row.
LEMMA StepMints ==
    ASSUME Typed, Minted, [Next]_vars
    PROVE  /\ minted \subseteq minted'
           /\ \A k \in Blobs : k \in minted' \ minted => blob_ledger'[k] # None
  <1>1. ASSUME NEW r \in Requests, ApplyCreate(r)
        PROVE  minted \subseteq minted' /\ (\A k \in Blobs : k \in minted' => k \in minted)
    BY <1>1, IdentifierAssumption DEF ApplyCreate
  <1>2. ASSUME NEW r \in Requests, ApplyUpdate(r) \/ ApplyDelete(r)
        PROVE  minted' = minted
    BY <1>2 DEF ApplyUpdate, ApplyDelete
  <1>3. ASSUME ClaimCollection
        PROVE  minted \subseteq minted' /\ (\A k \in Blobs : k \in minted' => k \in minted)
    BY <1>3, IdentifierAssumption DEF ClaimCollection
  <1>4. ASSUME NEW c \in Collections, DeleteCollection(c)
        PROVE  minted' = minted
    BY <1>4 DEF DeleteCollection
  <1>5. CASE Quiet
    BY <1>5 DEF Quiet
  <1> QED
    BY <1>1, <1>2, <1>3, <1>4, <1>5, StepCases

\* A step of the server is a step of BlobLifetime, or a stutter.
LEMMA NextLifetime ==
    ASSUME Typed, Minted, [Next]_vars
    PROVE  Lifetime!Move
  <1>1. Typed' /\ Minted'
    BY NextTyped, NextMinted
  <1>2. /\ blob_ledger \in [Blobs -> LedgerRow \cup {None}]
        /\ blob_ledger' \in [Blobs -> LedgerRow \cup {None}]
    BY <1>1 DEF Typed, TypeOK, DatabaseTypeOK
  <1>3. ASSUME NEW k \in Blobs
        PROVE  /\ LedgerStage'[k] \in Lifetime!Stages
               /\ LedgerStage'[k] = LedgerStage[k]
                    \/ <<LedgerStage[k], LedgerStage'[k]>> \in Lifetime!Moves
    <2>1. LedgerStage[k] = IF blob_ledger[k] # None THEN blob_ledger[k].state
                           ELSE IF k \in minted THEN "gone" ELSE "unborn"
      BY DEF LedgerStage
    <2>2. LedgerStage'[k] = IF blob_ledger'[k] # None THEN blob_ledger'[k].state
                            ELSE IF k \in minted' THEN "gone" ELSE "unborn"
      BY DEF LedgerStage
    <2>3. /\ blob_ledger[k] # None => k \in minted /\ blob_ledger[k].state \in BlobStates
          /\ blob_ledger'[k] # None => k \in minted' /\ blob_ledger'[k].state \in BlobStates
      BY <1>1, <1>2 DEF Minted, LedgerRow
    <2>4. /\ LedgerMove(k)
          /\ k \in minted => k \in minted'
          /\ k \in minted' /\ blob_ledger'[k] = None => k \in minted
      BY StepMoves, StepMints
    <2> QED
      BY <2>1, <2>2, <2>3, <2>4
      DEF LedgerMove, Becomes, InState, BlobStates, Lifetime!Stages, Lifetime!Moves
  <1>4. LedgerStage' \in [Blobs -> Lifetime!Stages]
    <2>1. LedgerStage' = [k \in Blobs |-> LedgerStage'[k]]
      BY DEF LedgerStage
    <2> QED
      BY <1>3, <2>1
  <1> QED
    BY <1>3, <1>4 DEF Lifetime!Move

\* Whatever handlers and maintenance do, in whatever order, each blob only moves
\* along the abstract lifetime: the ledger implements BlobLifetime.
THEOREM LedgerImplementsLifetime == Spec => BlobsFollowTheirLifetime
  <1>1. Typed /\ Minted /\ [Next]_vars => [Lifetime!Move]_LedgerStage
    BY NextLifetime
  <1> QED
    BY <1>1, InitTyped, NextTyped, InitMinted, NextMinted, InitLifetime, PTL
    DEF Spec, BlobsFollowTheirLifetime, Lifetime!Spec

-----------------------------------------------------------------------------
(* Collections implement ChangeFeed: whatever the handlers and maintenance  *)
(* do, List reads a feed whose every change took the next cursor value.     *)

\* A collection id that was not handed out yet has no history.
CollectionsMinted ==
    /\ collections \subseteq minted
    /\ \A c \in Collections : c \notin minted => current_version[c] = 0

\* CollectionsMinted is inductive.
LEMMA NextCollections ==
    Typed /\ Minted /\ CollectionsMinted /\ [Next]_vars => CollectionsMinted'
  <1> SUFFICES ASSUME Typed, Minted, CollectionsMinted, [Next]_vars
               PROVE  CollectionsMinted'
    OBVIOUS
  <1>1. /\ current_version \in [Collections -> Nat] /\ minted \subseteq minted'
        /\ collections \subseteq Collections
    BY StepMints DEF Typed, TypeOK, DatabaseTypeOK
  <1>2. ASSUME NEW c \in collections, collections' = collections,
               current_version' = [current_version EXCEPT ![c] = current_version[c] + 1]
        PROVE  CollectionsMinted'
    BY <1>1, <1>2 DEF CollectionsMinted
  <1>3. ASSUME NEW r \in Requests, ApplyCreate(r)
        PROVE  CollectionsMinted'
    BY <1>2, <1>3, CreateAddsARow
  <1>4. ASSUME NEW r \in Requests, ApplyUpdate(r) \/ ApplyDelete(r)
        PROVE  CollectionsMinted'
    BY <1>2, <1>4, EditChangesARow
  <1>5. CASE ClaimCollection
    BY <1>5 DEF ClaimCollection, CollectionsMinted
  <1>6. ASSUME NEW c \in Collections, DeleteCollection(c)
        PROVE  CollectionsMinted'
    BY <1>6 DEF DeleteCollection, CollectionsMinted
  <1>7. CASE Quiet
    BY <1>1, <1>7 DEF Quiet, CollectionsMinted
  <1> QED
    BY <1>3, <1>4, <1>5, <1>6, <1>7, StepCases

-----------------------------------------------------------------------------

\* What List shows of a row.
Shown(row) ==
    [collection_id |-> row.collection_id, version |-> row.version,
     change_seq |-> row.change_seq, deleted |-> row.deleted]

\* A row that List shows is not a missing one.
LEMMA ShownRows ==
    ASSUME Typed, NEW o \in Objects
    PROVE  /\ objects[o] = None => FeedRows[o] = None
           /\ objects[o] # None =>
                /\ FeedRows[o] = Shown(objects[o]) /\ FeedRows[o] # None
                /\ FeedRows[o].collection_id = objects[o].collection_id
                /\ FeedRows[o].version = objects[o].version
                /\ FeedRows[o].deleted = objects[o].deleted
  <1>1. CASE objects[o] = None
    BY <1>1 DEF FeedRows
  <1>2. CASE objects[o] # None
    <2>1. objects[o] \in ObjectRow
      BY <1>2 DEF Typed, TypeOK, DatabaseTypeOK
    <2>2. Shown(objects[o]) \in Feed!Row
      BY <2>1 DEF Shown, ObjectRow, Feed!Row
    <2>3. FeedRows[o] = Shown(objects[o])
      BY <1>2 DEF FeedRows, Shown
    <2> QED
      BY <1>2, <2>2, <2>3, ShownAssumption DEF Shown
  <1> QED
    BY <1>1, <1>2

\* A row that takes the cursor's next value is a change of the feed.
LEMMA ChangeFeeds ==
    ASSUME Typed, Typed', NEW c \in collections, NEW o \in Objects,
           objects' = [objects EXCEPT ![o] = objects'[o]],
           objects'[o] # None,
           objects'[o].collection_id = c,
           objects'[o].change_seq = current_version[c] + 1,
           current_version' = [current_version EXCEPT ![c] = current_version[c] + 1],
           collections' = collections,
           IF objects[o] = None
           THEN objects'[o].version = 1 /\ objects'[o].deleted = FALSE
           ELSE /\ objects[o].collection_id = c
                /\ objects'[o].version = objects[o].version + 1
                /\ objects[o].deleted => objects'[o].deleted
    PROVE  Feed!Change(c, o)
  <1> DEFINE new == objects'[o]
             v == [version |-> new.version, deleted |-> new.deleted]
             row == [collection_id |-> c, version |-> v.version,
                     change_seq |-> current_version[c] + 1, deleted |-> v.deleted]
  <1>1. /\ new \in ObjectRow /\ new.deleted \in BOOLEAN
        /\ objects \in [Objects -> ObjectRow \cup {None}]
    BY DEF Typed, TypeOK, DatabaseTypeOK, ObjectRow
  <1>2. FeedRows' = [FeedRows EXCEPT ![o] = row]
    <2>1. FeedRows' = [x \in Objects |->
            IF objects'[x] = None THEN None ELSE Shown(objects'[x])]
      BY DEF FeedRows, Shown
    <2>2. FeedRows = [x \in Objects |->
            IF objects[x] = None THEN None ELSE Shown(objects[x])]
      BY DEF FeedRows, Shown
    <2>3. \A x \in Objects \ {o} : objects'[x] = objects[x]
      BY <1>1
    <2>4. Shown(new) = row
      BY DEF Shown
    <2> HIDE DEF row
    <2> QED
      BY <2>1, <2>2, <2>3, <2>4
  <1>3. FeedRows[o] # None => FeedRows[o].collection_id = c
    BY ShownRows
  <1>4. v \in Feed!NextVersions(o, c)
    <2>1. CASE objects[o] = None
      BY <2>1, ShownRows DEF Feed!NextVersions
    <2>2. CASE objects[o] # None
      <3>1. /\ FeedRows[o] # None /\ v.version = FeedRows[o].version + 1
            /\ v.deleted \in {x \in BOOLEAN : FeedRows[o].deleted => x}
        BY <1>1, <2>2, ShownRows
      <3>2. v = [version |-> FeedRows[o].version + 1, deleted |-> v.deleted]
        BY <3>1
      <3> HIDE DEF v
      <3> QED
        BY <3>1, <3>2 DEF Feed!NextVersions
    <2> QED
      BY <2>1, <2>2
  <1>5. collections' = collections /\ c \in collections
    OBVIOUS
  <1> HIDE DEF v
  <1> QED
    BY <1>2, <1>3, <1>4, <1>5 DEF Feed!Change

-----------------------------------------------------------------------------

\* Every step of the server is a step of the feed, or a stutter.
LEMMA StepFeeds ==
    ASSUME Typed, Minted, CollectionsMinted, [Next]_vars
    PROVE  [Feed!FeedNext]_Feed!feed
  <1>1. /\ Typed' /\ collections \subseteq Collections
        /\ objects \in [Objects -> ObjectRow \cup {None}]
        /\ objects' \in [Objects -> ObjectRow \cup {None}]
    BY NextTyped DEF Typed, TypeOK, DatabaseTypeOK
  <1>2. ASSUME NEW r \in Requests, ApplyCreate(r)
        PROVE  Feed!FeedNext
    <2> DEFINE c == requests[r].collection_id
    <2>1. PICK o \in Objects \ minted :
            /\ objects' = [objects EXCEPT ![o] = objects'[o]]
            /\ objects'[o] # None
            /\ objects'[o].collection_id = c /\ objects'[o].version = 1
            /\ objects'[o].change_seq = current_version[c] + 1
            /\ objects'[o].deleted = FALSE
            /\ c \in collections /\ collections' = collections
            /\ current_version' = [current_version EXCEPT ![c] = current_version[c] + 1]
      BY <1>2, CreateAddsARow
    <2>2. objects[o] = None
      BY <2>1 DEF Minted
    <2>3. Feed!Change(c, o)
      BY <1>1, <2>1, <2>2, ChangeFeeds
    <2> QED
      BY <1>1, <2>1, <2>3 DEF Feed!FeedNext
  <1>3. ASSUME NEW r \in Requests, ApplyUpdate(r) \/ ApplyDelete(r)
        PROVE  Feed!FeedNext
    <2> DEFINE c == requests[r].collection_id
               o == requests[r].object_id
    <2>1. /\ o \in Objects /\ objects[o] # None /\ objects[o].collection_id = c
          /\ objects' = [objects EXCEPT ![o] = objects'[o]]
          /\ objects'[o] # None
          /\ objects'[o].collection_id = c
          /\ objects'[o].version = objects[o].version + 1
          /\ objects'[o].change_seq = current_version[c] + 1
          /\ objects[o].deleted => objects'[o].deleted
          /\ c \in collections /\ collections' = collections
          /\ current_version' = [current_version EXCEPT ![c] = current_version[c] + 1]
      BY <1>3, EditChangesARow, Zenon
    <2>2. Feed!Change(c, o)
      BY <1>1, <2>1, ChangeFeeds
    <2> QED
      BY <1>1, <2>1, <2>2 DEF Feed!FeedNext
  <1>4. CASE ClaimCollection
    <2>1. PICK c \in Collections \ minted : collections' = {c}
      BY <1>4 DEF ClaimCollection
    <2>2. Feed!Claim(c)
      BY <1>4, <2>1 DEF ClaimCollection, CollectionsMinted, Feed!Claim, FeedRows
    <2> QED
      BY <2>1, <2>2 DEF Feed!FeedNext
  <1>5. ASSUME NEW c \in Collections, DeleteCollection(c)
        PROVE  Feed!FeedNext
    <2>1. FeedRows' = [o \in Objects |->
            IF FeedRows[o] # None /\ FeedRows[o].collection_id = c
            THEN None ELSE FeedRows[o]]
      <3>1. \A o \in Objects : objects'[o] =
              IF objects[o] # None /\ objects[o].collection_id = c
              THEN None ELSE objects[o]
        BY <1>1, <1>5 DEF DeleteCollection
      <3>2. \A o \in Objects :
              FeedRows'[o] = IF FeedRows[o] # None /\ FeedRows[o].collection_id = c
                             THEN None ELSE FeedRows[o]
        <4> SUFFICES ASSUME NEW o \in Objects
                     PROVE  FeedRows'[o] =
                              IF FeedRows[o] # None /\ FeedRows[o].collection_id = c
                              THEN None ELSE FeedRows[o]
          OBVIOUS
        <4>1. /\ objects[o] = None => FeedRows[o] = None
              /\ objects[o] # None => /\ FeedRows[o] # None
                                      /\ FeedRows[o].collection_id = objects[o].collection_id
                                      /\ FeedRows[o] = Shown(objects[o])
          BY ShownRows
        <4>2. FeedRows'[o] = IF objects'[o] = None THEN None ELSE Shown(objects'[o])
          BY DEF FeedRows, Shown
        <4> QED
          BY <3>1, <4>1, <4>2
      <3>3. FeedRows' = [o \in Objects |-> FeedRows'[o]]
        BY DEF FeedRows
      <3> QED
        BY <3>2, <3>3
    <2>2. Feed!Delete(c)
      BY <1>5, <2>1 DEF DeleteCollection, Feed!Delete
    <2> QED
      BY <2>2 DEF Feed!FeedNext
  <1>6. CASE Quiet
    BY <1>6 DEF Quiet, Feed!feed, FeedRows
  <1> QED
    BY <1>2, <1>3, <1>4, <1>5, <1>6, StepCases

\* Whatever handlers and maintenance do, every change a pull can see took its
\* collection's next cursor value: the collections implement ChangeFeed.
THEOREM ContentsImplementFeed == Spec => CollectionsAreFeeds
  <1>1. Init => Feed!FeedInit /\ CollectionsMinted
    BY DEF Init, DatabaseInit, Feed!FeedInit, FeedRows, CollectionsMinted
  <1>2. Typed /\ Minted /\ CollectionsMinted /\ [Next]_vars => [Feed!FeedNext]_Feed!feed
    BY StepFeeds
  <1> QED
    BY <1>1, <1>2, InitTyped, NextTyped, InitMinted, NextMinted, NextCollections, PTL
    DEF Spec, CollectionsAreFeeds, Feed!FeedSpec

-----------------------------------------------------------------------------
(* What requests were told                                                  *)

\* A mutation that is decided now,
Decided(r) == ApplyCreate(r) \/ ApplyUpdate(r) \/ ApplyDelete(r) \/ RedeleteTombstone(r)

\* or was decided before.
Replayed(r) ==
    LET q == requests[r] IN
    /\ q.op \in Mutations
    /\ Recorded(q) /\ ~Mismatched(q)
    /\ Respond(r, q, mutation_results[q.mutation_id].result)
    /\ UNCHANGED <<database, known>>

\* An answer keeps the intent it answers.
LEMMA RespondSets ==
    ASSUME Typed, NEW r \in Requests, NEW answer, Respond(r, requests[r], answer)
    PROVE  /\ requests'[r].pc = "idle" /\ requests'[r].answer = answer
           /\ requests'[r].op = requests[r].op
           /\ requests'[r].mutation_id = requests[r].mutation_id
           /\ requests'[r].collection_id = requests[r].collection_id
           /\ requests'[r].object_id = requests[r].object_id
           /\ requests'[r].version = requests[r].version
           /\ \A s \in Requests \ {r} : requests'[s] = requests[s]
  <1> DEFINE q == requests[r]
             p == [q EXCEPT !.pc = "idle", !.blob_key = None, !.prepared = FALSE,
                            !.answer = answer]
  <1>1. q \in RequestState /\ requests \in [Requests -> RequestState]
    BY DEF Typed, TypeOK, ObjectMutationsTypeOK
  <1>2. requests' = [requests EXCEPT ![r] = p]
    BY DEF Respond
  <1>3. /\ p.pc = "idle" /\ p.answer = answer /\ p.op = q.op /\ p.mutation_id = q.mutation_id
        /\ p.collection_id = q.collection_id /\ p.object_id = q.object_id
        /\ p.version = q.version
    BY <1>1 DEF RequestState
  <1> HIDE DEF p
  <1> QED
    BY <1>1, <1>2, <1>3

LEMMA MismatchStatus == Mismatch.status = 409
  BY DEF Mismatch, Outcome

\* A handler's step is its own request's.
LEMMA HandlerMoves ==
    ASSUME Typed, NEW s \in Requests, HandlerStep(s)
    PROVE  \E p : requests' = [requests EXCEPT ![s] = p]
  <1>1. CASE Stage(s)
    BY <1>1 DEF Stage, StageRow
  <1>2. CASE Put(s)
    BY <1>2 DEF Put, Continue, Respond
  <1>3. CASE Prepare(s)
    BY <1>3 DEF Prepare, Continue, Respond
  <1>4. CASE ReserveReplay(s)
    BY <1>4 DEF ReserveReplay, Continue, Respond
  <1>5. CASE AnswerMismatch(s) \/ AnswerStored(s)
    BY <1>5 DEF AnswerMismatch, AnswerStored, Respond
  <1>6. CASE RefuseNotFound(s) \/ RefuseConflict(s) \/ RefuseNotStaged(s) \/ RedeleteTombstone(s)
    <2>1. \E result : Decline(s, result)
      BY <1>6 DEF RefuseNotFound, RefuseConflict, RefuseNotStaged, RedeleteTombstone
    <2> QED
      BY <2>1 DEF Decline, Respond
  <1>7. CASE ApplyCreate(s)
    BY <1>7 DEF ApplyCreate, Respond
  <1>8. CASE ApplyUpdate(s)
    BY <1>8 DEF ApplyUpdate, Respond
  <1>9. CASE ApplyDelete(s)
    BY <1>9 DEF ApplyDelete, Respond
  <1>10. CASE DeleteBlobRow(s)
    BY <1>10 DEF DeleteBlobRow, Respond
  <1>11. CASE Unlink(s) \/ Abort(s)
    BY <1>11 DEF Unlink, Abort, Respond
  <1> QED
    BY <1>1, <1>2, <1>3, <1>4, <1>5, <1>6, <1>7, <1>8, <1>9, <1>10, <1>11
       DEF HandlerStep, MutationTransaction

\* A mutation is told of success when it is decided, or by a replay.
LEMMA AnswerSteps ==
    ASSUME Typed, [Next]_vars, NEW r \in Requests, requests'[r].pc = "idle",
           requests'[r].answer.status \in {200, 201}, requests'[r].op \in Mutations
    PROVE  requests'[r] = requests[r] \/ Decided(r) \/ Replayed(r)
  <1> SUFFICES ASSUME requests'[r] # requests[r] PROVE Decided(r) \/ Replayed(r)
    OBVIOUS
  <1>1. requests \in [Requests -> RequestState]
    BY DEF Typed, TypeOK, ObjectMutationsTypeOK
  <1>2. requests' \in [Requests -> RequestState]
    BY NextTyped DEF Typed, TypeOK, ObjectMutationsTypeOK
  <1>3. ASSUME NEW s \in Requests, HandlerStep(s), s # r PROVE FALSE
    <2>1. \E p : requests' = [requests EXCEPT ![s] = p]
      BY <1>3, HandlerMoves
    <2> QED
      BY <1>1, <1>3, <2>1
  <1>4. HandlerStep(r)
    <2>1. \E s \in Requests : HandlerStep(s)
      BY DEF Next, vars, RequestStep, ClaimCollection, DeleteCollection, Tick
    <2> QED
      BY <1>3, <2>1
  <1>5. ASSUME NEW result, Respond(r, requests[r], result)
        PROVE  result.status \in {200, 201} /\ requests[r].op \in Mutations
    <2>1. requests'[r].answer = result /\ requests'[r].op = requests[r].op
      BY <1>5, RespondSets, SMTT(30)
    <2> QED
      BY <2>1
  <1>6. ASSUME NEW p, NEW pc, Continue(r, p, pc) PROVE pc = "idle"
    <2> DEFINE moved == [p EXCEPT !.pc = pc]
    <2>1. requests'[r] = moved
      BY <1>1, <1>6 DEF Continue
    <2>2. "pc" \in DOMAIN moved
      <3>1. moved \in RequestState
        BY <1>2, <2>1
      <3> HIDE DEF moved
      <3> QED
        BY <3>1 DEF RequestState
    <2>3. moved.pc = pc
      BY <2>2
    <2> QED
      BY <2>1, <2>3
  <1>7. ~Stage(r)
    <2> SUFFICES ASSUME NEW k, NEW p, StageRow(r, p, k) PROVE FALSE
      BY DEF Stage
    <2> DEFINE moved == [p EXCEPT !.pc = "put", !.blob_key = k]
    <2>1. requests'[r] = moved
      BY <1>1 DEF StageRow
    <2>2. "pc" \in DOMAIN moved
      <3>1. moved \in RequestState
        BY <1>2, <2>1
      <3> HIDE DEF moved
      <3> QED
        BY <3>1 DEF RequestState
    <2>3. moved.pc = "put"
      BY <2>2
    <2> QED
      BY <2>1, <2>3
  <1>8. ~Put(r)
    BY <1>5, <1>6 DEF Put, Mutations, Creates, Updates
  <1>9. ~Prepare(r)
    <2> SUFFICES ASSUME Prepare(r) PROVE FALSE
      OBVIOUS
    <2>1. \E p, pc : Continue(r, p, pc) /\ pc # "idle"
      BY DEF Prepare, Reserved
    <2> QED
      BY <1>6, <2>1
  <1>10. ASSUME ReserveReplay(r) PROVE Replayed(r)
    <2>1. requests[r].op \in Mutations
      BY <1>5, <1>6, <1>10 DEF ReserveReplay, Reserved
    <2>2. ~Continue(r, requests[r], Reserved(requests[r]))
      BY <1>6 DEF Reserved
    <2>3. ~Respond(r, requests[r], Mismatch)
      BY <1>5, MismatchStatus
    <2> QED
      BY <1>10, <2>1, <2>2, <2>3 DEF ReserveReplay, Replayed
  <1>11. ~AnswerMismatch(r)
    BY <1>5, MismatchStatus DEF AnswerMismatch
  <1>12. ASSUME AnswerStored(r) PROVE Replayed(r)
    BY <1>5, <1>12 DEF AnswerStored, Replayed
  <1>13. ~RefuseNotFound(r) /\ ~RefuseConflict(r) /\ ~RefuseNotStaged(r)
    <2>1. ASSUME NEW result, Decline(r, result) PROVE result.status \in {200, 201}
      BY <1>5, <2>1 DEF Decline
    <2>2. NotFound.status = 404
      BY DEF NotFound, Outcome
    <2>3. \A e, o, v : Outcome(409, e, o, v).status = 409
      BY DEF Outcome
    <2>4. ~RefuseNotFound(r)
      BY <2>1, <2>2 DEF RefuseNotFound
    <2>5. ASSUME NEW e, NEW o, NEW v, Decline(r, Outcome(409, e, o, v)) PROVE FALSE
      BY <2>1, <2>3, <2>5
    <2>6. ~RefuseConflict(r)
      <3> DEFINE v == objects[requests[r].object_id].version
      <3>1. RefuseConflict(r) => Decline(r, Outcome(409, "version conflict", None, v))
        BY DEF RefuseConflict
      <3>2. ASSUME NEW e PROVE ~Decline(r, Outcome(409, e, None, v))
        BY <2>5, SMT
      <3> QED
        BY <3>1, <3>2
    <2>7. ~RefuseNotStaged(r)
      <3>1. RefuseNotStaged(r) => Decline(r, Outcome(409, "blob is not staged", None, 0))
        BY DEF RefuseNotStaged
      <3>2. ASSUME NEW e PROVE ~Decline(r, Outcome(409, e, None, 0))
        BY <2>5, SMT
      <3> QED
        BY <3>1, <3>2
    <2> QED
      BY <2>4, <2>6, <2>7
  <1>14. ~DeleteBlobRow(r)
    <2> SUFFICES ASSUME DeleteBlobRow(r) PROVE FALSE
      OBVIOUS
    <2>1. PICK k, answer :
            \/ requests' = [requests EXCEPT ![r] =
                 [[Unused EXCEPT !.op = "delete-blob"] EXCEPT
                    !.pc = "idle", !.blob_key = None, !.prepared = FALSE, !.answer = answer]]
            \/ requests' = [requests EXCEPT ![r] =
                 [Unused EXCEPT !.pc = "unlink", !.op = "delete-blob", !.blob_key = k]]
      BY ZenonT(60) DEF DeleteBlobRow, Respond
    <2>2. /\ [[Unused EXCEPT !.op = "delete-blob"] EXCEPT !.pc = "idle", !.blob_key = None,
                                           !.prepared = FALSE, !.answer = answer].op = "delete-blob"
          /\ [Unused EXCEPT !.pc = "unlink", !.op = "delete-blob", !.blob_key = k].op = "delete-blob"
      BY DEF Unused
    <2>3. requests'[r].op = "delete-blob"
      BY <1>1, <2>1, <2>2
    <2> QED
      BY <2>3 DEF Mutations, Creates, Updates
  <1>15. ~Unlink(r)
    <2>1. ASSUME NEW e, NEW o, NEW v, Respond(r, requests[r], Outcome(204, e, o, v)) PROVE FALSE
      <3>1. Outcome(204, e, o, v).status = 204
        BY DEF Outcome
      <3> QED
        BY <1>5, <2>1, <3>1
    <2> QED
      BY <2>1 DEF Unlink
  <1>16. ~Abort(r)
    BY <1>1 DEF Abort, Unused, Mutations, Creates, Updates
  <1> QED
    BY <1>4, <1>7, <1>8, <1>9, <1>10, <1>11, <1>12, <1>13, <1>14, <1>15, <1>16
       DEF HandlerStep, MutationTransaction, Decided

\* What a transaction saves under its Mutation ID.
LEMMA SavedRow ==
    ASSUME Typed, NEW r \in Requests, Owns(r), requests[r].mutation_id # None,
           NEW result \in Result, NEW o \in Objects \cup {None},
           SaveResult(requests[r], result, o)
    PROVE  LET q == requests[r]
               row == mutation_results'[q.mutation_id] IN
           /\ row # None /\ row.kind = Kind(q) /\ row.collection_id = q.collection_id
           /\ row.object_id = o /\ row.requested_version = q.version /\ row.result = result
  <1> DEFINE q == requests[r]
             m == q.mutation_id
             first == [PendingRow(q) EXCEPT !.object_id = o, !.result = result]
             again == [mutation_results[m] EXCEPT !.object_id = o,
                          !.requested_version = q.version, !.result = result]
  <1>1. /\ DatabaseTypeOK /\ q \in RequestState /\ q.collection_id \in Collections
        /\ m \in MutationIDs /\ Kind(q) \in MutationKinds
    BY AtTransaction, KindOfOp DEF RequestState, Owns
  <1>2. CASE mutation_results[m] = None
    <2>1. mutation_results'[m] = first
      BY <1>1, <1>2 DEF SaveResult, DatabaseTypeOK
    <2>2. /\ first.kind = Kind(q) /\ first.collection_id = q.collection_id
          /\ first.object_id = o /\ first.requested_version = q.version /\ first.result = result
      BY DEF PendingRow
    <2>3. first \in MutationRow
      <3>1. now \in Nat /\ q.version \in Nat \cup {None}
        BY <1>1 DEF DatabaseTypeOK, RequestState
      <3> QED
        BY <1>1, <3>1 DEF PendingRow, MutationRow
    <2> HIDE DEF first
    <2> QED
      BY <2>1, <2>2, <2>3, RowAssumption
  <1>3. CASE mutation_results[m] # None
    <2>1. mutation_results'[m] = again
      BY <1>1, <1>3 DEF SaveResult, DatabaseTypeOK
    <2>2. mutation_results[m] \in MutationRow
      BY <1>1, <1>3 DEF DatabaseTypeOK
    <2>3. mutation_results[m].kind = Kind(q) /\ mutation_results[m].collection_id = q.collection_id
      BY <1>3 DEF Owns, Fresh, Recorded, Mismatched, Matches
    <2>4. /\ again.kind = Kind(q) /\ again.collection_id = q.collection_id
          /\ again.object_id = o /\ again.requested_version = q.version /\ again.result = result
      BY <2>2, <2>3 DEF MutationRow
    <2>5. again \in MutationRow
      BY <1>1, <2>2 DEF MutationRow, RequestState
    <2> HIDE DEF again
    <2> QED
      BY <2>1, <2>4, <2>5, RowAssumption
  <1> QED
    BY <1>2, <1>3

\* A decision saves an outcome for the object it is about.
LEMMA DecidedSaves ==
    ASSUME Typed, NEW r \in Requests, Decided(r)
    PROVE  \E result \in Result, o \in Objects \cup {None} :
             /\ SaveResult(requests[r], result, o) /\ Respond(r, requests[r], result)
             /\ Kind(requests[r]) # "create" => o = requests[r].object_id
             /\ Kind(requests[r]) = "create" =>
                  o \in Objects /\ result = Outcome(201, "", o, 1) /\ ApplyCreate(r)
  <1> DEFINE q == requests[r]
             Good(result, o) ==
               /\ SaveResult(q, result, o) /\ Respond(r, q, result)
               /\ Kind(q) # "create" => o = q.object_id
               /\ Kind(q) = "create" =>
                    o \in Objects /\ result = Outcome(201, "", o, 1) /\ ApplyCreate(r)
  <1>1. q.pc = "tx" /\ Found(q)
    BY DEF Decided, ApplyCreate, ApplyUpdate, ApplyDelete, RedeleteTombstone, Owns
  <1>2. /\ q \in RequestState /\ DatabaseTypeOK /\ q.version \in Nat \cup {None}
        /\ Kind(q) # "create" => q.object_id \in Objects /\ objects[q.object_id].version \in Nat
    BY <1>1, AtTransaction DEF Found, DatabaseTypeOK, ObjectRow, RequestState
  <1>3. \A o \in Objects, v \in Nat :
          Outcome(200, "", o, v) \in Result /\ Outcome(201, "", o, v) \in Result
    <2>1. "" \in Errors
      BY DEF Errors
    <2>2. \A e \in Errors, o \in Objects, v \in Nat :
            Outcome(200, e, o, v) \in Result /\ Outcome(201, e, o, v) \in Result
      BY OutcomeTyped
    <2> QED
      BY <2>1, <2>2, Zenon
  <1>4. CASE ApplyCreate(r)
    <2>1. PICK o \in Objects : SaveResult(q, Outcome(201, "", o, 1), o)
                               /\ Respond(r, q, Outcome(201, "", o, 1))
      BY <1>4 DEF ApplyCreate
    <2>2. Outcome(201, "", o, 1) \in Result
      BY <1>3
    <2>3. Good(Outcome(201, "", o, 1), o)
      BY <1>4, <2>1 DEF ApplyCreate
    <2> QED
      BY <2>2, <2>3
  <1>5. ASSUME NEW v \in Nat, Kind(q) # "create", SaveResult(q, Outcome(200, "", q.object_id, v), q.object_id),
               Respond(r, q, Outcome(200, "", q.object_id, v))
        PROVE  \E result \in Result, o \in Objects \cup {None} : Good(result, o)
    <2>1. q.object_id \in Objects
      BY <1>2, <1>5
    <2>2. Outcome(200, "", q.object_id, v) \in Result
      BY <1>3, <1>5, <2>1, ZenonT(60)
    <2>3. Good(Outcome(200, "", q.object_id, v), q.object_id)
      BY <1>5
    <2> QED
      BY <2>1, <2>2, <2>3
  <1>6. CASE ApplyUpdate(r)
    <2>1. Kind(q) = "update" /\ q.version = objects[q.object_id].version + 1
      BY <1>6 DEF ApplyUpdate, VersionMatches
    <2>2. q.version \in Nat
      BY <1>2, <2>1
    <2> QED
      BY <1>5, <1>6, <2>1, <2>2 DEF ApplyUpdate
  <1>7. CASE ApplyDelete(r)
    <2>1. Kind(q) = "delete"
      BY <1>7 DEF ApplyDelete
    <2>2. objects[q.object_id].version + 1 \in Nat
      BY <1>2, <2>1
    <2> QED
      BY <1>5, <1>7, <2>1, <2>2 DEF ApplyDelete
  <1>8. CASE RedeleteTombstone(r)
    <2>1. Kind(q) = "delete"
      BY <1>8 DEF RedeleteTombstone
    <2> QED
      BY <1>2, <1>5, <1>8, <2>1 DEF RedeleteTombstone, Decline
  <1> QED
    BY <1>4, <1>6, <1>7, <1>8 DEF Decided

\* A success is recorded by the transaction that decides it.
LEMMA ResultSteps ==
    ASSUME Typed, [Next]_vars, NEW m \in MutationIDs, mutation_results'[m] # None,
           mutation_results'[m].result.status \in {200, 201}
    PROVE  \/ mutation_results'[m] = mutation_results[m]
           \/ \E r \in Requests : Decided(r) /\ requests[r].mutation_id = m
  <1> SUFFICES ASSUME mutation_results'[m] # mutation_results[m]
               PROVE  \E r \in Requests : Decided(r) /\ requests[r].mutation_id = m
    OBVIOUS
  <1>1. mutation_results \in [MutationIDs -> MutationRow \cup {None}]
    BY DEF Typed, TypeOK, DatabaseTypeOK
  <1>2. ASSUME NEW expired, Forget(expired) PROVE FALSE
    BY <1>2 DEF Forget
  <1>3. ASSUME NEW s \in Maintainers, JobStep(s) \/ Fault(s) PROVE FALSE
    <2>1. UNCHANGED mutation_results
      BY <1>2, <1>3 DEF JobStep, Fault, StartWalk, Stat, Adopt, EndWalk, ExpirePending, ExpireOther,
             ListEligible, PurgeRow, RemoveFile, EndPass, database, tables
    <2> QED
      BY <2>1
  <1>4. PICK r \in Requests : HandlerStep(r)
    <2>1. ASSUME NEW c \in Collections, DeleteCollection(c) PROVE FALSE
      BY <2>1 DEF DeleteCollection
    <2> QED
      BY <1>3, <2>1 DEF Next, vars, database, RequestStep, ClaimCollection, Tick
  <1>5. ~Prepare(r)
    <2> SUFFICES ASSUME Prepare(r) PROVE FALSE
      OBVIOUS
    <2>1. PICK q : mutation_results' = [mutation_results EXCEPT ![q.mutation_id] = PendingRow(q)]
      BY DEF Prepare
    <2>2. mutation_results'[m].result = Pending
      BY <1>1, <2>1 DEF PendingRow
    <2>3. Pending.status = 102
      BY DEF Pending, Outcome
    <2> QED
      BY <2>2, <2>3
  <1>6. ASSUME NEW result, NEW o, SaveResult(requests[r], result, o)
        PROVE  requests[r].mutation_id = m /\ requests[r].mutation_id # None
    BY <1>1, <1>6, NoneAssumption DEF SaveResult
  <1>7. ASSUME NEW result \in Result, Owns(r), Decline(r, result)
        PROVE  result.status \in {200, 201}
    <2>1. requests[r].object_id \in Objects \cup {None}
      BY <1>7, AtTransaction DEF Owns, RequestState
    <2>2. requests[r].mutation_id = m /\ requests[r].mutation_id # None
      BY <1>6, <1>7 DEF Decline
    <2>3. mutation_results'[m].result = result
      BY <1>7, <2>1, <2>2, SavedRow DEF Decline
    <2> QED
      BY <2>3
  <1>8. ~RefuseNotFound(r)
    <2>1. NotFound \in Result /\ NotFound.status = 404
      BY DEF NotFound, Outcome, Result, Errors
    <2> QED
      BY <1>7, <2>1 DEF RefuseNotFound
  <1>9. ASSUME NEW e \in Errors, NEW v \in Nat, Owns(r), Decline(r, Outcome(409, e, None, v))
        PROVE  FALSE
    <2>1. Outcome(409, e, None, v) \in Result /\ Outcome(409, e, None, v).status = 409
      BY DEF Outcome, Result
    <2> QED
      BY <1>7, <1>9, <2>1
  <1>10. ~RefuseNotStaged(r)
    <2> SUFFICES ASSUME RefuseNotStaged(r) PROVE FALSE
      OBVIOUS
    <2>1. Owns(r)
      BY Zenon DEF RefuseNotStaged
    <2>2. Decline(r, Outcome(409, "blob is not staged", None, 0))
      BY Zenon DEF RefuseNotStaged
    <2>3. ASSUME NEW e \in Errors PROVE ~Decline(r, Outcome(409, e, None, 0))
      <3>1. 0 \in Nat
        OBVIOUS
      <3> QED
        BY <1>9, <2>1, <3>1
    <2>4. "blob is not staged" \in Errors
      BY Zenon DEF Errors
    <2> QED
      BY <2>2, <2>3, <2>4, Zenon
  <1>11. ~RefuseConflict(r)
    <2> SUFFICES ASSUME RefuseConflict(r) PROVE FALSE
      OBVIOUS
    <2>1. Owns(r) /\ Found(requests[r]) /\ ~VersionMatches(requests[r])
      BY Zenon DEF RefuseConflict
    <2>2. Kind(requests[r]) # "create" /\ requests[r].pc = "tx" /\ objects[requests[r].object_id] # None
      BY <2>1, AtTransaction, KindOfOp DEF Owns, VersionMatches, Found
    <2>3. objects[requests[r].object_id].version \in Nat
      BY <2>2, AtTransaction DEF DatabaseTypeOK, ObjectRow
    <2>4. Decline(r, Outcome(409, "version conflict", None, objects[requests[r].object_id].version))
      BY Zenon DEF RefuseConflict
    <2>5. ASSUME NEW e \in Errors
          PROVE  ~Decline(r, Outcome(409, e, None, objects[requests[r].object_id].version))
      BY <1>9, <2>1, <2>3
    <2>6. "version conflict" \in Errors
      BY Zenon DEF Errors
    <2> QED
      BY <2>4, <2>5, <2>6, Zenon
  <1>12. Decided(r)
    <2>1. ~Stage(r) /\ ~Put(r) /\ ~DeleteBlobRow(r) /\ ~Unlink(r)
      BY DEF Stage, StageRow, Put, DeleteBlobRow, Unlink
    <2>2. ~ReserveReplay(r) /\ ~AnswerMismatch(r) /\ ~AnswerStored(r) /\ ~Abort(r)
      BY DEF ReserveReplay, AnswerMismatch, AnswerStored, Abort, database
    <2> QED
      BY <1>4, <1>5, <1>8, <1>10, <1>11, <2>1, <2>2 DEF HandlerStep, MutationTransaction, Decided
  <1> QED
    <2>1. \E result, o : SaveResult(requests[r], result, o)
      BY <1>12, DecidedSaves, ZenonT(60)
    <2> QED
      BY <1>6, <1>12, <2>1

-----------------------------------------------------------------------------
(* No lost update                                                           *)

\* Object o is there and has reached version v, or is gone for good.
Past(o, v) ==
    /\ o \in Objects /\ o \in minted /\ v \in Nat
    /\ objects[o] # None => objects[o].version >= v

\* Request r was told that it made version v of object o,
Won(r, o, v) ==
    LET q == requests[r] IN
    Answered(r, 200) /\ Kind(q) = "update" /\ q.object_id = o /\ q.version = v

\* and this is what mutation m is on record for.
Kept(m, o, v) ==
    LET row == mutation_results[m] IN
    /\ row # None /\ row.kind = "update" /\ row.result.status = 200
    /\ row.object_id = o /\ row.requested_version = v

UpdatesArePast ==
    /\ \A r \in Requests : \A o, v : Won(r, o, v) => Past(o, v)
    /\ \A m \in MutationIDs : \A o, v : Kept(m, o, v) => Past(o, v)

\* One version of an object has one winner: a request or a Mutation ID.
OneWinner ==
    /\ \A r, s \in Requests : \A o, v : r # s /\ Won(r, o, v) /\ Won(s, o, v) =>
         requests[r].mutation_id = requests[s].mutation_id /\ requests[r].mutation_id # None
    /\ \A r \in Requests, m \in MutationIDs : \A o, v :
         Won(r, o, v) /\ Kept(m, o, v) => requests[r].mutation_id = m
    /\ \A m, n \in MutationIDs : \A o, v : Kept(m, o, v) /\ Kept(n, o, v) => m = n

\* Versions only grow, and an object that is gone stays away.
LEMMA PastStays ==
    ASSUME Typed, Minted, [Next]_vars, NEW o, NEW v, Past(o, v)
    PROVE  Past(o, v)'
  <1>1. /\ objects \in [Objects -> ObjectRow \cup {None}] /\ minted \subseteq minted'
        /\ \A p \in Objects : objects[p] # None => p \in minted /\ objects[p].version \in Nat
    BY StepMints DEF Typed, TypeOK, DatabaseTypeOK, Minted, ObjectRow
  <1>2. ASSUME NEW r \in Requests, ApplyCreate(r) PROVE Past(o, v)'
    <2>1. PICK n \in Objects \ minted : objects' = [objects EXCEPT ![n] = objects'[n]]
      BY <1>2, CreateAddsARow
    <2> QED
      BY <1>1, <2>1 DEF Past
  <1>3. ASSUME NEW r \in Requests, ApplyUpdate(r) \/ ApplyDelete(r) PROVE Past(o, v)'
    <2>1. PICK e \in Objects :
            /\ objects[e] # None /\ objects' = [objects EXCEPT ![e] = objects'[e]]
            /\ objects'[e].version = objects[e].version + 1
      BY <1>3, EditChangesARow
    <2> QED
      BY <1>1, <2>1 DEF Past
  <1>4. CASE ClaimCollection
    BY <1>1, <1>4 DEF ClaimCollection, Past
  <1>5. ASSUME NEW c \in Collections, DeleteCollection(c) PROVE Past(o, v)'
    BY <1>1, <1>5 DEF DeleteCollection, Past
  <1>6. CASE Quiet
    BY <1>1, <1>6 DEF Quiet, Past
  <1> QED
    BY <1>2, <1>3, <1>4, <1>5, <1>6, StepCases

\* An update that is applied asks for a version nobody has made.
LEMMA UpdateIsNew ==
    ASSUME Typed, NEW r \in Requests, ApplyUpdate(r)
    PROVE  LET q == requests[r] IN
           /\ q.object_id \in Objects /\ ~Past(q.object_id, q.version)
           /\ \A s \in Requests \ {r} : ~ApplyUpdate(s) /\ requests'[s] = requests[s]
  <1> DEFINE q == requests[r]
  <1>1. /\ Kind(q) = "update" /\ q.pc = "tx" /\ objects[q.object_id] # None
        /\ q.version = objects[q.object_id].version + 1
    BY DEF ApplyUpdate, Owns, Found, VersionMatches
  <1>2. q.object_id \in Objects /\ objects[q.object_id].version \in Nat
    BY <1>1, AtTransaction DEF DatabaseTypeOK, ObjectRow
  <1>3. \A s \in Requests \ {r} : requests'[s] = requests[s]
    BY RespondSets DEF ApplyUpdate
  <1>4. ASSUME NEW s \in Requests \ {r}, ApplyUpdate(s) PROVE FALSE
    <2>1. requests[s].pc = "tx" /\ requests'[s].pc = "idle"
      BY <1>4, RespondSets DEF ApplyUpdate, Owns
    <2> QED
      BY <1>3, <2>1
  <1> QED
    BY <1>1, <1>2, <1>3, <1>4 DEF Past

\* What becomes on record was, or an update is applied.
LEMMA KeptSteps ==
    ASSUME Typed, [Next]_vars, NEW m \in MutationIDs, NEW o, NEW v, Kept(m, o, v)'
    PROVE  \/ Kept(m, o, v)
           \/ \E r \in Requests : /\ ApplyUpdate(r) /\ requests[r].mutation_id = m
                                  /\ requests[r].object_id = o /\ requests[r].version = v
  <1>1. CASE mutation_results'[m] = mutation_results[m]
    BY <1>1 DEF Kept
  <1>2. ASSUME NEW r \in Requests, Decided(r), requests[r].mutation_id = m
        PROVE  /\ ApplyUpdate(r)
               /\ requests[r].object_id = o /\ requests[r].version = v
    <2> DEFINE q == requests[r]
    <2>1. PICK result \in Result, p \in Objects \cup {None} :
            SaveResult(q, result, p) /\ (Kind(q) # "create" => p = q.object_id)
      BY <1>2, DecidedSaves
    <2>2. Owns(r) /\ m # None
      BY <1>2, NoneAssumption DEF Decided, ApplyCreate, ApplyUpdate, ApplyDelete, RedeleteTombstone
    <2>3. /\ mutation_results'[m].kind = Kind(q) /\ mutation_results'[m].object_id = p
          /\ mutation_results'[m].requested_version = q.version
      BY <1>2, <2>1, <2>2, SavedRow
    <2>4. Kind(q) = "update"
      BY <2>3 DEF Kept
    <2>5. ApplyUpdate(r)
      BY <1>2, <2>4 DEF Decided, ApplyCreate, ApplyDelete, RedeleteTombstone
    <2> QED
      BY <2>1, <2>3, <2>4, <2>5 DEF Kept
  <1> QED
    BY <1>1, <1>2, ResultSteps DEF Kept

\* The version a request won it had won before, or its update is applied, or it
\* is told again what its Mutation ID is on record for.
LEMMA WonSteps ==
    ASSUME Typed, [Next]_vars, NEW r \in Requests, NEW o, NEW v, Won(r, o, v)'
    PROVE  \/ Won(r, o, v) /\ requests'[r] = requests[r]
           \/ /\ ApplyUpdate(r)
              /\ requests[r].object_id = o /\ requests[r].version = v
              /\ requests'[r].mutation_id = requests[r].mutation_id
           \/ /\ requests[r].mutation_id \in MutationIDs
              /\ Kept(requests[r].mutation_id, o, v)
              /\ requests'[r].mutation_id = requests[r].mutation_id
              /\ UNCHANGED <<database, known>>
              /\ \A s \in Requests \ {r} : requests'[s] = requests[s]
  <1> DEFINE q == requests[r]
  <1>1. /\ requests'[r].pc = "idle" /\ requests'[r].answer.status = 200
        /\ Kind(requests'[r]) = "update"
        /\ requests'[r].object_id = o /\ requests'[r].version = v
    BY DEF Won, Answered
  <1>2. requests'[r].op \in Mutations
    BY <1>1, KindOfOp DEF Mutations
  <1>3. CASE requests'[r] = requests[r]
    BY <1>1, <1>3 DEF Won, Answered
  <1>4. CASE Decided(r)
    <2>1. PICK result \in Result, p \in Objects \cup {None} : Respond(r, q, result)
      BY <1>4, DecidedSaves
    <2>2. /\ requests'[r].op = q.op /\ requests'[r].object_id = q.object_id
          /\ requests'[r].version = q.version /\ requests'[r].mutation_id = q.mutation_id
      BY <2>1, RespondSets
    <2>3. Kind(q) = "update"
      BY <1>1, <2>2, KindOfOp
    <2>4. ApplyUpdate(r)
      BY <1>4, <2>3 DEF Decided, ApplyCreate, ApplyDelete, RedeleteTombstone
    <2> QED
      BY <1>1, <2>2, <2>4
  <1>5. CASE Replayed(r)
    <2> DEFINE m == q.mutation_id
    <2>1. /\ Respond(r, q, mutation_results[m].result) /\ UNCHANGED <<database, known>>
          /\ Recorded(q) /\ ~Mismatched(q)
      BY <1>5 DEF Replayed
    <2>2. /\ requests'[r].op = q.op /\ requests'[r].object_id = q.object_id
          /\ requests'[r].version = q.version /\ requests'[r].mutation_id = m
          /\ requests'[r].answer = mutation_results[m].result
          /\ \A s \in Requests \ {r} : requests'[s] = requests[s]
      BY <2>1, RespondSets
    <2>3. Kind(q) = "update"
      BY <1>1, <2>2, KindOfOp
    <2>4. m \in MutationIDs /\ mutation_results[m] # None
      BY <2>1 DEF Recorded, Typed, TypeOK, ObjectMutationsTypeOK, RequestState
    <2>5. Kept(m, o, v)
      BY <1>1, <2>1, <2>2, <2>3, <2>4 DEF Kept, Mismatched, Matches
    <2> QED
      BY <2>1, <2>2, <2>4, <2>5
  <1> QED
    BY <1>1, <1>2, <1>3, <1>4, <1>5, AnswerSteps

\* What an update that is applied makes is past afterwards.
LEMMA UpdateIsPast ==
    ASSUME Typed, Minted, [Next]_vars, NEW r \in Requests, NEW o, NEW v, ApplyUpdate(r),
           requests[r].object_id = o, requests[r].version = v
    PROVE  Past(o, v)'
  <1>1. /\ Kind(requests[r]) = "update" /\ requests[r].pc = "tx"
        /\ VersionMatches(requests[r]) /\ minted' = minted
    BY DEF ApplyUpdate, Owns
  <1>2. o \in Objects /\ objects[o] # None /\ objects'[o].version = objects[o].version + 1
    BY EditChangesARow
  <1>3. objects[o].version \in Nat /\ o \in minted /\ v = objects[o].version + 1
    BY <1>1, <1>2 DEF Typed, TypeOK, DatabaseTypeOK, ObjectRow, Minted, VersionMatches
  <1> QED
    BY <1>1, <1>2, <1>3 DEF Past

\* Versions that were won stay past.
LEMMA NextUpdatesPast ==
    Typed /\ Minted /\ UpdatesArePast /\ [Next]_vars => UpdatesArePast'
  <1> SUFFICES ASSUME Typed, Minted, UpdatesArePast, [Next]_vars PROVE UpdatesArePast'
    OBVIOUS
  <1>1. ASSUME NEW r \in Requests, NEW o, NEW v, Won(r, o, v)' PROVE Past(o, v)'
    BY <1>1, WonSteps, UpdateIsPast, PastStays DEF UpdatesArePast
  <1>2. ASSUME NEW m \in MutationIDs, NEW o, NEW v, Kept(m, o, v)' PROVE Past(o, v)'
    BY <1>2, KeptSteps, UpdateIsPast, PastStays DEF UpdatesArePast
  <1> QED
    BY <1>1, <1>2 DEF UpdatesArePast

\* A version keeps its one winner: an update that is applied makes one nobody
\* has won, and a replay names the Mutation ID on record.
LEMMA NextOneWinner ==
    Typed /\ Minted /\ UpdatesArePast /\ OneWinner /\ [Next]_vars => OneWinner'
  <1> SUFFICES ASSUME Typed, Minted, UpdatesArePast, OneWinner, [Next]_vars PROVE OneWinner'
    OBVIOUS
  <1> DEFINE Applied(r, o, v) ==
               ApplyUpdate(r) /\ requests[r].object_id = o /\ requests[r].version = v
             Was(r, o, v) == Won(r, o, v) /\ requests'[r] = requests[r]
             Again(r, o, v) ==
               /\ requests[r].mutation_id \in MutationIDs
               /\ Kept(requests[r].mutation_id, o, v)
               /\ requests'[r].mutation_id = requests[r].mutation_id
               /\ UNCHANGED <<database, known>>
               /\ \A s \in Requests \ {r} : requests'[s] = requests[s]
  <1>1. ASSUME NEW r \in Requests, NEW o, NEW v, Won(r, o, v)'
        PROVE  \/ Was(r, o, v)
               \/ Applied(r, o, v) /\ requests'[r].mutation_id = requests[r].mutation_id
               \/ Again(r, o, v)
    BY <1>1, WonSteps
  <1>2. ASSUME NEW m \in MutationIDs, NEW o, NEW v, Kept(m, o, v)'
        PROVE  Kept(m, o, v) \/ \E r \in Requests : Applied(r, o, v) /\ requests[r].mutation_id = m
    BY <1>2, KeptSteps
  <1>3. ASSUME NEW r \in Requests, NEW o, NEW v, Applied(r, o, v)
        PROVE  /\ \A s \in Requests : ~Won(s, o, v) /\ (s # r => ~Applied(s, o, v))
               /\ \A m \in MutationIDs : ~Kept(m, o, v)
               /\ ~UNCHANGED <<database, known>>
    <2>1. ~Past(o, v) /\ \A s \in Requests \ {r} : ~ApplyUpdate(s)
      BY <1>3, UpdateIsNew
    <2>2. ~UNCHANGED current_version
      <3>1. requests[r].collection_id \in Collections /\ current_version \in [Collections -> Nat]
        BY <1>3, AtTransaction DEF ApplyUpdate, Owns, DatabaseTypeOK
      <3>2. current_version' = [current_version EXCEPT ![requests[r].collection_id] = @ + 1]
        BY <1>3 DEF ApplyUpdate, Advance
      <3> QED
        BY <3>1, <3>2
    <2> QED
      BY <2>1, <2>2 DEF UpdatesArePast, database
  <1>4. \A r \in Requests : \A o, v : Again(r, o, v) => ~\E s \in Requests : \E p, w : Applied(s, p, w)
    BY <1>3
  <1> HIDE DEF Applied, Was, Again
  <1>5. ASSUME NEW r \in Requests, NEW s \in Requests, NEW o, NEW v, r # s,
               Won(r, o, v)', Won(s, o, v)'
        PROVE  requests'[r].mutation_id = requests'[s].mutation_id
               /\ requests'[r].mutation_id # None
    <2>1. CASE Applied(r, o, v)
      BY <1>1, <1>3, <1>4, <1>5, <2>1 DEF Was
    <2>2. CASE Applied(s, o, v)
      BY <1>1, <1>3, <1>4, <1>5, <2>2 DEF Was
    <2>3. CASE Was(r, o, v) /\ Was(s, o, v)
      BY <1>5, <2>3 DEF Was, OneWinner
    <2>4. CASE Was(r, o, v) /\ Again(s, o, v)
      BY <1>5, <2>4, NoneAssumption DEF Was, Again, OneWinner
    <2>5. CASE Again(r, o, v) /\ Was(s, o, v)
      BY <1>5, <2>5, NoneAssumption DEF Was, Again, OneWinner
    <2>6. CASE Again(r, o, v) /\ Again(s, o, v)
      BY <1>5, <2>6, NoneAssumption DEF Again, OneWinner
    <2> QED
      BY <1>1, <1>5, <2>1, <2>2, <2>3, <2>4, <2>5, <2>6
  <1>6. ASSUME NEW r \in Requests, NEW m \in MutationIDs, NEW o, NEW v,
               Won(r, o, v)', Kept(m, o, v)'
        PROVE  requests'[r].mutation_id = m
    <2>1. CASE Kept(m, o, v) /\ Was(r, o, v)
      BY <2>1 DEF Was, OneWinner
    <2>2. CASE Kept(m, o, v) /\ Again(r, o, v)
      BY <2>2 DEF Again, OneWinner
    <2>3. CASE \E s \in Requests : Applied(s, o, v) /\ requests[s].mutation_id = m
      BY <1>1, <1>3, <1>4, <1>6, <2>3 DEF Was
    <2>4. CASE Applied(r, o, v)
      BY <1>1, <1>2, <1>3, <1>4, <1>6, <2>4 DEF Was
    <2> QED
      BY <1>1, <1>2, <1>6, <2>1, <2>2, <2>3, <2>4
  <1>7. ASSUME NEW m \in MutationIDs, NEW n \in MutationIDs, NEW o, NEW v,
               Kept(m, o, v)', Kept(n, o, v)'
        PROVE  m = n
    BY <1>2, <1>3, <1>7 DEF OneWinner
  <1> QED
    BY <1>5, <1>6, <1>7 DEF OneWinner

\* DESIGN.md, "Push": two updates that ask for one version of an object are
\* never both accepted, unless they are one intent under one Mutation ID.
THEOREM UpdatesAreNeverLost == Spec => []NoLostUpdate
  <1>1. Init => UpdatesArePast /\ OneWinner
    <2> SUFFICES ASSUME Init PROVE UpdatesArePast /\ OneWinner
      OBVIOUS
    <2>1. \A r \in Requests : \A o, v : ~Won(r, o, v)
      <3>1. \A r \in Requests : requests[r].answer = NoAnswer
        BY DEF Init, ObjectMutationsInit, Unused
      <3>2. NoAnswer.status = 0
        BY DEF NoAnswer, Outcome
      <3> QED
        BY <3>1, <3>2 DEF Won, Answered
    <2>2. \A m \in MutationIDs : \A o, v : ~Kept(m, o, v)
      BY DEF Init, DatabaseInit, Kept
    <2> QED
      BY <2>1, <2>2 DEF UpdatesArePast, OneWinner
  <1>2. OneWinner => NoLostUpdate
    BY DEF OneWinner, NoLostUpdate, Won
  <1> QED
    BY <1>1, <1>2, InitTyped, NextTyped, InitMinted, NextMinted, NextUpdatesPast,
       NextOneWinner, PTL DEF Spec

-----------------------------------------------------------------------------
(* Retries agree                                                            *)

LEMMA CreatedNames ==
    \A o : Outcome(201, "", o, 1).object_id = o
  <1>1. \A e, o : Outcome(201, e, o, 1).object_id = o
    BY DEF Outcome
  <1> QED
    BY <1>1

\* Object o, made in collection c under Mutation ID m, is there as long as c is,
MadeObject(c, o, m) ==
    /\ o \in Objects /\ c \in minted
    /\ c \in collections =>
         /\ objects[o] # None
         /\ objects[o].collection_id = c /\ objects[o].created_by = m

\* request r was told that it made it,
ToldOf(r, c, o, m) ==
    LET q == requests[r] IN
    /\ Answered(r, 201) /\ Kind(q) = "create"
    /\ q.collection_id = c /\ q.answer.object_id = o /\ q.mutation_id = m

\* and this is what m is on record for.
OnRecord(c, o, m) ==
    LET row == mutation_results[m] IN
    /\ row # None /\ row.kind = "create" /\ row.result.status = 201
    /\ row.collection_id = c /\ row.result.object_id = o

CreatesAreThere ==
    /\ \A r \in Requests : \A c, o, m : ToldOf(r, c, o, m) => MadeObject(c, o, m)
    /\ \A m \in MutationIDs : \A c, o : OnRecord(c, o, m) => MadeObject(c, o, m)

\* An object only goes with its collection, and neither comes back.
LEMMA MadeStays ==
    ASSUME Typed, Minted, [Next]_vars, NEW c, NEW o, NEW m, MadeObject(c, o, m)
    PROVE  MadeObject(c, o, m)'
  <1>1. /\ objects \in [Objects -> ObjectRow \cup {None}] /\ minted \subseteq minted'
        /\ \A p \in Objects : objects[p] # None => p \in minted
    BY StepMints DEF Typed, TypeOK, DatabaseTypeOK, Minted
  <1>2. ASSUME NEW r \in Requests, ApplyCreate(r) PROVE MadeObject(c, o, m)'
    <2>1. PICK n \in Objects \ minted :
            objects' = [objects EXCEPT ![n] = objects'[n]] /\ collections' = collections
      BY <1>2, CreateAddsARow
    <2> QED
      BY <1>1, <2>1 DEF MadeObject
  <1>3. ASSUME NEW r \in Requests, ApplyUpdate(r) \/ ApplyDelete(r) PROVE MadeObject(c, o, m)'
    <2>1. PICK e \in Objects :
            /\ objects' = [objects EXCEPT ![e] = objects'[e]]
            /\ objects'[e] # None /\ objects'[e].collection_id = objects[e].collection_id
            /\ objects'[e].created_by = objects[e].created_by
            /\ collections' = collections
      BY <1>3, EditChangesARow
    <2> QED
      BY <1>1, <2>1 DEF MadeObject
  <1>4. CASE ClaimCollection
    BY <1>1, <1>4 DEF ClaimCollection, MadeObject
  <1>5. ASSUME NEW d \in Collections, DeleteCollection(d) PROVE MadeObject(c, o, m)'
    BY <1>1, <1>5 DEF DeleteCollection, MadeObject
  <1>6. CASE Quiet
    BY <1>1, <1>6 DEF Quiet, MadeObject
  <1> QED
    BY <1>2, <1>3, <1>4, <1>5, <1>6, StepCases

\* A create that is applied tells of the object it makes, and records it.
LEMMA CreateMakes ==
    ASSUME Typed, Minted, CollectionsMinted, [Next]_vars,
           NEW r \in Requests, ApplyCreate(r), NEW c, NEW m,
           requests[r].collection_id = c, requests[r].mutation_id = m
    PROVE  \E o \in Objects :
             /\ MadeObject(c, o, m)' /\ requests'[r].answer.object_id = o
             /\ m # None => mutation_results'[m].result.object_id = o
  <1>1. PICK o \in Objects \ minted :
          /\ objects' = [objects EXCEPT ![o] = objects'[o]]
          /\ objects'[o] # None /\ objects'[o].collection_id = c
          /\ objects'[o].created_by = m /\ c \in collections
          /\ SaveResult(requests[r], Outcome(201, "", o, 1), o)
          /\ Respond(r, requests[r], Outcome(201, "", o, 1))
    BY CreateAddsARow
  <1>2. MadeObject(c, o, m)'
    BY <1>1, StepMints DEF MadeObject, CollectionsMinted
  <1>3. requests'[r].answer.object_id = o
    <2>1. \A answer : Respond(r, requests[r], answer) => requests'[r].answer = answer
      BY RespondSets
    <2>2. requests'[r].answer = Outcome(201, "", o, 1)
      BY <1>1, <2>1, Zenon
    <2> QED
      BY <2>2, CreatedNames, Zenon
  <1>4. ASSUME m # None PROVE mutation_results'[m].result.object_id = o
    <2>1. Records(mutation_results'[m], c, o)
      BY <1>1, <1>4, CreateRecords
    <2> QED
      BY <2>1, CreatedNames, Zenon DEF Records
  <1> QED
    BY <1>1, <1>2, <1>3, <1>4

LEMMA NextThere ==
    Typed /\ Minted /\ CollectionsMinted /\ CreatesAreThere /\ [Next]_vars => CreatesAreThere'
  <1> SUFFICES ASSUME Typed, Minted, CollectionsMinted, CreatesAreThere, [Next]_vars
               PROVE  CreatesAreThere'
    OBVIOUS
  <1>1. ASSUME NEW r \in Requests, NEW c, NEW o, NEW m, ToldOf(r, c, o, m)'
        PROVE  MadeObject(c, o, m)'
    <2> DEFINE q == requests[r]
    <2>1. /\ requests'[r].pc = "idle" /\ requests'[r].answer.status = 201
          /\ Kind(requests'[r]) = "create" /\ requests'[r].collection_id = c
          /\ requests'[r].answer.object_id = o /\ requests'[r].mutation_id = m
      BY <1>1 DEF ToldOf, Answered
    <2>2. requests'[r].op \in Mutations
      BY <2>1, KindOfOp DEF Mutations
    <2>3. CASE requests'[r] = requests[r]
      <3>1. ToldOf(r, c, o, m)
        BY <2>1, <2>3 DEF ToldOf, Answered
      <3> QED
        BY <3>1, MadeStays DEF CreatesAreThere
    <2>4. CASE Decided(r)
      <3>1. PICK result \in Result, p \in Objects \cup {None} : Respond(r, q, result)
        BY <2>4, DecidedSaves
      <3>2. /\ requests'[r].op = q.op /\ q.collection_id = c /\ q.mutation_id = m
        BY <2>1, <3>1, RespondSets
      <3>3. Kind(q) = "create"
        BY <2>1, <3>2, KindOfOp
      <3>4. ApplyCreate(r)
        BY <2>4, <3>3 DEF Decided, ApplyUpdate, ApplyDelete, RedeleteTombstone
      <3> QED
        BY <2>1, <3>2, <3>4, CreateMakes
    <2>5. CASE Replayed(r)
      <3>1. /\ Respond(r, q, mutation_results[q.mutation_id].result)
            /\ Recorded(q) /\ ~Mismatched(q)
        BY <2>5 DEF Replayed
      <3>6. /\ requests'[r].op = q.op /\ requests'[r].collection_id = q.collection_id
            /\ requests'[r].mutation_id = q.mutation_id
            /\ requests'[r].answer = mutation_results[q.mutation_id].result
        BY <3>1, RespondSets
      <3>2. /\ requests'[r].op = q.op /\ q.collection_id = c /\ q.mutation_id = m
            /\ requests'[r].answer = mutation_results[m].result
        BY <2>1, <3>6
      <3>3. Kind(q) = "create"
        BY <2>1, <3>2, KindOfOp
      <3>4. m \in MutationIDs
        BY <3>1, <3>2 DEF Recorded, Typed, TypeOK, ObjectMutationsTypeOK, RequestState
      <3>5. OnRecord(c, o, m)
        BY <2>1, <3>1, <3>2, <3>3 DEF OnRecord, Recorded, Mismatched, Matches
      <3> QED
        BY <3>4, <3>5, MadeStays DEF CreatesAreThere
    <2> QED
      BY <2>1, <2>2, <2>3, <2>4, <2>5, AnswerSteps
  <1>2. ASSUME NEW m \in MutationIDs, NEW c, NEW o, OnRecord(c, o, m)'
        PROVE  MadeObject(c, o, m)'
    <2>1. CASE mutation_results'[m] = mutation_results[m]
      <3>1. OnRecord(c, o, m)
        BY <1>2, <2>1 DEF OnRecord
      <3> QED
        BY <3>1, MadeStays DEF CreatesAreThere
    <2>2. ASSUME NEW r \in Requests, Decided(r), requests[r].mutation_id = m
          PROVE  MadeObject(c, o, m)'
      <3> DEFINE q == requests[r]
      <3>1. PICK result \in Result, p \in Objects \cup {None} : SaveResult(q, result, p)
        BY <2>2, DecidedSaves
      <3>2. Owns(r) /\ m # None
        BY <2>2, NoneAssumption DEF Decided, ApplyCreate, ApplyUpdate, ApplyDelete, RedeleteTombstone
      <3>3. mutation_results'[m].kind = Kind(q) /\ mutation_results'[m].collection_id = q.collection_id
        BY <2>2, <3>1, <3>2, SavedRow
      <3>4. Kind(q) = "create" /\ q.collection_id = c /\ mutation_results'[m].result.object_id = o
        BY <1>2, <3>3 DEF OnRecord
      <3>5. ApplyCreate(r)
        BY <2>2, <3>4 DEF Decided, ApplyUpdate, ApplyDelete, RedeleteTombstone
      <3> QED
        BY <2>2, <3>2, <3>4, <3>5, CreateMakes
    <2> QED
      BY <1>2, <2>1, <2>2, ResultSteps DEF OnRecord
  <1> QED
    BY <1>1, <1>2 DEF CreatesAreThere

\* Two successful answers to one create intent name the same object, which is
\* there as long as its collection is: no retry duplicates a note, and no
\* acknowledged create is lost.
THEOREM RetriesAlwaysAgree == Spec => []RetriesAgree
  <1>1. Init => CreatesAreThere /\ CreatesAreRecorded /\ CollectionsMinted
    <2> SUFFICES ASSUME Init PROVE CreatesAreThere /\ CreatesAreRecorded /\ CollectionsMinted
      OBVIOUS
    <2>1. \A r \in Requests : \A c, o, m : ~ToldOf(r, c, o, m)
      <3>1. \A r \in Requests : requests[r].answer = NoAnswer
        BY DEF Init, ObjectMutationsInit, Unused
      <3>2. NoAnswer.status = 0
        BY DEF NoAnswer, Outcome
      <3> QED
        BY <3>1, <3>2 DEF ToldOf, Answered
    <2>2. \A m \in MutationIDs : \A c, o : ~OnRecord(c, o, m)
      BY DEF Init, DatabaseInit, OnRecord
    <2>3. CreatesAreRecorded /\ CollectionsMinted
      BY DEF Init, DatabaseInit, CreatesAreRecorded, CollectionsMinted
    <2> QED
      BY <2>1, <2>2, <2>3 DEF CreatesAreThere
  <1>2. CreatesAreThere /\ CreatesAreRecorded => RetriesAgree
    <2> SUFFICES ASSUME CreatesAreThere, CreatesAreRecorded,
                        NEW r \in Requests, NEW s \in Requests,
                        Answered(r, 201), Kind(requests[r]) = "create",
                        requests[r].collection_id \in collections
                 PROVE  /\ objects[requests[r].answer.object_id] # None
                        /\ /\ Answered(s, 201) /\ Kind(requests[s]) = "create"
                           /\ requests[s].mutation_id = requests[r].mutation_id
                           /\ requests[r].mutation_id # None
                           /\ requests[s].collection_id = requests[r].collection_id
                           => requests[s].answer.object_id = requests[r].answer.object_id
      BY DEF RetriesAgree
    <2> DEFINE c == requests[r].collection_id
               m == requests[r].mutation_id
               o == requests[r].answer.object_id
               n == requests[s].answer.object_id
    <2>1. MadeObject(c, o, m)
      BY DEF CreatesAreThere, ToldOf
    <2>2. ASSUME Answered(s, 201), Kind(requests[s]) = "create",
                 requests[s].mutation_id = m, m # None, requests[s].collection_id = c
          PROVE  n = o
      <3>1. MadeObject(c, n, m)
        BY <2>2 DEF CreatesAreThere, ToldOf
      <3>2. Records(mutation_results[m], c, o) /\ Records(mutation_results[m], c, n)
        BY <2>1, <2>2, <3>1 DEF MadeObject, CreatesAreRecorded
      <3>3. Outcome(201, "", o, 1) = Outcome(201, "", n, 1)
        BY <3>2 DEF Records
      <3>4. Outcome(201, "", o, 1).object_id = o /\ Outcome(201, "", n, 1).object_id = n
        BY CreatedNames
      <3> HIDE DEF o, n
      <3> QED
        BY <3>3, <3>4, Zenon
    <2> QED
      BY <2>1, <2>2 DEF MadeObject
  <1> QED
    BY <1>1, <1>2, InitTyped, NextTyped, InitMinted, NextMinted, NextCollections,
       NextRecorded, NextThere, PTL DEF Spec

-----------------------------------------------------------------------------
(* The bytes behind collection contents                                     *)

\* Stages at which a request may go on to claim the blob it names.
Naming == {"prepare", "reserve", "tx"}

\* Somebody may claim k: a client that was told of it, or a request.
Told(k) == k \in known \/ \E r \in Requests : requests[r].pc \in Naming /\ requests[r].blob_key = k

\* What a handler that moves on still names.
LEMMA ContinueSets ==
    ASSUME Typed, NEW r \in Requests, NEW q \in RequestState, NEW pc, Continue(r, q, pc)
    PROVE  requests'[r].pc = pc /\ requests'[r].blob_key = q.blob_key
  <1> DEFINE p == [q EXCEPT !.pc = pc]
  <1>1. p.pc = pc /\ p.blob_key = q.blob_key
    BY DEF RequestState
  <1>2. requests'[r] = p
    BY DEF Typed, TypeOK, ObjectMutationsTypeOK, Continue
  <1> QED
    BY <1>1, <1>2

\* A transaction that decides answers.
LEMMA TransactionAnswers ==
    ASSUME Typed, NEW r \in Requests, MutationTransaction(r)
    PROVE  \E answer : Respond(r, requests[r], answer)
  BY DEF MutationTransaction, AnswerMismatch, AnswerStored, RefuseNotFound, RefuseConflict,
         RefuseNotStaged, ApplyCreate, ApplyUpdate, ApplyDelete, RedeleteTombstone, Decline

\* A request names a blob that is known, that it named before, or that it has
\* just written.
LEMMA HandlerTells ==
    ASSUME Typed, [Next]_vars, NEW r \in Requests, HandlerStep(r), NEW k \in Blobs,
           requests'[r].pc \in Naming, requests'[r].blob_key = k
    PROVE  Told(k) \/ k \in files'
  <1>1. requests \in [Requests -> RequestState] /\ requests[r] \in RequestState
    BY DEF Typed, TypeOK, ObjectMutationsTypeOK
  <1>2. requests' \in [Requests -> RequestState]
    BY NextTyped DEF Typed, TypeOK, ObjectMutationsTypeOK
  <1>3. ASSUME NEW answer, Respond(r, requests[r], answer) PROVE FALSE
    BY <1>3, RespondSets DEF Naming
  <1>4. ~Stage(r)
    <2> SUFFICES ASSUME NEW n, NEW p, StageRow(r, p, n) PROVE FALSE
      BY DEF Stage
    <2> DEFINE moved == [p EXCEPT !.pc = "put", !.blob_key = n]
    <2>1. requests'[r] = moved
      BY <1>1 DEF StageRow
    <2>2. "pc" \in DOMAIN moved
      <3>1. moved \in RequestState
        BY <1>2, <2>1
      <3> HIDE DEF moved
      <3> QED
        BY <3>1 DEF RequestState
    <2>3. moved.pc = "put"
      BY <2>2
    <2> QED
      BY <2>1, <2>3 DEF Naming
  <1>5. CASE Put(r)
    <2>1. PICK pc : Continue(r, requests[r], pc)
      BY <1>3, <1>5 DEF Put
    <2> QED
      BY <1>1, <1>5, <2>1, ContinueSets DEF Put, WriteFile
  <1>6. CASE Prepare(r)
    <2> DEFINE ops == {"create", "create-inline", "update", "delete"}
    <2>1. PICK q \in Arriving(r, ops) \cup {p \in {requests[r]} : p.pc = "prepare"} :
            \E pc : Continue(r, q, pc) \/ Continue(r, [q EXCEPT !.prepared = TRUE], pc)
      BY <1>6 DEF Prepare
    <2>2. q.blob_key = k => Told(k)
      <3>1. CASE q \in Arriving(r, ops)
        <4>1. PICK op \in ops : q \in Submitted(op)
          BY <3>1 DEF Arriving
        <4>2. q.blob_key \in known \cup {None}
          BY <4>1 DEF Submitted
        <4> QED
          BY <4>2, NoneAssumption DEF Told
      <3>2. CASE q = requests[r] /\ q.pc = "prepare"
        BY <3>2 DEF Told, Naming
      <3> QED
        BY <2>1, <3>1, <3>2
    <2>3. q \in RequestState
      <3>1. ASSUME NEW op \in ops, op \in Operations, q \in Submitted(op) PROVE q \in RequestState
        <4>1. op \in AllOperations \cap Mutations
          BY <3>1 DEF AllOperations, Mutations, Creates, Updates
        <4> QED
          BY <3>1, <4>1, SubmittedTyped DEF Typed
      <3>2. CASE q \in Arriving(r, ops)
        BY <3>1, <3>2 DEF Arriving
      <3> QED
        BY <1>1, <2>1, <3>2
    <2>4. [q EXCEPT !.prepared = TRUE] \in RequestState
          /\ [q EXCEPT !.prepared = TRUE].blob_key = q.blob_key
      BY <2>3 DEF RequestState
    <2> QED
      BY <2>1, <2>2, <2>3, <2>4, ContinueSets
  <1>7. CASE ReserveReplay(r)
    <2>1. Continue(r, requests[r], Reserved(requests[r])) /\ requests[r].pc = "reserve"
      BY <1>3, <1>7 DEF ReserveReplay
    <2> QED
      BY <1>1, <2>1, ContinueSets DEF Told, Naming
  <1>8. ~MutationTransaction(r)
    BY <1>3, TransactionAnswers
  <1>9. ~DeleteBlobRow(r)
    <2> SUFFICES ASSUME DeleteBlobRow(r) PROVE FALSE
      OBVIOUS
    <2>1. PICK n, answer :
            \/ requests' = [requests EXCEPT ![r] =
                 [[Unused EXCEPT !.op = "delete-blob"] EXCEPT
                    !.pc = "idle", !.blob_key = None, !.prepared = FALSE, !.answer = answer]]
            \/ requests' = [requests EXCEPT ![r] =
                 [Unused EXCEPT !.pc = "unlink", !.op = "delete-blob", !.blob_key = n]]
      BY ZenonT(60) DEF DeleteBlobRow, Respond
    <2>2. /\ [[Unused EXCEPT !.op = "delete-blob"] EXCEPT !.pc = "idle", !.blob_key = None,
                                           !.prepared = FALSE, !.answer = answer].pc = "idle"
          /\ [Unused EXCEPT !.pc = "unlink", !.op = "delete-blob", !.blob_key = n].pc = "unlink"
      BY DEF Unused
    <2>3. requests'[r].pc \in {"idle", "unlink"}
      BY <1>1, <2>1, <2>2
    <2> QED
      BY <2>3 DEF Naming
  <1>10. ~Unlink(r)
    BY <1>3 DEF Unlink
  <1>11. ~Abort(r)
    BY <1>1 DEF Abort, Unused, Naming
  <1> QED
    BY <1>4, <1>5, <1>6, <1>7, <1>8, <1>9, <1>10, <1>11 DEF HandlerStep

\* Clients are told of blobs that are written, or by whom they were told.
LEMMA KnownSteps ==
    ASSUME Typed, [Next]_vars
    PROVE  known \subseteq known' /\ \A k \in known' : Told(k) \/ k \in files'
  <1>1. CASE known' = known
    BY <1>1 DEF Told
  <1>2. ASSUME NEW r \in Requests, Put(r) PROVE known' = known \/ known' = known \cup {requests[r].blob_key}
    BY <1>2 DEF Put
  <1>3. ASSUME NEW r \in Requests, Put(r) PROVE requests[r].blob_key \in files'
    BY <1>3 DEF Put, WriteFile
  <1>4. ASSUME NEW r \in Requests, ApplyCreate(r) \/ ApplyUpdate(r)
        PROVE  known' = known \cup {requests[r].blob_key} /\ Told(requests[r].blob_key)
    BY <1>4 DEF ApplyCreate, ApplyUpdate, Owns, Told, Naming
  <1>5. ASSUME NEW r \in Requests, HandlerStep(r), ~Put(r), ~ApplyCreate(r), ~ApplyUpdate(r)
        PROVE  known' = known
    <2>1. ASSUME NEW result, Decline(r, result) PROVE known' = known
      BY <2>1 DEF Decline
    <2>2. CASE RefuseNotFound(r) \/ RefuseConflict(r) \/ RefuseNotStaged(r) \/ RedeleteTombstone(r)
      BY <2>1, <2>2 DEF RefuseNotFound, RefuseConflict, RefuseNotStaged, RedeleteTombstone
    <2>3. CASE AnswerMismatch(r) \/ AnswerStored(r) \/ ApplyDelete(r)
      BY <2>3 DEF AnswerMismatch, AnswerStored, ApplyDelete
    <2>4. CASE Stage(r) \/ Prepare(r) \/ ReserveReplay(r)
      BY <2>4 DEF Stage, StageRow, Prepare, ReserveReplay
    <2>5. CASE DeleteBlobRow(r) \/ Unlink(r) \/ Abort(r)
      BY <2>5 DEF DeleteBlobRow, Unlink, Abort
    <2> QED
      BY <1>5, <2>2, <2>3, <2>4, <2>5 DEF HandlerStep, MutationTransaction
  <1>6. known' = known \/ \E r \in Requests : HandlerStep(r)
    BY DEF Next, vars, RequestStep, ClaimCollection, DeleteCollection
  <1> QED
    BY <1>1, <1>2, <1>3, <1>4, <1>5, <1>6 DEF Told

\* So a step tells of no blob but those.
LEMMA ToldSteps ==
    ASSUME Typed, [Next]_vars, NEW k \in Blobs, Told(k)'
    PROVE  Told(k) \/ k \in files'
  <1>1. CASE k \in known'
    BY <1>1, KnownSteps
  <1>2. CASE requests' = requests
    BY <1>1, <1>2 DEF Told
  <1>3. ASSUME NEW r \in Requests, HandlerStep(r), k \notin known'
        PROVE  Told(k) \/ k \in files'
    <2>1. PICK p : requests' = [requests EXCEPT ![r] = p]
      BY <1>3, HandlerMoves
    <2>2. PICK s \in Requests : requests'[s].pc \in Naming /\ requests'[s].blob_key = k
      BY <1>3 DEF Told
    <2>3. CASE s = r
      BY <1>1, <1>3, <2>2, <2>3, HandlerTells
    <2>4. CASE s # r
      <3>1. requests'[s] = requests[s]
        BY <2>1, <2>4 DEF Typed, TypeOK, ObjectMutationsTypeOK
      <3> QED
        BY <1>1, <2>2, <3>1 DEF Told
    <2> QED
      BY <2>3, <2>4
  <1>4. requests' = requests \/ \E r \in Requests : HandlerStep(r)
    BY DEF Next, vars, RequestStep, ClaimCollection, DeleteCollection
  <1> QED
    BY <1>1, <1>2, <1>3, <1>4

-----------------------------------------------------------------------------

\* Blobs that collection contents use are known.
UsedAreKnown ==
    \A k \in Blobs : InState(k, "claimed") \/ InState(k, "retained") => k \in known

\* A claim is the claim of a transaction's blob.
LEMMA ClaimSteps ==
    ASSUME Typed, Minted, [Next]_vars, NEW k \in Blobs, Becomes(k, "claimed")
    PROVE  \/ InState(k, "claimed") /\ blob_ledger'[k] = blob_ledger[k]
           \/ \E r \in Requests :
                /\ ApplyCreate(r) \/ ApplyUpdate(r)
                /\ requests[r].blob_key = k /\ Claimable(k)
  <1>1. blob_ledger \in [Blobs -> LedgerRow \cup {None}]
    BY DEF Typed, TypeOK, DatabaseTypeOK
  <1>2. CASE blob_ledger'[k] = blob_ledger[k]
    BY <1>2 DEF Becomes, InState
  <1>3. CASE InState(k, "staged") /\ blob_ledger'[k] # blob_ledger[k]
    <2>1. ASSUME NEW r \in Requests, ApplyCreate(r)
          PROVE  requests[r].blob_key = k /\ Claimable(k)
      BY <1>1, <1>3, <2>1, ZenonT(60) DEF ApplyCreate, Claim
    <2>2. ASSUME NEW r \in Requests, ApplyUpdate(r)
          PROVE  requests[r].blob_key = k /\ Claimable(k)
      BY <1>1, <1>3, <2>2, ZenonT(60) DEF ApplyUpdate, Claim, Release, InState
    <2>3. ~\E r \in Requests : ApplyDelete(r)
      BY <1>1, <1>3 DEF ApplyDelete, Release, InState
    <2>4. ~ClaimCollection
      BY <1>3 DEF ClaimCollection
    <2>5. ~\E c \in Collections : DeleteCollection(c)
      BY <1>3 DEF DeleteCollection, LedgerWithout, InState
    <2>6. ~Quiet
      <3>1. StagedRow.state = "staged"
        BY DEF StagedRow
      <3> QED
        BY <1>3, <3>1 DEF Quiet, QuietRow, Becomes
    <2> QED
      BY <2>1, <2>2, <2>3, <2>4, <2>5, <2>6, StepCases, SMTT(30)
  <1> QED
    BY <1>2, <1>3, StepMoves DEF LedgerMove, Becomes, InState

\* UsedAreKnown is inductive.
LEMMA NextUsed ==
    Typed /\ Minted /\ UsedAreKnown /\ [Next]_vars => UsedAreKnown'
  <1> SUFFICES ASSUME Typed, Minted, UsedAreKnown, [Next]_vars, NEW k \in Blobs,
                      InState(k, "claimed")' \/ InState(k, "retained")'
               PROVE  k \in known'
    BY DEF UsedAreKnown
  <1>1. known \subseteq known'
    BY KnownSteps
  <1>2. CASE InState(k, "claimed") \/ InState(k, "retained")
    BY <1>1, <1>2 DEF UsedAreKnown
  <1>3. CASE Becomes(k, "claimed")
    <2>1. ASSUME NEW r \in Requests, ApplyCreate(r) \/ ApplyUpdate(r), requests[r].blob_key = k
          PROVE  k \in known'
      BY <2>1 DEF ApplyCreate, ApplyUpdate
    <2> QED
      BY <1>2, <1>3, <2>1, ClaimSteps
  <1>4. CASE Becomes(k, "retained")
    BY <1>2, <1>4, StepMoves DEF LedgerMove, Becomes, InState
  <1> QED
    BY <1>3, <1>4 DEF InState, Becomes

-----------------------------------------------------------------------------

\* One process runs maintenance, and no client deletes blobs: a blob's bytes
\* are then safe.  With two maintainers, or with DELETE on blobs, they are not.
OneMaintainer == \A s, t \in Maintainers : s = t
BlobsAreKept == "delete-blob" \notin Operations

\* A blob that somebody may claim has its bytes if it has a row.
ToldHaveBytes == \A k \in Blobs : Told(k) /\ blob_ledger[k] # None => k \in files

\* The file a job is about to adopt is there, and the one it is about to remove
\* has no row.
JobsHold ==
    \A s \in Maintainers :
        /\ maintenance[s].pc = "adopt" => maintenance[s].key \in files
        /\ maintenance[s].pc = "remove" =>
             maintenance[s].key \in Blobs /\ blob_ledger[maintenance[s].key] = None

NobodyUnlinks == \A r \in Requests : requests[r].pc # "unlink"

\* What a handler's step leaves of rows and files.
LEMMA HandlerKeepsBytes ==
    ASSUME Typed, Minted, [Next]_vars, NEW r \in Requests, HandlerStep(r), ~Unlink(r)
    PROVE  /\ files \subseteq files'
           /\ \A k \in Blobs : blob_ledger[k] = None /\ blob_ledger'[k] # None => k \notin minted
  <1>1. blob_ledger \in [Blobs -> LedgerRow \cup {None}]
    BY DEF Typed, TypeOK, DatabaseTypeOK
  <1>2. CASE Stage(r)
    BY <1>1, <1>2 DEF Stage, StageRow
  <1>3. CASE Put(r)
    BY <1>3 DEF Put, WriteFile
  <1>4. CASE Prepare(r) \/ ReserveReplay(r) \/ Abort(r) \/ AnswerMismatch(r) \/ AnswerStored(r)
    BY <1>4 DEF Prepare, ReserveReplay, Abort, AnswerMismatch, AnswerStored, database
  <1>5. CASE RefuseNotFound(r) \/ RefuseConflict(r) \/ RefuseNotStaged(r) \/ RedeleteTombstone(r)
    <2>1. \E result : Decline(r, result)
      BY <1>5, ZenonT(60) DEF RefuseNotFound, RefuseConflict, RefuseNotStaged, RedeleteTombstone
    <2> QED
      BY <2>1 DEF Decline
  <1>6. CASE ApplyCreate(r)
    BY <1>1, <1>6, ZenonT(60) DEF ApplyCreate, Claim, Claimable, InState
  <1>7. CASE ApplyUpdate(r)
    BY <1>1, <1>7 DEF ApplyUpdate, Claim, Release, Claimable, InState
  <1>8. CASE ApplyDelete(r)
    BY <1>1, <1>8 DEF ApplyDelete, Release
  <1>9. CASE DeleteBlobRow(r)
    BY <1>1, <1>9 DEF DeleteBlobRow
  <1> QED
    BY <1>2, <1>3, <1>4, <1>5, <1>6, <1>7, <1>8, <1>9 DEF HandlerStep, MutationTransaction

\* Only the deletion of a blob leads a handler to an unlink.
LEMMA HandlerUnlinks ==
    ASSUME Typed, [Next]_vars, NEW r \in Requests, HandlerStep(r), BlobsAreKept
    PROVE  requests'[r].pc # "unlink"
  <1>1. requests \in [Requests -> RequestState] /\ requests[r] \in RequestState
    BY DEF Typed, TypeOK, ObjectMutationsTypeOK
  <1>2. requests' \in [Requests -> RequestState]
    BY NextTyped DEF Typed, TypeOK, ObjectMutationsTypeOK
  <1>3. ASSUME NEW answer, Respond(r, requests[r], answer) PROVE requests'[r].pc # "unlink"
    BY <1>3, RespondSets
  <1>4. ASSUME NEW p, NEW pc, Continue(r, p, pc) PROVE requests'[r].pc = pc
    <2> DEFINE moved == [p EXCEPT !.pc = pc]
    <2>1. requests'[r] = moved
      BY <1>1, <1>4 DEF Continue
    <2>2. "pc" \in DOMAIN moved
      <3>1. moved \in RequestState
        BY <1>2, <2>1
      <3> HIDE DEF moved
      <3> QED
        BY <3>1 DEF RequestState
    <2>3. moved.pc = pc
      BY <2>2
    <2> QED
      BY <2>1, <2>3
  <1>5. CASE Stage(r)
    <2> SUFFICES ASSUME NEW n, NEW p, StageRow(r, p, n) PROVE requests'[r].pc = "put"
      BY <1>5 DEF Stage
    <2> DEFINE moved == [p EXCEPT !.pc = "put", !.blob_key = n]
    <2>1. requests'[r] = moved
      BY <1>1 DEF StageRow
    <2>2. "pc" \in DOMAIN moved
      <3>1. moved \in RequestState
        BY <1>2, <2>1
      <3> HIDE DEF moved
      <3> QED
        BY <3>1 DEF RequestState
    <2>3. moved.pc = "put"
      BY <2>2
    <2> QED
      BY <2>1, <2>3
  <1>6. CASE Put(r)
    BY <1>3, <1>4, <1>6 DEF Put
  <1>7. CASE Prepare(r)
    <2>1. \E p, pc : Continue(r, p, pc) /\ pc # "unlink"
      BY <1>7 DEF Prepare, Reserved
    <2> QED
      BY <1>4, <2>1
  <1>8. CASE ReserveReplay(r)
    <2>1. Reserved(requests[r]) # "unlink"
      BY DEF Reserved
    <2> QED
      BY <1>3, <1>4, <1>8, <2>1 DEF ReserveReplay
  <1>9. CASE MutationTransaction(r)
    BY <1>3, <1>9, TransactionAnswers
  <1>10. ~DeleteBlobRow(r)
    BY DEF DeleteBlobRow, BlobsAreKept
  <1>11. CASE Unlink(r)
    BY <1>3, <1>11 DEF Unlink
  <1>12. CASE Abort(r)
    BY <1>1, <1>12 DEF Abort, Unused
  <1> QED
    BY <1>5, <1>6, <1>7, <1>8, <1>9, <1>10, <1>11, <1>12 DEF HandlerStep

\* Handlers keep every part.
LEMMA HandlerBytes ==
    ASSUME Typed, Minted, ToldHaveBytes, JobsHold, NobodyUnlinks, BlobsAreKept, [Next]_vars,
           NEW r \in Requests, HandlerStep(r), UNCHANGED maintenance
    PROVE  ToldHaveBytes' /\ JobsHold' /\ NobodyUnlinks'
  <1>1. /\ files \subseteq files'
        /\ \A k \in Blobs : blob_ledger[k] = None /\ blob_ledger'[k] # None => k \notin minted
    BY HandlerKeepsBytes DEF Unlink, NobodyUnlinks
  <1>2. ToldHaveBytes'
    <2> SUFFICES ASSUME NEW k \in Blobs, Told(k)', blob_ledger'[k] # None, k \notin files'
                 PROVE  FALSE
      BY DEF ToldHaveBytes
    <2>1. Told(k)
      BY ToldSteps
    <2>2. k \in minted
      BY <2>1, NoneAssumption DEF Told, Minted
    <2> QED
      BY <1>1, <2>1, <2>2 DEF ToldHaveBytes
  <1>3. JobsHold'
    <2> SUFFICES ASSUME NEW s \in Maintainers
                 PROVE  /\ maintenance[s].pc = "adopt" => maintenance[s].key \in files'
                        /\ maintenance[s].pc = "remove" =>
                             maintenance[s].key \in Blobs /\ blob_ledger'[maintenance[s].key] = None
      BY DEF JobsHold
    <2>1. maintenance[s].pc = "remove" => maintenance[s].key \in minted
      BY NoneAssumption DEF Minted, JobsHold
    <2> QED
      BY <1>1, <2>1 DEF JobsHold
  <1>4. NobodyUnlinks'
    <2>1. PICK p : requests' = [requests EXCEPT ![r] = p]
      BY HandlerMoves
    <2> QED
      BY <2>1, HandlerUnlinks DEF NobodyUnlinks, Typed, TypeOK, ObjectMutationsTypeOK
  <1> QED
    BY <1>2, <1>3, <1>4

\* A job that enters a stage is there.
LEMMA EnterSets ==
    ASSUME MaintenanceTypeOK, NEW s \in Maintainers, NEW pc, NEW todo, Enter(s, pc, todo)
    PROVE  maintenance'[s].pc = pc
  <1>1. maintenance'[s] = [Resting EXCEPT !.pc = pc, !.todo = todo]
    BY DEF MaintenanceTypeOK, Enter
  <1> QED
    BY <1>1 DEF Resting

\* So do jobs, when one process runs them.
LEMMA JobBytes ==
    ASSUME Typed, ToldHaveBytes, JobsHold, OneMaintainer, NEW s \in Maintainers,
           JobStep(s) \/ Fault(s), UNCHANGED <<known, requests>>
    PROVE  ToldHaveBytes' /\ JobsHold'
  <1> DEFINE m == maintenance[s]
  <1>1. /\ maintenance \in [Maintainers -> MaintainerState] /\ m \in MaintainerState
        /\ MaintenanceTypeOK /\ files \subseteq Blobs
        /\ blob_ledger \in [Blobs -> LedgerRow \cup {None}]
        /\ \A t \in Maintainers : t = s
    BY DEF Typed, TypeOK, MaintenanceTypeOK, OneMaintainer, DatabaseTypeOK
  <1>2. ASSUME maintenance'[s].pc \notin {"adopt", "remove"}, UNCHANGED <<blob_ledger, files>>
        PROVE  ToldHaveBytes' /\ JobsHold'
    BY <1>1, <1>2 DEF ToldHaveBytes, JobsHold, Told
  <1>3. ASSUME NEW pc, pc \notin {"adopt", "remove"}, NEW todo, Enter(s, pc, todo),
               UNCHANGED <<blob_ledger, files>>
        PROVE  ToldHaveBytes' /\ JobsHold'
    BY <1>1, <1>2, <1>3, EnterSets
  <1>4. CASE StartWalk(s)
    BY <1>3, <1>4 DEF StartWalk, database
  <1>5. CASE Stat(s)
    <2>1. PICK k \in m.todo :
            \/ k \in files /\ maintenance'[s] = [m EXCEPT !.pc = "adopt", !.todo = @ \ {k}, !.key = k]
            \/ Enter(s, "expire-pending", {})
      BY <1>1, <1>5 DEF Stat
    <2>2. UNCHANGED <<blob_ledger, files>>
      BY <1>5 DEF Stat, database
    <2>3. CASE maintenance'[s] = [m EXCEPT !.pc = "adopt", !.todo = @ \ {k}, !.key = k] /\ k \in files
      <3>1. maintenance'[s].pc = "adopt" /\ maintenance'[s].key = k
        BY <1>1, <2>3 DEF MaintainerState
      <3> QED
        BY <1>1, <2>2, <2>3, <3>1 DEF ToldHaveBytes, JobsHold, Told
    <2> QED
      BY <1>3, <2>1, <2>2, <2>3
  <1>6. CASE Adopt(s)
    <2>1. m.key \in files /\ files' = files /\ maintenance'[s].pc = "walk"
      BY <1>1, <1>6, EnterSets DEF Adopt, JobsHold
    <2>2. \A k \in Blobs : k # m.key => blob_ledger'[k] = blob_ledger[k]
      BY <1>1, <1>6 DEF Adopt
    <2> QED
      BY <1>1, <2>1, <2>2 DEF ToldHaveBytes, JobsHold, Told
  <1>7. CASE EndWalk(s)
    BY <1>3, <1>7 DEF EndWalk, database
  <1>8. CASE ExpirePending(s)
    BY <1>3, <1>8 DEF ExpirePending
  <1>9. CASE ExpireOther(s)
    BY <1>3, <1>9 DEF ExpireOther
  <1>10. CASE ListEligible(s)
    BY <1>3, <1>10 DEF ListEligible, database
  <1>11. CASE PurgeRow(s)
    <2>1. files' = files
      BY <1>11 DEF PurgeRow
    <2>2. PICK k \in m.todo :
            \/ /\ blob_ledger' = [blob_ledger EXCEPT ![k] = None]
               /\ maintenance' = [maintenance EXCEPT ![s] =
                    [pc |-> "remove", todo |-> m.todo \ {k}, key |-> k, purged |-> TRUE]]
            \/ /\ maintenance' = [maintenance EXCEPT ![s].todo = @ \ {k}]
               /\ UNCHANGED blob_ledger
      BY <1>11 DEF PurgeRow
    <2>3. k \in Blobs /\ m.pc = "purge"
      BY <1>1, <1>11 DEF MaintainerState, PurgeRow
    <2>4. CASE /\ blob_ledger' = [blob_ledger EXCEPT ![k] = None]
               /\ maintenance' = [maintenance EXCEPT ![s] =
                    [pc |-> "remove", todo |-> m.todo \ {k}, key |-> k, purged |-> TRUE]]
      <3>1. maintenance'[s].pc = "remove" /\ maintenance'[s].key = k /\ blob_ledger'[k] = None
        BY <1>1, <2>3, <2>4
      <3>2. \A n \in Blobs : blob_ledger'[n] # None => blob_ledger'[n] = blob_ledger[n]
        BY <1>1, <2>3, <2>4
      <3>3. ToldHaveBytes'
        BY <2>1, <3>2 DEF ToldHaveBytes, Told
      <3>4. JobsHold'
        BY <1>1, <2>3, <3>1 DEF JobsHold
      <3> QED
        BY <3>3, <3>4
    <2>5. CASE maintenance' = [maintenance EXCEPT ![s].todo = @ \ {k}] /\ UNCHANGED blob_ledger
      <3>1. maintenance'[s].pc = "purge"
        BY <1>1, <2>3, <2>5 DEF MaintainerState
      <3> QED
        BY <1>2, <2>1, <2>5, <3>1
    <2> QED
      BY <2>2, <2>4, <2>5
  <1>12. CASE RemoveFile(s)
    <2>1. m.pc = "remove" /\ files' = files \ {m.key} /\ UNCHANGED blob_ledger
      BY <1>12 DEF RemoveFile
    <2>2. maintenance'[s].pc = "purge"
      BY <1>1, <1>12 DEF RemoveFile, MaintainerState
    <2>3. blob_ledger[m.key] = None
      BY <2>1 DEF JobsHold
    <2> QED
      BY <1>1, <2>1, <2>2, <2>3 DEF ToldHaveBytes, JobsHold, Told
  <1>13. CASE EndPass(s)
    BY <1>3, <1>13 DEF EndPass, database
  <1>14. CASE Fault(s)
    <2>1. UNCHANGED <<blob_ledger, files>>
      BY <1>14 DEF Fault, database
    <2>2. CASE maintenance' = [maintenance EXCEPT ![s] = [m EXCEPT !.pc = "purge", !.key = None]]
      <3>1. maintenance'[s].pc = "purge"
        BY <1>1, <2>2 DEF MaintainerState
      <3> QED
        BY <1>2, <2>1, <3>1
    <2>3. CASE \E pc \in {"expire-pending", "list", "idle"} : Enter(s, pc, {})
      BY <1>3, <2>1, <2>3
    <2> QED
      BY <1>14, <2>2, <2>3 DEF Fault
  <1> QED
    BY <1>4, <1>5, <1>6, <1>7, <1>8, <1>9, <1>10, <1>11, <1>12, <1>13, <1>14 DEF JobStep

\* Under one maintainer and without DELETE on blobs, all of it is inductive.
LEMMA NextBytes ==
    ASSUME OneMaintainer, BlobsAreKept
    PROVE  Typed /\ Minted /\ ToldHaveBytes /\ JobsHold /\ NobodyUnlinks /\ [Next]_vars =>
             ToldHaveBytes' /\ JobsHold' /\ NobodyUnlinks'
  <1> SUFFICES ASSUME Typed, Minted, ToldHaveBytes, JobsHold, NobodyUnlinks, [Next]_vars
               PROVE  ToldHaveBytes' /\ JobsHold' /\ NobodyUnlinks'
    OBVIOUS
  <1>1. ASSUME NEW r \in Requests, HandlerStep(r), UNCHANGED maintenance
        PROVE  ToldHaveBytes' /\ JobsHold' /\ NobodyUnlinks'
    BY <1>1, HandlerBytes
  <1>2. ASSUME NEW s \in Maintainers, JobStep(s) \/ Fault(s), UNCHANGED <<known, requests>>
        PROVE  ToldHaveBytes' /\ JobsHold' /\ NobodyUnlinks'
    BY <1>2, JobBytes DEF NobodyUnlinks
  <1>3. CASE ClaimCollection /\ UNCHANGED maintenance
    BY <1>3 DEF ClaimCollection, ToldHaveBytes, JobsHold, NobodyUnlinks, Told
  <1>4. ASSUME NEW c \in Collections, DeleteCollection(c), UNCHANGED maintenance
        PROVE  ToldHaveBytes' /\ JobsHold' /\ NobodyUnlinks'
    <2>1. \A k \in Blobs : blob_ledger[k] = None => blob_ledger'[k] = None
      BY <1>4 DEF DeleteCollection, LedgerWithout
    <2> QED
      BY <1>4, <2>1 DEF DeleteCollection, ToldHaveBytes, JobsHold, NobodyUnlinks, Told
  <1>5. CASE Tick /\ UNCHANGED <<known, requests, maintenance>>
    BY <1>5 DEF Tick, ToldHaveBytes, JobsHold, NobodyUnlinks, Told
  <1>6. CASE UNCHANGED vars
    BY <1>6 DEF vars, database, ToldHaveBytes, JobsHold, NobodyUnlinks, Told
  <1> QED
    BY <1>1, <1>2, <1>3, <1>4, <1>5, <1>6 DEF Next, RequestStep

\* A blob that collection contents claim or keep has its bytes, however requests,
\* faults and one process's maintenance interleave, as long as no client deletes
\* blobs.
THEOREM BytesStayBehindContents ==
    ASSUME OneMaintainer, BlobsAreKept
    PROVE  Spec => []BytesBehindContents
  <1>1. Init => ToldHaveBytes /\ JobsHold /\ NobodyUnlinks /\ UsedAreKnown
    <2> SUFFICES ASSUME Init PROVE ToldHaveBytes /\ JobsHold /\ NobodyUnlinks /\ UsedAreKnown
      OBVIOUS
    <2>1. \A k \in Blobs : blob_ledger[k] = None
      BY DEF Init, DatabaseInit
    <2>2. \A r \in Requests : requests[r].pc = "idle"
      BY DEF Init, ObjectMutationsInit, Unused
    <2>3. \A s \in Maintainers : maintenance[s].pc = "idle"
      BY DEF Init, MaintenanceInit, Resting
    <2> QED
      BY <2>1, <2>2, <2>3 DEF ToldHaveBytes, JobsHold, NobodyUnlinks, UsedAreKnown, InState
  <1>2. Typed /\ Minted /\ ToldHaveBytes /\ JobsHold /\ NobodyUnlinks /\ [Next]_vars =>
          ToldHaveBytes' /\ JobsHold' /\ NobodyUnlinks'
    BY NextBytes
  <1>3. ToldHaveBytes /\ UsedAreKnown => BytesBehindContents
    BY DEF ToldHaveBytes, UsedAreKnown, BytesBehindContents, Told, InState
  <1> QED
    BY <1>1, <1>2, <1>3, InitTyped, NextTyped, InitMinted, NextMinted, NextUsed, PTL DEF Spec

-----------------------------------------------------------------------------
(* The claims of live objects                                               *)

\* A claim changes the row of its blob,
LEMMA ClaimedRow ==
    ASSUME DatabaseTypeOK, NEW ledger \in [Blobs -> LedgerRow \cup {None}],
           NEW k \in Blobs, NEW c \in Collections, NEW o \in Objects, NEW v \in Nat
    PROVE  LET after == Claim(ledger, k, c, o, v) IN
           /\ after[k] # None /\ after[k].state = "claimed" /\ after[k].object_id = o
           /\ \A j \in Blobs \ {k} : after[j] = ledger[j]
  <1>1. Claim(ledger, k, c, o, v)[k] =
          [state |-> "claimed", collection_id |-> c, object_id |-> o, object_version |-> v, since |-> now]
    BY DEF Claim
  <1>2. Claim(ledger, k, c, o, v)[k] # None
    <2>1. Claim(ledger, k, c, o, v)[k] \in LedgerRow
      BY <1>1 DEF DatabaseTypeOK, LedgerRow, BlobStates
    <2> QED
      BY <2>1, RowAssumption
  <1> QED
    BY <1>1, <1>2 DEF Claim

\* and a release that of the blob it lets go.
LEMMA ReleasedRow ==
    ASSUME NEW k \in Blobs, blob_ledger \in [Blobs -> LedgerRow \cup {None}]
    PROVE  LET after == Release(blob_ledger, k) IN
           /\ \A j \in Blobs \ {k} : after[j] = blob_ledger[j]
           /\ after[k] # None => after[k].state # "claimed"
           /\ after[k] # None /\ after[k].state = "staged" => InState(k, "staged")
  <1>1. CASE InState(k, "claimed")
    <2>1. Release(blob_ledger, k)[k].state = "retained"
      BY <1>1 DEF Release, InState, LedgerRow
    <2> QED
      BY <1>1, <2>1 DEF Release, InState
  <1>2. CASE ~InState(k, "claimed")
    <2>1. Release(blob_ledger, k) = blob_ledger
      BY <1>2 DEF Release, InState
    <2> QED
      BY <1>2, <2>1 DEF InState
  <1> QED
    BY <1>1, <1>2

\* A create claims a staged blob for its new object.
LEMMA CreateClaims ==
    ASSUME Typed, NEW r \in Requests, ApplyCreate(r)
    PROVE  LET k == requests[r].blob_key IN
           \E n \in Objects \ minted :
             /\ objects' = [objects EXCEPT ![n] = objects'[n]]
             /\ objects'[n] # None /\ objects'[n].blob_key = k
             /\ k \in Blobs /\ InState(k, "staged")
             /\ Becomes(k, "claimed") /\ blob_ledger'[k].object_id = n
             /\ \A j \in Blobs \ {k} : blob_ledger'[j] = blob_ledger[j]
  <1> DEFINE q == requests[r]
             c == q.collection_id
             row(n) == [collection_id |-> c, version |-> 1,
                        change_seq |-> current_version[c] + 1, deleted |-> FALSE,
                        blob_key |-> q.blob_key, created_by |-> q.mutation_id]
  <1>1. PICK n \in Objects \ minted :
          /\ objects' = [objects EXCEPT ![n] = row(n)]
          /\ blob_ledger' = Claim(blob_ledger, q.blob_key, c, n, 1)
    BY DEF ApplyCreate
  <1>2. q.pc = "tx" /\ Kind(q) = "create" /\ Claimable(q.blob_key)
    BY DEF ApplyCreate, Owns
  <1>3. q \in RequestState /\ c \in Collections /\ q.blob_key \in Blobs /\ DatabaseTypeOK
    BY <1>2, AtTransaction
  <1>4. row(n) \in ObjectRow
    BY <1>3 DEF ObjectRow, RequestState, DatabaseTypeOK
  <1>5. objects'[n] = row(n)
    BY <1>1, <1>3 DEF DatabaseTypeOK
  <1>6. row(n) # None
    BY <1>4, RowAssumption
  <1>7. row(n).blob_key = q.blob_key
    OBVIOUS
  <1> HIDE DEF row
  <1>8. objects' = [objects EXCEPT ![n] = objects'[n]]
    BY <1>1, <1>5
  <1>9. /\ Becomes(q.blob_key, "claimed") /\ blob_ledger'[q.blob_key].object_id = n
        /\ \A j \in Blobs \ {q.blob_key} : blob_ledger'[j] = blob_ledger[j]
    <2>1. blob_ledger \in [Blobs -> LedgerRow \cup {None}] /\ n \in Objects /\ 1 \in Nat
      BY <1>3 DEF DatabaseTypeOK
    <2> QED
      BY <1>1, <1>3, <2>1, ClaimedRow DEF Becomes
  <1>10. InState(q.blob_key, "staged")
    BY <1>2 DEF Claimable
  <1> QED
    BY <1>3, <1>5, <1>6, <1>7, <1>8, <1>9, <1>10

\* An update claims a staged blob for its object and releases the one before,
LEMMA UpdateClaims ==
    ASSUME Typed, NEW r \in Requests, ApplyUpdate(r)
    PROVE  LET o == requests[r].object_id
               k == requests[r].blob_key
               old == objects[o].blob_key IN
           /\ o \in Objects /\ objects[o] # None /\ objects'[o] # None
           /\ objects' = [objects EXCEPT ![o] = objects'[o]]
           /\ objects'[o].blob_key = k /\ objects'[o].deleted = objects[o].deleted
           /\ k \in Blobs /\ InState(k, "staged") /\ old \in Blobs
           /\ Becomes(k, "claimed") /\ blob_ledger'[k].object_id = o
           /\ \A j \in Blobs \ {k, old} : blob_ledger'[j] = blob_ledger[j]
           /\ old # k => /\ ~Becomes(old, "claimed")
                         /\ Becomes(old, "staged") => InState(old, "staged")
  <1> DEFINE q == requests[r]
             c == q.collection_id
             o == q.object_id
             k == q.blob_key
             old == objects[o].blob_key
             row == [objects[o] EXCEPT !.version = q.version, !.blob_key = q.blob_key,
                                       !.change_seq = current_version[c] + 1]
  <1>1. /\ objects' = [objects EXCEPT ![o] = row]
        /\ blob_ledger' = Claim(Release(blob_ledger, old), k, c, o, q.version)
        /\ q.pc = "tx" /\ Kind(q) = "update" /\ Claimable(k)
        /\ q.version = objects[o].version + 1
    BY DEF ApplyUpdate, Owns, VersionMatches
  <1>2. /\ o \in Objects /\ objects[o] # None /\ objects'[o] # None
        /\ objects' = [objects EXCEPT ![o] = objects'[o]]
    BY EditChangesARow
  <1>3. /\ c \in Collections /\ k \in Blobs /\ DatabaseTypeOK
        /\ blob_ledger \in [Blobs -> LedgerRow \cup {None}]
        /\ objects \in [Objects -> ObjectRow \cup {None}]
    BY <1>1, AtTransaction DEF DatabaseTypeOK
  <1>4. objects[o] \in ObjectRow /\ objects[o].version \in Nat /\ old \in Blobs /\ q.version \in Nat
    BY <1>1, <1>2, <1>3 DEF ObjectRow
  <1>5. objects'[o].blob_key = k /\ objects'[o].deleted = objects[o].deleted
    <2>1. row.blob_key = k /\ row.deleted = objects[o].deleted
      BY <1>4 DEF ObjectRow
    <2>2. objects'[o] = row
      BY <1>1, <1>2, <1>3
    <2> QED
      BY <2>1, <2>2
  <1>6. Release(blob_ledger, old) \in [Blobs -> LedgerRow \cup {None}]
    BY <1>2, <1>3, <1>4, LedgerTyped
  <1>7. /\ Becomes(k, "claimed") /\ blob_ledger'[k].object_id = o
        /\ \A j \in Blobs \ {k} : blob_ledger'[j] = Release(blob_ledger, old)[j]
    <2> DEFINE released == Release(blob_ledger, old)
    <2>1. /\ released \in [Blobs -> LedgerRow \cup {None}]
          /\ blob_ledger' = Claim(released, k, c, o, q.version)
          /\ q.version \in Nat /\ o \in Objects /\ k \in Blobs /\ c \in Collections
      BY <1>1, <1>2, <1>3, <1>4, <1>6
    <2> HIDE DEF released, q, c, o, k, old, row
    <2>2. LET after == Claim(released, k, c, o, q.version) IN
          /\ after[k] # None /\ after[k].state = "claimed" /\ after[k].object_id = o
          /\ \A j \in Blobs \ {k} : after[j] = released[j]
      BY <1>3, <2>1, ClaimedRow
    <2>3. /\ Becomes(k, "claimed") /\ blob_ledger'[k].object_id = o
          /\ \A j \in Blobs \ {k} : blob_ledger'[j] = released[j]
      BY <2>1, <2>2 DEF Becomes
    <2> QED
      BY <2>3 DEF released
  <1>8. LET after == Release(blob_ledger, old) IN
        /\ \A j \in Blobs \ {old} : after[j] = blob_ledger[j]
        /\ after[old] # None => after[old].state # "claimed"
        /\ after[old] # None /\ after[old].state = "staged" => InState(old, "staged")
    BY <1>3, <1>4, ReleasedRow
  <1>9. InState(k, "staged")
    BY <1>1 DEF Claimable
  <1>10. old # k => ~Becomes(old, "claimed") /\ (Becomes(old, "staged") => InState(old, "staged"))
    BY <1>4, <1>7, <1>8 DEF Becomes
  <1> QED
    BY <1>2, <1>3, <1>4, <1>5, <1>7, <1>8, <1>9, <1>10

\* and a delete releases it.
LEMMA DeleteReleases ==
    ASSUME Typed, NEW r \in Requests, ApplyDelete(r)
    PROVE  LET o == requests[r].object_id
               old == objects[o].blob_key IN
           /\ o \in Objects /\ objects[o] # None /\ ~objects[o].deleted
           /\ objects' = [objects EXCEPT ![o] = objects'[o]] /\ objects'[o] # None
           /\ objects'[o].blob_key = old /\ objects'[o].deleted /\ old \in Blobs
           /\ \A j \in Blobs \ {old} : blob_ledger'[j] = blob_ledger[j]
           /\ ~Becomes(old, "claimed")
           /\ Becomes(old, "staged") => InState(old, "staged")
  <1> DEFINE q == requests[r]
             c == q.collection_id
             o == q.object_id
             old == objects[o].blob_key
             row == [objects[o] EXCEPT !.deleted = TRUE, !.version = objects[o].version + 1,
                                       !.change_seq = current_version[c] + 1]
  <1>1. /\ objects' = [objects EXCEPT ![o] = row]
        /\ blob_ledger' = Release(blob_ledger, old)
        /\ q.pc = "tx" /\ ~objects[o].deleted
    BY DEF ApplyDelete, Owns
  <1>2. /\ o \in Objects /\ objects[o] # None /\ objects'[o] # None
        /\ objects' = [objects EXCEPT ![o] = objects'[o]]
    BY EditChangesARow
  <1>3. /\ DatabaseTypeOK /\ c \in Collections
        /\ blob_ledger \in [Blobs -> LedgerRow \cup {None}]
        /\ objects \in [Objects -> ObjectRow \cup {None}]
    BY <1>1, AtTransaction DEF DatabaseTypeOK
  <1>4. objects[o] \in ObjectRow /\ old \in Blobs
    BY <1>2, <1>3 DEF ObjectRow
  <1>5. objects'[o].blob_key = old /\ objects'[o].deleted
    <2>1. row.blob_key = old /\ row.deleted
      BY <1>4 DEF ObjectRow
    <2>2. objects'[o] = row
      BY <1>1, <1>2, <1>3
    <2> QED
      BY <2>1, <2>2
  <1>6. /\ \A j \in Blobs \ {old} : blob_ledger'[j] = blob_ledger[j]
        /\ ~Becomes(old, "claimed")
        /\ Becomes(old, "staged") => InState(old, "staged")
    BY <1>1, <1>3, <1>4, ReleasedRow DEF Becomes
  <1> QED
    BY <1>1, <1>2, <1>4, <1>5, <1>6

\* The claim an update releases is its own object's.
ReleasesItsOwn ==
    \A r \in Requests : ApplyUpdate(r) =>
        LET o == requests[r].object_id
            k == objects[o].blob_key IN
        InState(k, "claimed") => blob_ledger[k].object_id = o

\* Then every live object keeps its claim.
LEMMA NextLive ==
    ASSUME Typed, Minted, ClaimNamesItsVersion, LiveObjectsHoldTheirClaim, ReleasesItsOwn,
           [Next]_vars
    PROVE  LiveObjectsHoldTheirClaim'
  <1> SUFFICES ASSUME NEW o \in Objects, objects'[o] # None, ~objects'[o].deleted
               PROVE  LET k == objects'[o].blob_key IN
                      Becomes(k, "claimed") /\ blob_ledger'[k].object_id = o
    BY DEF LiveObjectsHoldTheirClaim, Becomes, InState
  <1> DEFINE k == objects[o].blob_key
  <1>1. /\ objects \in [Objects -> ObjectRow \cup {None}]
        /\ blob_ledger \in [Blobs -> LedgerRow \cup {None}]
        /\ objects[o] # None => k \in Blobs
        /\ objects[o] # None /\ ~objects[o].deleted =>
             InState(k, "claimed") /\ blob_ledger[k].object_id = o
    BY DEF Typed, TypeOK, DatabaseTypeOK, ObjectRow, LiveObjectsHoldTheirClaim
  <1>2. ASSUME objects'[o] = objects[o], blob_ledger'[k] = blob_ledger[k]
        PROVE  LET j == objects'[o].blob_key IN
               Becomes(j, "claimed") /\ blob_ledger'[j].object_id = o
    BY <1>1, <1>2 DEF Becomes, InState
  <1>3. CASE \E r \in Requests : ApplyCreate(r)
    <2>1. PICK r \in Requests : ApplyCreate(r)
      BY <1>3
    <2>2. PICK n \in Objects :
            /\ objects' = [objects EXCEPT ![n] = objects'[n]]
            /\ objects'[n].blob_key = requests[r].blob_key
            /\ InState(requests[r].blob_key, "staged")
            /\ Becomes(requests[r].blob_key, "claimed")
            /\ blob_ledger'[requests[r].blob_key].object_id = n
            /\ \A j \in Blobs \ {requests[r].blob_key} : blob_ledger'[j] = blob_ledger[j]
      BY <2>1, CreateClaims
    <2>3. CASE o # n
      <3>1. objects'[o] = objects[o]
        BY <1>1, <2>2, <2>3
      <3>2. blob_ledger'[k] = blob_ledger[k]
        BY <1>1, <2>2, <3>1 DEF InState
      <3> QED
        BY <1>2, <3>1, <3>2
    <2> QED
      BY <2>2, <2>3
  <1>4. CASE \E r \in Requests : ApplyUpdate(r)
    <2>1. PICK r \in Requests : ApplyUpdate(r)
      BY <1>4
    <2> DEFINE u == requests[r].object_id
               new == requests[r].blob_key
               old == objects[u].blob_key
    <2>2. /\ objects' = [objects EXCEPT ![u] = objects'[u]]
          /\ objects'[u].blob_key = new /\ InState(new, "staged")
          /\ Becomes(new, "claimed") /\ blob_ledger'[new].object_id = u
          /\ \A j \in Blobs \ {new, old} : blob_ledger'[j] = blob_ledger[j]
      BY <2>1, UpdateClaims
    <2>3. InState(old, "claimed") => blob_ledger[old].object_id = u
      BY <2>1 DEF ReleasesItsOwn
    <2>4. CASE o # u
      <3>1. objects'[o] = objects[o]
        BY <1>1, <2>2, <2>4
      <3>2. k # new /\ k # old /\ k \in Blobs
        BY <1>1, <2>2, <2>3, <2>4, <3>1 DEF InState
      <3>3. blob_ledger'[k] = blob_ledger[k]
        BY <2>2, <3>2
      <3> QED
        BY <1>2, <3>1, <3>3
    <2>5. CASE o = u
      BY <2>2, <2>5
    <2> QED
      BY <2>4, <2>5
  <1>5. CASE \E r \in Requests : ApplyDelete(r)
    <2>1. PICK r \in Requests : ApplyDelete(r)
      BY <1>5
    <2> DEFINE u == requests[r].object_id
               old == objects[u].blob_key
    <2>2. /\ u \in Objects /\ objects[u] # None /\ ~objects[u].deleted
          /\ objects' = [objects EXCEPT ![u] = objects'[u]] /\ objects'[u].deleted
          /\ \A j \in Blobs \ {old} : blob_ledger'[j] = blob_ledger[j]
      BY <2>1, DeleteReleases
    <2>3. blob_ledger[old].object_id = u
      BY <2>2 DEF LiveObjectsHoldTheirClaim
    <2>4. o # u /\ objects'[o] = objects[o]
      BY <1>1, <2>2
    <2>5. k # old /\ k \in Blobs
      BY <1>1, <2>3, <2>4
    <2>6. blob_ledger'[k] = blob_ledger[k]
      BY <2>2, <2>5
    <2> QED
      BY <1>2, <2>4, <2>6
  <1>6. CASE ClaimCollection
    BY <1>2, <1>6 DEF ClaimCollection
  <1>7. ASSUME NEW c \in Collections, DeleteCollection(c)
        PROVE  LET j == objects'[o].blob_key IN
               Becomes(j, "claimed") /\ blob_ledger'[j].object_id = o
    <2>1. objects'[o] = objects[o] /\ objects[o].collection_id # c
      BY <1>7 DEF DeleteCollection
    <2>2. k \in Blobs /\ InState(k, "claimed") /\ blob_ledger[k].object_id = o
      BY <1>1, <2>1
    <2>3. blob_ledger[k].collection_id # c
      BY <2>1, <2>2 DEF ClaimNamesItsVersion
    <2>4. blob_ledger'[k] = blob_ledger[k]
      BY <1>7, <2>2, <2>3 DEF DeleteCollection, LedgerWithout
    <2> QED
      BY <1>2, <2>1, <2>4
  <1>8. CASE Quiet
    <2>1. objects'[o] = objects[o]
      BY <1>8 DEF Quiet
    <2>2. QuietRow(k) /\ InState(k, "claimed")
      BY <1>1, <1>8, <2>1 DEF Quiet
    <2> QED
      BY <1>2, <2>1, <2>2 DEF QuietRow, InState
  <1> QED
    BY <1>3, <1>4, <1>5, <1>6, <1>7, <1>8, StepCases

\* Clients only update notes that are there.
TombstonesAreLeft ==
    \A r \in Requests : ApplyUpdate(r) => ~objects[requests[r].object_id].deleted

\* As long as no client updates a deleted note, a live object's blob is claimed by
\* it: garbage collection cannot take its bytes, and no two notes share a blob.
THEOREM LiveObjectsKeepTheirClaim ==
    Spec /\ [][TombstonesAreLeft]_vars => []LiveObjectsHoldTheirClaim
  <1>1. Init => ClaimNamesItsVersion /\ LiveObjectsHoldTheirClaim
    BY DEF Init, DatabaseInit, InState, ClaimNamesItsVersion, LiveObjectsHoldTheirClaim
  <1>2. Typed /\ Minted /\ ClaimNamesItsVersion /\ LiveObjectsHoldTheirClaim
        /\ [Next]_vars /\ [TombstonesAreLeft]_vars => LiveObjectsHoldTheirClaim'
    <2> SUFFICES ASSUME Typed, Minted, ClaimNamesItsVersion, LiveObjectsHoldTheirClaim,
                        [Next]_vars, [TombstonesAreLeft]_vars
                 PROVE  LiveObjectsHoldTheirClaim'
      OBVIOUS
    <2>1. CASE UNCHANGED vars
      BY <2>1 DEF vars, database, LiveObjectsHoldTheirClaim, InState
    <2>2. CASE TombstonesAreLeft
      <3>1. ReleasesItsOwn
        BY <2>2, UpdateClaims DEF TombstonesAreLeft, ReleasesItsOwn, LiveObjectsHoldTheirClaim
      <3> QED
        BY <3>1, NextLive
    <2> QED
      BY <2>1, <2>2
  <1> QED
    BY <1>1, <1>2, InitTyped, NextTyped, InitMinted, NextMinted, NextClaims, PTL DEF Spec

\* Where clients may update deleted notes, what an object still names must not be
\* staged again.  A collected blob whose file stays behind would be: so either
\* nothing is collected, or one process collects and no removal fails.
OrphansAreGone == CollectGarbage => ~Faults /\ OneMaintainer

\* An object names k.
Named(k) == \E o \in Objects : objects[o] # None /\ objects[o].blob_key = k

\* Of the blob an object names, a tombstone's included, only that object has a claim.
NamedRows ==
    \A o \in Objects : objects[o] # None =>
        LET k == objects[o].blob_key IN
        ~InState(k, "staged") /\ (InState(k, "claimed") => blob_ledger[k].object_id = o)

NamedAreKnown == \A o \in Objects : objects[o] # None => objects[o].blob_key \in known

\* A blob that is being written is only its request's.
PutsAreNew ==
    \A r \in Requests : requests[r].pc = "put" =>
        LET k == requests[r].blob_key IN
        k \notin known /\ \A s \in Requests \ {r} : requests[s].blob_key # k

\* A blob without a row that an object names was collected, its file is gone or
\* about to go, and no job is about to adopt it.
NamedFiles ==
    \A k \in Blobs : Named(k) /\ blob_ledger[k] = None =>
        /\ CollectGarbage
        /\ \/ k \notin files
           \/ \E s \in Maintainers : maintenance[s].pc = "remove" /\ maintenance[s].key = k
        /\ \A s \in Maintainers : maintenance[s].pc = "adopt" => maintenance[s].key # k

NothingIsPurged ==
    ~CollectGarbage => \A s \in Maintainers : maintenance[s].pc \notin {"list", "purge", "remove"}

NamesHold == NamedRows /\ NamedAreKnown /\ PutsAreNew /\ NamedFiles /\ NothingIsPurged

\* A step that names a blob claims it.
LEMMA NamedSteps ==
    ASSUME Typed, Minted, [Next]_vars, NEW o \in Objects, objects'[o] # None
    PROVE  LET k == objects'[o].blob_key IN
           \/ objects[o] # None /\ objects[o].blob_key = k
           \/ Becomes(k, "claimed") /\ k \in known'
  <1>1. objects \in [Objects -> ObjectRow \cup {None}]
    BY DEF Typed, TypeOK, DatabaseTypeOK
  <1>2. ASSUME NEW r \in Requests, ApplyCreate(r) PROVE requests[r].blob_key \in known'
    BY <1>2 DEF ApplyCreate
  <1>3. ASSUME NEW r \in Requests, ApplyUpdate(r) PROVE requests[r].blob_key \in known'
    BY <1>3 DEF ApplyUpdate
  <1>4. CASE \E r \in Requests : ApplyCreate(r)
    <2>1. PICK r \in Requests : ApplyCreate(r)
      BY <1>4
    <2>2. PICK n \in Objects :
            /\ objects' = [objects EXCEPT ![n] = objects'[n]]
            /\ objects'[n].blob_key = requests[r].blob_key
            /\ Becomes(requests[r].blob_key, "claimed")
      BY <2>1, CreateClaims
    <2>3. o # n => objects'[o] = objects[o]
      BY <1>1, <2>2
    <2> QED
      BY <1>2, <2>1, <2>2, <2>3
  <1>5. CASE \E r \in Requests : ApplyUpdate(r)
    <2>1. PICK r \in Requests : ApplyUpdate(r)
      BY <1>5
    <2> DEFINE u == requests[r].object_id
    <2>2. /\ objects' = [objects EXCEPT ![u] = objects'[u]]
          /\ objects'[u].blob_key = requests[r].blob_key
          /\ Becomes(requests[r].blob_key, "claimed")
      BY <2>1, UpdateClaims
    <2>3. o # u => objects'[o] = objects[o]
      BY <1>1, <2>2
    <2> QED
      BY <1>3, <2>1, <2>2, <2>3
  <1>6. CASE \E r \in Requests : ApplyDelete(r)
    <2>1. PICK r \in Requests : ApplyDelete(r)
      BY <1>6
    <2> DEFINE u == requests[r].object_id
    <2>2. /\ objects[u] # None /\ objects' = [objects EXCEPT ![u] = objects'[u]]
          /\ objects'[u].blob_key = objects[u].blob_key
      BY <2>1, DeleteReleases
    <2>3. o # u => objects'[o] = objects[o]
      BY <1>1, <2>2
    <2> QED
      BY <2>2, <2>3
  <1>7. CASE ClaimCollection \/ \E c \in Collections : DeleteCollection(c)
    BY <1>7 DEF ClaimCollection, DeleteCollection
  <1>8. CASE Quiet
    BY <1>8 DEF Quiet
  <1> QED
    BY <1>4, <1>5, <1>6, <1>7, <1>8, StepCases

\* A key gets a row when it is minted, or when a job adopts its file.
LEMMA RowsAppear ==
    ASSUME Typed, Minted, [Next]_vars, NEW k \in Blobs, blob_ledger[k] = None,
           blob_ledger'[k] # None
    PROVE  \/ k \notin minted
           \/ \E s \in Maintainers : maintenance[s].pc = "adopt" /\ maintenance[s].key = k
  <1>1. blob_ledger \in [Blobs -> LedgerRow \cup {None}]
    BY DEF Typed, TypeOK, DatabaseTypeOK
  <1>2. ASSUME NEW r \in Requests, HandlerStep(r) PROVE k \notin minted
    <2>1. ~Unlink(r)
      BY DEF Unlink
    <2> QED
      BY <1>2, <2>1, HandlerKeepsBytes
  <1>3. ASSUME NEW s \in Maintainers, JobStep(s) \/ Fault(s)
        PROVE  maintenance[s].pc = "adopt" /\ maintenance[s].key = k
    <2>1. CASE Adopt(s)
      BY <1>1, <2>1 DEF Adopt
    <2>2. ~PurgeRow(s)
      BY <1>1 DEF PurgeRow
    <2> QED
      BY <1>3, <2>1, <2>2
         DEF JobStep, StartWalk, Stat, EndWalk, ExpirePending, ExpireOther, ListEligible,
             RemoveFile, EndPass, Fault, database
  <1>4. ~ClaimCollection /\ ~Tick /\ ~UNCHANGED vars
    BY DEF ClaimCollection, Tick, vars, database
  <1>5. ~\E c \in Collections : DeleteCollection(c)
    BY DEF DeleteCollection, LedgerWithout
  <1> QED
    BY <1>2, <1>3, <1>4, <1>5 DEF Next, RequestStep

\* What an object names is claimed by none but that object.
LEMMA NextNamedRows ==
    Typed /\ Minted /\ NamesHold /\ [Next]_vars => NamedRows'
  <1> SUFFICES ASSUME Typed, Minted, NamesHold, [Next]_vars,
                      NEW o \in Objects, objects'[o] # None
               PROVE  LET k == objects'[o].blob_key IN
                      ~Becomes(k, "staged")
                      /\ (Becomes(k, "claimed") => blob_ledger'[k].object_id = o)
    BY DEF NamedRows, Becomes, InState
  <1> DEFINE k == objects[o].blob_key
  <1>1. /\ objects \in [Objects -> ObjectRow \cup {None}]
        /\ blob_ledger \in [Blobs -> LedgerRow \cup {None}]
        /\ objects[o] # None =>
             /\ k \in Blobs /\ ~InState(k, "staged") /\ k \in minted
             /\ InState(k, "claimed") => blob_ledger[k].object_id = o
    BY NoneAssumption
       DEF Typed, TypeOK, DatabaseTypeOK, ObjectRow, NamesHold, NamedRows, NamedAreKnown, Minted
  <1> DEFINE NameHolds == LET j == objects'[o].blob_key IN
                          ~Becomes(j, "staged")
                          /\ (Becomes(j, "claimed") => blob_ledger'[j].object_id = o)
  <1>2. ASSUME objects'[o] = objects[o], blob_ledger'[k] = blob_ledger[k] PROVE NameHolds
    BY <1>1, <1>2 DEF Becomes, InState
  <1>3. ASSUME objects'[o].blob_key = k, ~Becomes(k, "claimed"), ~Becomes(k, "staged") PROVE NameHolds
    BY <1>3
  <1>4. CASE \E r \in Requests : ApplyCreate(r)
    <2>1. PICK r \in Requests : ApplyCreate(r)
      BY <1>4
    <2> DEFINE new == requests[r].blob_key
    <2>2. PICK n \in Objects :
            /\ objects' = [objects EXCEPT ![n] = objects'[n]]
            /\ objects'[n].blob_key = new /\ InState(new, "staged")
            /\ Becomes(new, "claimed") /\ blob_ledger'[new].object_id = n
            /\ \A j \in Blobs \ {new} : blob_ledger'[j] = blob_ledger[j]
      BY <2>1, CreateClaims
    <2>3. CASE o # n
      <3>1. objects'[o] = objects[o]
        BY <1>1, <2>2, <2>3
      <3> QED
        BY <1>1, <1>2, <2>2, <3>1
    <2> QED
      BY <2>2, <2>3 DEF Becomes
  <1>5. CASE \E r \in Requests : ApplyUpdate(r)
    <2>1. PICK r \in Requests : ApplyUpdate(r)
      BY <1>5
    <2> DEFINE u == requests[r].object_id
               new == requests[r].blob_key
               old == objects[u].blob_key
    <2>2. /\ u \in Objects /\ objects[u] # None
          /\ objects' = [objects EXCEPT ![u] = objects'[u]]
          /\ objects'[u].blob_key = new /\ InState(new, "staged")
          /\ Becomes(new, "claimed") /\ blob_ledger'[new].object_id = u
          /\ \A j \in Blobs \ {new, old} : blob_ledger'[j] = blob_ledger[j]
          /\ old # new => /\ ~Becomes(old, "claimed")
                          /\ Becomes(old, "staged") => InState(old, "staged")
      BY <2>1, UpdateClaims
    <2>3. ~InState(old, "staged")
      BY <2>2 DEF NamesHold, NamedRows
    <2>4. CASE o # u
      <3>1. objects'[o] = objects[o] /\ k # new /\ k \in Blobs
        BY <1>1, <2>2, <2>4
      <3>2. CASE k = old
        BY <1>3, <2>2, <2>3, <3>1, <3>2
      <3>3. CASE k # old
        BY <1>2, <2>2, <3>1, <3>3
      <3> QED
        BY <3>2, <3>3
    <2>5. CASE o = u
      BY <2>2, <2>5 DEF Becomes
    <2> QED
      BY <2>4, <2>5
  <1>6. CASE \E r \in Requests : ApplyDelete(r)
    <2>1. PICK r \in Requests : ApplyDelete(r)
      BY <1>6
    <2> DEFINE u == requests[r].object_id
               old == objects[u].blob_key
    <2>2. /\ u \in Objects /\ objects[u] # None
          /\ objects' = [objects EXCEPT ![u] = objects'[u]] /\ objects'[u].blob_key = old
          /\ \A j \in Blobs \ {old} : blob_ledger'[j] = blob_ledger[j]
          /\ ~Becomes(old, "claimed")
          /\ Becomes(old, "staged") => InState(old, "staged")
      BY <2>1, DeleteReleases
    <2>3. ~InState(old, "staged")
      BY <2>2 DEF NamesHold, NamedRows
    <2>4. o # u => objects'[o] = objects[o] /\ k \in Blobs
      BY <1>1, <2>2
    <2>5. CASE k = old
      BY <1>3, <2>2, <2>3, <2>4, <2>5
    <2>6. CASE k # old
      BY <1>2, <2>2, <2>4, <2>6
    <2> QED
      BY <2>5, <2>6
  <1>7. CASE ClaimCollection
    BY <1>2, <1>7 DEF ClaimCollection
  <1>8. ASSUME NEW c \in Collections, DeleteCollection(c) PROVE NameHolds
    <2>1. objects'[o] = objects[o] /\ k \in Blobs
      BY <1>1, <1>8 DEF DeleteCollection
    <2>2. CASE blob_ledger'[k] = blob_ledger[k]
      BY <1>2, <2>1, <2>2
    <2>3. CASE blob_ledger'[k] # blob_ledger[k]
      <3>1. blob_ledger'[k].state = "purgeable"
        BY <1>1, <1>8, <2>1, <2>3 DEF DeleteCollection, LedgerWithout, LedgerRow
      <3> QED
        BY <1>3, <2>1, <3>1 DEF Becomes
    <2> QED
      BY <2>2, <2>3
  <1>9. CASE Quiet
    <2>1. objects'[o] = objects[o] /\ k \in Blobs /\ QuietRow(k)
      BY <1>1, <1>9 DEF Quiet
    <2>2. CASE blob_ledger'[k] = blob_ledger[k]
      BY <1>2, <2>1, <2>2
    <2>3. CASE blob_ledger'[k] = None
      BY <1>3, <2>1, <2>3 DEF Becomes
    <2>4. ~(blob_ledger[k] = None /\ blob_ledger'[k] # None)
      <3>1. Named(k)
        BY <2>1 DEF Named
      <3> QED
        BY <1>1, <2>1, <3>1, RowsAppear DEF NamesHold, NamedFiles
    <2> QED
      BY <2>1, <2>2, <2>3, <2>4 DEF QuietRow
  <1> QED
    BY <1>4, <1>5, <1>6, <1>7, <1>8, <1>9, StepCases

\* Whatever an object names, clients know.
LEMMA NextNamedKnown ==
    Typed /\ Minted /\ NamedAreKnown /\ [Next]_vars => NamedAreKnown'
  BY NamedSteps, KnownSteps DEF NamedAreKnown

\* A handler names a blob it named before, one that clients know, or, when it
\* stages one, a new one.
LEMMA HandlerNames ==
    ASSUME Typed, [Next]_vars, NEW r \in Requests, HandlerStep(r)
    PROVE  \/ requests'[r].blob_key = None /\ requests'[r].pc # "put"
           \/ /\ requests'[r].blob_key \in known \cup {requests[r].blob_key}
              /\ requests'[r].pc # "put"
           \/ Stage(r) /\ requests'[r].blob_key \in Blobs \ minted
  <1>1. requests \in [Requests -> RequestState] /\ requests[r] \in RequestState
    BY DEF Typed, TypeOK, ObjectMutationsTypeOK
  <1>2. requests' \in [Requests -> RequestState]
    BY NextTyped DEF Typed, TypeOK, ObjectMutationsTypeOK
  <1>3. ASSUME NEW answer, Respond(r, requests[r], answer)
        PROVE  requests'[r].blob_key = None /\ requests'[r].pc # "put"
    <2> DEFINE p == [requests[r] EXCEPT !.pc = "idle", !.blob_key = None, !.prepared = FALSE,
                                        !.answer = answer]
    <2>1. requests'[r] = p
      BY <1>1, <1>3 DEF Respond
    <2>2. p.blob_key = None /\ p.pc = "idle"
      BY <1>1 DEF RequestState
    <2> QED
      BY <2>1, <2>2
  <1>4. CASE Stage(r)
    <2>1. PICK n, p : n \in Blobs \ minted /\ StageRow(r, p, n)
      BY <1>4 DEF Stage, StageRow
    <2> DEFINE moved == [p EXCEPT !.pc = "put", !.blob_key = n]
    <2>2. requests'[r] = moved
      BY <1>1, <2>1 DEF StageRow
    <2>3. "blob_key" \in DOMAIN moved
      <3>1. moved \in RequestState
        BY <1>2, <2>2
      <3> HIDE DEF moved
      <3> QED
        BY <3>1 DEF RequestState
    <2>4. moved.blob_key = n
      BY <2>3
    <2> QED
      BY <1>4, <2>1, <2>2, <2>4
  <1>5. CASE Put(r)
    <2>1. ASSUME NEW pc, Continue(r, requests[r], pc), pc # "put"
          PROVE  requests'[r].blob_key = requests[r].blob_key /\ requests'[r].pc # "put"
      BY <1>1, <2>1, ContinueSets
    <2> QED
      BY <1>3, <1>5, <2>1 DEF Put
  <1>6. CASE Prepare(r)
    <2> DEFINE ops == {"create", "create-inline", "update", "delete"}
    <2>0. \A q : Reserved(q) \in {"stage", "tx"}
      BY DEF Reserved
    <2>1. PICK q \in Arriving(r, ops) \cup {p \in {requests[r]} : p.pc = "prepare"} :
            \E pc \in {"stage", "tx", "reserve"} :
              Continue(r, q, pc) \/ Continue(r, [q EXCEPT !.prepared = TRUE], pc)
      <3>1. PICK q \in Arriving(r, ops) \cup {p \in {requests[r]} : p.pc = "prepare"} :
              \/ Continue(r, q, Reserved(q))
              \/ Continue(r, q, IF Kind(q) = "create" THEN "reserve" ELSE "tx")
              \/ Continue(r, [q EXCEPT !.prepared = TRUE], Reserved(q))
        BY <1>6 DEF Prepare
      <3> QED
        BY <2>0, <3>1
    <2>2. q.blob_key = None \/ q.blob_key \in known \cup {requests[r].blob_key}
      <3>1. CASE q \in Arriving(r, ops)
        <4>1. PICK op \in ops : q \in Submitted(op)
          BY <3>1 DEF Arriving
        <4>2. q.blob_key \in known \cup {None}
          BY <4>1 DEF Submitted
        <4> QED
          BY <4>2
      <3> QED
        BY <2>1, <3>1
    <2>3. q \in RequestState
      <3>1. ASSUME NEW op \in ops, op \in Operations, q \in Submitted(op) PROVE q \in RequestState
        <4>1. op \in AllOperations \cap Mutations
          BY <3>1 DEF AllOperations, Mutations, Creates, Updates
        <4> QED
          BY <3>1, <4>1, SubmittedTyped DEF Typed
      <3>2. CASE q \in Arriving(r, ops)
        BY <3>1, <3>2 DEF Arriving
      <3> QED
        BY <1>1, <2>1, <3>2
    <2>4. [q EXCEPT !.prepared = TRUE] \in RequestState
          /\ [q EXCEPT !.prepared = TRUE].blob_key = q.blob_key
      BY <2>3 DEF RequestState
    <2>5. requests'[r].blob_key = q.blob_key /\ requests'[r].pc # "put"
      <3>1. PICK pc \in {"stage", "tx", "reserve"} :
              Continue(r, q, pc) \/ Continue(r, [q EXCEPT !.prepared = TRUE], pc)
        BY <2>1
      <3> QED
        BY <2>3, <2>4, <3>1, ContinueSets
    <2> QED
      BY <2>2, <2>5
  <1>7. CASE ReserveReplay(r)
    <2>1. ASSUME Continue(r, requests[r], Reserved(requests[r]))
          PROVE  requests'[r].blob_key = requests[r].blob_key /\ requests'[r].pc # "put"
      <3>1. Reserved(requests[r]) # "put"
        BY DEF Reserved
      <3> QED
        BY <1>1, <2>1, <3>1, ContinueSets
    <2> QED
      BY <1>3, <1>7, <2>1 DEF ReserveReplay
  <1>8. CASE MutationTransaction(r)
    BY <1>3, <1>8, TransactionAnswers
  <1>9. CASE DeleteBlobRow(r)
    <2>1. PICK n, answer :
            /\ n \in known
            /\ \/ requests' = [requests EXCEPT ![r] =
                    [[Unused EXCEPT !.op = "delete-blob"] EXCEPT
                       !.pc = "idle", !.blob_key = None, !.prepared = FALSE, !.answer = answer]]
               \/ requests' = [requests EXCEPT ![r] =
                    [Unused EXCEPT !.pc = "unlink", !.op = "delete-blob", !.blob_key = n]]
      BY <1>9, ZenonT(60) DEF DeleteBlobRow, Respond
    <2> DEFINE refused == [[Unused EXCEPT !.op = "delete-blob"] EXCEPT !.pc = "idle",
                                !.blob_key = None, !.prepared = FALSE, !.answer = answer]
               deleted == [Unused EXCEPT !.pc = "unlink", !.op = "delete-blob", !.blob_key = n]
    <2>2. /\ refused.pc = "idle" /\ refused.blob_key = None
          /\ deleted.pc = "unlink" /\ deleted.blob_key = n
      BY DEF Unused
    <2>3. requests'[r] = refused \/ requests'[r] = deleted
      BY <1>1, <2>1
    <2> HIDE DEF refused, deleted
    <2> QED
      BY <2>1, <2>2, <2>3
  <1>10. CASE Unlink(r)
    BY <1>3, <1>10 DEF Unlink
  <1>11. CASE Abort(r)
    BY <1>1, <1>11 DEF Abort, Unused
  <1> QED
    BY <1>4, <1>5, <1>6, <1>7, <1>8, <1>9, <1>10, <1>11 DEF HandlerStep

\* It tells its client of the blob it named.
LEMMA HandlerKnows ==
    ASSUME NEW r \in Requests, HandlerStep(r)
    PROVE  known' \subseteq known \cup {requests[r].blob_key}
  <1>1. CASE Put(r)
    BY <1>1 DEF Put
  <1>2. CASE ApplyCreate(r)
    BY <1>2 DEF ApplyCreate
  <1>3. CASE ApplyUpdate(r)
    BY <1>3 DEF ApplyUpdate
  <1>4. CASE RefuseNotFound(r) \/ RefuseConflict(r) \/ RefuseNotStaged(r) \/ RedeleteTombstone(r)
    <2>1. \E result : Decline(r, result)
      BY <1>4 DEF RefuseNotFound, RefuseConflict, RefuseNotStaged, RedeleteTombstone
    <2> QED
      BY <2>1 DEF Decline
  <1>5. CASE AnswerMismatch(r) \/ AnswerStored(r) \/ ApplyDelete(r)
    BY <1>5 DEF AnswerMismatch, AnswerStored, ApplyDelete
  <1>6. CASE Stage(r) \/ Prepare(r) \/ ReserveReplay(r)
    BY <1>6 DEF Stage, StageRow, Prepare, ReserveReplay
  <1>7. CASE DeleteBlobRow(r) \/ Unlink(r) \/ Abort(r)
    BY <1>7 DEF DeleteBlobRow, Unlink, Abort
  <1> QED
    BY <1>1, <1>2, <1>3, <1>4, <1>5, <1>6, <1>7 DEF HandlerStep, MutationTransaction

\* So a blob that is being written stays its request's.
LEMMA NextPuts ==
    Typed /\ Minted /\ PutsAreNew /\ [Next]_vars => PutsAreNew'
  <1> SUFFICES ASSUME Typed, Minted, PutsAreNew, [Next]_vars,
                      NEW r \in Requests, requests'[r].pc = "put"
               PROVE  LET k == requests'[r].blob_key IN
                      k \notin known' /\ \A s \in Requests \ {r} : requests'[s].blob_key # k
    BY DEF PutsAreNew
  <1>1. requests \in [Requests -> RequestState]
    BY DEF Typed, TypeOK, ObjectMutationsTypeOK
  <1>2. CASE known' = known /\ requests' = requests
    BY <1>2 DEF PutsAreNew
  <1>3. ASSUME NEW t \in Requests, HandlerStep(t)
        PROVE  LET k == requests'[r].blob_key IN
               k \notin known' /\ \A s \in Requests \ {r} : requests'[s].blob_key # k
    <2> DEFINE k == requests'[r].blob_key
    <2>1. PICK p : requests' = [requests EXCEPT ![t] = p]
      BY <1>3, HandlerMoves
    <2>2. \A s \in Requests \ {t} : requests'[s] = requests[s]
      BY <1>1, <2>1
    <2>3. CASE t = r
      <3>1. Stage(r) /\ k \in Blobs \ minted
        BY <1>3, <2>3, HandlerNames
      <3>2. known' = known
        BY <3>1 DEF Stage, StageRow
      <3>3. \A s \in Requests \ {r} : requests[s].blob_key # k
        BY <3>1, NoneAssumption DEF Minted
      <3> QED
        BY <2>2, <2>3, <3>1, <3>2, <3>3 DEF Minted
    <2>4. CASE t # r
      <3>1. /\ requests'[r] = requests[r] /\ k \in Blobs /\ k \in minted /\ k # None
            /\ k \notin known /\ \A s \in Requests \ {r} : requests[s].blob_key # k
        BY <1>1, <2>2, <2>4, NoneAssumption
           DEF PutsAreNew, Minted, Typed, HandlersHold, Holds
      <3>2. k \notin known'
        BY <1>3, <2>4, <3>1, HandlerKnows
      <3>3. requests'[t].blob_key # k
        BY <1>3, <2>4, <3>1, HandlerNames
      <3> QED
        BY <2>2, <3>1, <3>2, <3>3
    <2> QED
      BY <2>3, <2>4
  <1>4. (known' = known /\ requests' = requests) \/ \E t \in Requests : HandlerStep(t)
    BY DEF Next, vars, RequestStep, ClaimCollection, DeleteCollection, Tick
  <1> QED
    BY <1>2, <1>3, <1>4

\* Handlers write no file that an object names, and remove no row of one.
LEMMA HandlerFiles ==
    ASSUME Typed, Minted, NamesHold, [Next]_vars, NEW r \in Requests, HandlerStep(r),
           NEW k \in Blobs, Named(k), blob_ledger'[k] = None
    PROVE  blob_ledger[k] = None /\ files' \subseteq files \cup (Blobs \ {k})
  <1>1. /\ blob_ledger \in [Blobs -> LedgerRow \cup {None}]
        /\ files \subseteq Blobs /\ requests[r] \in RequestState
    BY DEF Typed, TypeOK, DatabaseTypeOK, ObjectMutationsTypeOK
  <1>2. k \in known /\ ~InState(k, "staged")
    BY DEF Named, NamesHold, NamedRows, NamedAreKnown
  <1>3. CASE blob_ledger[k] = None
    <2>1. CASE Put(r)
      <3>1. requests[r].blob_key \in Blobs \ {k}
        BY <1>2, <2>1 DEF Put, NamesHold, PutsAreNew, Typed, HandlersHold, Holds
      <3> QED
        BY <1>3, <2>1, <3>1 DEF Put, WriteFile
    <2>2. CASE Stage(r) \/ Prepare(r) \/ ReserveReplay(r) \/ DeleteBlobRow(r) \/ Abort(r)
      BY <1>3, <2>2 DEF Stage, StageRow, Prepare, ReserveReplay, DeleteBlobRow, Abort, database
    <2>3. CASE MutationTransaction(r)
      <3>1. ASSUME NEW result, Decline(r, result) PROVE files' = files
        BY <3>1 DEF Decline
      <3>2. files' = files
        BY <2>3, <3>1
           DEF MutationTransaction, AnswerMismatch, AnswerStored, RefuseNotFound, RefuseConflict,
               RefuseNotStaged, ApplyCreate, ApplyUpdate, ApplyDelete, RedeleteTombstone, database
      <3> QED
        BY <1>3, <3>2
    <2>4. CASE Unlink(r)
      BY <1>3, <2>4 DEF Unlink
    <2> QED
      BY <2>1, <2>2, <2>3, <2>4 DEF HandlerStep
  <1>4. CASE blob_ledger[k] # None
    <2>1. CASE Stage(r)
      BY <1>1, <1>4, <2>1 DEF Stage, StageRow, Typed, Minted
    <2>2. ~(Put(r) \/ Prepare(r) \/ ReserveReplay(r) \/ Unlink(r) \/ Abort(r))
      BY <1>4 DEF Put, Prepare, ReserveReplay, Unlink, Abort, database
    <2>3. ~DeleteBlobRow(r)
      BY <1>1, <1>2, <1>4 DEF DeleteBlobRow
    <2>4. ~MutationTransaction(r)
      <3>1. ASSUME NEW result, Decline(r, result) PROVE blob_ledger' = blob_ledger
        BY <3>1 DEF Decline
      <3>2. ASSUME ApplyCreate(r) PROVE FALSE
        BY <1>4, <3>2, CreateClaims DEF Becomes
      <3>3. ASSUME NEW old PROVE Release(blob_ledger, old)[k] # None
        <4> DEFINE released == [blob_ledger[k] EXCEPT !.state = "retained", !.object_id = None,
                                                      !.object_version = 0, !.since = now]
        <4>1. released \in LedgerRow
          <5>1. blob_ledger[k] \in LedgerRow /\ DatabaseTypeOK
            BY <1>1, <1>4 DEF Typed, TypeOK
          <5> QED
            BY <5>1 DEF LedgerRow, BlobStates, DatabaseTypeOK
        <4>2. released # None
          BY <4>1, RowAssumption
        <4>3. Release(blob_ledger, old)[k] \in {blob_ledger[k], released}
          BY <1>1 DEF Release
        <4> HIDE DEF released
        <4> QED
          BY <1>4, <4>2, <4>3
      <3>4. ASSUME ApplyUpdate(r) PROVE FALSE
        <4> DEFINE q == requests[r]
                   old == objects[q.object_id].blob_key
        <4>1. blob_ledger' = Claim(Release(blob_ledger, old), q.blob_key, q.collection_id,
                                   q.object_id, q.version)
          BY <3>4 DEF ApplyUpdate
        <4>2. k # q.blob_key
          BY <3>4, UpdateClaims, SMTT(30) DEF Becomes
        <4>3. blob_ledger'[k] = Release(blob_ledger, old)[k]
          BY <1>1, <4>1, <4>2 DEF Claim, Release
        <4> QED
          BY <3>3, <4>3
      <3>5. ASSUME ApplyDelete(r) PROVE FALSE
        BY <3>3, <3>5 DEF ApplyDelete
      <3> QED
        BY <1>4, <3>1, <3>2, <3>4, <3>5, ZenonT(60)
           DEF MutationTransaction, AnswerMismatch, AnswerStored, RefuseNotFound, RefuseConflict,
               RefuseNotStaged, RedeleteTombstone, database
    <2> QED
      BY <2>1, <2>2, <2>3, <2>4 DEF HandlerStep
  <1> QED
    BY <1>3, <1>4

\* One process that never fails removes the file of each row it purges, before
\* it walks the files again.
LEMMA JobFiles ==
    ASSUME Typed, NamesHold, OrphansAreGone, [Next]_vars, NEW s \in Maintainers,
           JobStep(s) \/ Fault(s), NEW k \in Blobs, Named(k), blob_ledger'[k] = None
    PROVE  /\ CollectGarbage
           /\ \/ k \notin files'
              \/ \E t \in Maintainers : maintenance'[t].pc = "remove" /\ maintenance'[t].key = k
           /\ \A t \in Maintainers : maintenance'[t].pc = "adopt" => maintenance'[t].key # k
  <1> DEFINE m == maintenance[s]
             Clear == /\ k \notin files'
                         \/ \E t \in Maintainers : maintenance'[t].pc = "remove" /\ maintenance'[t].key = k
                      /\ \A t \in Maintainers : maintenance'[t].pc = "adopt" => maintenance'[t].key # k
  <1>1. /\ maintenance \in [Maintainers -> MaintainerState] /\ m \in MaintainerState
        /\ MaintenanceTypeOK /\ blob_ledger \in [Blobs -> LedgerRow \cup {None}]
    BY DEF Typed, TypeOK, MaintenanceTypeOK, DatabaseTypeOK
  <1>2. CollectGarbage
    <2>1. CASE blob_ledger[k] = None
      BY <2>1 DEF NamesHold, NamedFiles
    <2>2. CASE blob_ledger[k] # None
      <3>1. CASE PurgeRow(s)
        BY <3>1 DEF PurgeRow, NamesHold, NothingIsPurged
      <3>2. CASE Adopt(s)
        BY <1>1, <2>2, <3>2 DEF Adopt
      <3> QED
        BY <2>2, <3>1, <3>2
           DEF JobStep, StartWalk, Stat, EndWalk, ExpirePending, ExpireOther, ListEligible,
               RemoveFile, EndPass, Fault, database
    <2> QED
      BY <2>1, <2>2
  <1>3. /\ ~Faults /\ \A t \in Maintainers : t = s
        /\ blob_ledger[k] = None => k \notin files \/ (m.pc = "remove" /\ m.key = k)
        /\ blob_ledger[k] = None /\ m.pc = "adopt" => m.key # k
    <2>1. ~Faults /\ \A t \in Maintainers : t = s
      BY <1>2 DEF OrphansAreGone, OneMaintainer
    <2>2. ASSUME blob_ledger[k] = None
          PROVE  /\ \/ k \notin files
                    \/ \E t \in Maintainers : maintenance[t].pc = "remove" /\ maintenance[t].key = k
                 /\ m.pc = "adopt" => m.key # k
      BY <2>2 DEF NamesHold, NamedFiles
    <2>3. ASSUME blob_ledger[k] = None
          PROVE  k \notin files \/ (m.pc = "remove" /\ m.key = k)
      <3>1. CASE k \notin files
        BY <3>1
      <3>2. CASE k \in files
        <4>1. PICK t \in Maintainers : maintenance[t].pc = "remove" /\ maintenance[t].key = k
          BY <2>2, <2>3, <3>2
        <4>2. t = s
          BY <2>1
        <4> QED
          BY <4>1, <4>2
      <3> QED
        BY <3>1, <3>2
    <2> QED
      BY <2>1, <2>2, <2>3
  <1>4. ASSUME maintenance'[s].pc # "adopt", k \notin files' PROVE Clear
    BY <1>3, <1>4
  <1>17. ASSUME maintenance'[s].key # k, k \notin files' PROVE Clear
    BY <1>3, <1>17
  <1>18. ASSUME maintenance'[s].key = k, maintenance'[s].pc = "remove" PROVE Clear
    BY <1>3, <1>18
  <1> SUFFICES Clear
    BY <1>2
  <1> HIDE DEF Clear
  <1>5. ASSUME NEW pc, pc # "adopt", NEW todo, Enter(s, pc, todo), m.pc # "remove",
               UNCHANGED <<blob_ledger, files>>
        PROVE  Clear
    BY <1>1, <1>3, <1>4, <1>5, EnterSets
  <1>6. CASE StartWalk(s)
    BY <1>5, <1>6 DEF StartWalk, database
  <1>7. CASE Stat(s)
    <2>1. PICK j \in m.todo :
            \/ j \in files /\ maintenance'[s] = [m EXCEPT !.pc = "adopt", !.todo = @ \ {j}, !.key = j]
            \/ Enter(s, "expire-pending", {})
      BY <1>1, <1>7 DEF Stat
    <2>2. UNCHANGED <<blob_ledger, files>> /\ m.pc = "walk"
      BY <1>7 DEF Stat, database
    <2>3. CASE maintenance'[s] = [m EXCEPT !.pc = "adopt", !.todo = @ \ {j}, !.key = j] /\ j \in files
      <3>1. maintenance'[s].pc = "adopt" /\ maintenance'[s].key = j
        BY <1>1, <2>3 DEF MaintainerState
      <3>2. k \notin files
        BY <1>3, <2>2
      <3> QED
        BY <1>17, <2>2, <2>3, <3>1, <3>2
    <2> QED
      BY <1>5, <2>1, <2>2, <2>3
  <1>8. CASE Adopt(s)
    <2>1. blob_ledger[k] = None /\ files' = files /\ m.pc = "adopt"
      BY <1>1, <1>8 DEF Adopt
    <2>2. maintenance'[s].pc = "walk"
      BY <1>1, <1>8, EnterSets DEF Adopt
    <2> QED
      BY <1>3, <1>4, <2>1, <2>2
  <1>9. CASE EndWalk(s)
    BY <1>5, <1>9 DEF EndWalk, database
  <1>10. CASE ExpirePending(s)
    BY <1>5, <1>10 DEF ExpirePending
  <1>11. CASE ExpireOther(s)
    BY <1>5, <1>11 DEF ExpireOther
  <1>12. CASE ListEligible(s)
    BY <1>5, <1>12 DEF ListEligible, database
  <1>13. CASE PurgeRow(s)
    <2>1. PICK j \in m.todo :
            \/ /\ blob_ledger' = [blob_ledger EXCEPT ![j] = None]
               /\ maintenance' = [maintenance EXCEPT ![s] =
                    [pc |-> "remove", todo |-> m.todo \ {j}, key |-> j, purged |-> TRUE]]
            \/ /\ maintenance' = [maintenance EXCEPT ![s].todo = @ \ {j}]
               /\ UNCHANGED blob_ledger
      BY <1>13 DEF PurgeRow
    <2>2. files' = files /\ m.pc = "purge"
      BY <1>13 DEF PurgeRow
    <2>3. CASE /\ blob_ledger' = [blob_ledger EXCEPT ![j] = None]
               /\ maintenance' = [maintenance EXCEPT ![s] =
                    [pc |-> "remove", todo |-> m.todo \ {j}, key |-> j, purged |-> TRUE]]
      <3>1. maintenance'[s].pc = "remove" /\ maintenance'[s].key = j
        BY <1>1, <2>3
      <3>2. k = j \/ blob_ledger[k] = None
        BY <1>1, <2>3
      <3>3. CASE k = j
        BY <1>18, <3>1, <3>3
      <3>4. CASE k # j
        BY <1>3, <1>17, <2>2, <3>1, <3>2, <3>4
      <3> QED
        BY <3>3, <3>4
    <2>4. CASE maintenance' = [maintenance EXCEPT ![s].todo = @ \ {j}] /\ UNCHANGED blob_ledger
      <3>1. maintenance'[s].pc = "purge"
        BY <1>1, <2>2, <2>4 DEF MaintainerState
      <3> QED
        BY <1>3, <1>4, <2>2, <2>4, <3>1
    <2> QED
      BY <2>1, <2>3, <2>4
  <1>14. CASE RemoveFile(s)
    <2>1. files' = files \ {m.key} /\ UNCHANGED blob_ledger
      BY <1>14 DEF RemoveFile
    <2>2. maintenance'[s].pc = "purge"
      BY <1>1, <1>14 DEF RemoveFile, MaintainerState
    <2> QED
      BY <1>3, <1>4, <2>1, <2>2
  <1>15. CASE EndPass(s)
    BY <1>5, <1>15 DEF EndPass, database
  <1>16. ~Fault(s)
    BY <1>3 DEF Fault
  <1> QED
    BY <1>6, <1>7, <1>8, <1>9, <1>10, <1>11, <1>12, <1>13, <1>14, <1>15, <1>16 DEF JobStep

\* A file that an object still names is not adopted.
LEMMA NextNamedFiles ==
    ASSUME OrphansAreGone
    PROVE  Typed /\ Minted /\ NamesHold /\ [Next]_vars => NamedFiles'
  <1> SUFFICES ASSUME Typed, Minted, NamesHold, [Next]_vars, NEW k \in Blobs,
                      Named(k)', blob_ledger'[k] = None
               PROVE  /\ CollectGarbage
                      /\ \/ k \notin files'
                         \/ \E t \in Maintainers : maintenance'[t].pc = "remove" /\ maintenance'[t].key = k
                      /\ \A t \in Maintainers : maintenance'[t].pc = "adopt" => maintenance'[t].key # k
    BY DEF NamedFiles
  <1>1. Named(k)
    BY NamedSteps DEF Named, Becomes
  <1>2. ASSUME NEW r \in Requests, HandlerStep(r), UNCHANGED maintenance
        PROVE  blob_ledger[k] = None /\ (k \in files' => k \in files)
    BY <1>1, <1>2, HandlerFiles
  <1>3. ASSUME ClaimCollection \/ Tick \/ UNCHANGED vars
        PROVE  blob_ledger[k] = None /\ files' = files
    <2>1. blob_ledger' = blob_ledger /\ files' = files
      BY <1>3 DEF ClaimCollection, Tick, vars, database
    <2> QED
      BY <2>1
  <1>4. ASSUME NEW c \in Collections, DeleteCollection(c)
        PROVE  blob_ledger[k] = None /\ files' = files
    <2>1. CASE blob_ledger'[k] = blob_ledger[k]
      BY <1>4, <2>1 DEF DeleteCollection
    <2>2. CASE blob_ledger'[k] # blob_ledger[k]
      <3>1. blob_ledger'[k] \in LedgerRow
        BY <1>4, <2>2, ZenonT(60) DEF DeleteCollection, LedgerWithout, LedgerRow, BlobStates, Typed, TypeOK,
                          DatabaseTypeOK
      <3> QED
        BY <3>1, RowAssumption
    <2> QED
      BY <2>1, <2>2
  <1>5. ASSUME blob_ledger[k] = None, k \in files' => k \in files, UNCHANGED maintenance
        PROVE  /\ CollectGarbage
               /\ \/ k \notin files'
                  \/ \E t \in Maintainers : maintenance'[t].pc = "remove" /\ maintenance'[t].key = k
               /\ \A t \in Maintainers : maintenance'[t].pc = "adopt" => maintenance'[t].key # k
    BY <1>1, <1>5 DEF NamesHold, NamedFiles
  <1>6. CASE \E s \in Maintainers : JobStep(s) \/ Fault(s)
    BY <1>1, <1>6, JobFiles
  <1> QED
    BY <1>2, <1>3, <1>4, <1>5, <1>6
       DEF Next, RequestStep, ClaimCollection, Tick, vars, database

\* Without garbage collection no job purges.
LEMMA NextUnpurged ==
    Typed /\ NothingIsPurged /\ [Next]_vars => NothingIsPurged'
  <1> SUFFICES ASSUME Typed, NothingIsPurged, [Next]_vars, ~CollectGarbage,
                      NEW t \in Maintainers
               PROVE  maintenance'[t].pc \notin {"list", "purge", "remove"}
    BY DEF NothingIsPurged
  <1>1. /\ maintenance \in [Maintainers -> MaintainerState] /\ MaintenanceTypeOK
        /\ maintenance[t].pc \notin {"list", "purge", "remove"}
    BY DEF Typed, TypeOK, MaintenanceTypeOK, NothingIsPurged
  <1>2. ASSUME NEW s \in Maintainers, JobStep(s) \/ Fault(s), s # t
        PROVE  maintenance'[t] = maintenance[t]
    BY <1>1, <1>2
       DEF JobStep, StartWalk, Stat, Adopt, EndWalk, ExpirePending, ExpireOther, ListEligible,
           PurgeRow, RemoveFile, EndPass, Fault, Enter
  <1>3. ASSUME JobStep(t) \/ Fault(t) PROVE maintenance'[t].pc \notin {"list", "purge", "remove"}
    <2>1. ASSUME NEW pc, pc \notin {"list", "purge", "remove"}, NEW todo, Enter(t, pc, todo)
          PROVE  maintenance'[t].pc \notin {"list", "purge", "remove"}
      BY <1>1, <2>1, EnterSets
    <2>2. CASE Stat(t)
      <3>1. PICK k : \/ maintenance'[t] = [maintenance[t] EXCEPT !.pc = "adopt", !.todo = @ \ {k}, !.key = k]
                     \/ Enter(t, "expire-pending", {})
        BY <1>1, <2>2 DEF Stat
      <3> QED
        BY <1>1, <2>1, <3>1 DEF MaintainerState
    <2>3. CASE StartWalk(t) \/ Adopt(t) \/ EndWalk(t) \/ ExpirePending(t)
      BY <2>1, <2>3 DEF StartWalk, Adopt, EndWalk, ExpirePending
    <2>4. CASE ExpireOther(t)
      BY <2>1, <2>4 DEF ExpireOther
    <2>5. ~(ListEligible(t) \/ PurgeRow(t) \/ RemoveFile(t) \/ EndPass(t))
      BY <1>1 DEF ListEligible, PurgeRow, RemoveFile, EndPass
    <2>6. CASE Fault(t)
      BY <1>1, <2>1, <2>6 DEF Fault
    <2> QED
      BY <1>3, <2>2, <2>3, <2>4, <2>5, <2>6 DEF JobStep
  <1>4. CASE UNCHANGED maintenance
    BY <1>1, <1>4
  <1> QED
    BY <1>1, <1>2, <1>3, <1>4 DEF Next, vars

\* Whatever clients do, deleted notes they update included, a live object's blob is
\* claimed by it as long as nothing is collected, or one process collects and no
\* removal fails.
THEOREM LiveObjectsKeepTheirOwn ==
    ASSUME OrphansAreGone
    PROVE  Spec => []LiveObjectsHoldTheirClaim
  <1>1. Init => NamesHold /\ ClaimNamesItsVersion /\ LiveObjectsHoldTheirClaim
    <2> SUFFICES ASSUME Init PROVE NamesHold /\ ClaimNamesItsVersion /\ LiveObjectsHoldTheirClaim
      OBVIOUS
    <2>1. /\ \A o \in Objects : objects[o] = None
          /\ \A k \in Blobs : blob_ledger[k] = None
      BY DEF Init, DatabaseInit
    <2>2. \A r \in Requests : requests[r].pc = "idle"
      BY DEF Init, ObjectMutationsInit, Unused
    <2>3. \A s \in Maintainers : maintenance[s].pc = "idle"
      BY DEF Init, MaintenanceInit, Resting
    <2> QED
      BY <2>1, <2>2, <2>3
         DEF NamesHold, NamedRows, NamedAreKnown, PutsAreNew, NamedFiles, NothingIsPurged, Named,
             ClaimNamesItsVersion, LiveObjectsHoldTheirClaim, InState
  <1>2. Typed /\ Minted /\ NamesHold /\ [Next]_vars => NamesHold'
    BY NextNamedRows, NextNamedKnown, NextPuts, NextNamedFiles, NextUnpurged DEF NamesHold
  <1>3. Typed /\ Minted /\ NamesHold /\ ClaimNamesItsVersion /\ LiveObjectsHoldTheirClaim
        /\ [Next]_vars => LiveObjectsHoldTheirClaim'
    <2>1. Typed /\ NamesHold => ReleasesItsOwn
      BY UpdateClaims DEF NamesHold, NamedRows, ReleasesItsOwn
    <2> QED
      BY <2>1, NextLive
  <1> QED
    BY <1>1, <1>2, <1>3, InitTyped, NextTyped, InitMinted, NextMinted, NextClaims, PTL DEF Spec
=============================================================================
