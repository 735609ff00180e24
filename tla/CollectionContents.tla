------------------------- MODULE CollectionContents -------------------------
(***************************************************************************)
(* The sync server: request handlers and maintenance over one database and *)
(* one storage directory, and what must stay true of collection contents,  *)
(* Mutation IDs and blobs however they interleave.                         *)
(***************************************************************************)
EXTENDS ObjectMutations, Maintenance

vars == <<database, known, requests, maintenance>>

Init == DatabaseInit /\ ObjectMutationsInit /\ MaintenanceInit

Next ==
    \/ RequestStep /\ UNCHANGED maintenance
    \/ \E s \in Maintainers :
         (JobStep(s) \/ Fault(s)) /\ UNCHANGED <<known, requests>>
    \/ Tick /\ UNCHANGED <<known, requests, maintenance>>

Spec == Init /\ [][Next]_vars

\* The scheduler goroutine keeps running jobs; requests and the clock promise
\* nothing.
FairSpec ==
    Spec /\ \A s \in Maintainers :
              WF_vars(JobStep(s) /\ UNCHANGED <<known, requests>>)

TypeOK == DatabaseTypeOK /\ ObjectMutationsTypeOK /\ MaintenanceTypeOK

-----------------------------------------------------------------------------
(* Safety                                                                   *)

\* CONTEXT.md, "Claimed Blob": a blob bound exclusively to an object version.
\* A claimed ledger row names the object whose current key it is, at that
\* object's current version, in the same live collection.
ClaimNamesItsVersion ==
    \A k \in Blobs : InState(k, "claimed") =>
        LET row == blob_ledger[k] IN
        /\ row.collection_id \in collections
        /\ row.object_id \in Objects
        /\ objects[row.object_id] # None
        /\ objects[row.object_id].collection_id = row.collection_id
        /\ objects[row.object_id].blob_key = k
        /\ objects[row.object_id].version = row.object_version

\* Exactly-once creates, and API.md's durable recovery: as long as an object
\* exists, recovering the Mutation ID that created it names it.  Hence two
\* objects never come from one Mutation ID, and a 404 from recovery proves the
\* create never committed, whatever retries, expiry and deletions do.
CreatesAreRecoverable ==
    \A o \in Objects :
        objects[o] # None /\ objects[o].created_by # None =>
            RecoverCreate(objects[o].collection_id, objects[o].created_by)
                = Outcome(201, "", o, 1)

\* The pull cursor: change_seq orders the objects of a collection without
\* ties, and the collection's cursor has reached every one of them.
CursorOrdersChanges ==
    \A o \in Objects : objects[o] # None =>
        /\ objects[o].collection_id \in collections
        /\ objects[o].change_seq \in 1 .. current_version[objects[o].collection_id]
        /\ \A p \in Objects \ {o} :
             /\ objects[p] # None
             /\ objects[p].collection_id = objects[o].collection_id
             => objects[p].change_seq # objects[o].change_seq

\* What clients were told: the latest answer of each request slot.
Answered(r, status) == requests[r].pc = "idle" /\ requests[r].answer.status = status

\* Two successful answers to one create intent name the same object, and that
\* object is there as long as its collection is: a lost response followed by a
\* retry never duplicates a note, and an acknowledged create is never lost.
RetriesAgree ==
    \A r, s \in Requests :
        LET q == requests[r]
            p == requests[s] IN
        /\ Answered(r, 201) /\ Kind(q) = "create" /\ q.collection_id \in collections
        => /\ objects[q.answer.object_id] # None
           /\ /\ Answered(s, 201) /\ Kind(p) = "create"
              /\ p.mutation_id = q.mutation_id /\ q.mutation_id # None
              /\ p.collection_id = q.collection_id
              => p.answer.object_id = q.answer.object_id

\* DESIGN.md, "Push": two updates of an object that ask for the same version
\* are never both accepted, unless they are one intent under one Mutation ID.
NoLostUpdate ==
    \A r, s \in Requests :
        LET q == requests[r]
            p == requests[s] IN
        /\ r # s
        /\ Kind(q) = "update" /\ Kind(p) = "update"
        /\ Answered(r, 200) /\ Answered(s, 200)
        /\ q.object_id = p.object_id /\ q.version = p.version
        => q.mutation_id = p.mutation_id /\ q.mutation_id # None

\* A live object's blob is claimed by it: garbage collection, which skips
\* claimed rows, can never take the bytes of a note that is still there, and no
\* two notes share a blob.
LiveObjectsHoldTheirClaim ==
    \A o \in Objects :
        objects[o] # None /\ ~objects[o].deleted =>
            /\ InState(objects[o].blob_key, "claimed")
            /\ blob_ledger[objects[o].blob_key].object_id = o

\* A blob that collection contents claim, or keep as a merge ancestor, has its
\* bytes: CONTEXT.md's claimed blob "cannot be deleted independently from the
\* collection contents that claim it".
BytesBehindContents ==
    \A k \in Blobs : InState(k, "claimed") \/ InState(k, "retained") => k \in files

-----------------------------------------------------------------------------
(* What a step may never do                                                 *)

OutcomeKept(m) ==
    /\ mutation_results[m] # None
    /\ mutation_results[m].result.status # 102
    /\ mutation_results'[m] # None
    => mutation_results'[m] = mutation_results[m]

\* A recorded outcome may be forgotten but is never replaced, so every retry
\* inside the retention window is answered what the first request was.
OutcomesAreFinal == [][\A m \in MutationIDs : OutcomeKept(m)]_vars

\* Object o is in the table before and after a step that changes it.
Changed(o) == objects[o] # None /\ objects'[o] # None /\ objects'[o] # objects[o]

Appeared(o) == objects[o] = None /\ objects'[o] # None

\* The objects of collection c that a step changes or adds.
Moved(c) == {o \in Objects : (Changed(o) \/ Appeared(o)) /\ objects'[o].collection_id = c}

\* A step leaves c and its cursor alone, or takes the cursor's next value for
\* the next version of one object; a tombstone stays a tombstone.
OneChange(c) ==
    \/ Moved(c) = {} /\ current_version'[c] = current_version[c]
    \/ \E o \in Objects :
         /\ Moved(c) = {o}
         /\ current_version'[c] = current_version[c] + 1
         /\ objects'[o].change_seq = current_version'[c]
         /\ IF Appeared(o) THEN objects'[o].version = 1
            ELSE /\ objects'[o].version = objects[o].version + 1
                 /\ objects[o].deleted => objects'[o].deleted

\* Every object mutation is exactly one change of its collection, and the
\* cursor moves for nothing else.
MutationsAreChanges == [][\A c \in Collections : OneChange(c)]_vars

-----------------------------------------------------------------------------
(* The abstract lifetime the ledger implements                              *)

LedgerStage == [k \in Blobs |->
    IF blob_ledger[k] # None THEN blob_ledger[k].state
    ELSE IF k \in minted THEN "gone" ELSE "unborn"]

Lifetime == INSTANCE BlobLifetime WITH stage <- LedgerStage

\* Whatever handlers and maintenance do, each blob only moves along CONTEXT.md's
\* lifetime: nothing purges or re-stages a claimed blob, nothing revives a
\* retained one.
BlobsFollowTheirLifetime == Lifetime!Spec

\* What List shows of each object.
FeedRows == [o \in Objects |->
    IF objects[o] = None THEN None
    ELSE [collection_id |-> objects[o].collection_id, version |-> objects[o].version,
          change_seq |-> objects[o].change_seq, deleted |-> objects[o].deleted]]

Feed == INSTANCE ChangeFeed WITH rows <- FeedRows

ASSUME ShownAssumption == None \notin Feed!Row

\* Whatever handlers do, a collection is a feed of changes to those who pull
\* it: PullClient shows that they then miss nothing.
CollectionsAreFeeds == Feed!FeedSpec

-----------------------------------------------------------------------------
(* What must eventually happen                                              *)

\* The clock goes on as well as the scheduler.
ClockSpec == FairSpec /\ WF_vars(Tick /\ UNCHANGED <<known, requests, maintenance>>)

\* Removals stop failing and the scheduler is no longer interrupted: what could
\* be a fault is an ordinary step of the job.
FaultsCease == <>[][\A s \in Maintainers : Fault(s) => JobStep(s)]_vars

\* Deleting a collection frees its storage: a purgeable row is purged.
PurgeableRowsGo ==
    FaultsCease => \A k \in Blobs : InState(k, "purgeable") ~> blob_ledger[k] = None

\* A file without a row, left by a crash or a failed removal between a row's
\* deletion and the file's, is adopted or removed.
OrphansAreFound == FaultsCease =>
    \A k \in Blobs :
        k \in files /\ blob_ledger[k] = None ~> k \notin files \/ blob_ledger[k] # None

\* DESIGN.md: a blob no mutation claims is reclaimed by the staging window.
StagedBlobsDoNotLinger == FaultsCease =>
    \A k \in Blobs : \A t \in 0 .. MaxTime - StagedLifetime - 1 :
        InState(k, "staged") /\ blob_ledger[k].since = t
            ~> ~(InState(k, "staged") /\ blob_ledger[k].since = t)

\* An in-progress claim whose request died does not block its Mutation ID for
\* ever: retries stop being answered "mutation still in progress".
ClaimsDoNotLinger == FaultsCease =>
    \A m \in MutationIDs : \A t \in 0 .. MaxTime - PendingLifetime - 1 :
        LET stuck == /\ mutation_results[m] # None
                     /\ mutation_results[m].result.status = 102
                     /\ mutation_results[m].created_at = t IN
        stuck ~> ~stuck
=============================================================================
