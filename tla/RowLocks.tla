------------------------------ MODULE RowLocks ------------------------------
(***************************************************************************)
(* The server's transactions on PostgreSQL, one statement at a time.       *)
(*                                                                         *)
(* CollectionContents takes a transaction for one step.  On SQLite that is *)
(* what _txlock=immediate does; on PostgreSQL it is what the advisory lock *)
(* on the Mutation ID and the FOR UPDATE clauses are there to achieve, and *)
(* this module checks that they do: what a transaction read under a lock   *)
(* is still true when it commits, and the order in which locks are taken   *)
(* lets only the statements that lock many rows at once deadlock.          *)
(*                                                                         *)
(* Isolation is READ COMMITTED.  A transaction's writes are applied when   *)
(* it commits: until then only its locks show.  A statement finds its rows *)
(* in the committed state at its start, waits for each row's lock, and     *)
(* looks at the row again when it has it.  An object row is locked only by *)
(* holders of its collection's row, so its lock is never waited for.       *)
(***************************************************************************)
EXTENDS Integers, Sequences, FiniteSetsExt, SequencesExt

CONSTANTS
    Tx,            \* transactions; each runs once
    Work(_),       \* what each may run
    Contents,      \* what the tables may hold at first
    Collections, Objects, Blobs, MutationIDs,
    None           \* a missing row, an absent value

ASSUME NoneAssumption ==
    None \notin Collections \cup Objects \cup Blobs \cup MutationIDs
ASSUME FiniteAssumption == IsFiniteSet(Blobs) /\ IsFiniteSet(MutationIDs)

VARIABLES
    collections,   \* the committed rows of collections
    objects,       \* ... of objects: [collection, version, blob, deleted], or None
    ledger,        \* ... of blob_ledger: [state, collection], or None
    results,       \* ... of mutation_results: [collection, status, age], or None
    tx             \* each transaction: what it runs, where it is, its locks

tables == <<collections, objects, ledger, results>>
vars   == <<tables, tx>>

-----------------------------------------------------------------------------
(* Rows.  "stale" is a staged row past its window; the rows of superseded   *)
(* blobs are taken to be past theirs or not.  age says which deadlines a    *)
(* result has missed: 24 hours (1), 30 days as well (2).                    *)

ObjectRow == [collection : Collections, version : Nat,
              blob : Blobs, deleted : BOOLEAN]
LedgerRow == [state : {"staged", "stale", "claimed", "retained", "purgeable"},
              collection : Collections \cup {None}]
ResultRow == [collection : Collections, status : {"pending", "done"}, age : 0 .. 2]

Row(state, c) == [state |-> state, collection |-> c]

\* An object is in a collection and its blob is its own, claimed for it while it
\* lives and for no other collection after that; a claim is a collection's.
EachHoldsItsBlob(cs, os, blobs) ==
    /\ \A o \in Objects : os[o] # None =>
         LET held == blobs[os[o].blob] IN
         /\ os[o].collection \in cs
         /\ \A p \in Objects \ {o} : os[p] # None => os[p].blob # os[o].blob
         /\ held # None => /\ held.state \notin {"staged", "stale"}
                           /\ held.state = "claimed" => held.collection = os[o].collection
         /\ ~os[o].deleted => held = Row("claimed", os[o].collection)
    /\ \A k \in Blobs : blobs[k] # None /\ blobs[k].state = "claimed" =>
         blobs[k].collection \in cs

\* The tables as earlier transactions left them.
ASSUME ContentsAssumption ==
    \A s \in Contents :
        /\ s.collections \subseteq Collections
        /\ s.objects \in [Objects -> ObjectRow \cup {None}]
        /\ s.ledger \in [Blobs -> LedgerRow \cup {None}]
        /\ s.results \in [MutationIDs -> ResultRow \cup {None}]
        /\ EachHoldsItsBlob(s.collections, s.objects, s.ledger)

Claimable(k) == ledger[k] # None /\ ledger[k].state = "staged"
Claimed(k)   == ledger[k] # None /\ ledger[k].state = "claimed"
Purgeable(k) == ledger[k] # None /\ ledger[k].state \in {"stale", "purgeable"}
BlobOf(c, k) == /\ ledger[k] # None
                /\ ledger[k].state \in {"claimed", "retained"}
                /\ ledger[k].collection = c
ResultOf(c, m) == results[m] # None /\ results[m].collection = c
Overdue(kind, m) ==
    /\ results[m] # None
    /\ \/ kind = "expire_pending" /\ results[m].status = "pending" /\ results[m].age >= 1
       \/ kind = "expire_other" /\ results[m].status = "done" /\ results[m].age = 2

(* Locks.  A foreign key to users takes a share lock on the account's row.  *)

Advisory(m)   == <<"mutation", m>>
Collection(c) == <<"collections", c>>
Ledger(k)     == <<"blob_ledger", k>>
Result(m)     == <<"mutation_results", m>>
User          == <<"users", "update">>
UserShare     == <<"users", "key_share">>

Lockable == {Advisory(m) : m \in MutationIDs} \cup {Result(m) : m \in MutationIDs}
            \cup {Collection(c) : c \in Collections} \cup {Ledger(k) : k \in Blobs}
            \cup {User, UserShare}

Conflicts(a, b) == a[1] = b[1] /\ (a = b \/ a[1] = "users") /\ {a, b} # {UserShare}

-----------------------------------------------------------------------------
(* Transactions *)

Mutations == {"create", "update", "delete"}
Kinds == Mutations \cup {"claim", "drop", "delete_blob", "purge", "expire_pending",
                         "expire_other"}
ASSUME KindsAssumption == None \notin Kinds

Steps == {"ready", "ended", "prepare", "prepare_owner", "advisory", "collection",
          "staged", "blob", "insert", "supersede", "save", "save_owner", "commit",
          "user", "select_rows", "rows"}

Idle == [kind |-> None, collection |-> None, object |-> None, blob |-> None,
         id |-> None, version |-> 0, pc |-> "ready", held |-> {}, rows |-> <<>>,
         prepared |-> FALSE, seen |-> None, accepted |-> FALSE]

\* A transaction at its first statement.
Create(c, k, m) == [Idle EXCEPT !.kind = "create", !.pc = "prepare",
                                !.collection = c, !.blob = k, !.id = m]
Update(c, o, v, k, m) == [Create(c, k, m) EXCEPT !.kind = "update", !.object = o, !.version = v]
Delete(c, o, v, m) == [Create(c, None, m) EXCEPT !.kind = "delete", !.object = o, !.version = v]
ClaimVault == [Idle EXCEPT !.kind = "claim", !.pc = "user"]
Drop(c) == [Idle EXCEPT !.kind = "drop", !.pc = "collection", !.collection = c]
OnBlob(kind, k) == [Idle EXCEPT !.kind = kind, !.pc = "staged", !.blob = k]
Expire(kind) == [Idle EXCEPT !.kind = kind, !.pc = "select_rows"]

\* What the statement t is at asks for.
Wanted(q) ==
    CASE q.pc \in {"prepare", "save"}     -> {Result(q.id)}
      [] q.pc \in {"prepare_owner", "insert", "save_owner"} -> {UserShare}
      [] q.pc = "advisory"                -> {Advisory(q.id)}
      [] q.pc = "collection"              -> {Collection(q.collection)}
      [] q.pc = "blob"                    -> {Ledger(q.blob)}
      [] q.pc = "supersede" /\ Claimed(q.seen.blob) -> {Ledger(q.seen.blob)}
      [] q.pc = "user"                    -> {User}
      [] q.pc = "rows" /\ q.rows # <<>>   -> {Head(q.rows)}
      [] OTHER                            -> {}

WaitsFor(t, u) ==
    /\ t # u
    /\ \E w \in Wanted(tx[t]), h \in tx[u].held : Conflicts(w, h)

\* t may take the lock it asks for, or asks for none.
Free(t) == \A u \in Tx : ~WaitsFor(t, u)

At(t, pc)        == tx[t].pc = pc /\ Free(t)
Move(t, q)       == tx' = [tx EXCEPT ![t] = q]
Go(t, pc)        == Move(t, [tx[t] EXCEPT !.pc = pc])
Take(t, pc)      == Move(t, [tx[t] EXCEPT !.pc = pc, !.held = @ \cup Wanted(tx[t])])
End(t)           == Move(t, [Idle EXCEPT !.pc = "ended"])

\* What a handler or a job begins with.
IsWork(q) ==
    \/ \E c \in Collections, m \in MutationIDs, k \in Blobs :
         \/ q = Create(c, k, m)
         \/ \E o \in Objects : q.version \in Nat /\ q = Update(c, o, q.version, k, m)
    \/ \E c \in Collections, m \in MutationIDs, o \in Objects :
         q.version \in Nat /\ q = Delete(c, o, q.version, m)
    \/ q = ClaimVault \/ \E c \in Collections : q = Drop(c)
    \/ \E kind \in {"delete_blob", "purge"}, k \in Blobs : q = OnBlob(kind, k)
    \/ \E kind \in {"expire_pending", "expire_other"} : q = Expire(kind)

ASSUME WorkAssumption == \A t \in Tx : \A q \in Work(t) : IsWork(q)

-----------------------------------------------------------------------------
(* A mutation: prepareMutation in a transaction of its own, then the rest.  *)

Start(t) ==
    /\ tx[t] = Idle
    /\ \E q \in Work(t) : Move(t, q)
    /\ UNCHANGED tables

\* INSERT ... ON CONFLICT DO NOTHING waits for whoever is writing the row.
Prepare(t) ==
    /\ At(t, "prepare")
    /\ IF results[tx[t].id] = None THEN Take(t, "prepare_owner") ELSE Go(t, "advisory")
    /\ UNCHANGED tables

\* A request may go on for more than a day before it saves what comes of it.
CommitPrepare(t) ==
    /\ At(t, "prepare_owner")
    /\ \E age \in {0, 1} :
         results' = [results EXCEPT ![tx[t].id] =
                       [collection |-> tx[t].collection, status |-> "pending", age |-> age]]
    /\ Move(t, [tx[t] EXCEPT !.pc = "advisory", !.held = {}, !.prepared = TRUE])
    /\ UNCHANGED <<collections, objects, ledger>>

\* The answer is on record, in progress elsewhere, or another intent's.
Answered(q) ==
    /\ results[q.id] # None
    /\ \/ results[q.id].status = "done"
       \/ results[q.id].collection # q.collection
       \/ ~q.prepared

\* Bug: the recorded answer is read FOR UPDATE, before the collection.
LockMutationAndRow(t) ==
    /\ At(t, "advisory")
    /\ IF results[tx[t].id] # None /\ \E u \in Tx \ {t} : Result(tx[t].id) \in tx[u].held
       THEN FALSE
       ELSE IF Answered(tx[t]) THEN End(t)
       ELSE Move(t, [tx[t] EXCEPT !.pc = "collection",
                                  !.held = {Advisory(tx[t].id), Result(tx[t].id)}])
    /\ UNCHANGED tables

\* Bug: an early return leaves the transaction open.
LockMutationAndReturn(t) ==
    /\ At(t, "advisory")
    /\ Take(t, IF Answered(tx[t]) THEN "ended" ELSE "collection")
    /\ UNCHANGED tables

\* The advisory lock, then the replay query.
LockMutation(t) ==
    /\ At(t, "advisory")
    /\ IF Answered(tx[t]) THEN End(t) ELSE Take(t, "collection")
    /\ UNCHANGED tables

\* The object at the version the request was made from.
Current(q) ==
    /\ objects[q.object] # None
    /\ objects[q.object].collection = q.collection
    /\ objects[q.object].version = q.version

\* Bug: the clause is lost and the collection only read.
ReadCollection(t) ==
    LET q == tx[t] IN
    /\ At(t, "collection")
    /\ IF q.collection \notin collections
       THEN IF q.kind = "drop" THEN End(t) ELSE Go(t, "save")
       ELSE Move(t, CASE q.kind = "create" -> [q EXCEPT !.pc = "staged"]
                      [] q.kind = "drop"   -> [q EXCEPT !.pc = "select_rows"]
                      [] q.kind = "update" /\ Current(q) ->
                           [q EXCEPT !.pc = "staged", !.seen = objects[q.object]]
                      [] q.kind = "delete" /\ Current(q) /\ ~objects[q.object].deleted ->
                           [q EXCEPT !.pc = "supersede", !.accepted = TRUE,
                                     !.seen = objects[q.object]]
                      [] OTHER             -> [q EXCEPT !.pc = "save"])
    /\ UNCHANGED tables

\* q once it has the collection's row: an update or delete reads the object
\* next, whose row only holders of this lock write.
WithCollection(q) ==
    LET row == objects[q.object]
        locked == [q EXCEPT !.held = @ \cup {Collection(q.collection)}] IN
    CASE q.kind = "create" -> [locked EXCEPT !.pc = "staged"]
      [] q.kind = "drop"   -> [locked EXCEPT !.pc = "select_rows"]
      [] q.kind = "update" /\ Current(q) -> [locked EXCEPT !.pc = "staged", !.seen = row]
      [] q.kind = "delete" /\ Current(q) /\ ~row.deleted ->
           [locked EXCEPT !.pc = "supersede", !.seen = row, !.accepted = TRUE]
      [] OTHER             -> [locked EXCEPT !.pc = "save"]

\* SELECT ... FOR UPDATE, which locks nothing when the row is gone.
LockCollection(t) ==
    /\ At(t, "collection")
    /\ IF tx[t].collection \in collections THEN Move(t, WithCollection(tx[t]))
       ELSE IF tx[t].kind = "drop" THEN End(t) ELSE Go(t, "save")
    /\ UNCHANGED tables

\* The row stagedBlobSize, blobs.Delete and purgeBlobRow look for.
Qualifies(q) ==
    CASE q.kind = "purge"       -> Purgeable(q.blob)
      [] q.kind = "delete_blob" -> ledger[q.blob] # None
      [] OTHER                  -> Claimable(q.blob)

NotQualified(t) == IF tx[t].kind \in Mutations THEN Go(t, "save") ELSE End(t)

\* The statement starts, and waits when the row is locked.
FindBlob(t) ==
    /\ At(t, "staged") /\ tx[t].kind # "purge"
    /\ IF Qualifies(tx[t]) THEN Go(t, "blob") ELSE NotQualified(t)
    /\ UNCHANGED tables

\* Bug: the staged row is checked without FOR UPDATE.
ReadBlob(t) ==
    /\ At(t, "blob")
    /\ IF Qualifies(tx[t])
       THEN Move(t, [tx[t] EXCEPT !.accepted = TRUE,
                                  !.pc = CASE tx[t].kind = "create" -> "insert"
                                           [] tx[t].kind = "update" -> "supersede"
                                           [] OTHER -> "commit"])
       ELSE NotQualified(t)
    /\ UNCHANGED tables

\* A row that stopped qualifying during the wait stays locked all the same.
LockBlob(t) ==
    /\ At(t, "blob")
    /\ LET q == tx[t]
           next == CASE q.kind = "create" -> "insert"
                     [] q.kind = "update" -> "supersede"
                     [] OTHER             -> "commit" IN
       IF Qualifies(q)
       THEN Move(t, [q EXCEPT !.held = @ \cup {Ledger(q.blob)}, !.accepted = TRUE, !.pc = next])
       ELSE IF ledger[q.blob] = None THEN NotQualified(t) ELSE Take(t, "save")
    /\ UNCHANGED tables

\* FOR UPDATE SKIP LOCKED passes over a row somebody holds.
PurgeRow(t) ==
    /\ At(t, "staged") /\ tx[t].kind = "purge"
    /\ IF Qualifies(tx[t]) /\ \A u \in Tx : Ledger(tx[t].blob) \notin tx[u].held
       THEN Move(t, [tx[t] EXCEPT !.held = {Ledger(tx[t].blob)}, !.pc = "commit"])
       ELSE End(t)
    /\ UNCHANGED tables

\* uuid.NewV7 and INSERT INTO objects, which checks the account's row.
Insert(t) ==
    /\ At(t, "insert")
    /\ \E o \in Objects :
         /\ objects[o] = None /\ \A u \in Tx : tx[u].object # o
         /\ Move(t, [tx[t] EXCEPT !.object = o, !.pc = "save",
                                  !.held = @ \cup {UserShare}])
    /\ UNCHANGED tables

Supersede(t) == At(t, "supersede") /\ Take(t, "save") /\ UNCHANGED tables

SaveResult(t) ==
    /\ At(t, "save")
    /\ Take(t, IF results[tx[t].id] = None THEN "save_owner" ELSE "commit")
    /\ UNCHANGED tables

SaveOwner(t) == At(t, "save_owner") /\ Take(t, "commit") /\ UNCHANGED tables

Written(q) ==
    CASE q.kind = "create" -> [collection |-> q.collection, version |-> 1,
                               blob |-> q.blob, deleted |-> FALSE]
      [] q.kind = "update" -> [q.seen EXCEPT !.version = @ + 1, !.blob = q.blob]
      [] OTHER             -> [q.seen EXCEPT !.version = @ + 1, !.deleted = TRUE]

CommitMutation(t) ==
    LET q == tx[t]
        old == IF q.kind = "create" \/ ~q.accepted THEN None ELSE q.seen.blob IN
    /\ At(t, "commit") /\ q.kind \in Mutations
    /\ results' = [results EXCEPT ![q.id] =
         [collection |-> IF @ = None THEN q.collection ELSE @.collection,
          status |-> "done", age |-> IF @ = None THEN 0 ELSE @.age]]
    /\ IF q.accepted
       THEN /\ objects' = [objects EXCEPT ![q.object] = Written(q)]
            /\ ledger' = [k \in Blobs |->
                            IF k = q.blob THEN Row("claimed", q.collection)
                            ELSE IF k = old /\ Claimed(k)
                            THEN [ledger[k] EXCEPT !.state = "retained"] ELSE ledger[k]]
       ELSE UNCHANGED <<objects, ledger>>
    /\ End(t) /\ UNCHANGED collections

-----------------------------------------------------------------------------
(* Everything else *)

\* blobs.Delete refuses a key that is not staged; purgeBlobRow's row is good.
CommitBlob(t) ==
    LET q == tx[t] IN
    /\ At(t, "commit") /\ q.kind \in {"delete_blob", "purge"}
    /\ ledger' = IF q.kind = "delete_blob" /\ ledger[q.blob].state \notin {"staged", "stale"}
                 THEN ledger ELSE [ledger EXCEPT ![q.blob] = None]
    /\ End(t) /\ UNCHANGED <<collections, objects, results>>

\* Claim: the account's row, then its oldest collection or a new one.
\* Bug: the account's row is read without FOR UPDATE.
ReadUser(t) == At(t, "user") /\ Go(t, "select_rows") /\ UNCHANGED tables

LockUser(t) == At(t, "user") /\ Take(t, "select_rows") /\ UNCHANGED tables

ClaimCollection(t) ==
    /\ At(t, "select_rows") /\ tx[t].kind = "claim"
    /\ IF collections # {} THEN End(t)
       ELSE \E c \in Collections : Move(t, [tx[t] EXCEPT !.collection = c, !.pc = "commit"])
    /\ UNCHANGED tables

CommitClaim(t) ==
    /\ At(t, "commit") /\ tx[t].kind = "claim"
    /\ collections' = collections \cup {tx[t].collection}
    /\ End(t) /\ UNCHANGED <<objects, ledger, results>>

\* A statement over many rows finds them as it starts and locks them one by
\* one, in an order of the planner's choosing.
Matching(q) ==
    IF q.kind = "drop"
    THEN IF q.accepted THEN {Result(m) : m \in {n \in MutationIDs : ResultOf(q.collection, n)}}
         ELSE {Ledger(k) : k \in {j \in Blobs : BlobOf(q.collection, j)}}
    ELSE {Result(m) : m \in {n \in MutationIDs : Overdue(q.kind, n)}}

SelectRows(t) ==
    /\ At(t, "select_rows") /\ tx[t].kind # "claim"
    /\ \E s \in SetToSeqs(Matching(tx[t])) :
         Move(t, [tx[t] EXCEPT !.rows = s, !.pc = "rows"])
    /\ UNCHANGED tables

\* The rows it locks of those it found: an overdue result that was saved during
\* the wait too, though it is no longer overdue.  The rows a deletion found match
\* while they are there.  (A result deleted and made again during the wait counts
\* as the one that was found if it is as old.)
StillThere(q) ==
    IF q.kind = "drop" THEN Matching(q)
    ELSE {Result(m) : m \in {n \in MutationIDs : results[n] # None /\ results[n].age >= 1}}

LockRow(t) ==
    /\ At(t, "rows") /\ tx[t].rows # <<>>
    /\ Move(t, [tx[t] EXCEPT !.rows = Tail(@),
                             !.held = @ \cup (Wanted(tx[t]) \cap StillThere(tx[t]))])
    /\ UNCHANGED tables

\* collections.Delete goes on from the ledger to the results.
EndStatement(t) ==
    /\ At(t, "rows") /\ tx[t].rows = <<>>
    /\ IF tx[t].kind = "drop" /\ ~tx[t].accepted
       THEN Move(t, [tx[t] EXCEPT !.accepted = TRUE, !.pc = "select_rows"])
       ELSE Go(t, "commit")
    /\ UNCHANGED tables

\* The rows deleted are those locked that still match.
Remaining(q) ==
    [m \in MutationIDs |-> IF Result(m) \in q.held \cap Matching(q) THEN None ELSE results[m]]

CommitExpiry(t) ==
    /\ At(t, "commit") /\ tx[t].kind \in {"expire_pending", "expire_other"}
    /\ results' = Remaining(tx[t])
    /\ End(t) /\ UNCHANGED <<collections, objects, ledger>>

CommitDrop(t) ==
    LET q == tx[t] IN
    /\ At(t, "commit") /\ q.kind = "drop"
    /\ collections' = collections \ {q.collection}
    /\ objects' = [o \in Objects |-> IF objects[o] # None /\ objects[o].collection = q.collection
                                     THEN None ELSE objects[o]]
    /\ ledger' = [k \in Blobs |-> IF Ledger(k) \in q.held THEN Row("purgeable", q.collection)
                                  ELSE ledger[k]]
    /\ results' = Remaining(q)
    /\ End(t)

\* t waits for itself: every set of transactions that holds those t waits for
\* and, with each member, those it waits for, has t in it.
InCycle(t) ==
    \A S \in SUBSET Tx :
        /\ \A u \in Tx : WaitsFor(t, u) => u \in S
        /\ \A u \in S, v \in Tx : WaitsFor(u, v) => v \in S
        => t \in S

\* deadlock_timeout: PostgreSQL aborts a transaction that waits for itself.
AbortVictim(t) == InCycle(t) /\ End(t) /\ UNCHANGED tables

\* The request is cancelled, its connection or the process dies.
Abort(t) == tx[t].pc \notin {"ready", "ended"} /\ End(t) /\ UNCHANGED tables

Statement(t) ==
    \/ Prepare(t) \/ CommitPrepare(t) \/ LockMutation(t)
    \/ LockCollection(t) \/ FindBlob(t) \/ LockBlob(t) \/ PurgeRow(t)
    \/ Insert(t) \/ Supersede(t) \/ SaveResult(t) \/ SaveOwner(t) \/ CommitMutation(t)
    \/ CommitBlob(t) \/ LockUser(t) \/ ClaimCollection(t) \/ CommitClaim(t)
    \/ SelectRows(t) \/ LockRow(t) \/ EndStatement(t) \/ CommitExpiry(t) \/ CommitDrop(t)

Init ==
    /\ \E s \in Contents : /\ collections = s.collections /\ objects = s.objects
                           /\ ledger = s.ledger           /\ results = s.results
    /\ tx = [t \in Tx |-> Idle]

Done == (\A t \in Tx : tx[t].pc = "ended") /\ UNCHANGED vars

Next == (\E t \in Tx : Start(t) \/ Statement(t) \/ Abort(t)) \/ Done

\* The server goes on with what it began; PostgreSQL grants a lock that is
\* free and ends a deadlock.
Spec == Init /\ [][Next]_vars /\ \A t \in Tx : WF_vars(Statement(t)) /\ WF_vars(AbortVictim(t))

-----------------------------------------------------------------------------
(* Properties *)

TypeOK ==
    /\ collections \subseteq Collections
    /\ objects \in [Objects -> ObjectRow \cup {None}]
    /\ ledger \in [Blobs -> LedgerRow \cup {None}]
    /\ results \in [MutationIDs -> ResultRow \cup {None}]
    /\ \A t \in Tx : /\ tx[t].kind \in Kinds \cup {None}
                     /\ tx[t].pc \in Steps
                     /\ tx[t].held \subseteq Lockable
                     /\ tx[t].rows \in Seq(Lockable)

\* The locks are taken in one order by all who take a few: only the statements
\* that lock many results at once, the expiry job and the deletion of a
\* collection, can ever be chosen as deadlock victims, and no mutation, claim
\* or garbage collection fails with "deadlock detected".
OnlyBulkStatementsDeadlock ==
    \A t \in Tx : InCycle(t) => tx[t].kind \in {"drop", "expire_pending", "expire_other"}

\* What a mutation read under its locks is still so when it commits.
LockedReadsStayTrue ==
    \A t \in Tx : tx[t].kind \in Mutations /\ tx[t].pc \in {"insert", "supersede", "save", "save_owner", "commit"} /\ tx[t].accepted =>
        LET q == tx[t] IN
        /\ q.collection \in collections
        /\ q.seen # None => objects[q.object] = q.seen
        /\ q.blob # None => Claimable(q.blob)

\* A live object's bytes are claimed by its collection, no two objects name one
\* blob, whoever raced for it, and no object's blob is up for claiming again; a
\* collection that is gone left neither objects nor claims behind.
ObjectsHoldTheirBlobs == EachHoldsItsBlob(collections, objects, ledger)

\* Devices that claim the account's vault at once converge on one.
ClaimsConverge ==
    [][\A c \in collections' \ collections : collections = {}]_vars

\* Nobody waits forever: whatever transactions meet, each ends, by committing,
\* refusing or being aborted.
TransactionsEnd ==
    \A t \in Tx : tx[t].pc # "ready" ~> tx[t].pc = "ended"
=============================================================================
