# A TLA+ verification of the FUTO Notes server

FUTO Notes server is an end-to-end encrypted sync server: clients upload opaque
blobs, bind them to versions of opaque objects, and pull what changed. This
directory holds TLA+ modules translated from the Go sources under `src/`, the
TLC configurations that check them, and TLAPS proofs about them.

    tlc -config retries.cfg MCCollectionContents.tla   # any .cfg named below
    tlc -config locks.cfg MCRowLocks.tla               # and so on, see the runs
    tlapm CollectionContentsProofs.tla                 # any ...Proofs; a few minutes

`PROJECT.json` maps every definition to the lines it models, lists the hazards
with the properties aimed at them, and gives for every property a plausible bug
(a definition commented `Bug:`) that breaks it.

## The system

| Component (source) | State | Operations |
| --- | --- | --- |
| Object mutations (`internal/objects`, `cmd/server/objects.go`) | tables `objects`, `mutation_results`, `collections.current_version` | create, update, delete, reserve, recover; classic, single-round-trip and batch routes |
| Blob storage and ledger (`internal/blobs`, `cmd/server/blobs.go`) | table `blob_ledger`, one file per blob | stage (row, then file), delete (row, then file), download, batch fetch |
| Maintenance (`internal/jobs`) | none of its own; the ledger, the files, `mutation_results`, `sessions` | reap sessions, reconcile storage, expire mutation results, collect blob garbage |
| Collections (`internal/collections/collections.go`) | table `collections` | claim the account's collection, list, delete |
| Tables and transactions (`internal/db/db.go`, the schema) | the tables; SQLite or PostgreSQL | `BEGIN IMMEDIATE`, row and advisory locks, after-commit hooks |
| Vault key (`internal/collections/key.go`) | wrapped key and its revision | read; compare-and-swap write |
| Sync doorbell (`internal/events`, `cmd/server/sync.go`) | the hub's subscribers and their one-slot queues; PostgreSQL LISTEN | publish after commit, subscribe, drain at shutdown |
| Pull (`objects.List`) | none | page through a collection by `change_seq` |
| Sessions and login (`internal/auth`, `cmd/server/auth.go`) | tables `users`, `sessions`; the limiter's window in memory | log in, validate (never extend), log out, reap, rate-limit |
| Migrator (`internal/db/migrate.go`, `db.Open`) | the table of applied migrations | open, refuse, apply what is pending at boot |
| PostgreSQL-to-SQLite switch (`internal/db/convert.go`, `migrate-to-sqlite.sh`) | two databases, an install's compose file, its server | copy and verify; back up, upgrade, copy, switch, undo, roll back |
| Configuration, HTTP wiring, development page, scripts | none | parse, route, render |

How they interact. A handler runs in its own goroutine and is a sequence of
transactions and file operations; the only things it shares with others are the
database and the storage directory. A single-round-trip create calls
`ReserveCreate` (two transactions), `blobs.Stage` (row, then file) and
`CreateReserved` (one transaction). After the commit it publishes to the hub.
One goroutine per server runs the maintenance jobs, one after the other
(`main.go:184`, `runner.go`), on the same tables and files as the requests; the
development page can start a job beside it, and on PostgreSQL several servers
may share one database. A client retries with the same `Mutation-Id` after a
lost response, and asks the recovery route what became of a create.

What is hard. Every step between two transactions of a handler can interleave
with other handlers, with a retry of itself, and with maintenance; a handler or
the server can die there; file operations are outside every transaction; time
passes and rows expire under a request that has just read them. `hazards` in
`PROJECT.json` lists the places. What makes each component correct:

- *Object mutations*: a mutation happens at most once per Mutation ID; two
  conflicting edits never both win; a change is exactly one step of the
  collection's cursor; recovery tells the truth.
- *Blobs*: the content of a live object keeps its bytes; nothing is shared;
  what nobody claims is reclaimed.
- *Maintenance*: it takes only what has left its lifetime, it makes progress,
  and a failure leaves nothing it will not find again.
- *Vault key*: no write replaces a key its writer did not see.
- *Doorbell*: the last change of a collection reaches every subscriber, or its
  stream ends.
- *Pull*: a client that pulls to the end holds every object of the collection.
- *Sessions*: what a client was told is over stays over, what is not lasts its
  time, no login fails for want of luck; the limiter's bound.
- *Transactions*: on PostgreSQL, what a transaction read under its locks is true
  when it commits, and the locks of a mutation never deadlock.
- *Fetching blobs*: a device never takes a part of a blob for the blob nor a
  blob that is there for gone, and gets every one in the end.
- *Migrator, switch*: each migration once and in order; nobody serves a schema
  he does not know; no acknowledged write is left behind in PostgreSQL, and no
  database is damaged by a copy that fails.

## Modules

| Module | Models |
| --- | --- |
| `Database` | The tables of one user's collection contents and the blob files: rows, predicates several queries share (`Claimable`, `Purgeable`, `Release`, `Claim`), and the clock (`Tick`). |
| `ObjectMutations` | The handlers that change contents, as processes: `requests[r].pc` is where handler `r` stands between two transactions. |
| `Maintenance` | Storage reconciliation, expiry and garbage collection as a process, with faults and restarts. |
| `BlobLifetime` | The abstract lifetime of a blob, from `CONTEXT.md`. |
| `CollectionContents` | The composition of the three, the properties, and the refinement of `BlobLifetime`. |
| `MCCollectionContents` | Symmetry for TLC. |
| `ChangeFeed` | The abstract feed of changes that a collection is to a device that pulls. `CollectionContents` implements it; `PullClient` pulls from it. |
| `PullClient` | `objects.List`, page by page, and the device that applies the pages. |
| `Doorbell` | Publication after commit, the hub, the stream handlers, the PostgreSQL listener, and devices that pull when told. |
| `VaultKey` | A collection's wrapped key: claim, rotate, answer; devices and a lossy network. |
| `Sessions` | Password login, validation, logout and the reaper, a query each, on a wall clock that may be set back. |
| `RowLocks` | The server's transactions on PostgreSQL, a statement and a lock at a time: what the atomic steps of the other modules rest on. |
| `BatchFetch` | Downloads and batch fetches, frame by frame, against files being written and removed. |
| `Migrator` | `db.Open` and `db.Migrate` for any number of processes on two databases. |
| `SQLiteSwitch` | On top of `Migrator`: the converter, the script that drives it, the Compose service, its clients and the operator. |
| `MCPullClient`, `MCDoorbell`, `MCVaultKey`, `MCSessions` | Symmetry for TLC. |
| `MCRowLocks`, `MCBatchFetch`, `MCSQLiteSwitch` | The transactions and tables, the sizes of blobs, and the migrations of binaries that their runs use. |
| `CollectionContentsProofs` | Proofs of type correctness, of every safety and action property of `CollectionContents`, and that it implements `BlobLifetime` and `ChangeFeed`. |
| `RowLocksProofs`, `SQLiteSwitchProofs`, `BatchFetchProofs` | Proofs of type correctness and of every safety and action property of their modules (`SQLiteSwitchProofs` includes `Migrator`'s). |
| `PullClientProofs`, `DoorbellProofs`, `VaultKeyProofs`, `SessionsProofs` | Proofs of the safety properties of their modules. |

How they fit together. `CollectionContents` composes `ObjectMutations` and
`Maintenance` over `Database`. What a device sees of it through `List` is
`FeedRows`, and `CollectionsAreFeeds` says that this is a `ChangeFeed`; so
`PullClient`, which takes `ChangeFeed` for its server, does not repeat the
handlers. `Doorbell` sees of a mutation only its commit and the version it
published, and takes a pull for one step, which is what `PullClient` establishes:
a finished pull reaches the version it was asked at. `VaultKey` and `Sessions`
share no table with the others, except that deleting a collection deletes its key.
`RowLocks` justifies `CollectionContents`' atomic transactions on PostgreSQL: it
keeps of the same handlers the queries, in their order, and the rows they lock.
`BatchFetch` takes from the blob store and garbage collection only that files are
written, told and removed. `SQLiteSwitch` knows of the contents only whether a
write is in a database, and of the requests only that they are acknowledged.

How state and actions correspond to the code:

- A transaction is one step. On SQLite that is `_txlock=immediate` (`db.go:235`).
  On PostgreSQL it is the advisory lock on the Mutation ID and the row locks on
  the collection, the object and the ledger row, which is what `RowLocks` checks.
  The autocommitted statements
  of `prepareMutation` and `Stage` are steps of their own, and so is each file
  operation.
- The mutation transaction is one action per way it can end, with the code's
  successive early returns as guards: `AnswerMismatch` and `AnswerStored`
  (`replay`), `RefuseNotFound`, `RefuseConflict`, `RefuseNotStaged` (a recorded
  refusal), `ApplyCreate`, `ApplyUpdate`, `ApplyDelete`, `RedeleteTombstone`.
- A request slot keeps the answer of its last request until it is reused; the
  properties about what clients were told (`RetriesAgree`, `NoLostUpdate`) read
  it there. `known` is the set of keys a client has been told; requests name
  only those. A slot whose handler was cut off holds no answer.
- `Abort` is every way a handler stops without an answer: cancelled context,
  failing I/O, server crash. A crash of the server is several of them and a
  `Fault` of the maintainer; nothing in memory outlives it.
- `minted` is the set of identifiers handed out. `uuid.NewV7` does not repeat.
- Blob contents, sizes, `updated_at` and the wording of answers are abstracted:
  a blob is a key, its bytes are present (`files`) or not. The size a request
  declares decides nothing but an error and is not modelled.
- A version in a request is any value near the bounds, stale and future ones
  included. A batch (`POST .../blob-objects/batch`) runs its entries one by one
  through the single-round-trip code, so an entry is an inline request.
- `created_by` of an object row is a history field: the Mutation ID it came from.

- *Doorbell*. `bells` is what was committed and not yet seen by the hub. On
  SQLite it is the after-commit callbacks that have not run, on PostgreSQL the
  notifications of the listener's connection; as a set it allows any order of
  delivery. A notification committed while nothing listens is in nobody's hands.
  `CloseAll` is `Evict` (under the hub's lock) and one `CloseEvicted` per
  subscription (outside of it). A subscription keeps its pending versions and one
  wake slot; the handler's loop is `Wake`, `Drain`, `Send`.
- *Pull*. `Ask` is `List`'s first query, `Select` its second; a page is applied
  and then the cursor advanced, which API.md asks of devices. The server never
  tells a device that its cursor is behind, so `asked` is a history field.
- *Vault key*. `PutKey` is one transaction that holds the collection's row: one
  action per outcome. A request carries the key its device goes by; the server
  reads only the token of it. `Millisecond` clock units make one tick of the
  revision, so a timestamp from an earlier server may lie between two.
- *Sessions*. `ValidateSession` is `Present` (SELECT), `Check` (the clock, on the
  row read before) and `Refuse` (DELETE, then the answer). `latest`, `expiry`,
  `told` and `late` are history: what the clock has shown, when each session was
  to expire, and what its client was told.
- *Row locks*. `tx[t].pc` is the statement a transaction is at, `held` its locks.
  A statement finds its rows in the committed state, waits for each lock, and
  looks at the row again when it has it (READ COMMITTED): `FindBlob`, then
  `LockBlob`. `FOR UPDATE SKIP LOCKED` does not wait (`PurgeRow`). A statement
  over many rows locks them in any order (`SelectRows`, `LockRow`), and keeps the
  lock of one that no longer matched when its turn came. A foreign key
  to `users` takes a share lock, which is how an insert meets `Claim`. Writes
  show when a transaction commits. `InCycle` is PostgreSQL's deadlock detector.
  `Contents` are the states the transactions start from and `Work` what each may
  run: constants, of which the assumptions ask no more than that objects hold
  their own blobs and that a transaction is one the server runs. Rows in state
  `legacy_shared` are in none of the `Contents`.
- *Batch fetch*. `Ship` writes a frame's header with the size that `Stat` gave,
  `CopyBytes` the blob, if the file still has that length; a file without a name
  keeps its bytes while it is open. `Tell` is the point at which a key leaves the
  server. `Learnt` is what a device makes of whole frames, as `API.md` says.
- *Migrator*. `schema` is what took effect in a database, `recorded` what its
  bookkeeping says. Migrate is `LockAndRead`, one `Apply` per migration and
  `CommitMigrations`; on PostgreSQL the lock is `pg_advisory_xact_lock`, on SQLite
  the immediate transaction. `BEGIN IMMEDIATE` gives up after ten seconds and main
  after a minute: that is `Crash`.
- *Switch*. `script` is the last command of `migrate-to-sqlite.sh` that ran,
  `compose` and `override` its two compose files, `process` the containers. The
  operator acts when no script runs: the undo command, the rollback command,
  moving `notes.db` aside, a copy by hand, a new run, or the whole switch by hand
  (`StopByHand`, then the script's own last steps, without its backup, upgrade and
  questions). The systemd section of the migration guide stops the server first;
  the Compose section says "the same copy" and does not repeat it. The
  model takes it to mean the same: a server that went on would acknowledge writes
  after the snapshot (the bug `CopyWhileServing`). The old compose file names
  the old image, the new one the new image. `acknowledged` is history: the writes
  clients were told are stored. What SQLite acknowledged and the operator moved
  aside is his to keep, as the script says.

## What is checked

Bounds common to the runs of `CollectionContents`: one user; lifetimes of one clock unit (the 24-hour
windows, the 30 and the 365 days are compared with the clock in the same way,
one unit is enough for inside, on and past the boundary); `MaxTime` stops the
clock and `MaxVersion` the cursor of each collection. No run has two maintainers
or an update that is accepted on a tombstone while maintenance runs. The first makes
`BytesBehindContents` false and the second, with faults, `LiveObjectsHoldTheirClaim`
(below); what holds all the same is stated by theorems (`LedgerImplementsLifetime` for any number of
maintainers, `LiveObjectsKeepTheirClaim`, `LiveObjectsKeepTheirOwn`). The 500-row and 500-file
limits of a maintenance pass are above every bound, so a pass sees everything.
Objects, blobs, requests and collections are symmetric.

| Run | Checks | Bounds and why they are enough |
| --- | --- | --- |
| `retries` | `TypeOK`, `CreatesAreRecoverable`, `RetriesAgree`, `CursorOrdersChanges`, `LiveObjectsHoldTheirClaim`, `BytesBehindContents`, `OutcomesAreFinal` | Two concurrent creates on the single-round-trip route, with or without one shared Mutation ID, two units of time and one faulty maintainer. Two requests are the original and its retry; time 2 lets the first expire while the second waits. There are creates only: ties of `change_seq` by updates are in `CollectionsAreFeeds`, what updates and deletes release in `ClaimNamesItsVersion` (`edits`). On the classic routes `BytesBehindContents` does not hold (findings below). |
| `edits` | `ClaimNamesItsVersion`, `NoLostUpdate`, `CollectionsAreFeeds` | Two concurrent requests create, update and delete one object over three blobs with one Mutation ID that may be reused for another intent. Three versions: the base and both edits. No maintenance. |
| `storage` | `BlobsFollowTheirLifetime`, `PurgeableRowsGo`, `OrphansAreFound`, `StagedBlobsDoNotLinger`, `ClaimsDoNotLinger` | One request that may stop anywhere, one blob uploaded on its own or with its object, three clock values, so that a row of time 0 is seen inside, on and past its deadline (those of time 1 and 2 stay inside or on it), and a maintainer that fails and restarts for any finite time. Two blobs, with the clock standing still, were checked once for the first two liveness properties. |
| `pull` | `NothingIsSkipped`, `DonePullsCatchUp`, `ChangesArrive` | One device, three objects, pages of one or all rows, four changes: an object of any page can move behind the next while the others hold their place, and a pull can be broken off. Pages of two, and two collections with three changes for safety, were checked once; the device's cursors are independent. The only collection may be deleted, so deadlock is not checked. |
| `doorbell` | `NoChangeIsSilent`, `HubHoldsOpenStreams`, `DevicesCatchUp` | Two devices, one collection, two versions: enough for a late event behind a newer one, a taken wake slot, and an eviction between two closes. Three versions, and two collections with one device, were checked once. |
| `vault_key` | `TokensNameOneKey`, `NoKeyIsAhead`, `OnlyTheSeenKeyIsReplaced` | Two devices, two contents, two messages under way, two clock units to the millisecond and a clock of four values, so that it stands, runs and is set back within and across milliseconds; three rotations. Three messages were checked once. |
| `sessions` | `OverMeansOver`, `SessionsLastTheirTime`, `ExpiredSessionsGo` | Two handlers, so that a validation overlaps another, a logout or a first login; two sessions, so that one could be taken for the other; four clock values around a lifetime of two. Three handlers were checked once, for safety. |
| `locks` | `OnlyBulkStatementsDeadlock`, `LockedReadsStayTrue`, `ObjectsHoldTheirBlobs`, `ClaimsConverge`, `TransactionsEnd` | Three transactions: the smallest deadlock takes two, and a third may hold what one of them waits for. Two collections with an object each, a third blob that all want, two Mutation IDs, a fresh or overdue staged row, and missing, pending and overdue results, some of which become overdue while their mutation is under way. Which kinds meet is listed in `MCRowLocks`. Of the pairs that share a lock two are left out: a client's delete and garbage collection of one blob, which lock a row each, and two runs of the second expiry statement, which meet as two runs of the first do. |
| `adoption` | `SchemaIsRecorded`, `BootsDoNotCollide`, `SwitchesCarryEveryWrite`, `DatabasesStayWhole`, `ServersKnowTheSchema` | The service, the converter and one more server on PostgreSQL; binaries that ship one or two migrations of it; two writes, one before and one after a copy; two tables; two kills, failures or interruptions, so that a recovery can be cut short as well. |
| `batch_fetch` | `AnswersAreTrue`, `ResponsesAreCapped`, `EveryBlobArrives` | One device (devices share only files, which they do not write); four blobs: one uploaded meanwhile, one that fits beside it only when no other frame precedes them, one larger than any response and one larger than any upload; three keys to a request. Everything may have been fetched or be gone, so deadlock is not checked. |

Fairness. `FairSpec` of `CollectionContents` assumes only that a maintainer which
can take a step takes one: the jobs goroutine (`main.go:184`) loops until the
server stops and starts again with it. Faults are possible in every step; that
they are not endless (`FaultsCease`) is the premise of the properties that need
it. `ClockSpec` adds that the clock goes on. Requests promise
nothing: they may stop anywhere for ever, so liveness is the server's own.
Garbage collection is a configuration flag (`CollectGarbage`); without it
`PurgeableRowsGo` and `StagedBlobsDoNotLinger` are not claimed. Runs with a
liveness property use no symmetry.

`Doorbell`'s `FairSpec`: goroutines are scheduled, so the hub delivers, the
listener's attempts to connect end one way or the other, `CloseAll` finishes and
a stream's handler goes round its loop; a device pulls what it knows it must.
Commits, opening a stream, losses, disconnects and restarts promise nothing and
may happen for ever. `PullClient`'s: a device keeps pulling (doorbell and safety
poll), and strong fairness of each step says that, though any answer may be lost,
not all of them are. `Sessions`': the jobs goroutine runs the reaper and the clock
goes on; `ExpiredSessionsGo` has as its premise that it is not set back for ever.
`RowLocks`': the server goes on with a transaction it began, and PostgreSQL grants
a lock that is free and ends a deadlock (`deadlock_timeout`). Nobody is sure of a
lock others keep taking, but each transaction here runs once. `BatchFetch`'s: a
device goes on asking, in batches, and the handler goes on writing; that
connections do not break for ever (`ConnectionsLast`) is a premise.

### Disagreements between the code and its documents

The first two are runs that TLC refutes; the trace is the explanation. The
others are told by reading the code.

- `deleted_blob_claimed`: `DELETE /api/blobs` commits the row's deletion, then
  removes the file. Reconciliation that has stat'ed the file stages it again in
  between, a create claims it, and the removal takes the bytes of a claimed
  blob (`BytesBehindContents`).
- `rollback_refused`: phase 1 of `migrate-to-sqlite.sh` boots the new image on
  PostgreSQL, which applies the migrations the installed image lacks. Undoing
  that as the script prints it brings the installed image back, and it refuses a
  database "migrated by a newer server" (`RollbackBoots`). The script's header
  calls the whole thing reversible. When the installed image already ships all of
  the new one's migrations, nothing of this happens. The run models the installed
  image as an earlier release of this server.
- A tombstone keeps its `blob_key`, and blobs can come to be shared, which
  CONTEXT.md rules out ("Blobs are never shared across objects"). Object `o1`
  holds blob `k` and is deleted, which retains `k`; garbage collection purges the
  row of `k`, but the removal of its file fails or the server dies before it;
  reconciliation stages the file again; a client that still knows `k` creates `o2`
  with it. Now an update of the tombstone `o1` runs `UPDATE blob_ledger SET state =
  'retained' ... WHERE blob_key = $1 AND state = 'claimed'` (`objects.go:663`),
  which does not ask whose claim that is: `o2` is live, its blob is only retained,
  and garbage collection will take it (`LiveObjectsHoldTheirClaim`). TLC finds it
  in 23 states from `Operations = {create-inline, create, update-inline, delete}`,
  two objects and blobs, one collection, request and maintainer, no Mutation IDs,
  `StagedLifetime`, `PendingLifetime`, `OutcomeLifetime`, `MaxTime` = 1,
  `RetainedLifetime` = 0, `MaxVersion` = 4 and both flags `TRUE`. Proving the
  property is what showed it; the theorems about it say when it does hold.
- Two maintenance processes (two servers on one PostgreSQL database, or the
  development page's button beside the jobs) can lose the bytes of a claimed blob
  without any client deleting one: one process purges the row and is about to
  remove the file, the other stages the file, a create claims it, the file goes.
  TLC finds it in 17 states from `Operations = {upload, create}`, two maintainers
  and one of everything else, `RetainedLifetime` = 0, the other lifetimes 1,
  `MaxTime` = 3, `MaxVersion` = 1 and no faults (`BytesBehindContents`).
- When maintenance expires the claim that a retry has just found,
  `ReserveCreate` lets the retry go on without inserting one, and until it
  commits recovery answers 404 for a create under way.
- `409 blob is not staged`, which API.md rules out on
  the single-round-trip routes, is replayed there for a Mutation ID that was
  refused on the classic route.
- DESIGN.md says bytes first, then rows; the code and its
  own comment say rows first.

## What is proved

For every value of the constants that satisfies the modules' assumptions. Those
of `CollectionContents` are `LifetimeAssumption`, `NoneAssumption`, `RowAssumption`,
`IdentifierAssumption`, `OperationsAssumption`, `FlagAssumption` and
`ShownAssumption`: lifetimes are numbers and the staging window is not empty,
`None` is no identifier, number or row, kinds of identifiers are disjoint,
operations are the routes' own. `RowLocks`: blobs and Mutation IDs are finite sets
(`FiniteAssumption`: a statement locks the rows it found in some order),
`ContentsAssumption` and `WorkAssumption` as above. `BatchFetch`: a request names
finitely many keys and files are not empty. `SQLiteSwitch` and `Migrator`: every
binary ships at least one migration (`ShipsAssumption`), the converter is a process
and the service another, and there are an old and a new image
(`BinariesAssumption`). Elsewhere: page limits, a millisecond and a session's
lifetime are positive, bounds are numbers, `None` is none of the values it stands
beside. Every run evaluates the assumptions of its module.

| Module | Theorem | States |
| --- | --- | --- |
| `CollectionContentsProofs` | `TypeCorrect` | `Spec => []TypeOK` |
| | `ClaimsNameTheirVersion` | `Spec => []ClaimNamesItsVersion` |
| | `CursorOrders` | `Spec => []CursorOrdersChanges` |
| | `CreatesStayRecoverable` | `Spec => []CreatesAreRecoverable` |
| | `OutcomesStayFinal` | `Spec => OutcomesAreFinal` |
| | `MutationsStayChanges` | `Spec => MutationsAreChanges` |
| | `LedgerImplementsLifetime` | `Spec => BlobsFollowTheirLifetime` |
| | `ContentsImplementFeed` | `Spec => CollectionsAreFeeds` |
| | `UpdatesAreNeverLost` | `Spec => []NoLostUpdate` |
| | `RetriesAlwaysAgree` | `Spec => []RetriesAgree` |
| | `BytesStayBehindContents` | `Spec => []BytesBehindContents`, for one maintenance process and no `delete-blob` |
| | `LiveObjectsKeepTheirClaim` | `Spec /\ [][TombstonesAreLeft]_vars => []LiveObjectsHoldTheirClaim` |
| | `LiveObjectsKeepTheirOwn` | `Spec => []LiveObjectsHoldTheirClaim`, if garbage collection is off or is one process without faults |
| `RowLocksProofs` | `TypeCorrect` | `Spec => []TypeOK` |
| | `ReadsStayTrue` | `Spec => []LockedReadsStayTrue` |
| | `ObjectsKeepTheirBlobs` | `Spec => []ObjectsHoldTheirBlobs` |
| | `ClaimsMeet` | `Spec => ClaimsConverge` |
| | `OthersNeverDeadlock` | `Spec => []OnlyBulkStatementsDeadlock` |
| `BatchFetchProofs` | `TypeCorrect` | `Spec => []TypeOK` |
| | `CopiesAreTrue` | `Spec => []AnswersAreTrue` |
| | `BatchesStayCapped` | `Spec => []ResponsesAreCapped` |
| `SQLiteSwitchProofs` | `TypeCorrect` | `Spec => []TypeOK` |
| | `SchemaStaysRecorded` | `Spec => []SchemaIsRecorded` |
| | `BootsStayApart` | `Spec => []BootsDoNotCollide` |
| | `ServersStartKnowing` | `Spec => ServersKnowTheSchema` |
| | `SwitchesLoseNothing` | `Spec => []SwitchesCarryEveryWrite` |
| | `DatabasesKeepTheirWrites` | `Spec => []DatabasesStayWhole` |
| `PullClientProofs` | `PullsMissNothing` | `Spec => []NothingIsSkipped` |
| | `PullsCatchUp` | `Spec => []DonePullsCatchUp` |
| `DoorbellProofs` | `NoSilence` | `Spec => []NoChangeIsSilent` |
| | `HubStaysOpen` | `Spec => []HubHoldsOpenStreams` |
| `VaultKeyProofs` | `TokensStayUnique` | `Spec => []TokensNameOneKey` |
| | `KeysStayBehind` | `Spec => []NoKeyIsAhead` |
| | `KeysAreNotOverwritten` | `Spec => OnlyTheSeenKeyIsReplaced` |
| `SessionsProofs` | `LoginsSucceed` | `Spec => []LoginsDoNotFail` |
| | `SessionsStayOver` | `Spec => []OverMeansOver` |
| | `SessionsLast` | `Spec => []SessionsLastTheirTime` |

Contents: `TypeOK` is not inductive, since an action reads from `requests` what an
earlier step of the handler put there. `Typed` adds `HandlersHold`: what a
handler holds at each stage (a blob key at `put`, `unlink` and, unless it
deletes, at `tx`; an object at a transaction that is no create; and so on).
`Minted` says that whatever a row, a file, a request or a maintainer refers to
was handed out before, so that a fresh identifier is in nobody's hands.

All but five actions are *quiet*: `Quiet` (in `CollectionContentsProofs`) says
that a step leaves collections, cursors and objects alone, changes a ledger row
only by staging an empty one or removing one that is not claimed, and records an
outcome only over an empty or in-progress row. `StepCases` proves that a step
is quiet or is one of `ApplyCreate`, `ApplyUpdate`, `ApplyDelete`,
`ClaimCollection` and `DeleteCollection`. Each property then has one step for
the quiet actions and one per other action. The claims invariant and the cursor
invariant are inductive over `Typed /\ Minted`. `CreatesAreRecoverable` is not:
`CreatesAreRecorded` strengthens it with the row that is on record, its kind and
its outcome, which expiry spares. The refinement of `BlobLifetime` maps the ledger
by `LedgerStage`: a row is at its state, a minted key without a row is `gone`, any
other is `unborn`; a step maps to `Move` or to a stutter.

The feed: `FeedRows` maps an object's row to what `List` shows of it. A quiet step
is a stutter of `ChangeFeed`, a mutation that applies is its `Change`, the claim
and the deletion of a collection its own two actions. The cursor invariant says
that no row is past the cursor. `CollectionsMinted` says that a collection not yet
handed out stands at version 0, where the feed starts one.

What clients were told is in the slots of `requests`, which are reused, and in
`mutation_results`, which expires, so neither `NoLostUpdate` nor `RetriesAgree` is
inductive. `OneWinner` has both, requests and recorded outcomes, name one winner
of a version of an object; it stays so because every version that anybody was told
of has been reached (`UpdatesArePast`) and versions only grow. `CreatesAreThere`
does the same for creates: what was told or recorded names an object that is there
with its collection and came from that Mutation ID, and `CreatesAreRecorded` says
that one ID makes one object.

The bytes: `ToldHaveBytes` says that a blob somebody may claim has its bytes if it
has a row. A key is told once its file is written, only garbage collection and a
client's delete remove files, and each removes the row first; the danger is a row
that comes back before the file goes. `JobsHold` excludes it for one maintenance
process (it adopts or removes, never both at once) and `BlobsAreKept` for clients.
Both hypotheses are necessary: the run `deleted_blob_claimed` refutes the property
with a client's delete, and two processes do as told above. The server does run
the jobs in one goroutine, so the first holds for a server on its own database
whose operator does not press the development page's button meanwhile.

The claims: `LiveObjectsHoldTheirClaim` fails when a tombstone is updated whose blob
was staged a second time (above). `LiveObjectsKeepTheirClaim` excludes the first
half, for all settings: clients update notes they have, not those they deleted.
`LiveObjectsKeepTheirOwn` excludes the second, for all clients: `NamesHold` says
that of a blob some object names, tombstones included, only that object has a
claim and none is staged, and that such a blob is without a row only if garbage
collection took it and its file is gone or about to go. A failed removal or a
second process breaks that, so with garbage collection on the theorem asks for one
process without faults, and with it off (`BLOB_GC_ENABLED=false`) for nothing.
The runs' instances of this invariant were checked with TLC first.

Row locks: `IInv` says of each transaction, by kind and by the statement it is at,
which locks it holds (`MutationHolds`, `OtherHolds`), that no two hold one lock
but for shares of the account's row (`Exclusive`), and that what it read under them is
so (`ReadsHold`). A commit writes only rows whose locks its transaction has, so
it disturbs nothing another one has read. A deletion has locked or listed every
blob its collection holds (`DropHolds`), or it would leave claims behind. For
`OnlyBulkStatementsDeadlock` the locks have an order: Mutation ID, collection,
staged blob, superseded blob, result, account. For each place in it there is a set
of transactions that is closed under waiting and to which the waiting one does not
belong (`NoCycle`); a mutation that supersedes a blob waits only for whoever
claimed that blob, which nobody does who waits for it. Collection deletion and
expiry lock many rows in any order and are the exceptions.

Batch fetch: `FilesHold` says that a file is never longer than its blob and whole
once its key is told, `Dead` that a blob is gone or too large for good, and each
frame, answer and copy is true in that sense. For the cap, `Counted` relates
the handler's counters to the frames sent: `written` is their encoded size, and
at each blob after the first it was within the cap. `Encoded` is a
recursive function; what is used of it is only the equation that `Sizes` states,
which any function that satisfies it shares, and no induction.

Switch: a database's record is a prefix of some binary's migrations
(`DatabaseHolds`), and what a process has applied and what it has left to apply
continue it without a gap (`InOrder`), because one process at a time writes
(`OneAtATime`). The switch itself is a chain: while a script copies, nobody writes
to PostgreSQL, so the snapshot has all it acknowledged (`CopyHolds`); a finished copy
has it (`Carried`); the compose file names SQLite only then, and no server makes a fresh
database where blobs are (`SwitchHolds`). `ConverterHolds` says that a target in the
making has acknowledged nothing, which is why a failed copy may remove it.

Pull: that a device holds all up to its cursor says nothing of a page in flight.
The invariant adds that the changes of a collection have distinct numbers, none
past the cursor (`Ordered`, `Taken`), that no device's cursor is past the
collection's (`CursorsBehind`), and what a page in the device's hands is
(`PagesHold`): up to its last change number it holds, for each row, that row or
one that has since moved past. A change moves its row behind every cursor and
every page, so what is already held stays complete.

Doorbell: `NoChangeIsSilent` needs to know where an undelivered version may be.
`Announced` says that no version anywhere is past the committed one, `Covered`
that what the hub gave a subscription is in its queue, with its wake slot taken,
or at the device. Each place of the journey (commit, ring, wake, drain,
send, pull) hands the latest version to the next, or the stream ends and the
device pulls when it comes back.

Vault key: `RevisionAdvances` proves that a new revision is later than the one it
replaces, whatever the clock shows. A key that any device or message holds is
therefore not ahead of the stored one, and equal tokens name one key.

Sessions: `HandlerHolds` says what a validation carries between its queries (the
expiry it read is the session's own, since validation never extends it), `SessionHolds`
why a row is missing: a logout, or an expiry that the clock has shown.

Only model-checked: the liveness properties `PurgeableRowsGo`, `OrphansAreFound`,
`StagedBlobsDoNotLinger`, `ClaimsDoNotLinger`, `ChangesArrive`, `DevicesCatchUp`,
`ExpiredSessionsGo`, `TransactionsEnd` and `EveryBlobArrives`, because fairness is
outside the prover's reach. Every invariant and action property that a passing run
checks is stated by a theorem; `BytesBehindContents` and
`LiveObjectsHoldTheirClaim` under the hypotheses above, without which they are
false. `MutationsAreChanges` and `LoginsDoNotFail` are proved and no longer run:
the first is part of what `CollectionsAreFeeds` says. The `TypeOK` of `RowLocks`,
`SQLiteSwitch` and `BatchFetch` were checked once and are proved.

## What is not modelled, and why

- A batch's limits and framing, uploads' sizes, quotas of the pass (500): data,
  or above every bound. Keys named twice in one batch fetch, range requests.
- Ledger rows in state `legacy_shared`, in any module. Migration 010 gave it to keys
  that several objects named; no statement writes it, and no query claims,
  releases, marks or removes such a row. With it the objects that share a key would
  be exempt from the properties about claims.
- `FOR UPDATE SKIP LOCKED` outside `RowLocks`: in `Maintenance` a transaction is one
  step, so no row is locked when another looks. On PostgreSQL a pass may leave a
  locked row to the next one; purging promises nothing about a given pass.
- `Get` and the list of collections change no state and are one query each.
- A stream of the doorbell is authorised once, when it opens, and outlives its
  session: no step of `Doorbell` depends on `Sessions`.
- The conversion of column values, and the counts and integrity checks that
  verify a copy: they pass or fail. Two converters at once; data directories
  other than the installer's, for which rewriting `.env` in phase 3 matters; the
  rows that a migration changes.
- Development logins and the login limiter: planned.
- Password hashing, configuration, routing, HTML: no state of their own.
- `cmd/compare` and the other scripts drive the server from outside.

## Plan

In this order; each with its own runs and, where listed, theorems.

1. `VaultKey` as an implementation of an abstract compare-and-swap register; the
   one-step pull of `Doorbell` as an implementation by `PullClient`.
2. `RowLocks` as an implementation of the atomic transactions of
   `ObjectMutations`: a refinement in which a mutation's commit is its one step.
3. `LoginLimiter` and the development logins: the limiter's window per address
   and in total, its eviction, and concurrent attempts. Theorem: the bound.
4. The update of a tombstone whose blob is another object's, as a run of its own.
