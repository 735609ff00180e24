----------------------------- MODULE Maintenance -----------------------------
(***************************************************************************)
(* The recurring maintenance of internal/jobs: storage reconciliation,     *)
(* expiry of mutation results and blob garbage collection, run one after   *)
(* the other by a single goroutine per server.  Each job is many short     *)
(* transactions and file operations, and requests (or another server's     *)
(* maintenance) run between any two of them.  Two maintainers are two      *)
(* servers on one PostgreSQL database and one storage directory, or one    *)
(* server and a job triggered from the development page.                   *)
(*                                                                         *)
(* The 500-file and 500-row limits of a pass are above every bound used    *)
(* here, so one pass always sees everything.                               *)
(***************************************************************************)
EXTENDS Database

CONSTANTS
    Maintainers,     \* processes that run maintenance
    CollectGarbage,  \* the configuration flag that schedules blob GC
    Faults           \* whether a job may fail or be interrupted

ASSUME FlagAssumption == CollectGarbage \in BOOLEAN /\ Faults \in BOOLEAN

VARIABLE
    maintenance      \* the local state of each maintainer

JobStages == {"idle", "walk", "adopt", "expire-pending", "expire-other",
              "list", "purge", "remove"}

\* todo: keys a directory walk or the eligible-row query returned, not yet
\* visited.  key: the one being visited.  purged: this pass deleted a row.
MaintainerState ==
    [pc : JobStages, todo : SUBSET Blobs, key : Blobs \cup {None}, purged : BOOLEAN]

Resting == [pc |-> "idle", todo |-> {}, key |-> None, purged |-> FALSE]

Enter(s, pc, todo) ==
    maintenance' = [maintenance EXCEPT ![s] = [Resting EXCEPT !.pc = pc, !.todo = todo]]

tables == <<now, minted, collections, current_version, objects>>

-----------------------------------------------------------------------------
(* ReconcileStorage                                                         *)

\* The schedule fires and the walk reads the storage directory.
StartWalk(s) ==
    /\ maintenance[s].pc = "idle"
    /\ Enter(s, "walk", files)
    /\ UNCHANGED database

\* entry.Info: a file that vanished since the directory was read ends the walk.
Stat(s) ==
    LET m == maintenance[s] IN
    /\ m.pc = "walk"
    /\ \E k \in m.todo :
         \/ /\ k \in files
            /\ maintenance' = [maintenance EXCEPT ![s] =
                 [m EXCEPT !.pc = "adopt", !.todo = @ \ {k}, !.key = k]]
         \/ k \notin files /\ Enter(s, "expire-pending", {})
    /\ UNCHANGED database

\* Bug: ON CONFLICT DO UPDATE stages a file whose row is in use.
AdoptOverwriting(s) ==
    LET m == maintenance[s] IN
    /\ m.pc = "adopt"
    /\ blob_ledger' = [blob_ledger EXCEPT ![m.key] = StagedRow]
    /\ Enter(s, "walk", m.todo)
    /\ UNCHANGED <<tables, mutation_results, files>>

\* Bug: the walk only looks at files and inserts nothing.
AdoptNothing(s) ==
    /\ maintenance[s].pc = "adopt"
    /\ Enter(s, "walk", maintenance[s].todo)
    /\ UNCHANGED database

\* INSERT ... ON CONFLICT DO NOTHING: a file without a row is staged afresh.
Adopt(s) ==
    LET m == maintenance[s] IN
    /\ m.pc = "adopt"
    /\ blob_ledger' = [blob_ledger EXCEPT ![m.key] = IF @ = None THEN StagedRow ELSE @]
    /\ Enter(s, "walk", m.todo)
    /\ UNCHANGED <<tables, mutation_results, files>>

EndWalk(s) ==
    /\ maintenance[s].pc = "walk" /\ maintenance[s].todo = {}
    /\ Enter(s, "expire-pending", {})
    /\ UNCHANGED database

-----------------------------------------------------------------------------
(* ExpireMutationResults                                                    *)

\* Bug: only the legacy spelling of an in-progress status is recognised.
LegacyPendingExpired(row) == FALSE

PendingExpired(row) ==
    row.result.status = 102 /\ row.created_at < now - PendingLifetime

\* Bug: successful creates are forgotten like every other outcome.
AnyOutcomeExpired(row) ==
    row.result.status # 102 /\ row.created_at < now - OutcomeLifetime

\* Every other outcome but a successful create's.
OutcomeExpired(row) ==
    /\ row.result.status # 102
    /\ row.created_at < now - OutcomeLifetime
    /\ ~(row.kind = "create" /\ row.result.status \in {200, 201})

Recordings == {m \in MutationIDs : mutation_results[m] # None}

Forget(expired) ==
    mutation_results' = [m \in MutationIDs |->
        IF m \in expired THEN None ELSE mutation_results[m]]

ExpirePending(s) ==
    /\ maintenance[s].pc = "expire-pending"
    /\ Forget({m \in Recordings : PendingExpired(mutation_results[m])})
    /\ Enter(s, "expire-other", {})
    /\ UNCHANGED <<tables, blob_ledger, files>>

ExpireOther(s) ==
    /\ maintenance[s].pc = "expire-other"
    /\ Forget({m \in Recordings : OutcomeExpired(mutation_results[m])})
    /\ Enter(s, IF CollectGarbage THEN "list" ELSE "idle", {})
    /\ UNCHANGED <<tables, blob_ledger, files>>

-----------------------------------------------------------------------------
(* GarbageCollectBlobs                                                      *)

\* eligibleBlobKeys: the job is done when nothing is eligible.
ListEligible(s) ==
    LET keys == {k \in Blobs : Purgeable(k)} IN
    /\ maintenance[s].pc = "list"
    /\ Enter(s, IF keys = {} THEN "idle" ELSE "purge", keys)
    /\ UNCHANGED database

\* purgeBlobRow: the listed row may have been claimed or purged since, so the
\* transaction asks again before it deletes.  SKIP LOCKED passes over a row that
\* a transaction holds, which shows only where transactions overlap (RowLocks);
\* a row passed over is there for the next job.
PurgeRow(s) ==
    LET m == maintenance[s] IN
    /\ m.pc = "purge"
    /\ \E k \in m.todo :
         \/ /\ Purgeable(k)
            /\ blob_ledger' = [blob_ledger EXCEPT ![k] = None]
            /\ maintenance' = [maintenance EXCEPT ![s] =
                 [pc |-> "remove", todo |-> m.todo \ {k}, key |-> k, purged |-> TRUE]]
         \/ /\ ~Purgeable(k)
            /\ maintenance' = [maintenance EXCEPT ![s].todo = @ \ {k}]
            /\ UNCHANGED blob_ledger
    /\ UNCHANGED <<tables, mutation_results, files>>

\* store.Remove, after the row is gone.
RemoveFile(s) ==
    LET m == maintenance[s] IN
    /\ m.pc = "remove"
    /\ files' = files \ {m.key}
    /\ maintenance' = [maintenance EXCEPT ![s] = [m EXCEPT !.pc = "purge", !.key = None]]
    /\ UNCHANGED <<tables, blob_ledger, mutation_results>>

\* A pass that purged something lists again; one that did not ends the job.
EndPass(s) ==
    LET m == maintenance[s] IN
    /\ m.pc = "purge" /\ m.todo = {}
    /\ Enter(s, IF m.purged THEN "list" ELSE "idle", {})
    /\ UNCHANGED database

-----------------------------------------------------------------------------

\* A file that cannot be removed is skipped; any other error ends the job and
\* the next one runs; a server that stops abandons the whole pass.
Fault(s) ==
    LET m == maintenance[s] IN
    /\ Faults
    /\ m.pc # "idle"
    /\ \/ /\ m.pc = "remove"
          /\ maintenance' = [maintenance EXCEPT ![s] = [m EXCEPT !.pc = "purge", !.key = None]]
       \/ m.pc \in {"walk", "adopt"} /\ Enter(s, "expire-pending", {})
       \/ /\ m.pc \in {"expire-pending", "expire-other"} /\ CollectGarbage
          /\ Enter(s, "list", {})
       \/ Enter(s, "idle", {})
    /\ UNCHANGED database

MaintenanceTypeOK == maintenance \in [Maintainers -> MaintainerState]

MaintenanceInit == maintenance = [s \in Maintainers |-> Resting]

JobStep(s) ==
    \/ StartWalk(s) \/ Stat(s) \/ Adopt(s) \/ EndWalk(s)
    \/ ExpirePending(s) \/ ExpireOther(s)
    \/ ListEligible(s) \/ PurgeRow(s) \/ RemoveFile(s) \/ EndPass(s)
=============================================================================
