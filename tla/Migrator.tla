------------------------------ MODULE Migrator ------------------------------
(***************************************************************************)
(* Booting on a database: db.Open, db.Migrate and the order main gives     *)
(* them.  Several processes may boot on one database at once, with         *)
(* binaries that ship different migrations, and be killed anywhere.        *)
(*                                                                         *)
(* Migrate is one transaction behind one lock: pg_advisory_xact_lock on    *)
(* PostgreSQL, BEGIN IMMEDIATE on SQLite.  What it did shows when it       *)
(* commits.                                                                *)
(***************************************************************************)
EXTENDS Integers, FiniteSetsExt

CONSTANTS
    Processes,     \* everything that boots: servers, and the converter
    Converter,     \* the process that runs migrate-to-sqlite
    Binaries,
    Ships,         \* how many of a database's migrations each binary ships
    None

Databases == {"postgres", "sqlite"}
Tables    == {"collections", "objects"}

ASSUME ShipsAssumption == Ships \in [Binaries -> [Databases -> Nat \ {0}]]
ASSUME ConverterAssumption == Converter \in Processes
ASSUME NoneAssumption == None \notin Databases \cup Binaries

VARIABLES
    db,            \* each database, as committed
    blob_files,    \* BLOB_DIR holds a file
    process        \* each process

\* created: a PostgreSQL database, or a SQLite file of more than no bytes.
\* schema: the migrations whose SQL took effect.  recorded: kysely_migration.
\* rows: the writes each table holds; a write touches every table.
Database(created, n) ==
    [created |-> created, schema |-> 1 .. n, recorded |-> 1 .. n,
     rows |-> [t \in Tables |-> {}]]

Down == [pc |-> "down", on |-> None, binary |-> None, pending |-> {}, done |-> {}]

At(p, pc)   == process[p].pc = pc
Go(p, pc)   == process' = [process EXCEPT ![p].pc = pc]
Exit(p, pc) == process' = [process EXCEPT ![p].pc = pc, ![p].pending = {}, ![p].done = {}]

Shipped(p) == 1 .. Ships[process[p].binary][process[p].on]

\* Bug: a fresh file is created whatever BLOB_DIR holds.
NeverRefuseFresh(p) == FALSE

\* prepareSQLiteFile: BLOB_DIR speaks of a database that is not here.  The
\* converter sets ALLOW_FRESH_DATABASE.
RefuseFresh(p) ==
    /\ process[p].on = "sqlite" /\ ~db["sqlite"].created
    /\ blob_files /\ p # Converter

Open(p) ==
    /\ At(p, "starting")
    /\ IF RefuseFresh(p) THEN Exit(p, "refused_fresh") ELSE Go(p, "opened")
    /\ UNCHANGED <<db, blob_files>>

Migrating(d) == {p \in Processes : process[p].on = d /\ process[p].pc \in {"applying", "copying"}}

\* Bug: names the binary does not know are passed over.
KnownNames(p) == FALSE

\* pendingMigrations: names this binary does not ship, or a gap before one
\* that is recorded.
Newer(p) == ~(db[process[p].on].recorded \subseteq Shipped(p))
Gap(p)   == \E m \in db[process[p].on].recorded, n \in Shipped(p) :
              n < m /\ n \notin db[process[p].on].recorded

\* Bug: what is applied is read before the lock is held.
ReadThenLock(p) ==
    /\ At(p, "opened")
    /\ IF Newer(p) \/ Gap(p) THEN Exit(p, "refused_schema")
       ELSE process' = [process EXCEPT ![p].pc = "applying",
                          ![p].pending = Shipped(p) \ db[process[p].on].recorded]
    /\ UNCHANGED <<db, blob_files>>

\* The lock, and what is recorded once it is held.  Connecting to a new SQLite
\* file writes its first page.
LockAndRead(p) ==
    LET d == process[p].on IN
    /\ At(p, "opened") /\ Migrating(d) = {}
    /\ db' = [db EXCEPT ![d].created = TRUE]
    /\ IF Newer(p) \/ Gap(p) THEN Exit(p, "refused_schema")
       ELSE process' = [process EXCEPT ![p].pc = "applying",
                                       ![p].pending = Shipped(p) \ db[d].recorded]
    /\ UNCHANGED blob_files

Apply(p) ==
    /\ At(p, "applying") /\ process[p].pending # {}
    /\ LET m == Min(process[p].pending) IN
       process' = [process EXCEPT ![p].pending = @ \ {m}, ![p].done = @ \cup {m}]
    /\ UNCHANGED <<db, blob_files>>

\* Bug: the migrations are recorded after their transaction, if at all.
RecordAfterwards(p) ==
    LET d == process[p].on IN
    /\ At(p, "applying") /\ process[p].pending = {}
    /\ \E recorded \in {{}, process[p].done} :
         db' = [db EXCEPT ![d].schema = @ \cup process[p].done,
                          ![d].recorded = @ \cup recorded]
    /\ Exit(p, IF p = Converter THEN "migrated" ELSE "serving")
    /\ UNCHANGED blob_files

\* What another transaction created meanwhile fails the statement that creates
\* it again, once that transaction has committed.
CommitMigrations(p) ==
    LET d == process[p].on IN
    /\ At(p, "applying") /\ process[p].pending = {}
    /\ IF process[p].done \cap db[d].schema # {}
       THEN Exit(p, "collided") /\ UNCHANGED db
       ELSE /\ db' = [db EXCEPT ![d].schema = @ \cup process[p].done,
                                ![d].recorded = @ \cup process[p].done]
            /\ Exit(p, IF p = Converter THEN "migrated" ELSE "serving")
    /\ UNCHANGED blob_files

Boot(p) == Open(p) \/ LockAndRead(p) \/ Apply(p) \/ CommitMigrations(p)

\* busy_timeout on SQLite, main's minute for the migration, or a kill.
Crash(p) == process[p].pc # "down" /\ Exit(p, "down") /\ UNCHANGED <<db, blob_files>>
=============================================================================
