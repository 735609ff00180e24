---------------------------- MODULE SQLiteSwitch ----------------------------
(***************************************************************************)
(* Moving an install from PostgreSQL to SQLite: the migrate-to-sqlite      *)
(* command (convert.go), the script that drives it on a Compose install    *)
(* (migrate-to-sqlite.sh), and the operator, who may stop the script       *)
(* anywhere, follow what it printed, and start over.                       *)
(*                                                                         *)
(* One service runs the server, with the installer's directories: BLOB_DIR *)
(* and the SQLite file lie where the new compose file looks for them, so   *)
(* rewriting .env changes nothing here.  Other processes may boot on the   *)
(* PostgreSQL database too; they serve nobody.                             *)
(***************************************************************************)
EXTENDS Migrator

CONSTANTS
    Server,        \* the process of the compose service
    Writes,        \* the notes clients write
    MaxStops       \* bound on kills, failures and script runs cut short

ASSUME ServerAssumption == Server \in Processes \ {Converter}
ASSUME BinariesAssumption == {"old", "new"} \subseteq Binaries

VARIABLES
    acknowledged,  \* the writes each database acknowledged
    compose,       \* the database docker-compose.yml configures
    override,      \* the override file with the new image exists
    up,            \* the service is to run: Docker restarts it
    script,        \* where the script is; "off" when none runs
    backup,        \* the script saved the old compose file
    snapshot,      \* what the converter's REPEATABLE READ transaction sees
    copied,        \* the tables it copied, in its transaction on the target
    stops          \* kills, failures and interruptions so far

switch == <<acknowledged, compose, override, up, script, backup, snapshot, copied, stops>>
vars   == <<db, blob_files, process, switch>>

-----------------------------------------------------------------------------
(* Docker Compose *)

\* The container's configuration: the old compose file names the old image.
Configured(p, d, b) == [Down EXCEPT !.pc = "starting", !.on = d, !.binary = b]

Up(d, b) ==
    /\ process' = IF process[Server].pc # "down" /\ process[Server].on = d
                     /\ process[Server].binary = b
                  THEN process
                  ELSE [process EXCEPT ![Server] = Configured(Server, d, b)]
    /\ up' = TRUE

PlainUp == Up(compose, IF compose = "postgres" THEN "old" ELSE "new")

Stop == Exit(Server, "down") /\ up' = FALSE

\* restart: unless-stopped, with the configuration the container has.
Restart ==
    /\ up /\ process[Server].pc \notin {"starting", "opened", "applying", "serving"}
    /\ Go(Server, "starting")
    /\ UNCHANGED <<db, blob_files, switch>>

\* A client's write is acknowledged by the server that serves it.
Write ==
    LET d == process[Server].on IN
    /\ At(Server, "serving")
    /\ \E w \in Writes :
         /\ \A e \in Databases : w \notin acknowledged[e]
         /\ db' = [db EXCEPT ![d].rows = [t \in Tables |-> @[t] \cup {w}]]
         /\ acknowledged' = [acknowledged EXCEPT ![d] = @ \cup {w}]
    /\ blob_files' = TRUE
    /\ UNCHANGED <<process, compose, override, up, script, backup, snapshot, copied, stops>>

-----------------------------------------------------------------------------
(* MigratePostgresToSQLite *)

Erased == Database(FALSE, 0)

ConverterIdle == process[Converter].pc \in {"down", "failed", "completed"}

\* docker run, one converter at a time.
StartConverter ==
    process' = [process EXCEPT ![Converter] =
                  [Down EXCEPT !.pc = "checking", !.on = "sqlite", !.binary = "new"]]

\* Bug: the cleanup is armed before the target is looked at.
CheckLate ==
    /\ At(Converter, "checking")
    /\ IF db["sqlite"].created
       THEN /\ db' = [db EXCEPT !["sqlite"] = Erased]
            /\ Exit(Converter, "failed")
       ELSE Go(Converter, "starting") /\ UNCHANGED db
    /\ UNCHANGED <<blob_files, switch>>

\* refuseNonemptyTarget, before the deferred cleanup is armed.
CheckTarget ==
    /\ At(Converter, "checking")
    /\ IF db["sqlite"].created THEN Exit(Converter, "failed") ELSE Go(Converter, "starting")
    /\ UNCHANGED <<db, blob_files, switch>>

\* The first query takes the snapshot, which needs the schema the converter
\* was built with.
BeginCopy ==
    /\ At(Converter, "migrated")
    /\ db["postgres"].schema = 1 .. Ships["new"]["postgres"]
    /\ Migrating("sqlite") = {}
    /\ snapshot' = db["postgres"].rows /\ copied' = {}
    /\ Go(Converter, "copying")
    /\ UNCHANGED <<db, blob_files, acknowledged, compose, override, up, script, backup, stops>>

\* Bug: rows are inserted outside the transaction on the target.
CopyTableAtOnce ==
    /\ At(Converter, "copying") /\ copied # Tables
    /\ \E t \in Tables \ copied :
         copied' = copied \cup {t} /\ db' = [db EXCEPT !["sqlite"].rows[t] = snapshot[t]]
    /\ UNCHANGED <<blob_files, process, acknowledged, compose, override, up, script, backup,
                   snapshot, stops>>

CopyTable ==
    /\ At(Converter, "copying") /\ copied # Tables
    /\ \E t \in Tables \ copied : copied' = copied \cup {t}
    /\ UNCHANGED <<db, blob_files, process, acknowledged, compose, override, up, script, backup,
                   snapshot, stops>>

\* verifySnapshot compares with the snapshot; then the target commits.
CommitCopy ==
    /\ At(Converter, "copying") /\ copied = Tables
    /\ db' = [db EXCEPT !["sqlite"].rows = [t \in Tables |-> @[t] \cup snapshot[t]]]
    /\ Go(Converter, "verifying")
    /\ UNCHANGED <<blob_files, switch>>

\* verifySQLite on the committed file.
Complete ==
    /\ At(Converter, "verifying")
    /\ Exit(Converter, "completed")
    /\ UNCHANGED <<db, blob_files, switch>>

\* An error return runs the deferred cleanup; a kill does not.
FailConverter ==
    /\ process[Converter].pc \in {"starting", "opened", "applying", "migrated", "copying", "verifying"}
    /\ db' = [db EXCEPT !["sqlite"] = Erased]
    /\ Exit(Converter, "failed")
    /\ stops < MaxStops /\ stops' = stops + 1
    /\ UNCHANGED <<blob_files, acknowledged, compose, override, up, script, backup, snapshot, copied>>

\* Migrate refused the target, or PostgreSQL lacks a column to copy.
ConverterRefused ==
    /\ \/ process[Converter].pc \in {"refused_schema", "collided"}
       \/ At(Converter, "migrated") /\ db["postgres"].schema # 1 .. Ships["new"]["postgres"]
    /\ db' = [db EXCEPT !["sqlite"] = Erased]
    /\ Exit(Converter, "failed")
    /\ UNCHANGED <<blob_files, switch>>

ConverterStep ==
    \/ CheckTarget \/ BeginCopy \/ CopyTable \/ CommitCopy \/ Complete
    \/ FailConverter \/ ConverterRefused

-----------------------------------------------------------------------------
(* migrate-to-sqlite.sh: each step is a command, or the checks before one.  *)

Script(from, to) == script = from /\ script' = to

\* die, or nothing left to do.
ScriptSame == UNCHANGED <<db, blob_files, acknowledged, snapshot, copied, stops>>

\* compose up -d, then what the container runs on, the leftovers of an earlier
\* run, and the operator's consent.
Inspect ==
    /\ Script("off", "inspected") /\ ~override
    /\ PlainUp
    /\ UNCHANGED <<compose, override, backup>> /\ ScriptSame

\* An empty notes.db, or an operator who says no, stops it as well.
Preflight ==
    /\ script = "inspected"
    /\ script' \in {"off"} \cup
         (IF compose = "postgres" /\ ~db["sqlite"].created THEN {"confirmed"} ELSE {})
    /\ UNCHANGED <<process, compose, override, up, backup>> /\ ScriptSame

\* Copies of .env and the compose file, the server stopped, pg_dump.
BackUp ==
    /\ Script("confirmed", "backed_up")
    /\ backup' = TRUE /\ Stop
    /\ UNCHANGED <<compose, override>> /\ ScriptSame

\* The override file, and the new image on the old database.
Upgrade ==
    /\ Script("backed_up", "upgrading")
    /\ override' = TRUE /\ Up(compose, "new")
    /\ UNCHANGED <<compose, backup>> /\ ScriptSame

\* Bug: the copy starts while the server goes on.
CopyWhileServing ==
    /\ Script("upgrading", "copying") /\ At(Server, "serving") /\ ConverterIdle
    /\ StartConverter
    /\ UNCHANGED <<compose, override, up, backup>> /\ ScriptSame

\* Healthy, checked by the operator; the server is stopped, the copy begins.
StartCopy ==
    /\ Script("upgrading", "stopped") /\ At(Server, "serving")
    /\ Stop
    /\ UNCHANGED <<compose, override, backup>> /\ ScriptSame

\* "Doing it by hand", after a script that stopped half-way was undone: the
\* server is stopped, and the steps below follow without the ones above.
StopByHand ==
    /\ Script("off", "stopped") /\ compose = "postgres" /\ ~override
    /\ Stop
    /\ UNCHANGED <<compose, override, backup>> /\ ScriptSame

RunCopy ==
    /\ Script("stopped", "copying") /\ ConverterIdle
    /\ StartConverter
    /\ UNCHANGED <<compose, override, up, backup>> /\ ScriptSame

\* The command's exit status; down removes the old containers.
CopyEnded ==
    LET completed == At(Converter, "completed") IN
    /\ script = "copying" /\ ConverterIdle
    /\ script' = IF completed THEN "fetching" ELSE "off"
    /\ override' = (override /\ ~completed)
    /\ up' = (up /\ ~completed)
    /\ process' = [process EXCEPT ![Converter] = Down,
                                  ![Server] = IF completed THEN Down ELSE @]
    /\ UNCHANGED <<compose, backup>> /\ ScriptSame

\* curl to a temporary name, mv over docker-compose.yml.
ReplaceCompose ==
    /\ Script("fetching", "switching")
    /\ compose' = "sqlite"
    /\ UNCHANGED <<process, override, up, backup>> /\ ScriptSame

\* set_env, then compose up -d.
StartOnSQLite ==
    /\ Script("switching", "starting")
    /\ PlainUp
    /\ UNCHANGED <<compose, override, backup>> /\ ScriptSame

Finish ==
    /\ Script("starting", "off") /\ At(Server, "serving")
    /\ UNCHANGED <<process, compose, override, up, backup>> /\ ScriptSame

\* A command fails or wait_healthy gives up, or the script is interrupted.  A
\* converter it started may go on.
ScriptStops ==
    /\ script # "off" /\ script' = "off"
    /\ stops < MaxStops /\ stops' = stops + 1
    /\ UNCHANGED <<db, blob_files, process, acknowledged, compose, override, up, backup,
                   snapshot, copied>>

ScriptStep ==
    \/ Inspect \/ Preflight \/ BackUp \/ Upgrade \/ StartCopy \/ StopByHand \/ RunCopy
    \/ CopyEnded \/ ReplaceCompose \/ StartOnSQLite \/ Finish \/ ScriptStops

-----------------------------------------------------------------------------
(* The operator, when no script runs *)

Operator == script = "off" /\ UNCHANGED <<script, blob_files, snapshot, copied, stops>>

\* rm -f docker-compose.go-image.yml && docker compose up -d.
Undo ==
    /\ Operator
    /\ override' = FALSE /\ PlainUp
    /\ UNCHANGED <<db, acknowledged, compose, backup>>

\* docker compose down, the saved files back in place, docker compose up -d.
RollBack ==
    /\ Operator /\ backup
    /\ compose' = "postgres" /\ Up("postgres", "old")
    /\ UNCHANGED <<db, acknowledged, override, backup>>

\* notes.db is moved aside to redo the copy, or its directory is lost from the
\* configuration.  What it acknowledged is kept, elsewhere.
MoveDatabaseAside ==
    /\ Operator /\ ~up /\ At(Server, "down") /\ ConverterIdle
    /\ db' = [db EXCEPT !["sqlite"] = Erased]
    /\ acknowledged' = [acknowledged EXCEPT !["sqlite"] = {}]
    /\ UNCHANGED <<process, compose, override, up, backup>>

TakeDown ==
    /\ Operator /\ up /\ Stop
    /\ UNCHANGED <<db, acknowledged, compose, override, backup>>

\* The command alone, with PostgreSQL configured, stopped server or not: the
\* operator does not switch to what it copied.
CopyByHand ==
    /\ Operator /\ compose = "postgres" /\ ConverterIdle
    /\ StartConverter
    /\ UNCHANGED <<db, acknowledged, compose, override, up, backup>>

OperatorStep == Undo \/ RollBack \/ MoveDatabaseAside \/ TakeDown \/ CopyByHand

-----------------------------------------------------------------------------

\* Another server on the PostgreSQL database.
BootElsewhere ==
    /\ \E p \in Processes \ {Server, Converter}, b \in Binaries :
         /\ process[p].pc \notin {"starting", "opened", "applying"}
         /\ process' = [process EXCEPT ![p] = Configured(p, "postgres", b)]
    /\ UNCHANGED <<db, blob_files, switch>>

Kill ==
    /\ stops < MaxStops /\ stops' = stops + 1
    /\ \E p \in Processes : process[p].pc \notin {"failed", "completed"} /\ Crash(p)
    /\ UNCHANGED <<acknowledged, compose, override, up, script, backup, snapshot, copied>>

Init ==
    /\ \E n \in 0 .. Ships["old"]["postgres"] :
         db = [d \in Databases |-> IF d = "postgres" THEN Database(TRUE, n) ELSE Erased]
    /\ blob_files = FALSE
    /\ process = [p \in Processes |-> Down]
    /\ acknowledged = [d \in Databases |-> {}]
    /\ compose = "postgres" /\ override = FALSE /\ up = FALSE
    /\ script = "off" /\ backup = FALSE
    /\ snapshot = None /\ copied = {} /\ stops = 0

BootStep == (\E p \in Processes : Boot(p)) /\ UNCHANGED switch

Next == BootStep \/ Restart \/ Write \/ ConverterStep \/ ScriptStep \/ OperatorStep
        \/ BootElsewhere \/ Kill

Spec == Init /\ [][Next]_vars

-----------------------------------------------------------------------------
(* Properties *)

TypeOK ==
    /\ \A d \in Databases :
         /\ db[d].created \in BOOLEAN
         /\ \E b \in Binaries : db[d].schema \cup db[d].recorded \subseteq 1 .. Ships[b][d]
         /\ db[d].rows \in [Tables -> SUBSET Writes]
    /\ acknowledged \in [Databases -> SUBSET Writes]
    /\ compose \in Databases /\ up \in BOOLEAN /\ override \in BOOLEAN /\ backup \in BOOLEAN
    /\ snapshot \in [Tables -> SUBSET Writes] \cup {None}
    /\ copied \subseteq Tables

\* Each migration took effect exactly when it is recorded, and in order,
\* however many processes boot at once and wherever they are killed.
SchemaIsRecorded ==
    \A d \in Databases : /\ db[d].schema = db[d].recorded
                         /\ \E n \in 0 .. Cardinality(db[d].schema) : db[d].schema = 1 .. n

\* No boot fails on what another one has just created.
BootsDoNotCollide == \A p \in Processes : ~At(p, "collided")

\* A binary starts to serve only on the schema it ships: never on less, and
\* never on a database a newer server has migrated.
ServersKnowTheSchema ==
    [][\A p \in Processes : At(p, "applying") /\ process'[p].pc = "serving" =>
         db'[process[p].on].recorded = Shipped(p)]_vars

\* A switch leaves no write behind: whoever is served from SQLite finds all
\* that PostgreSQL acknowledged, however often the operator went back and
\* forth, and a fresh database never stands in for a lost one.
SwitchesCarryEveryWrite ==
    At(Server, "serving") /\ process[Server].on = "sqlite" =>
        \A t \in Tables : acknowledged["postgres"] \subseteq db["sqlite"].rows[t]

\* No copy, failed, killed or refused, costs a database a write it has
\* acknowledged, and what a database holds is whole: a write is in all of the
\* tables or in none.
DatabasesStayWhole ==
    \A d \in Databases, t \in Tables :
        /\ acknowledged[d] \subseteq db[d].rows[t]
        /\ \A u \in Tables : db[d].rows[t] = db[d].rows[u]

\* migrate-to-sqlite.sh: the whole thing is reversible.  The saved
\* configuration, back in place, gets a server that boots on PostgreSQL.
RollbackBoots ==
    [][At(Server, "opened") /\ process[Server].on = "postgres" /\ process[Server].binary = "old"
         => process'[Server].pc # "refused_schema"]_vars
=============================================================================
