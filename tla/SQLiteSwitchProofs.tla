------------------------- MODULE SQLiteSwitchProofs -------------------------
(***************************************************************************)
(* Boots do not get in each other's way, and no switch to SQLite, stopped  *)
(* anywhere and redone, costs a write: for any number of processes, any    *)
(* binaries and any number of migrations they ship.                        *)
(***************************************************************************)
EXTENDS SQLiteSwitch, FiniteSetTheorems, TLAPS

(* The inductive invariant *)

ConverterOnly == {"checking", "migrated", "copying", "verifying", "failed", "completed"}

ProcessPCs == {"down", "starting", "refused_fresh", "opened", "refused_schema", "applying",
               "serving", "collided"} \cup ConverterOnly

ProcessRow == [pc : ProcessPCs, on : Databases \cup {None}, binary : Binaries \cup {None},
               pending : SUBSET Nat, done : SUBSET Nat]

Rows == [Tables -> SUBSET Writes]

DatabaseRow == [created : BOOLEAN, schema : SUBSET Nat, recorded : SUBSET Nat, rows : Rows]

Typed ==
    /\ db \in [Databases -> DatabaseRow] /\ blob_files \in BOOLEAN
    /\ process \in [Processes -> ProcessRow]
    /\ acknowledged \in [Databases -> SUBSET Writes]
    /\ compose \in Databases /\ override \in BOOLEAN /\ up \in BOOLEAN /\ backup \in BOOLEAN
    /\ script \in {"off", "inspected", "confirmed", "backed_up", "upgrading", "stopped",
                   "copying", "fetching", "switching", "starting"}
    /\ snapshot \in Rows \cup {None} /\ copied \subseteq Tables

\* What is recorded is what took effect, the first n migrations of some
\* binary's; a write is in all of the tables or in none.
DatabaseHolds(d) ==
    /\ db[d].schema = db[d].recorded
    /\ \E n \in Nat, b \in Binaries : n <= Ships[b][d] /\ db[d].recorded = 1 .. n
    /\ \A t \in Tables : acknowledged[d] \subseteq db[d].rows[t]
    /\ \A t, u \in Tables : db[d].rows[t] = db[d].rows[u]
    /\ ~db[d].created \/ ~blob_files => acknowledged[d] = {}
    /\ d = "postgres" => db[d].created

\* The migrations p still has to apply follow those it has applied, and these
\* follow those that are recorded.
InOrder(p) ==
    LET d == process[p].on
        s == Ships[process[p].binary][d] IN
    \E n, k \in Nat :
        /\ n <= k /\ k <= s
        /\ db[d].recorded = 1 .. n
        /\ process[p].done = n + 1 .. k /\ process[p].pending = k + 1 .. s

ProcessHolds(p) ==
    /\ process[p].pc # "down" => process[p].on # None /\ process[p].binary # None
    /\ p # Converter => process[p].pc \notin ConverterOnly
    /\ p = Converter => process[p].on # "postgres" /\ process[p].pc # "serving"
    /\ p \notin {Server, Converter} => process[p].on # "sqlite"
    /\ process[p].pc # "collided"
    /\ process[p].pc \in {"applying", "serving"} => db[process[p].on].created
    /\ process[p].pc = "applying" => InOrder(p)
    /\ process[p].pc # "applying" => process[p].pending = {} /\ process[p].done = {}

\* The advisory lock, or SQLite's one writer.
OneAtATime ==
    \A p, q \in Processes :
        /\ process[p].pc \in {"applying", "copying"} /\ process[q].pc \in {"applying", "copying"}
        /\ process[p].on = process[q].on
        => p = q

ServerHolds ==
    /\ process[Server].on \in {None, compose}
    /\ up => process[Server].on = compose /\ process[Server].binary # None
    /\ script \in {"stopped", "copying", "fetching"} => ~up /\ At(Server, "down")
    /\ script = "fetching" => process[Server].on = None

\* SQLite has every write that PostgreSQL acknowledged.
Carried == \A t \in Tables : acknowledged["postgres"] \subseteq db["sqlite"].rows[t]

\* While the converter is about, nothing is served from SQLite, and the target
\* was empty when it began.
ConverterHolds ==
    /\ ~ConverterIdle => compose = "postgres" /\ script # "fetching"
    /\ ~ConverterIdle /\ ~At(Converter, "checking") => acknowledged["sqlite"] = {}
    /\ At(Converter, "copying") =>
         snapshot \in Rows /\ \A t, u \in Tables : snapshot[t] = snapshot[u]

\* What the script copies, nobody adds to.
CopyHolds ==
    /\ script \in {"confirmed", "backed_up", "upgrading", "stopped", "copying", "fetching"} =>
         compose = "postgres"
    /\ script = "copying" /\ At(Converter, "copying") =>
         \A t \in Tables : acknowledged["postgres"] \subseteq snapshot[t]
    /\ script = "copying" /\ process[Converter].pc \in {"verifying", "completed"} => Carried
    /\ script = "fetching" => Carried

\* Once SQLite is configured, a database that is there has them all, and none
\* is made where one was.
SwitchHolds ==
    /\ compose = "sqlite" /\ db["sqlite"].created => Carried
    /\ process[Server].on = "sqlite" /\ process[Server].pc \in {"opened", "applying", "serving"} =>
         Carried

IInv ==
    /\ Typed
    /\ \A d \in Databases : DatabaseHolds(d)
    /\ \A p \in Processes : ProcessHolds(p)
    /\ OneAtATime /\ ServerHolds /\ ConverterHolds /\ CopyHolds /\ SwitchHolds

-----------------------------------------------------------------------------
(* What a step does to the processes *)

\* It is about p alone.
Only(p) == \A q \in Processes \ {p} : process'[q] = process[q]

\* p is elsewhere in the code, with the same configuration.
Moves(p, pc) ==
    /\ process' \in [Processes -> ProcessRow] /\ Only(p)
    /\ process'[p].pc = pc
    /\ process'[p].on = process[p].on /\ process'[p].binary = process[p].binary

\* To another place, with all it holds.
LEMMA GoMoves ==
    ASSUME Typed, NEW p \in Processes, NEW pc \in ProcessPCs, Go(p, pc)
    PROVE  /\ Moves(p, pc)
           /\ process'[p].pending = process[p].pending /\ process'[p].done = process[p].done
  <1> DEFINE row == [process[p] EXCEPT !.pc = pc]
  <1>1. /\ row \in ProcessRow
        /\ row.pc = pc /\ row.on = process[p].on /\ row.binary = process[p].binary
        /\ row.pending = process[p].pending /\ row.done = process[p].done
    BY DEF Typed, ProcessRow
  <1>2. process' = [process EXCEPT ![p] = row]
    BY DEF Go, Typed
  <1> HIDE DEF row
  <1> QED
    BY <1>1, <1>2 DEF Moves, Typed, Only

\* Out of a transaction.
LEMMA ExitMoves ==
    ASSUME Typed, NEW p \in Processes, NEW pc \in ProcessPCs, Exit(p, pc)
    PROVE  /\ Moves(p, pc)
           /\ process'[p].pending = {} /\ process'[p].done = {}
  <1> DEFINE row == [process[p] EXCEPT !.pc = pc, !.pending = {}, !.done = {}]
  <1>1. /\ row \in ProcessRow
        /\ row.pc = pc /\ row.on = process[p].on /\ row.binary = process[p].binary
        /\ row.pending = {} /\ row.done = {}
    BY DEF Typed, ProcessRow
  <1>2. process' = [process EXCEPT ![p] = row]
    BY DEF Exit, Typed
  <1> HIDE DEF row
  <1> QED
    BY <1>1, <1>2 DEF Moves, Typed, Only

\* docker compose up: the container goes on, or a new one starts.
LEMMA UpRow ==
    ASSUME Typed, NEW d \in Databases, NEW b \in Binaries, Up(d, b)
    PROVE  /\ process' \in [Processes -> ProcessRow] /\ Only(Server) /\ up'
           /\ process'[Server].on = d /\ process'[Server].binary = b
           /\ \/ process'[Server] = process[Server]
              \/ /\ process'[Server].pc = "starting"
                 /\ process'[Server].pending = {} /\ process'[Server].done = {}
  <1>1. Configured(Server, d, b) \in ProcessRow
    BY DEF Configured, Down, ProcessRow, ProcessPCs
  <1>2. Configured(Server, d, b).on = d /\ Configured(Server, d, b).binary = b
        /\ Configured(Server, d, b).pc = "starting"
        /\ Configured(Server, d, b).pending = {} /\ Configured(Server, d, b).done = {}
    BY DEF Configured, Down
  <1> QED
    BY <1>1, <1>2, ServerAssumption DEF Typed, Up, Only

\* The other processes hold what they held.
LEMMA OthersHold ==
    ASSUME IInv, NEW p \in Processes, Only(p), ProcessHolds(p)',
           \A d \in Databases : /\ db'[d].recorded = db[d].recorded
                                /\ db[d].created => db'[d].created
    PROVE  \A q \in Processes : ProcessHolds(q)'
  <1> SUFFICES ASSUME NEW q \in Processes \ {p} PROVE ProcessHolds(q)'
    OBVIOUS
  <1>1. process'[q] = process[q] /\ ProcessHolds(q) /\ process[q] \in ProcessRow
    BY DEF Only, IInv, Typed
  <1>2. process[q].on \in Databases \cup {None}
    BY <1>1 DEF ProcessRow
  <1>3. InOrder(q)' = InOrder(q) \/ process[q].on = None
    BY <1>1, <1>2 DEF InOrder
  <1>4. process[q].pc # "down" => process[q].on \in Databases
    BY <1>1, <1>2 DEF ProcessHolds
  <1> QED
    BY <1>1, <1>3, <1>4 DEF ProcessHolds

LEMMA SameDatabases ==
    ASSUME IInv, UNCHANGED <<db, blob_files, acknowledged>>
    PROVE  (\A d \in Databases : DatabaseHolds(d)') /\ (Carried' <=> Carried)
  BY DEF IInv, DatabaseHolds, Carried

-----------------------------------------------------------------------------
(* Booting *)

LEMMA OpenKeeps ==
    ASSUME IInv, NEW p \in Processes, Open(p), UNCHANGED switch
    PROVE  IInv'
  <1>1. /\ Moves(p, IF RefuseFresh(p) THEN "refused_fresh" ELSE "opened")
        /\ process'[p].pending = {} /\ process'[p].done = {}
    <2>1. {"refused_fresh", "opened"} \subseteq ProcessPCs /\ Typed
      BY DEF ProcessPCs, IInv
    <2>2. process[p].pending = {} /\ process[p].done = {}
      BY DEF Open, At, IInv, ProcessHolds
    <2> QED
      BY <2>1, <2>2, GoMoves, ExitMoves DEF Open
  <1>2. ProcessHolds(p)'
    BY <1>1 DEF IInv, ProcessHolds, Open, At, ConverterOnly, Moves
  <1>3. \A q \in Processes : ProcessHolds(q)'
    BY <1>1, <1>2, OthersHold DEF Open, Moves
  <1>4. SwitchHolds'
    <2>1. ASSUME p = Server, process[p].on = "sqlite", process'[p].pc = "opened" PROVE Carried
      <3>1. compose = "sqlite"
        BY <2>1, NoneAssumption DEF IInv, ServerHolds, Databases
      <3>2. CASE db["sqlite"].created
        BY <3>1, <3>2 DEF IInv, SwitchHolds
      <3>3. CASE ~db["sqlite"].created
        <4>1. ~blob_files
          BY <1>1, <2>1, <3>3, ServerAssumption DEF RefuseFresh, Moves
        <4>2. acknowledged["postgres"] = {}
          BY <4>1 DEF IInv, DatabaseHolds, Databases
        <4> QED
          BY <4>2 DEF Carried
      <3> QED
        BY <3>2, <3>3
    <2> QED
      BY <1>1, <2>1, ServerAssumption DEF IInv, SwitchHolds, Open, At, switch, Carried, Only, Moves
  <1>5. Typed' /\ OneAtATime'
    BY <1>1 DEF IInv, Typed, OneAtATime, Moves, Only, Open, switch
  <1>6. ServerHolds'
    BY <1>1, ServerAssumption DEF IInv, ServerHolds, Moves, Only, Open, At, switch
  <1>7. ConverterHolds' /\ CopyHolds'
    BY <1>1, ConverterAssumption, SameDatabases
       DEF IInv, ConverterHolds, ConverterIdle, CopyHolds, Moves, Only, Open, At, switch
  <1> QED
    BY <1>1, <1>3, <1>4, <1>5, <1>6, <1>7, SameDatabases DEF IInv, Open, switch

\* A name that is recorded and not shipped, or all that is recorded is shipped.
LEMMA LockAndReadKeeps ==
    ASSUME IInv, NEW p \in Processes, LockAndRead(p), UNCHANGED switch
    PROVE  IInv'
  <1> DEFINE d == process[p].on
  <1>d. d \in Databases /\ process[p].binary \in Binaries
    BY DEF IInv, Typed, ProcessRow, ProcessHolds, LockAndRead, At
  <1>1. /\ db' \in [Databases -> DatabaseRow] /\ db'[d].created
        /\ \A e \in Databases :
             /\ db'[e].schema = db[e].schema /\ db'[e].recorded = db[e].recorded
             /\ db'[e].rows = db[e].rows
             /\ e # d => db'[e] = db[e]
             /\ db[e].created => db'[e].created
    <2>1. db' = [db EXCEPT ![d].created = TRUE]
      BY DEF LockAndRead
    <2>2. [db[d] EXCEPT !.created = TRUE] \in DatabaseRow
      BY <1>d, ZenonT(60) DEF IInv, Typed, DatabaseRow
    <2> QED
      BY <2>1, <2>2, <1>d DEF IInv, Typed
  <1>2. /\ process' \in [Processes -> ProcessRow] /\ Only(p)
        /\ process'[p].on = d /\ process'[p].binary = process[p].binary
        /\ \/ /\ process'[p].pc = "refused_schema"
              /\ process'[p].pending = {} /\ process'[p].done = {}
           \/ /\ process'[p].pc = "applying" /\ ~Newer(p)
              /\ process'[p].pending = Shipped(p) \ db[d].recorded
              /\ process'[p].done = {}
    <2>1. CASE Newer(p) \/ Gap(p)
      BY <2>1, ExitMoves DEF LockAndRead, ProcessPCs, IInv, Moves
    <2>2. CASE ~(Newer(p) \/ Gap(p))
      <3> DEFINE row == [process[p] EXCEPT !.pc = "applying",
                                           !.pending = Shipped(p) \ db[d].recorded]
      <3>1. process' = [process EXCEPT ![p] = row]
        BY <2>2 DEF LockAndRead, IInv, Typed
      <3>2. Shipped(p) \subseteq Nat
        BY DEF Shipped
      <3>3. row \in ProcessRow
        BY <3>2 DEF IInv, Typed, ProcessRow, ProcessPCs
      <3>4. process[p].done = {}
        BY DEF IInv, ProcessHolds, LockAndRead, At
      <3>5. row.pc = "applying" /\ row.on = d /\ row.binary = process[p].binary
            /\ row.pending = Shipped(p) \ db[d].recorded /\ row.done = process[p].done
        BY DEF IInv, Typed, ProcessRow
      <3> HIDE DEF row
      <3> QED
        BY <2>2, <3>1, <3>3, <3>4, <3>5 DEF Only, IInv, Typed
    <2> QED
      BY <2>1, <2>2
  <1>3. process'[p].pc = "applying" => InOrder(p)'
    <2> SUFFICES ASSUME process'[p].pc = "applying" PROVE InOrder(p)'
      OBVIOUS
    <2> DEFINE s == Ships[process[p].binary][d]
    <2>1. PICK n \in Nat : db[d].recorded = 1 .. n
      BY <1>d DEF IInv, DatabaseHolds
    <2>2. s \in Nat /\ 1 .. n \subseteq 1 .. s
      BY <1>2, <1>d, <2>1, ShipsAssumption DEF Newer, Shipped
    <2>3. n <= s
      <3>1. CASE n = 0
        BY <3>1, <2>2
      <3>2. CASE n # 0
        <4>1. n \in 1 .. n
          BY <3>2
        <4> QED
          BY <4>1, <2>2
      <3> QED
        BY <3>1, <3>2
    <2>4. Shipped(p) \ db[d].recorded = n + 1 .. s
      BY <2>1, <2>2, <2>3 DEF Shipped
    <2>5. n + 1 .. n = {}
      OBVIOUS
    <2>6. process'[p].pending = n + 1 .. s /\ process'[p].done = n + 1 .. n
      BY <1>2, <2>4, <2>5
    <2>7. process'[p].on = d /\ s = Ships[process'[p].binary][d] /\ db'[d].recorded = 1 .. n
      BY <1>1, <1>2, <1>d, <2>1
    <2> HIDE DEF d, s
    <2> QED
      BY <2>2, <2>3, <2>6, <2>7 DEF InOrder
  <1>4. ProcessHolds(p)'
    BY <1>1, <1>2, <1>3, <1>d, NoneAssumption
       DEF IInv, ProcessHolds, LockAndRead, At, ConverterOnly
  <1>5. \A q \in Processes : ProcessHolds(q)'
    BY <1>1, <1>2, <1>4, OthersHold
  <1>6. \A e \in Databases : DatabaseHolds(e)'
    BY <1>1 DEF IInv, DatabaseHolds, LockAndRead, switch
  <1>7. Carried' <=> Carried
    BY <1>1 DEF Carried, switch, Databases
  <1>8. OneAtATime'
    BY <1>2, <1>d DEF IInv, OneAtATime, LockAndRead, Migrating, Only
  <1>9. SwitchHolds'
    <2>1. ASSUME compose = "sqlite", db'["sqlite"].created, ~db["sqlite"].created PROVE Carried
      <3>1. d = "sqlite"
        BY <1>1, <2>1, <1>d DEF Databases
      <3>2. p # Converter
        BY <2>1 DEF IInv, ConverterHolds, ConverterIdle, LockAndRead, At
      <3>3. p = Server
        BY <3>1, <3>2 DEF IInv, ProcessHolds
      <3> QED
        BY <3>1, <3>3 DEF IInv, SwitchHolds, LockAndRead, At
    <2> QED
      BY <1>1, <1>2, <1>7, <2>1, ServerAssumption
         DEF IInv, SwitchHolds, Only, LockAndRead, At, switch, Databases
  <1> QED
    BY <1>1, <1>2, <1>5, <1>6, <1>7, <1>8, <1>9, ServerAssumption, ConverterAssumption
       DEF IInv, Typed, ServerHolds, ConverterHolds, ConverterIdle, CopyHolds, LockAndRead, At,
           Only, switch

LEMMA LeastOfInterval ==
    ASSUME NEW a \in Int, NEW b \in Int, a <= b
    PROVE  Min(a .. b) = a
  <1>1. a \in a .. b /\ \A y \in a .. b : a =< y
    OBVIOUS
  <1>2. Min(a .. b) \in a .. b /\ \A y \in a .. b : Min(a .. b) =< y
    BY <1>1, Zenon DEF Min
  <1> QED
    BY <1>1, <1>2

\* The next migration in order: it is the least that is pending.
LEMMA ApplyKeeps ==
    ASSUME IInv, NEW p \in Processes, Apply(p), UNCHANGED switch
    PROVE  IInv'
  <1> DEFINE d == process[p].on
             s == Ships[process[p].binary][d]
             m == Min(process[p].pending)
  <1>d. d \in Databases /\ process[p].binary \in Binaries /\ s \in Nat
    BY ShipsAssumption DEF IInv, Typed, ProcessRow, ProcessHolds, Apply, At
  <1>1. PICK n \in Nat, k \in Nat :
            /\ n <= k /\ k <= s /\ db[d].recorded = 1 .. n
            /\ process[p].done = n + 1 .. k /\ process[p].pending = k + 1 .. s
    BY DEF IInv, ProcessHolds, InOrder, Apply, At
  <1>2. k + 1 <= s /\ m = k + 1
    <2>1. k + 1 <= s
      BY <1>1, <1>d DEF Apply
    <2> QED
      BY <2>1, <1>1, <1>d, LeastOfInterval
  <1>3. /\ Moves(p, "applying")
        /\ process'[p].done = n + 1 .. k + 1 /\ process'[p].pending = k + 2 .. s
    <2> DEFINE row == [process[p] EXCEPT !.pending = @ \ {m}, !.done = @ \cup {m}]
    <2>1. /\ process[p].pending \ {m} = k + 2 .. s
          /\ process[p].done \cup {m} = n + 1 .. k + 1
      BY <1>1, <1>2, <1>d
    <2>. k + 2 .. s \subseteq Nat /\ n + 1 .. k + 1 \subseteq Nat
      BY <1>d
    <2> HIDE DEF m
    <2>2. /\ row \in ProcessRow /\ row.pc = "applying"
          /\ row.on = process[p].on /\ row.binary = process[p].binary
          /\ row.pending = k + 2 .. s /\ row.done = n + 1 .. k + 1
      BY <2>1, <1>d, ZenonT(60) DEF IInv, Typed, ProcessRow, Apply, At
    <2>3. process' = [process EXCEPT ![p] = row]
      BY DEF Apply, IInv, Typed, m
    <2> HIDE DEF row
    <2> QED
      BY <2>2, <2>3 DEF Moves, Only, IInv, Typed
  <1>4. InOrder(p)'
    <2>. k + 2 .. s = (k + 1) + 1 .. s
      OBVIOUS
    <2> HIDE DEF m
    <2>1. process'[p].on = d /\ s = Ships[process'[p].binary][d]
      BY <1>3 DEF Moves
    <2>2. db'[d].recorded = 1 .. n
      BY <1>1 DEF Apply
    <2>3. process'[p].done = n + 1 .. k + 1 /\ process'[p].pending = (k + 1) + 1 .. s
      BY <1>3
    <2>4. n <= k + 1 /\ k + 1 <= s /\ k + 1 \in Nat
      BY <1>1, <1>2
    <2> HIDE DEF d, s
    <2> QED
      BY <2>1, <2>2, <2>3, <2>4, SMTT(30) DEF InOrder
  <1>5. \A q \in Processes : ProcessHolds(q)'
    <2>1. ProcessHolds(p)'
      BY <1>3, <1>4 DEF IInv, ProcessHolds, Apply, At, Moves
    <2> QED
      BY <1>3, <2>1, OthersHold DEF Apply, Moves
  <1>6. Typed' /\ OneAtATime'
    BY <1>3 DEF IInv, Typed, OneAtATime, Moves, Only, Apply, At, switch
  <1>7. \A q \in Processes : process'[q].pc = process[q].pc /\ process'[q].on = process[q].on
                             /\ process'[q].binary = process[q].binary
    BY <1>3 DEF Moves, Only, Apply, At
  <1> QED
    BY <1>5, <1>6, <1>7, SameDatabases, ServerAssumption, ConverterAssumption
       DEF IInv, ServerHolds, ConverterHolds, ConverterIdle, CopyHolds, SwitchHolds, Apply, At,
           switch

\* What it applied follows what is recorded and ends at what it ships: none of
\* it was there, and now all of it is.
LEMMA CommitIsWhole ==
    ASSUME IInv, NEW p \in Processes, CommitMigrations(p)
    PROVE  LET d == process[p].on IN
           /\ d \in Databases /\ process[p].binary \in Binaries
           /\ process[p].done \cap db[d].schema = {}
           /\ db' = [db EXCEPT ![d].schema = Shipped(p), ![d].recorded = Shipped(p)]
           /\ db[d].created
           /\ Exit(p, IF p = Converter THEN "migrated" ELSE "serving")
  <1> DEFINE d == process[p].on
             s == Ships[process[p].binary][d]
  <1>d. d \in Databases /\ process[p].binary \in Binaries /\ s \in Nat
    BY ShipsAssumption DEF IInv, Typed, ProcessRow, ProcessHolds, CommitMigrations, At
  <1>1. PICK n \in Nat, k \in Nat :
            /\ n <= k /\ k <= s /\ db[d].recorded = 1 .. n
            /\ process[p].done = n + 1 .. k /\ process[p].pending = k + 1 .. s
    BY DEF IInv, ProcessHolds, InOrder, CommitMigrations, At
  <1>2. k = s
    <2>1. k + 1 .. s = {}
      BY <1>1 DEF CommitMigrations
    <2>2. k < s => k + 1 \in k + 1 .. s
      BY <1>d
    <2> QED
      BY <1>1, <1>d, <2>1, <2>2
  <1>3. /\ process[p].done \cap db[d].schema = {}
        /\ db[d].schema \cup process[p].done = Shipped(p)
        /\ db[d].recorded \cup process[p].done = Shipped(p)
    <2>1. db[d].schema = 1 .. n
      BY <1>1, <1>d DEF IInv, DatabaseHolds
    <2>2. (1 .. n) \cap (n + 1 .. s) = {} /\ (1 .. n) \cup (n + 1 .. s) = 1 .. s
      BY <1>1, <1>2, <1>d
    <2> QED
      BY <1>1, <1>2, <2>1, <2>2 DEF Shipped
  <1>4. db[d].created
    BY DEF IInv, ProcessHolds, CommitMigrations, At
  <1> QED
    BY <1>d, <1>3, <1>4 DEF CommitMigrations

LEMMA CommitMigrationsKeeps ==
    ASSUME IInv, NEW p \in Processes, CommitMigrations(p), UNCHANGED switch
    PROVE  IInv'
  <1> DEFINE d == process[p].on
  <1>1. /\ d \in Databases /\ process[p].binary \in Binaries /\ db[d].created
        /\ db' = [db EXCEPT ![d].schema = Shipped(p), ![d].recorded = Shipped(p)]
        /\ Exit(p, IF p = Converter THEN "migrated" ELSE "serving")
    BY CommitIsWhole
  <1>2. /\ Moves(p, IF p = Converter THEN "migrated" ELSE "serving")
        /\ process'[p].pending = {} /\ process'[p].done = {}
    BY <1>1, ExitMoves DEF IInv, ProcessPCs, ConverterOnly
  <1>3. Shipped(p) = 1 .. Ships[process[p].binary][d] /\ Shipped(p) \subseteq Nat
        /\ Ships[process[p].binary][d] \in Nat
    BY <1>1, ShipsAssumption DEF Shipped
  <1>4. /\ db' \in [Databases -> DatabaseRow]
        /\ db'[d].recorded = Shipped(p) /\ db'[d].schema = Shipped(p)
        /\ \A e \in Databases :
             db'[e].created = db[e].created /\ db'[e].rows = db[e].rows
        /\ \A e \in Databases \ {d} : db'[e] = db[e]
    <2> DEFINE row == [db[d] EXCEPT !.schema = Shipped(p), !.recorded = Shipped(p)]
    <2>1. /\ row \in DatabaseRow /\ row.schema = Shipped(p) /\ row.recorded = Shipped(p)
          /\ row.created = db[d].created /\ row.rows = db[d].rows
      BY <1>1, <1>3, ZenonT(60) DEF IInv, Typed, DatabaseRow
    <2>2. db' = [db EXCEPT ![d] = row]
      BY <1>1 DEF IInv, Typed
    <2> HIDE DEF row
    <2> QED
      BY <1>1, <2>1, <2>2 DEF IInv, Typed
  <1>5. \A e \in Databases : DatabaseHolds(e)'
    <2>1. ASSUME NEW e \in Databases PROVE db'[e].schema = db'[e].recorded
      BY <1>4, SMTT(30) DEF IInv, DatabaseHolds
    <2>2. ASSUME NEW e \in Databases
          PROVE  \E n \in Nat, b \in Binaries : n <= Ships[b][e] /\ db'[e].recorded = 1 .. n
      <3>1. CASE e = d
        <4>1. Ships[process[p].binary][d] <= Ships[process[p].binary][d]
          BY <1>3
        <4> QED
          BY <3>1, <4>1, <1>1, <1>3, <1>4
      <3>2. CASE e # d
        BY <3>2, <1>4 DEF IInv, DatabaseHolds
      <3> QED
        BY <3>1, <3>2, SMTT(30)
    <2> QED
      BY <2>1, <2>2, <1>4, SMTT(30) DEF IInv, DatabaseHolds, CommitMigrations, switch
  <1>6. \A q \in Processes : ProcessHolds(q)'
    <2>1. ProcessHolds(p)'
      BY <1>1, <1>2, <1>4 DEF IInv, ProcessHolds, CommitMigrations, At, Moves, ConverterOnly
    <2>2. ASSUME NEW q \in Processes \ {p} PROVE ProcessHolds(q)'
      <3>1. process'[q] = process[q] /\ ProcessHolds(q) /\ process[q] \in ProcessRow
        BY <1>2 DEF Moves, Only, IInv, Typed
      <3>2. process[q].pc = "applying" => process[q].on # d
        BY DEF IInv, OneAtATime, CommitMigrations, At
      <3>3. process[q].pc \in {"applying", "serving"} => process[q].on \in Databases
        BY <3>1 DEF ProcessHolds, ProcessRow
      <3>4. process[q].pc = "applying" => InOrder(q)'
        BY <3>1, <3>2, <3>3, <1>4 DEF ProcessHolds, InOrder
      <3> QED
        BY <3>1, <3>3, <3>4, <1>4 DEF ProcessHolds
    <2> QED
      BY <2>1, <2>2, SMTT(30)
  <1>7. Typed' /\ OneAtATime'
    BY <1>2, <1>4 DEF IInv, Typed, OneAtATime, Moves, Only, CommitMigrations, At, switch
  <1>8. Carried' <=> Carried
    BY <1>4 DEF Carried, switch, Databases
  <1>9. ServerHolds' /\ SwitchHolds'
    BY <1>2, <1>4, <1>8, ServerAssumption
       DEF IInv, ServerHolds, SwitchHolds, Moves, Only, CommitMigrations, At, switch, Databases
  <1>10. ConverterHolds' /\ CopyHolds'
    BY <1>2, <1>8, ConverterAssumption
       DEF IInv, ConverterHolds, ConverterIdle, CopyHolds, Moves, Only, CommitMigrations, At,
           switch
  <1> QED
    BY <1>5, <1>6, <1>7, <1>9, <1>10 DEF IInv

LEMMA RestartKeeps == ASSUME IInv, Restart PROVE IInv'
  <1>1. /\ Moves(Server, "starting")
        /\ process'[Server].pending = process[Server].pending
        /\ process'[Server].done = process[Server].done
    BY GoMoves, ServerAssumption DEF Restart, IInv, ProcessPCs
  <1>2. \A p \in Processes : ProcessHolds(p)'
    <2>1. process[Server].on # None /\ process[Server].binary # None
      BY ServerAssumption, NoneAssumption DEF IInv, Typed, ServerHolds, Restart
    <2>2. ProcessHolds(Server)'
      BY <1>1, <2>1, ServerAssumption DEF IInv, ProcessHolds, Moves, Restart, ConverterOnly
    <2> QED
      BY <1>1, <2>2, OthersHold, ServerAssumption DEF Moves, Restart
  <1>3. Typed' /\ OneAtATime'
    BY <1>1, ServerAssumption DEF IInv, Typed, OneAtATime, Moves, Only, Restart, switch
  <1> QED
    BY <1>1, <1>2, <1>3, SameDatabases, ServerAssumption, ConverterAssumption
       DEF IInv, ServerHolds, ConverterHolds, ConverterIdle, CopyHolds, SwitchHolds, Moves, Only,
           Restart, At, switch

LEMMA WriteKeeps == ASSUME IInv, Write PROVE IInv'
  <1> DEFINE d == process[Server].on
  <1>1. d \in Databases /\ d = compose
    BY ServerAssumption, NoneAssumption
       DEF IInv, Typed, ProcessRow, ProcessHolds, ServerHolds, Write, At
  <1>2. PICK w \in Writes :
            /\ db' = [db EXCEPT ![d].rows = [t \in Tables |-> @[t] \cup {w}]]
            /\ acknowledged' = [acknowledged EXCEPT ![d] = @ \cup {w}]
    BY DEF Write
  <1>3. /\ db' \in [Databases -> DatabaseRow] /\ acknowledged' \in [Databases -> SUBSET Writes]
        /\ acknowledged'[d] = acknowledged[d] \cup {w}
        /\ \A t \in Tables : db'[d].rows[t] = db[d].rows[t] \cup {w}
        /\ \A e \in Databases : /\ db'[e].created = db[e].created
                                /\ db'[e].schema = db[e].schema
                                /\ db'[e].recorded = db[e].recorded
        /\ \A e \in Databases \ {d} : db'[e] = db[e] /\ acknowledged'[e] = acknowledged[e]
    <2> DEFINE rows == [t \in Tables |-> db[d].rows[t] \cup {w}]
               row == [db[d] EXCEPT !.rows = rows]
    <2>1. rows \in Rows /\ \A t \in Tables : rows[t] = db[d].rows[t] \cup {w}
      BY <1>1 DEF IInv, Typed, DatabaseRow, Rows
    <2>2. db' = [db EXCEPT ![d] = row]
      BY <1>1, <1>2 DEF IInv, Typed
    <2> HIDE DEF rows
    <2>3. /\ row \in DatabaseRow /\ row.created = db[d].created /\ row.schema = db[d].schema
          /\ row.recorded = db[d].recorded /\ row.rows = rows
      BY <1>1, <2>1 DEF IInv, Typed, DatabaseRow
    <2> HIDE DEF row
    <2> QED
      BY <1>1, <1>2, <2>1, <2>2, <2>3 DEF IInv, Typed
  <1>4. db[d].created /\ blob_files'
    BY ServerAssumption DEF IInv, ProcessHolds, Write, At
  <1>5. \A e \in Databases : DatabaseHolds(e)'
    <2>1. ASSUME NEW e \in Databases, NEW t \in Tables
          PROVE  acknowledged'[e] \subseteq db'[e].rows[t]
      BY <1>3 DEF IInv, DatabaseHolds
    <2>2. ASSUME NEW e \in Databases, NEW t \in Tables, NEW u \in Tables
          PROVE  db'[e].rows[t] = db'[e].rows[u]
      <3>1. db[e].rows[t] = db[e].rows[u]
        BY DEF IInv, DatabaseHolds
      <3>2. CASE e = d
        BY <1>3, <3>1, <3>2, ZenonT(60)
      <3>3. CASE e # d
        BY <1>3, <3>1, <3>3
      <3> QED
        BY <3>2, <3>3
    <2> QED
      BY <1>3, <1>4, <2>1, <2>2 DEF IInv, DatabaseHolds
  <1>6. \A p \in Processes : ProcessHolds(p)'
    <2>1. process' = process
      BY DEF Write
    <2>2. ASSUME NEW p \in Processes, process[p].pc \in {"applying", "serving"}
          PROVE  process[p].on \in Databases
      BY <2>2 DEF IInv, Typed, ProcessRow, ProcessHolds
    <2>3. ASSUME NEW p \in Processes, process[p].pc = "applying" PROVE InOrder(p)'
      BY <1>3, <2>1, <2>2, <2>3 DEF IInv, ProcessHolds, InOrder
    <2> QED
      BY <1>3, <2>1, <2>2, <2>3 DEF IInv, ProcessHolds
  <1>7. Carried /\ d = "sqlite" => Carried'
    BY <1>1, <1>3 DEF Carried, Databases
  <1>8. d = "postgres" => script \notin {"copying", "fetching"} /\ process[Server].on # "sqlite"
                          /\ compose # "sqlite"
    BY <1>1 DEF IInv, ServerHolds, Write, At
  <1>9. d = "sqlite" => /\ compose = "sqlite" /\ acknowledged'["postgres"] = acknowledged["postgres"]
                        /\ ConverterIdle
    BY <1>1, <1>3 DEF IInv, ConverterHolds, Databases
  <1>10. ConverterHolds' /\ CopyHolds'
    BY <1>1, <1>3, <1>7, <1>8, <1>9
       DEF IInv, ConverterHolds, ConverterIdle, CopyHolds, Write, At, Databases
  <1>11. SwitchHolds'
    BY <1>1, <1>3, <1>7, <1>8, <1>9 DEF IInv, SwitchHolds, Write, At, Databases
  <1> QED
    BY <1>3, <1>5, <1>6, <1>10, <1>11
       DEF IInv, Typed, OneAtATime, ServerHolds, Write, At

LEMMA BootElsewhereKeeps == ASSUME IInv, BootElsewhere PROVE IInv'
  <1>1. PICK p \in Processes \ {Server, Converter}, b \in Binaries :
            /\ process[p].pc \notin {"starting", "opened", "applying"}
            /\ process' = [process EXCEPT ![p] = Configured(p, "postgres", b)]
    BY DEF BootElsewhere
  <1>2. /\ process' \in [Processes -> ProcessRow] /\ Only(p)
        /\ process'[p] = Configured(p, "postgres", b)
    <2>1. Configured(p, "postgres", b) \in ProcessRow
      BY DEF Configured, Down, ProcessRow, ProcessPCs, Databases
    <2> QED
      BY <1>1, <2>1 DEF IInv, Typed, Only
  <1>3. /\ process'[p].pc = "starting" /\ process'[p].on = "postgres" /\ process'[p].binary = b
        /\ process'[p].pending = {} /\ process'[p].done = {}
    BY <1>2 DEF Configured, Down
  <1>4. \A q \in Processes : ProcessHolds(q)'
    <2>1. "postgres" # None /\ b # None /\ "postgres" # "sqlite"
      BY NoneAssumption DEF Databases
    <2>2. ProcessHolds(p)'
      BY <1>3, <2>1 DEF ProcessHolds, ConverterOnly
    <2> QED
      BY <1>2, <2>2, OthersHold DEF BootElsewhere
  <1>5. Typed' /\ OneAtATime'
    BY <1>2, <1>3 DEF IInv, Typed, OneAtATime, Only, BootElsewhere, switch
  <1>6. process'[Server] = process[Server] /\ process'[Converter] = process[Converter]
    BY <1>2, ServerAssumption, ConverterAssumption DEF Only
  <1> QED
    BY <1>4, <1>5, <1>6, SameDatabases
       DEF IInv, ServerHolds, ConverterHolds, ConverterIdle, CopyHolds, SwitchHolds, At,
           BootElsewhere, switch

LEMMA KillKeeps == ASSUME IInv, Kill PROVE IInv'
  <1>1. PICK p \in Processes : process[p].pc \notin {"failed", "completed"} /\ Crash(p)
    BY DEF Kill
  <1>2. Moves(p, "down") /\ process'[p].pending = {} /\ process'[p].done = {}
    BY <1>1, ExitMoves DEF Crash, IInv, ProcessPCs
  <1>3. \A q \in Processes : ProcessHolds(q)'
    <2>1. ProcessHolds(p)'
      BY <1>2 DEF IInv, ProcessHolds, Moves, ConverterOnly
    <2> QED
      BY <1>1, <1>2, <2>1, OthersHold DEF Moves, Crash
  <1>4. Typed' /\ OneAtATime'
    BY <1>1, <1>2 DEF IInv, Typed, OneAtATime, Moves, Only, Kill, Crash
  <1>5. process[p].pc # "down"
    BY <1>1 DEF Crash
  <1> QED
    BY <1>1, <1>2, <1>3, <1>4, <1>5, SameDatabases, ServerAssumption, ConverterAssumption
       DEF IInv, ServerHolds, ConverterHolds, ConverterIdle, CopyHolds, SwitchHolds, Moves, Only,
           Kill, Crash, At

-----------------------------------------------------------------------------
(* Converting *)

\* The converter's place: on SQLite whenever it is about.
LEMMA ConverterOnSQLite ==
    ASSUME IInv, process[Converter].pc # "down"
    PROVE  process[Converter].on = "sqlite"
  BY ConverterAssumption DEF IInv, Typed, ProcessRow, ProcessHolds, Databases

LEMMA CheckTargetKeeps == ASSUME IInv, CheckTarget PROVE IInv'
  <1>1. /\ Moves(Converter, IF db["sqlite"].created THEN "failed" ELSE "starting")
        /\ process'[Converter].pending = {} /\ process'[Converter].done = {}
    <2>1. process[Converter].pending = {} /\ process[Converter].done = {}
      BY ConverterAssumption DEF IInv, ProcessHolds, CheckTarget, At
    <2>2. {"failed", "starting"} \subseteq ProcessPCs
      BY DEF ProcessPCs, ConverterOnly
    <2> QED
      BY <2>1, <2>2, GoMoves, ExitMoves, ConverterAssumption DEF CheckTarget, IInv
  <1>2. \A p \in Processes : ProcessHolds(p)'
    <2>1. ProcessHolds(Converter)'
      BY <1>1, ConverterAssumption DEF IInv, ProcessHolds, CheckTarget, At, Moves, ConverterOnly
    <2> QED
      BY <1>1, <2>1, OthersHold, ConverterAssumption DEF Moves, CheckTarget
  <1>3. Typed' /\ OneAtATime'
    BY <1>1, ConverterAssumption
       DEF IInv, Typed, OneAtATime, Moves, Only, CheckTarget, At, switch
  <1>4. ~db["sqlite"].created => acknowledged["sqlite"] = {}
    BY DEF IInv, DatabaseHolds, Databases
  <1> QED
    BY <1>1, <1>2, <1>3, <1>4, SameDatabases, ServerAssumption, ConverterAssumption
       DEF IInv, ServerHolds, ConverterHolds, ConverterIdle, CopyHolds, SwitchHolds, Moves, Only,
           CheckTarget, At, switch

LEMMA BeginCopyKeeps == ASSUME IInv, BeginCopy PROVE IInv'
  <1>1. /\ Moves(Converter, "copying")
        /\ process'[Converter].pending = process[Converter].pending
        /\ process'[Converter].done = process[Converter].done
    BY GoMoves, ConverterAssumption DEF BeginCopy, IInv, ProcessPCs, ConverterOnly
  <1>2. \A p \in Processes : ProcessHolds(p)'
    <2>1. ProcessHolds(Converter)'
      BY <1>1, ConverterAssumption DEF IInv, ProcessHolds, BeginCopy, At, Moves, ConverterOnly
    <2> QED
      BY <1>1, <2>1, OthersHold, ConverterAssumption DEF Moves, BeginCopy
  <1>3. OneAtATime'
    BY <1>1, ConverterOnSQLite, ConverterAssumption
       DEF IInv, OneAtATime, Moves, Only, BeginCopy, At, Migrating
  <1>4. /\ snapshot' \in Rows
        /\ \A t \in Tables : acknowledged["postgres"] \subseteq snapshot'[t]
        /\ \A t, u \in Tables : snapshot'[t] = snapshot'[u]
    BY DEF IInv, Typed, DatabaseRow, DatabaseHolds, BeginCopy, Databases
  <1>5. Typed'
    BY <1>1, <1>4 DEF IInv, Typed, Moves, BeginCopy
  <1> QED
    BY <1>1, <1>2, <1>3, <1>4, <1>5, SameDatabases, ServerAssumption, ConverterAssumption
       DEF IInv, ServerHolds, ConverterHolds, ConverterIdle, CopyHolds, SwitchHolds, Moves, Only,
           BeginCopy, At

LEMMA CopyTableKeeps == ASSUME IInv, CopyTable PROVE IInv'
  <1>1. \A p \in Processes : ProcessHolds(p)'
    BY DEF IInv, ProcessHolds, InOrder, CopyTable
  <1> QED
    BY <1>1, SameDatabases
       DEF IInv, Typed, OneAtATime, ServerHolds, ConverterHolds, ConverterIdle, CopyHolds,
           SwitchHolds, CopyTable, At

LEMMA CommitCopyKeeps == ASSUME IInv, CommitCopy PROVE IInv'
  <1>1. /\ Moves(Converter, "verifying")
        /\ process'[Converter].pending = process[Converter].pending
        /\ process'[Converter].done = process[Converter].done
    BY GoMoves, ConverterAssumption DEF CommitCopy, IInv, ProcessPCs, ConverterOnly
  <1>2. snapshot \in Rows /\ \A t, u \in Tables : snapshot[t] = snapshot[u]
    BY DEF IInv, ConverterHolds, CommitCopy
  <1>3. /\ db' \in [Databases -> DatabaseRow] /\ db'["postgres"] = db["postgres"]
        /\ \A t \in Tables :
             db'["sqlite"].rows[t] = db["sqlite"].rows[t] \cup snapshot[t]
        /\ db'["sqlite"].created = db["sqlite"].created
        /\ db'["sqlite"].schema = db["sqlite"].schema
        /\ db'["sqlite"].recorded = db["sqlite"].recorded
    <2> DEFINE rows == [t \in Tables |-> db["sqlite"].rows[t] \cup snapshot[t]]
               row == [db["sqlite"] EXCEPT !.rows = rows]
    <2>1. /\ rows \in Rows
          /\ \A t \in Tables : rows[t] = db["sqlite"].rows[t] \cup snapshot[t]
      BY <1>2 DEF IInv, Typed, DatabaseRow, Rows, Databases
    <2>2. db' = [db EXCEPT !["sqlite"] = row]
      BY DEF CommitCopy, IInv, Typed, Databases
    <2> HIDE DEF rows
    <2>3. /\ row \in DatabaseRow /\ row.created = db["sqlite"].created
          /\ row.schema = db["sqlite"].schema /\ row.recorded = db["sqlite"].recorded
          /\ row.rows = rows
      BY <2>1 DEF IInv, Typed, DatabaseRow, Databases
    <2> HIDE DEF row
    <2> QED
      BY <2>1, <2>2, <2>3 DEF IInv, Typed, Databases
  <1>4. acknowledged["sqlite"] = {} /\ acknowledged' = acknowledged /\ blob_files' = blob_files
    BY DEF IInv, ConverterHolds, ConverterIdle, CommitCopy, At, switch
  <1>5. \A d \in Databases : DatabaseHolds(d)'
    <2>1. DatabaseHolds("postgres")'
      BY <1>3, <1>4 DEF IInv, DatabaseHolds, Databases
    <2>2. \A t, u \in Tables : db'["sqlite"].rows[t] = db'["sqlite"].rows[u]
      <3>1. \A t, u \in Tables : db["sqlite"].rows[t] = db["sqlite"].rows[u]
        BY DEF IInv, DatabaseHolds, Databases
      <3> QED
        BY <1>2, <1>3, <3>1
    <2>3. DatabaseHolds("sqlite")'
      BY <1>3, <1>4, <2>2 DEF IInv, DatabaseHolds, Databases
    <2> QED
      BY <2>1, <2>3 DEF Databases
  <1>6. \A p \in Processes : ProcessHolds(p)'
    <2>1. ProcessHolds(Converter)'
      BY <1>1, ConverterAssumption DEF IInv, ProcessHolds, CommitCopy, At, Moves, ConverterOnly
    <2>2. \A d \in Databases : db'[d].recorded = db[d].recorded /\ db'[d].created = db[d].created
      BY <1>3 DEF Databases
    <2> QED
      BY <1>1, <2>1, <2>2, OthersHold, ConverterAssumption DEF Moves
  <1>7. Typed' /\ OneAtATime'
    BY <1>1, <1>3, ConverterAssumption
       DEF IInv, Typed, OneAtATime, Moves, Only, CommitCopy, At, switch
  <1>8. Carried => Carried'
    BY <1>3 DEF Carried, CommitCopy, switch
  <1>9. script = "copying" => Carried'
    BY <1>3 DEF IInv, CopyHolds, Carried, CommitCopy, switch
  <1> QED
    BY <1>1, <1>3, <1>5, <1>6, <1>7, <1>8, <1>9, ServerAssumption, ConverterAssumption
       DEF IInv, ServerHolds, ConverterHolds, ConverterIdle, CopyHolds, SwitchHolds, Moves, Only,
           CommitCopy, At, switch

LEMMA CompleteKeeps == ASSUME IInv, Complete PROVE IInv'
  <1>1. /\ Moves(Converter, "completed")
        /\ process'[Converter].pending = {} /\ process'[Converter].done = {}
    BY ExitMoves, ConverterAssumption DEF Complete, IInv, ProcessPCs, ConverterOnly
  <1>2. \A p \in Processes : ProcessHolds(p)'
    <2>1. ProcessHolds(Converter)'
      BY <1>1, ConverterAssumption DEF IInv, ProcessHolds, Complete, At, Moves, ConverterOnly
    <2> QED
      BY <1>1, <2>1, OthersHold, ConverterAssumption DEF Moves, Complete
  <1>3. Typed' /\ OneAtATime'
    BY <1>1, ConverterAssumption
       DEF IInv, Typed, OneAtATime, Moves, Only, Complete, At, switch
  <1> QED
    BY <1>1, <1>2, <1>3, SameDatabases, ServerAssumption, ConverterAssumption
       DEF IInv, ServerHolds, ConverterHolds, ConverterIdle, CopyHolds, SwitchHolds, Moves, Only,
           Complete, At, switch

\* The target as it was before it was made.
LEMMA ErasedHolds ==
    ASSUME IInv, db' = [db EXCEPT !["sqlite"] = Erased], blob_files' = blob_files,
           acknowledged'["sqlite"] = {}, acknowledged'["postgres"] = acknowledged["postgres"]
    PROVE  /\ db' \in [Databases -> DatabaseRow] /\ db'["postgres"] = db["postgres"]
           /\ ~db'["sqlite"].created
           /\ \A d \in Databases : DatabaseHolds(d)'
  <1>1. /\ Erased \in DatabaseRow /\ Erased.created = FALSE
        /\ Erased.schema = 1 .. 0 /\ Erased.recorded = 1 .. 0
        /\ \A t \in Tables : Erased.rows[t] = {}
    BY DEF Erased, Database, DatabaseRow, Rows
  <1>2. /\ db' \in [Databases -> DatabaseRow] /\ db'["postgres"] = db["postgres"]
        /\ db'["sqlite"] = Erased
    BY <1>1 DEF IInv, Typed, Databases
  <1>3. DatabaseHolds("postgres")'
    BY <1>2 DEF IInv, DatabaseHolds, Databases
  <1>4. \E n \in Nat, b \in Binaries : n <= Ships[b]["sqlite"] /\ 1 .. 0 = 1 .. n
    <2>1. Ships["old"]["sqlite"] \in Nat
      BY ShipsAssumption, BinariesAssumption DEF Databases
    <2>2. 0 <= Ships["old"]["sqlite"]
      BY <2>1
    <2> QED
      BY <2>2, BinariesAssumption
  <1>5. DatabaseHolds("sqlite")'
    BY <1>1, <1>2, <1>4 DEF DatabaseHolds, Databases
  <1> QED
    BY <1>1, <1>2, <1>3, <1>5 DEF Databases

LEMMA CleanupKeeps ==
    ASSUME IInv, ~ConverterIdle, ~At(Converter, "checking"),
           db' = [db EXCEPT !["sqlite"] = Erased], Exit(Converter, "failed"),
           UNCHANGED <<blob_files, acknowledged, compose, override, up, script, backup, snapshot,
                       copied>>
    PROVE  IInv'
  <1>1. /\ Moves(Converter, "failed")
        /\ process'[Converter].pending = {} /\ process'[Converter].done = {}
    BY ExitMoves, ConverterAssumption DEF IInv, ProcessPCs, ConverterOnly
  <1>2. acknowledged["sqlite"] = {} /\ compose = "postgres" /\ script # "fetching"
    BY DEF IInv, ConverterHolds
  <1>3. /\ db' \in [Databases -> DatabaseRow] /\ db'["postgres"] = db["postgres"]
        /\ ~db'["sqlite"].created /\ \A d \in Databases : DatabaseHolds(d)'
    BY <1>2, ErasedHolds
  <1>4. process[Server].on # "sqlite"
    BY <1>2, NoneAssumption DEF IInv, ServerHolds, Databases
  <1>5. \A p \in Processes : ProcessHolds(p)'
    <2>1. ProcessHolds(Converter)'
      BY <1>1, ConverterAssumption DEF IInv, ProcessHolds, Moves, ConverterOnly, ConverterIdle
    <2>2. ASSUME NEW p \in Processes \ {Converter} PROVE ProcessHolds(p)'
      <3>1. /\ process'[p] = process[p] /\ ProcessHolds(p) /\ process[p] \in ProcessRow
            /\ process[p].on # "sqlite"
        BY <1>1, <1>4 DEF Moves, Only, IInv, Typed, ProcessHolds
      <3>2. process[p].pc \in {"applying", "serving"} => process[p].on = "postgres"
        BY <3>1 DEF ProcessHolds, ProcessRow, Databases
      <3>3. process[p].pc = "applying" => InOrder(p)'
        BY <3>1, <3>2, <1>3 DEF ProcessHolds, InOrder
      <3> QED
        BY <3>1, <3>2, <3>3, <1>3 DEF ProcessHolds
    <2> QED
      BY <2>1, <2>2
  <1>6. Typed' /\ OneAtATime'
    BY <1>1, <1>3, ConverterAssumption DEF IInv, Typed, OneAtATime, Moves, Only
  <1> QED
    BY <1>1, <1>2, <1>3, <1>4, <1>5, <1>6, ServerAssumption, ConverterAssumption
       DEF IInv, ServerHolds, ConverterHolds, ConverterIdle, CopyHolds, SwitchHolds, Moves, Only,
           At

LEMMA ConverterStepKeeps == ASSUME IInv, ConverterStep PROVE IInv'
  <1>1. CASE FailConverter
    BY <1>1, CleanupKeeps DEF FailConverter, ConverterIdle, At
  <1>2. CASE ConverterRefused
    BY <1>2, CleanupKeeps DEF ConverterRefused, ConverterIdle, At, switch
  <1> QED
    BY <1>1, <1>2, CheckTargetKeeps, BeginCopyKeeps, CopyTableKeeps, CommitCopyKeeps,
       CompleteKeeps DEF ConverterStep

-----------------------------------------------------------------------------
(* The script and the operator *)

\* A command that leaves the data and the containers alone.
LEMMA ProcessesStay ==
    ASSUME IInv, UNCHANGED <<db, process>>
    PROVE  /\ \A p \in Processes : ProcessHolds(p)'
           /\ process' \in [Processes -> ProcessRow] /\ OneAtATime'
  BY DEF IInv, Typed, ProcessHolds, InOrder, OneAtATime

\* compose up.
LEMMA UpKeeps ==
    ASSUME IInv, NEW d \in Databases, NEW b \in Binaries, Up(d, b), UNCHANGED db
    PROVE  /\ \A p \in Processes : ProcessHolds(p)'
           /\ process' \in [Processes -> ProcessRow] /\ OneAtATime'
           /\ Only(Server) /\ up' = TRUE
           /\ process'[Server].on = d /\ process'[Server].binary = b
           /\ process'[Server] = process[Server] \/ process'[Server].pc = "starting"
  <1>1. /\ process' \in [Processes -> ProcessRow] /\ Only(Server) /\ up'
        /\ process'[Server].on = d /\ process'[Server].binary = b
        /\ \/ process'[Server] = process[Server]
           \/ /\ process'[Server].pc = "starting"
              /\ process'[Server].pending = {} /\ process'[Server].done = {}
    BY UpRow DEF IInv
  <1>2. d # None /\ b # None
    BY NoneAssumption
  <1>3. ProcessHolds(Server)'
    <2>1. CASE process'[Server] = process[Server]
      <3>1. InOrder(Server) => InOrder(Server)'
        BY <2>1 DEF InOrder
      <3> QED
        BY <2>1, <3>1, ServerAssumption DEF IInv, ProcessHolds
    <2>2. CASE process'[Server].pc = "starting" /\ process'[Server].pending = {}
               /\ process'[Server].done = {}
      BY <1>1, <1>2, <2>2, ServerAssumption DEF ProcessHolds, ConverterOnly
    <2> QED
      BY <1>1, <2>1, <2>2
  <1>4. \A p \in Processes : ProcessHolds(p)'
    BY <1>1, <1>3, OthersHold, ServerAssumption
  <1>5. OneAtATime'
    BY <1>1, ServerAssumption DEF IInv, OneAtATime, Only
  <1> QED
    BY <1>1, <1>4, <1>5 DEF Up

\* compose stop.
LEMMA StopKeeps ==
    ASSUME IInv, Stop, UNCHANGED db
    PROVE  /\ \A p \in Processes : ProcessHolds(p)'
           /\ process' \in [Processes -> ProcessRow] /\ OneAtATime'
           /\ Moves(Server, "down") /\ up' = FALSE
  <1>1. Moves(Server, "down") /\ process'[Server].pending = {} /\ process'[Server].done = {}
    BY ExitMoves, ServerAssumption DEF Stop, IInv, ProcessPCs
  <1>2. ProcessHolds(Server)'
    BY <1>1, ServerAssumption DEF IInv, ProcessHolds, Moves, ConverterOnly
  <1>3. \A p \in Processes : ProcessHolds(p)'
    BY <1>1, <1>2, OthersHold, ServerAssumption DEF Moves
  <1> QED
    BY <1>1, <1>3, ServerAssumption DEF IInv, OneAtATime, Moves, Only, Stop

\* docker run of the converter.
LEMMA StartConverterKeeps ==
    ASSUME IInv, StartConverter, UNCHANGED db
    PROVE  /\ \A p \in Processes : ProcessHolds(p)'
           /\ process' \in [Processes -> ProcessRow] /\ OneAtATime'
           /\ Only(Converter) /\ process'[Converter].pc = "checking"
  <1> DEFINE row == [Down EXCEPT !.pc = "checking", !.on = "sqlite", !.binary = "new"]
  <1>1. row.pc = "checking" /\ row.on = "sqlite" /\ row.binary = "new" /\ row.pending = {}
        /\ row.done = {}
    BY DEF Down
  <1>2. row \in ProcessRow
    BY BinariesAssumption DEF Down, ProcessRow, ProcessPCs, ConverterOnly, Databases
  <1>3. process' = [process EXCEPT ![Converter] = row]
    BY DEF StartConverter
  <1> HIDE DEF row
  <1>4. /\ process' \in [Processes -> ProcessRow] /\ Only(Converter)
        /\ process'[Converter] = row
    BY <1>2, <1>3, ConverterAssumption DEF IInv, Typed, Only
  <1>5. ProcessHolds(Converter)'
    <2>1. "sqlite" # None /\ "new" # None
      BY NoneAssumption, BinariesAssumption DEF Databases
    <2> QED
      BY <1>1, <1>4, <2>1 DEF ProcessHolds
  <1>6. \A p \in Processes : ProcessHolds(p)'
    BY <1>4, <1>5, OthersHold, ConverterAssumption
  <1> QED
    BY <1>1, <1>4, <1>6, ConverterAssumption DEF IInv, OneAtATime, Only

\* The service as docker-compose.yml has it.
LEMMA PlainUpKeeps ==
    ASSUME IInv, PlainUp, compose' = compose, UNCHANGED <<db, blob_files, acknowledged>>
    PROVE  /\ \A d \in Databases : DatabaseHolds(d)'
           /\ \A p \in Processes : ProcessHolds(p)'
           /\ process' \in [Processes -> ProcessRow] /\ OneAtATime'
           /\ Only(Server) /\ up' = TRUE /\ (Carried' <=> Carried)
           /\ process'[Server].on = compose /\ process'[Server].binary # None
           /\ process'[Server] = process[Server] \/ process'[Server].pc = "starting"
  <1>1. PICK b \in Binaries : Up(compose, b)
    BY BinariesAssumption DEF PlainUp
  <1>2. compose \in Databases /\ b # None
    BY NoneAssumption DEF IInv, Typed
  <1> QED
    BY <1>1, <1>2, UpKeeps, SameDatabases

LEMMA ScriptStepKeeps == ASSUME IInv, ScriptStep PROVE IInv'
  <1> USE ServerAssumption, ConverterAssumption
  <1>0. /\ UNCHANGED <<db, blob_files, acknowledged, snapshot, copied>>
        /\ \A d \in Databases : DatabaseHolds(d)'
        /\ Carried' <=> Carried
    BY SameDatabases
       DEF ScriptStep, ScriptSame, Inspect, Preflight, BackUp, Upgrade, StartCopy,
           StopByHand, RunCopy, CopyEnded, ReplaceCompose, StartOnSQLite, Finish, ScriptStops
  <1>1. CASE Inspect
    BY <1>0, <1>1, PlainUpKeeps
       DEF IInv, Typed, ServerHolds, ConverterHolds, ConverterIdle, CopyHolds, SwitchHolds, Only,
           At, Inspect, Script
  <1>2. CASE Preflight
    BY <1>0, <1>2, ProcessesStay
       DEF IInv, Typed, ServerHolds, ConverterHolds, ConverterIdle, CopyHolds, SwitchHolds, At,
           Preflight
  <1>3. CASE BackUp
    BY <1>0, <1>3, StopKeeps
       DEF IInv, Typed, ServerHolds, ConverterHolds, ConverterIdle, CopyHolds, SwitchHolds,
           Moves, Only, At, BackUp, Script
  <1>4. CASE Upgrade
    <2>1. /\ \A p \in Processes : ProcessHolds(p)'
          /\ process' \in [Processes -> ProcessRow] /\ OneAtATime'
          /\ Only(Server) /\ up' = TRUE
          /\ process'[Server].on = compose /\ process'[Server].binary # None
          /\ process'[Server] = process[Server] \/ process'[Server].pc = "starting"
      BY <1>0, <1>4, UpKeeps, BinariesAssumption, NoneAssumption DEF Upgrade, IInv, Typed
    <2> QED
      BY <1>0, <1>4, <2>1
         DEF IInv, Typed, ServerHolds, ConverterHolds, ConverterIdle, CopyHolds, SwitchHolds,
             Only, At, Upgrade, Script
  <1>5. CASE StartCopy
    BY <1>0, <1>5, StopKeeps
       DEF IInv, Typed, ServerHolds, ConverterHolds, ConverterIdle, CopyHolds, SwitchHolds,
           Moves, Only, At, StartCopy, Script
  <1>6. CASE RunCopy
    BY <1>0, <1>6, StartConverterKeeps
       DEF IInv, Typed, ServerHolds, ConverterHolds, ConverterIdle, CopyHolds, SwitchHolds,
           Only, At, RunCopy, Script
  <1>7. CASE CopyEnded
    <2>1. Down \in ProcessRow /\ Down.pc = "down" /\ Down.on = None /\ Down.pending = {}
          /\ Down.done = {}
      BY DEF Down, ProcessRow, ProcessPCs
    <2>2. /\ process' \in [Processes -> ProcessRow]
          /\ process'[Converter] = Down
          /\ process'[Server] = IF At(Converter, "completed") THEN Down ELSE process[Server]
          /\ \A p \in Processes \ {Server, Converter} : process'[p] = process[p]
      BY <1>7, <2>1 DEF CopyEnded, IInv, Typed
    <2>3. \A p \in Processes : ProcessHolds(p)'
      <3>1. ASSUME NEW p \in Processes, process'[p] = Down PROVE ProcessHolds(p)'
        BY <2>1, <3>1, NoneAssumption DEF ProcessHolds, ConverterOnly, Databases
      <3>2. ASSUME NEW p \in Processes, process'[p] = process[p] PROVE ProcessHolds(p)'
        BY <1>0, <3>2 DEF IInv, ProcessHolds, InOrder
      <3> QED
        BY <2>2, <3>1, <3>2
    <2>4. OneAtATime'
      BY <2>1, <2>2 DEF IInv, OneAtATime
    <2> QED
      BY <1>0, <1>7, <2>1, <2>2, <2>3, <2>4
         DEF IInv, Typed, ServerHolds, ConverterHolds, ConverterIdle, CopyHolds, SwitchHolds, At,
             CopyEnded
  <1>8. CASE ReplaceCompose
    BY <1>0, <1>8, ProcessesStay
       DEF IInv, Typed, ServerHolds, ConverterHolds, ConverterIdle, CopyHolds, SwitchHolds, At,
           ReplaceCompose, Script, Databases
  <1>9. CASE StartOnSQLite
    BY <1>0, <1>9, PlainUpKeeps, ZenonT(60)
       DEF IInv, Typed, ServerHolds, ConverterHolds, ConverterIdle, CopyHolds, SwitchHolds, Only,
           At, StartOnSQLite, Script
  <1>10. CASE Finish
    BY <1>0, <1>10, ProcessesStay
       DEF IInv, Typed, ServerHolds, ConverterHolds, ConverterIdle, CopyHolds, SwitchHolds, At,
           Finish, Script
  <1>11. CASE ScriptStops
    BY <1>0, <1>11, ProcessesStay
       DEF IInv, Typed, ServerHolds, ConverterHolds, ConverterIdle, CopyHolds, SwitchHolds, At,
           ScriptStops
  <1>12. CASE StopByHand
    BY <1>0, <1>12, StopKeeps
       DEF IInv, Typed, ServerHolds, ConverterHolds, ConverterIdle, CopyHolds, SwitchHolds,
           Moves, Only, At, StopByHand, Script
  <1> QED
    BY <1>1, <1>2, <1>3, <1>4, <1>5, <1>6, <1>7, <1>8, <1>9, <1>10, <1>11, <1>12
       DEF ScriptStep

LEMMA OperatorStepKeeps == ASSUME IInv, OperatorStep PROVE IInv'
  <1> USE ServerAssumption, ConverterAssumption
  <1>1. CASE Undo
    BY <1>1, PlainUpKeeps
       DEF IInv, Typed, ServerHolds, ConverterHolds, ConverterIdle, CopyHolds, SwitchHolds, Only,
           At, Undo, Operator
  <1>2. CASE RollBack
    <2>1. /\ \A p \in Processes : ProcessHolds(p)'
          /\ process' \in [Processes -> ProcessRow] /\ OneAtATime'
          /\ Only(Server) /\ up' = TRUE
          /\ process'[Server].on = "postgres" /\ process'[Server].binary # None
          /\ process'[Server] = process[Server] \/ process'[Server].pc = "starting"
      BY <1>2, UpKeeps, BinariesAssumption, NoneAssumption DEF RollBack, Databases
    <2> QED
      BY <1>2, <2>1, SameDatabases
         DEF IInv, Typed, ServerHolds, ConverterHolds, ConverterIdle, CopyHolds, SwitchHolds,
             Only, At, RollBack, Operator, Databases
  <1>3. CASE MoveDatabaseAside
    <2>1. /\ acknowledged' \in [Databases -> SUBSET Writes]
          /\ acknowledged'["sqlite"] = {} /\ acknowledged'["postgres"] = acknowledged["postgres"]
      BY <1>3 DEF MoveDatabaseAside, IInv, Typed, Databases
    <2>2. /\ db' \in [Databases -> DatabaseRow] /\ db'["postgres"] = db["postgres"]
          /\ ~db'["sqlite"].created /\ \A d \in Databases : DatabaseHolds(d)'
      BY <1>3, <2>1, ErasedHolds DEF MoveDatabaseAside, Operator
    <2>3. ASSUME NEW p \in Processes PROVE ProcessHolds(p)'
      <3>1. process' = process /\ ProcessHolds(p) /\ process[p] \in ProcessRow
        BY <1>3 DEF MoveDatabaseAside, IInv, Typed
      <3>2. process[p].pc \in {"applying", "serving"} => process[p].on = "postgres"
        BY <1>3, <3>1
           DEF ProcessHolds, ProcessRow, Databases, MoveDatabaseAside, At, ConverterIdle
      <3>3. process[p].pc = "applying" => InOrder(p)'
        BY <2>2, <3>1, <3>2 DEF ProcessHolds, InOrder
      <3> QED
        BY <2>2, <3>1, <3>2, <3>3 DEF ProcessHolds
    <2> QED
      BY <1>3, <2>1, <2>2, <2>3
         DEF IInv, Typed, OneAtATime, ServerHolds, ConverterHolds, ConverterIdle, CopyHolds,
             SwitchHolds, At, MoveDatabaseAside, Operator
  <1>4. CASE TakeDown
    BY <1>4, StopKeeps, SameDatabases, ZenonT(60)
       DEF IInv, Typed, ServerHolds, ConverterHolds, ConverterIdle, CopyHolds, SwitchHolds,
           Moves, Only, At, TakeDown, Operator
  <1>5. CASE CopyByHand
    BY <1>5, StartConverterKeeps, SameDatabases
       DEF IInv, Typed, ServerHolds, ConverterHolds, ConverterIdle, CopyHolds, SwitchHolds,
           Only, At, CopyByHand, Operator
  <1> QED
    BY <1>1, <1>2, <1>3, <1>4, <1>5 DEF OperatorStep

-----------------------------------------------------------------------------
(* The theorems *)

LEMMA InitInv == Init => IInv
  <1> SUFFICES ASSUME Init PROVE IInv
    OBVIOUS
  <1>1. PICK n \in 0 .. Ships["old"]["postgres"] :
            db = [d \in Databases |-> IF d = "postgres" THEN Database(TRUE, n) ELSE Erased]
    BY DEF Init
  <1>2. /\ db["postgres"] = Database(TRUE, n) /\ db["sqlite"] = Database(FALSE, 0)
        /\ n \in Nat /\ n <= Ships["old"]["postgres"] /\ 0 <= Ships["old"]["sqlite"]
    BY <1>1, ShipsAssumption, BinariesAssumption DEF Databases, Erased
  <1>3. ASSUME NEW m \in Nat, NEW c \in BOOLEAN
        PROVE  /\ Database(c, m) \in DatabaseRow
               /\ Database(c, m).schema = 1 .. m /\ Database(c, m).recorded = 1 .. m
               /\ Database(c, m).created = c
    BY DEF Database, DatabaseRow, Rows
  <1>4. \A d \in Databases : DatabaseHolds(d)
    <2>1. \A d \in Databases, t \in Tables : db[d].rows[t] = {}
      BY <1>2 DEF Databases, Database
    <2>2. /\ db["postgres"].recorded = 1 .. n /\ db["postgres"].schema = 1 .. n
          /\ db["sqlite"].recorded = 1 .. 0 /\ db["sqlite"].schema = 1 .. 0
          /\ db["postgres"].created
      BY <1>2, <1>3
    <2>3. ASSUME NEW d \in Databases
          PROVE  \E m \in Nat, b \in Binaries : m <= Ships[b][d] /\ db[d].recorded = 1 .. m
      <3>1. CASE d = "postgres"
        BY <3>1, <2>2, <1>2, BinariesAssumption
      <3>2. CASE d = "sqlite"
        BY <3>2, <2>2, <1>2, BinariesAssumption
      <3> QED
        BY <3>1, <3>2 DEF Databases
    <2>4. ASSUME NEW d \in Databases PROVE acknowledged[d] = {}
      BY DEF Init
    <2> QED
      BY <2>1, <2>2, <2>3, <2>4 DEF DatabaseHolds, Databases
  <1>5. Down \in ProcessRow /\ Down.pc = "down" /\ Down.on = None /\ Down.pending = {}
        /\ Down.done = {}
    BY DEF Down, ProcessRow, ProcessPCs
  <1>6. \A p \in Processes : process[p] = Down
    BY DEF Init
  <1>7. \A p \in Processes : ProcessHolds(p)
    BY <1>5, <1>6, NoneAssumption DEF ProcessHolds, ConverterOnly, Databases
  <1>8. Typed
    BY <1>1, <1>2, <1>3, <1>5 DEF Init, Typed, Databases, Erased
  <1> QED
    BY <1>4, <1>5, <1>6, <1>7, <1>8, ServerAssumption, ConverterAssumption
       DEF Init, IInv, OneAtATime, ServerHolds, ConverterHolds, ConverterIdle, CopyHolds,
           SwitchHolds, At

LEMMA NextInv == IInv /\ [Next]_vars => IInv'
  <1> SUFFICES ASSUME IInv, [Next]_vars PROVE IInv'
    OBVIOUS
  <1>1. CASE BootStep
    BY <1>1, OpenKeeps, LockAndReadKeeps, ApplyKeeps, CommitMigrationsKeeps DEF BootStep, Boot
  <1>2. CASE UNCHANGED vars
    BY <1>2, SameDatabases, ProcessesStay
       DEF IInv, Typed, ServerHolds, ConverterHolds, ConverterIdle, CopyHolds, SwitchHolds, At,
           vars, switch
  <1> QED
    BY <1>1, <1>2, RestartKeeps, WriteKeeps, ConverterStepKeeps, ScriptStepKeeps,
       OperatorStepKeeps, BootElsewhereKeeps, KillKeeps DEF Next

LEMMA Inductive == Spec => []IInv
  BY InitInv, NextInv, PTL DEF Spec

\* TypeOK in every reachable state.
THEOREM TypeCorrect == Spec => []TypeOK
  <1>1. IInv => TypeOK
    <2> SUFFICES ASSUME IInv PROVE TypeOK
      OBVIOUS
    <2>1. ASSUME NEW d \in Databases
          PROVE  \E b \in Binaries : db[d].schema \cup db[d].recorded \subseteq 1 .. Ships[b][d]
      <3>1. PICK n \in Nat, b \in Binaries : n <= Ships[b][d] /\ db[d].recorded = 1 .. n
        BY DEF IInv, DatabaseHolds
      <3>2. Ships[b][d] \in Nat /\ db[d].schema = 1 .. n
        BY <3>1, ShipsAssumption DEF IInv, DatabaseHolds
      <3> QED
        BY <3>1, <3>2
    <2> QED
      BY <2>1 DEF IInv, Typed, DatabaseRow, Rows, TypeOK
  <1> QED
    BY <1>1, Inductive, PTL

\* Whatever boots at once, with whatever binaries, and wherever it is killed:
\* each migration took effect exactly when it is recorded, and in order.
THEOREM SchemaStaysRecorded == Spec => []SchemaIsRecorded
  <1>1. IInv => SchemaIsRecorded
    <2> SUFFICES ASSUME IInv, NEW d \in Databases
                 PROVE  /\ db[d].schema = db[d].recorded
                        /\ \E n \in 0 .. Cardinality(db[d].schema) : db[d].schema = 1 .. n
      BY DEF SchemaIsRecorded
    <2>1. PICK n \in Nat : db[d].recorded = 1 .. n
      BY DEF IInv, DatabaseHolds
    <2>2. db[d].schema = db[d].recorded
      BY DEF IInv, DatabaseHolds
    <2>3. Cardinality(1 .. n) = n
      BY FS_Interval
    <2> QED
      BY <2>1, <2>2, <2>3
  <1> QED
    BY <1>1, Inductive, PTL

\* No boot fails on what another has just created.
THEOREM BootsStayApart == Spec => []BootsDoNotCollide
  <1>1. IInv => BootsDoNotCollide
    BY DEF IInv, ProcessHolds, BootsDoNotCollide, At
  <1> QED
    BY <1>1, Inductive, PTL

\* Nothing but the commit of its migrations takes a process from applying them
\* to serving.
LEMMA OnlyCommitsServe ==
    ASSUME IInv, [Next]_vars, NEW p \in Processes, At(p, "applying"), process'[p].pc = "serving"
    PROVE  CommitMigrations(p)
  <1> USE ServerAssumption, ConverterAssumption
  <1>1. process'[p] # process[p] /\ process'[p].pc \notin {"down", "starting", "checking"}
    BY DEF At
  <1>2. CASE BootStep
    <2>1. PICK q \in Processes : Boot(q)
      BY <1>2 DEF BootStep
    <2>2. q = p
      BY <1>1, <2>1
         DEF Boot, Open, LockAndRead, Apply, CommitMigrations, Go, Exit, IInv, Typed
    <2>3. ~Open(p) /\ ~LockAndRead(p)
      BY DEF Open, LockAndRead, At
    <2>4. ~Apply(p)
      BY DEF Apply, At, IInv, Typed, ProcessRow
    <2> QED
      BY <2>1, <2>2, <2>3, <2>4 DEF Boot
  <1>3. ~Restart /\ ~Kill
    BY <1>1, GoMoves, ExitMoves DEF Restart, Kill, Crash, Moves, Only, IInv, ProcessPCs
  <1>4. ~Write /\ ~BootElsewhere /\ ~(UNCHANGED vars)
    <2>1. ASSUME NEW q, NEW b PROVE Configured(q, "postgres", b).pc = "starting"
      BY DEF Configured, Down
    <2> QED
      BY <1>1, <2>1 DEF Write, BootElsewhere, vars, IInv, Typed
  <1>5. ~ConverterStep
    BY <1>1
       DEF ConverterStep, CheckTarget, BeginCopy, CopyTable, CommitCopy, Complete, FailConverter,
           ConverterRefused, Go, Exit, IInv, Typed, ProcessRow
  <1>6. ~Stop /\ ~PlainUp /\ \A d \in Databases, b \in Binaries : ~Up(d, b)
    <2>1. \A d \in Databases, b \in Binaries : ~Up(d, b)
      BY <1>1, UpRow DEF Only, IInv
    <2> QED
      BY <1>1, <2>1, ExitMoves, BinariesAssumption
         DEF Stop, PlainUp, Moves, Only, IInv, Typed, ProcessPCs
  <1>7. ~StartConverter /\ ~CopyEnded
    <2>1. Down.pc = "down"
          /\ [Down EXCEPT !.pc = "checking", !.on = "sqlite", !.binary = "new"].pc = "checking"
      BY DEF Down
    <2> QED
      BY <1>1, <2>1 DEF StartConverter, CopyEnded, IInv, Typed
  <1>8. ~ScriptStep
    BY <1>1, <1>6, <1>7, BinariesAssumption
       DEF ScriptStep, Inspect, Preflight, BackUp, Upgrade, StartCopy, StopByHand, RunCopy,
           ReplaceCompose, StartOnSQLite, Finish, ScriptStops, IInv, Typed
  <1>9. ~OperatorStep
    BY <1>1, <1>6, <1>7, BinariesAssumption
       DEF OperatorStep, Undo, RollBack, MoveDatabaseAside, TakeDown, CopyByHand, Databases
  <1> QED
    BY <1>2, <1>3, <1>4, <1>5, <1>8, <1>9 DEF Next

\* A server serves only once what is recorded is what its binary ships.
THEOREM ServersStartKnowing == Spec => ServersKnowTheSchema
  <1> DEFINE Known(p) == At(p, "applying") /\ process'[p].pc = "serving" =>
                           db'[process[p].on].recorded = Shipped(p)
  <1>1. ASSUME IInv, [Next]_vars, NEW p \in Processes, At(p, "applying"),
               process'[p].pc = "serving"
        PROVE  db'[process[p].on].recorded = Shipped(p)
    <2>1. CommitMigrations(p)
      BY <1>1, OnlyCommitsServe
    <2>2. /\ process[p].on \in Databases /\ Shipped(p) \subseteq Nat
          /\ db' = [db EXCEPT ![process[p].on].schema = Shipped(p),
                              ![process[p].on].recorded = Shipped(p)]
      BY <1>1, <2>1, CommitIsWhole DEF Shipped
    <2> QED
      BY <1>1, <2>2 DEF IInv, Typed, DatabaseRow
  <1>2. IInv /\ [Next]_vars => [\A p \in Processes : Known(p)]_vars
    BY <1>1
  <1> QED
    BY <1>2, Inductive, PTL DEF Spec, ServersKnowTheSchema

\* A switch leaves no write behind: whoever is served from SQLite finds all
\* that PostgreSQL acknowledged, wherever script, converter and server were
\* stopped, and however often the operator went back and forth.
THEOREM SwitchesLoseNothing == Spec => []SwitchesCarryEveryWrite
  <1>1. IInv => SwitchesCarryEveryWrite
    BY DEF IInv, SwitchHolds, Carried, SwitchesCarryEveryWrite, At
  <1> QED
    BY <1>1, Inductive, PTL

\* No copy, failed, killed or refused, costs a database a write or leaves a
\* part of one.
THEOREM DatabasesKeepTheirWrites == Spec => []DatabasesStayWhole
  <1>1. IInv => DatabasesStayWhole
    BY DEF IInv, DatabaseHolds, DatabasesStayWhole
  <1> QED
    BY <1>1, Inductive, PTL

=============================================================================
