--------------------------- MODULE RowLocksProofs ---------------------------
(***************************************************************************)
(* The locks do what a transaction would do at once: what it read under a  *)
(* lock is true until it commits, for any number of transactions over any  *)
(* rows, and no mutation, claim or garbage collection is ever in a         *)
(* deadlock.                                                               *)
(***************************************************************************)
EXTENDS RowLocks, FiniteSetTheorems, TLAPS

(* The inductive invariant *)

TxRow == [kind : Kinds \cup {None}, collection : Collections \cup {None},
          object : Objects \cup {None}, blob : Blobs \cup {None},
          id : MutationIDs \cup {None}, version : Nat, pc : Steps, held : SUBSET Lockable,
          rows : Seq(Lockable), prepared : BOOLEAN, seen : ObjectRow \cup {None},
          accepted : BOOLEAN]

Typed ==
    /\ collections \subseteq Collections
    /\ objects \in [Objects -> ObjectRow \cup {None}]
    /\ ledger \in [Blobs -> LedgerRow \cup {None}]
    /\ results \in [MutationIDs -> ResultRow \cup {None}]
    /\ tx \in [Tx -> TxRow]

Ledgers == {Ledger(k) : k \in Blobs}
Results == {Result(m) : m \in MutationIDs}

Writing == {"save", "save_owner", "commit"}

\* What a mutation has in hand, statement by statement.
MutationHolds(q) ==
    LET Owned == {Advisory(q.id), Collection(q.collection)} IN
    /\ q.collection \in Collections /\ q.id \in MutationIDs
    /\ q.kind = "delete" <=> q.blob = None
    /\ q.kind # "create" => q.object \in Objects
    /\ q.pc \in {"prepare", "prepare_owner", "advisory", "collection", "staged", "blob",
                 "insert", "supersede"} \cup Writing
    /\ q.pc \in {"prepare", "advisory"} => q.held = {}
    /\ q.pc = "prepare_owner" => q.held = {Result(q.id)}
    /\ q.pc = "collection" => q.held = {Advisory(q.id)}
    /\ q.pc \in {"staged", "blob"} =>
         q.held = Owned /\ q.kind # "delete" /\ (q.kind = "update" => q.seen # None)
    /\ q.pc = "insert" => q.held = Owned \cup {Ledger(q.blob)} /\ q.kind = "create" /\ q.accepted
    /\ q.pc = "supersede" =>
         /\ q.held = Owned \cup (IF q.kind = "update" THEN {Ledger(q.blob)} ELSE {})
         /\ q.kind # "create" /\ q.accepted
    /\ q.pc \in Writing =>
         q.held \subseteq Owned \cup Ledgers \cup {UserShare}
                            \cup (IF q.pc = "save" THEN {} ELSE {Result(q.id)})
    /\ q.accepted =>
         /\ q.pc \in {"insert", "supersede"} \cup Writing
         /\ Collection(q.collection) \in q.held
         /\ q.blob # None => Ledger(q.blob) \in q.held
         /\ q.kind # "create" => q.seen # None
         /\ q.kind = "create" /\ q.pc # "insert" => q.object \in Objects
    /\ q.seen # None =>
         /\ q.kind # "create" /\ q.seen.collection = q.collection
         /\ Collection(q.collection) \in q.held

\* What anything else has.
OtherHolds(q) ==
    /\ q.kind = None => q.pc \in {"ready", "ended"} /\ q.held = {}
    /\ q.kind = "claim" =>
         /\ q.pc \in {"user", "select_rows", "commit"}
         /\ q.held = (IF q.pc = "user" THEN {} ELSE {User})
         /\ q.pc = "commit" => q.collection \in Collections
    /\ q.kind = "drop" =>
         /\ q.collection \in Collections
         /\ q.pc \in {"collection", "select_rows", "rows", "commit"}
         /\ q.pc = "collection" => q.held = {} /\ ~q.accepted
         /\ q.pc # "collection" => Collection(q.collection) \in q.held
         /\ q.pc = "commit" => q.accepted
         /\ q.pc = "rows" => q.rows \in Seq(IF q.accepted THEN Results ELSE Ledgers)
         /\ q.held \subseteq {Collection(q.collection)} \cup Ledgers
                             \cup (IF q.accepted THEN Results ELSE {})
    /\ q.kind \in {"delete_blob", "purge"} =>
         /\ q.blob \in Blobs
         /\ q.pc \in {"staged", "blob", "commit"}
         /\ q.held = (IF q.pc = "commit" THEN {Ledger(q.blob)} ELSE {})
         /\ q.pc = "blob" => q.kind = "delete_blob"
    /\ q.kind \in {"expire_pending", "expire_other"} =>
         /\ q.pc \in {"select_rows", "rows", "commit"} /\ q.held \subseteq Results
         /\ q.pc = "rows" => q.rows \in Seq(Results)

\* What it read is so.
ReadsHold(q) ==
    /\ q.kind \in Mutations \cup {"drop"} /\ Collection(q.collection) \in q.held =>
         q.collection \in collections
    /\ q.kind \in Mutations /\ q.seen # None => objects[q.object] = q.seen
    /\ q.kind \in Mutations /\ q.accepted /\ q.blob # None => Claimable(q.blob)
    /\ q.kind = "create" /\ q.accepted /\ q.pc # "insert" => objects[q.object] = None
    /\ q.kind \in Mutations /\ q.accepted /\ q.pc \in Writing /\ q.seen # None
         /\ Claimed(q.seen.blob) => Ledger(q.seen.blob) \in q.held
    /\ q.kind = "claim" /\ q.pc = "commit" => collections = {}
    /\ q.kind \in {"delete_blob", "purge"} /\ q.pc = "commit" => ledger[q.blob] # None
    /\ q.kind = "purge" /\ q.pc = "commit" => Purgeable(q.blob)

\* A blob that an object of c names.
KeptFor(row, c) ==
    row # None => /\ row.state \notin {"staged", "stale"}
                  /\ row.state = "claimed" => row.collection = c

\* A deletion has locked, or is about to lock, every blob its collection holds.
Listed(q, l) == \E i \in DOMAIN q.rows : q.rows[i] = l

DropHolds(q) ==
    /\ \A k \in Blobs : Ledger(k) \in q.held => BlobOf(q.collection, k)
    /\ q.pc = "rows" \/ q.accepted =>
         \A k \in Blobs : BlobOf(q.collection, k) =>
           Ledger(k) \in q.held \/ (~q.accepted /\ Listed(q, Ledger(k)))

\* A create that has inserted its object.
Created(q) == q.kind = "create" /\ q.pc \in Writing /\ q.accepted

\* Two transactions never hold one lock, but for shares of the account's row,
\* nor create one object.
Exclusive ==
    \A t, u \in Tx : t # u =>
        /\ tx[t].held \cap tx[u].held \subseteq {UserShare}
        /\ Created(tx[t]) /\ Created(tx[u]) => tx[t].object # tx[u].object

TxHolds(q) ==
    /\ q.kind \in Mutations => MutationHolds(q)
    /\ OtherHolds(q)
    /\ ReadsHold(q)
    /\ q.kind = "drop" => DropHolds(q)

IInv ==
    /\ Typed /\ ObjectsHoldTheirBlobs /\ Exclusive
    /\ \A t \in Tx : TxHolds(tx[t])

-----------------------------------------------------------------------------
(* Locks and rows *)

LEMMA Names ==
    /\ \A j, k : Ledger(j) = Ledger(k) => j = k
    /\ \A c, d : Collection(c) = Collection(d) => c = d
    /\ \A m, n : Result(m) = Result(n) => m = n
    /\ \A k, c, m, n :
         /\ Ledger(k) \notin {Collection(c), Advisory(m), Result(n), User, UserShare}
         /\ Collection(c) \notin {Advisory(m), Result(n), User, UserShare}
         /\ Result(n) \notin {Advisory(m), User, UserShare}
         /\ Advisory(m) \notin {User, UserShare}
    /\ User # UserShare
  BY DEF Ledger, Collection, Result, Advisory, User, UserShare

LEMMA LockableLocks ==
    /\ \A k \in Blobs : Ledger(k) \in Lockable
    /\ \A c \in Collections : Collection(c) \in Lockable
    /\ \A m \in MutationIDs : Result(m) \in Lockable /\ Advisory(m) \in Lockable
    /\ User \in Lockable /\ UserShare \in Lockable
  BY DEF Lockable

\* A lock t may take, nobody else has, unless it is a share.
LEMMA FreeLocks ==
    ASSUME NEW t \in Tx, Free(t), NEW u \in Tx \ {t}
    PROVE  Wanted(tx[t]) \cap tx[u].held \subseteq {UserShare}
  <1> SUFFICES ASSUME NEW l \in Wanted(tx[t]) \cap tx[u].held, l # UserShare PROVE FALSE
    OBVIOUS
  <1>1. Conflicts(l, l)
    BY DEF Conflicts
  <1> QED
    BY <1>1 DEF Free, WaitsFor

LEMMA IdleRow == Idle \in TxRow /\ [Idle EXCEPT !.pc = "ended"] \in TxRow
  <1>1. Idle.rows = <<>> /\ <<>> \in Seq(Lockable)
    BY DEF Idle
  <1> QED
    BY <1>1 DEF Idle, TxRow, Steps

\* One transaction moves on and all but the results stays: the others hold
\* what they held.
LEMMA MoveKeepsRest ==
    ASSUME IInv, NEW t \in Tx, NEW r \in TxRow, Move(t, r), TxHolds(r),
           UNCHANGED <<collections, objects, ledger>>,
           results' \in [MutationIDs -> ResultRow \cup {None}],
           \A u \in Tx \ {t} : r.held \cap tx[u].held \subseteq {UserShare},
           \A u \in Tx \ {t} : Created(r) /\ Created(tx[u]) => r.object # tx[u].object
    PROVE  IInv'
  <1>1. /\ tx' \in [Tx -> TxRow] /\ tx'[t] = r /\ \A u \in Tx \ {t} : tx'[u] = tx[u]
    BY DEF IInv, Typed, Move
  <1>2. \A u \in Tx : TxHolds(tx[u])'
    <2>1. \A q : /\ ReadsHold(q)' <=> ReadsHold(q)
                 /\ DropHolds(q)' <=> DropHolds(q)
      BY DEF ReadsHold, DropHolds, Claimable, Claimed, Purgeable, BlobOf
    <2> QED
      BY <1>1, <2>1 DEF IInv, TxHolds
  <1>3. Exclusive'
    BY <1>1 DEF IInv, Exclusive
  <1> QED
    BY <1>1, <1>2, <1>3 DEF IInv, Typed, ObjectsHoldTheirBlobs

LEMMA MoveKeeps ==
    ASSUME IInv, NEW t \in Tx, NEW r \in TxRow, Move(t, r), UNCHANGED tables, TxHolds(r),
           \A u \in Tx \ {t} : r.held \cap tx[u].held \subseteq {UserShare},
           \A u \in Tx \ {t} : Created(r) /\ Created(tx[u]) => r.object # tx[u].object
    PROVE  IInv'
  BY MoveKeepsRest DEF IInv, Typed, tables

\* It ends with no lock.
LEMMA EndKeeps == ASSUME IInv, NEW t \in Tx, End(t), UNCHANGED tables PROVE IInv'
  <1> DEFINE r == [Idle EXCEPT !.pc = "ended"]
  <1>1. r \in TxRow /\ r.kind = None /\ r.held = {} /\ r.pc = "ended"
    BY IdleRow DEF Idle
  <1>2. TxHolds(r)
    BY <1>1, KindsAssumption DEF TxHolds, OtherHolds, ReadsHold, Kinds, Mutations
  <1>3. Move(t, r)
    BY DEF End
  <1> HIDE DEF r
  <1> QED
    BY <1>1, <1>2, <1>3, MoveKeeps, KindsAssumption DEF Kinds, Mutations, Created

-----------------------------------------------------------------------------
(* Statements before the last *)

\* All but where it is and what it has locked.
Alike(r, q) ==
    /\ r.kind = q.kind /\ r.collection = q.collection /\ r.object = q.object
    /\ r.blob = q.blob /\ r.id = q.id /\ r.version = q.version /\ r.rows = q.rows
    /\ r.prepared = q.prepared /\ r.seen = q.seen /\ r.accepted = q.accepted

LEMMA GoRow ==
    ASSUME NEW t \in Tx, tx[t] \in TxRow, NEW pc \in Steps, Go(t, pc)
    PROVE  \E r \in TxRow :
             Move(t, r) /\ Alike(r, tx[t]) /\ r.pc = pc /\ r.held = tx[t].held
  <1> DEFINE r == [tx[t] EXCEPT !.pc = pc]
  <1>1. r \in TxRow /\ Alike(r, tx[t]) /\ r.pc = pc /\ r.held = tx[t].held
    BY DEF TxRow, Alike
  <1>2. Move(t, r)
    BY DEF Go
  <1> HIDE DEF r
  <1> QED
    BY <1>1, <1>2

LEMMA TakeRow ==
    ASSUME NEW t \in Tx, tx[t] \in TxRow, NEW pc \in Steps, Take(t, pc),
           Wanted(tx[t]) \subseteq Lockable
    PROVE  \E r \in TxRow : /\ Move(t, r) /\ Alike(r, tx[t]) /\ r.pc = pc
                            /\ r.held = tx[t].held \cup Wanted(tx[t])
  <1> DEFINE W == Wanted(tx[t])
             r == [tx[t] EXCEPT !.pc = pc, !.held = @ \cup W]
  <1>1. Move(t, r) /\ W \in SUBSET Lockable
    BY DEF Take
  <1> HIDE DEF W
  <1>2. r \in TxRow /\ Alike(r, tx[t]) /\ r.pc = pc /\ r.held = tx[t].held \cup W
    BY <1>1 DEF TxRow, Alike
  <1> HIDE DEF r
  <1> QED
    BY <1>1, <1>2 DEF W

\* A mutation before its first statement.
Begun(q) ==
    /\ q \in TxRow /\ q.kind \in Mutations
    /\ q.collection \in Collections /\ q.id \in MutationIDs
    /\ q.kind = "delete" <=> q.blob = None
    /\ q.kind # "create" => q.object \in Objects
    /\ q.pc = "prepare" /\ q.held = {} /\ q.seen = None /\ q.accepted = FALSE

LEMMA BegunHolds ==
    ASSUME NEW q, Begun(q)
    PROVE  q \in TxRow /\ TxHolds(q) /\ q.held = {} /\ q.pc \notin Writing
  <1>1. MutationHolds(q)
    BY DEF Begun, MutationHolds, Writing
  <1>2. OtherHolds(q)
    BY KindsAssumption DEF Begun, OtherHolds, Mutations, Kinds
  <1>3. ReadsHold(q)
    BY DEF Begun, ReadsHold, Mutations
  <1> QED
    BY <1>1, <1>2, <1>3 DEF Begun, TxHolds, Mutations, Writing

LEMMA CreateBegins ==
    \A c \in Collections, k \in Blobs \cup {None}, m \in MutationIDs :
      LET q == Create(c, k, m) IN
      /\ q \in TxRow /\ q.kind = "create" /\ q.collection = c /\ q.id = m /\ q.blob = k
      /\ q.pc = "prepare" /\ q.held = {} /\ q.seen = None /\ q.accepted = FALSE
  <1> TAKE c \in Collections, k \in Blobs \cup {None}, m \in MutationIDs
  <1>1. /\ Idle \in TxRow /\ Idle.held = {} /\ Idle.seen = None /\ Idle.accepted = FALSE
    BY IdleRow DEF Idle
  <1>2. "create" \in Kinds /\ "prepare" \in Steps
    BY DEF Kinds, Mutations, Steps
  <1>3. PICK q : q = Create(c, k, m)
    OBVIOUS
  <1>4. /\ q \in TxRow /\ q.kind = "create" /\ q.collection = c /\ q.id = m /\ q.blob = k
        /\ q.pc = "prepare" /\ q.held = {} /\ q.seen = None /\ q.accepted = FALSE
    BY <1>1, <1>2, <1>3 DEF Create, TxRow
  <1> QED
    BY <1>3, <1>4

\* A transaction begins with no lock.
LEMMA WorkHolds ==
    ASSUME NEW q, IsWork(q)
    PROVE  q \in TxRow /\ TxHolds(q) /\ q.held = {} /\ q.pc \notin Writing
  <1>0. /\ Idle \in TxRow /\ Idle.kind = None /\ Idle.held = {} /\ Idle.seen = None
        /\ Idle.accepted = FALSE
    BY IdleRow DEF Idle
  <1>1. None \notin Blobs /\ Mutations = {"create", "update", "delete"} /\ Mutations \subseteq Kinds
    BY NoneAssumption DEF Mutations, Kinds
  <1>2. ASSUME NEW c \in Collections, q = Drop(c)
        PROVE  q \in TxRow /\ TxHolds(q) /\ q.held = {} /\ q.pc \notin Writing
    <2>1. q \in TxRow
      BY <1>0, <1>2 DEF TxRow, Steps, Kinds, Drop
    <2>2. /\ q.kind = "drop" /\ q.pc = "collection" /\ q.collection = c
          /\ q.held = {} /\ q.seen = None /\ q.accepted = FALSE
      BY <1>0, <1>2 DEF Drop, TxRow
    <2> QED
      BY <2>1, <2>2, KindsAssumption
         DEF TxHolds, OtherHolds, ReadsHold, DropHolds, Writing, Mutations, Kinds
  <1>3. ASSUME NEW k \in Blobs, NEW kind \in {"delete_blob", "purge"}, q = OnBlob(kind, k)
        PROVE  q \in TxRow /\ TxHolds(q) /\ q.held = {} /\ q.pc \notin Writing
    <2>1. q \in TxRow
      BY <1>0, <1>3 DEF TxRow, Steps, Kinds, OnBlob
    <2>2. /\ q.kind = kind /\ q.pc = "staged" /\ q.blob = k
          /\ q.held = {} /\ q.seen = None /\ q.accepted = FALSE
      BY <1>0, <1>3 DEF OnBlob, TxRow
    <2> QED
      BY <2>1, <2>2, KindsAssumption
         DEF TxHolds, OtherHolds, ReadsHold, Writing, Mutations, Kinds
  <1>4. ASSUME NEW kind \in {"claim", "expire_pending", "expire_other"},
               q = [Idle EXCEPT !.kind = kind, !.pc = IF kind = "claim" THEN "user"
                                                      ELSE "select_rows"]
        PROVE  q \in TxRow /\ TxHolds(q) /\ q.held = {} /\ q.pc \notin Writing
    <2> DEFINE step == IF kind = "claim" THEN "user" ELSE "select_rows"
    <2>0. kind \in Kinds \cup {None} /\ step \in Steps
      BY <1>4 DEF Kinds, Steps
    <2>1. q \in TxRow
      <3>1. q = [Idle EXCEPT !.kind = kind, !.pc = step]
        BY <1>4
      <3> HIDE DEF step
      <3> QED
        BY <1>0, <2>0, <3>1 DEF TxRow
    <2>2. /\ q.kind = kind /\ q.pc = IF kind = "claim" THEN "user" ELSE "select_rows"
          /\ q.held = {} /\ q.seen = None /\ q.accepted = FALSE
      BY <1>0, <1>4 DEF TxRow
    <2> QED
      BY <2>1, <2>2, KindsAssumption
         DEF TxHolds, OtherHolds, ReadsHold, Writing, Mutations, Kinds
  <1>5. /\ ClaimVault = [Idle EXCEPT !.kind = "claim", !.pc = "user"]
        /\ \A kind : Expire(kind) = [Idle EXCEPT !.kind = kind, !.pc = "select_rows"]
    BY DEF ClaimVault, Expire
  <1>6. ASSUME NEW c \in Collections, NEW m \in MutationIDs, NEW k \in Blobs, q = Create(c, k, m)
        PROVE  Begun(q)
    BY <1>1, <1>6, CreateBegins DEF Begun
  <1>7. ASSUME NEW c \in Collections, NEW m \in MutationIDs, NEW o \in Objects,
               NEW k \in Blobs, q.version \in Nat, q = Update(c, o, q.version, k, m)
        PROVE  Begun(q)
    <2>0. PICK r : r = Create(c, k, m)
      OBVIOUS
    <2>1. /\ r \in TxRow /\ r.collection = c /\ r.id = m /\ r.blob = k
          /\ r.pc = "prepare" /\ r.held = {} /\ r.seen = None /\ r.accepted = FALSE
      BY <2>0, CreateBegins
    <2>2. q = [r EXCEPT !.kind = "update", !.object = o, !.version = q.version]
      BY <1>7, <2>0 DEF Update
    <2> QED
      BY <1>1, <1>7, <2>1, <2>2 DEF Begun, TxRow
  <1>8. ASSUME NEW c \in Collections, NEW m \in MutationIDs, NEW o \in Objects,
               q.version \in Nat, q = Delete(c, o, q.version, m)
        PROVE  Begun(q)
    <2>0. PICK r : r = Create(c, None, m)
      OBVIOUS
    <2>1. /\ r \in TxRow /\ r.collection = c /\ r.id = m /\ r.blob = None
          /\ r.pc = "prepare" /\ r.held = {} /\ r.seen = None /\ r.accepted = FALSE
      BY <2>0, CreateBegins
    <2>2. q = [r EXCEPT !.kind = "delete", !.object = o, !.version = q.version]
      BY <1>8, <2>0 DEF Delete
    <2> QED
      BY <1>1, <1>8, <2>1, <2>2 DEF Begun, TxRow
  <1>9. CASE \E c \in Collections, m \in MutationIDs, k \in Blobs :
               \/ q = Create(c, k, m)
               \/ \E o \in Objects : q.version \in Nat /\ q = Update(c, o, q.version, k, m)
    <2>1. Begun(q)
      BY <1>6, <1>7, <1>9
    <2> QED
      BY <2>1, BegunHolds
  <1>10. CASE \E c \in Collections, m \in MutationIDs, o \in Objects :
                q.version \in Nat /\ q = Delete(c, o, q.version, m)
    <2>1. Begun(q)
      BY <1>8, <1>10
    <2> QED
      BY <2>1, BegunHolds
  <1>11. CASE q = ClaimVault \/ \E kind \in {"expire_pending", "expire_other"} : q = Expire(kind)
    BY <1>11, <1>4, <1>5
  <1> QED
    BY <1>2, <1>3, <1>9, <1>10, <1>11 DEF IsWork

LEMMA StartKeeps == ASSUME IInv, NEW t \in Tx, Start(t) PROVE IInv'
  <1>1. PICK q \in Work(t) : Move(t, q)
    BY DEF Start
  <1>2. q \in TxRow /\ TxHolds(q) /\ q.held = {} /\ q.pc \notin Writing
    BY WorkAssumption, WorkHolds
  <1> QED
    BY <1>1, <1>2, MoveKeeps DEF Start, Created

-----------------------------------------------------------------------------
(* What a statement locks *)

LEMMA WhereItIs ==
    ASSUME NEW q \in TxRow, TxHolds(q)
    PROVE  /\ q.pc \in {"prepare", "prepare_owner", "advisory", "insert", "supersede",
                        "save", "save_owner"} => q.kind \in Mutations
           /\ q.pc = "collection" => q.kind \in Mutations \cup {"drop"}
           /\ q.pc = "staged" => q.kind \in {"create", "update", "delete_blob", "purge"}
           /\ q.pc = "blob" => q.kind \in {"create", "update", "delete_blob"}
           /\ q.pc = "user" => q.kind = "claim"
           /\ q.pc = "select_rows" =>
                q.kind \in {"claim", "drop", "expire_pending", "expire_other"}
           /\ q.pc = "rows" => q.kind \in {"drop", "expire_pending", "expire_other"}
  <1>1. q.kind \in Kinds \cup {None} /\ q.pc \in Steps
    BY DEF TxRow
  <1>2. CASE q.kind \in Mutations
    BY <1>2 DEF TxHolds, MutationHolds, Mutations, Writing
  <1>3. CASE q.kind = None
    BY <1>3 DEF TxHolds, OtherHolds
  <1>4. CASE q.kind \in Kinds \ Mutations
    BY <1>4 DEF TxHolds, OtherHolds, Kinds, Mutations
  <1> QED
    BY <1>1, <1>2, <1>3, <1>4

LEMMA WantedIs ==
    ASSUME NEW q
    PROVE  /\ q.pc \in {"prepare", "save"} => Wanted(q) = {Result(q.id)}
           /\ q.pc \in {"prepare_owner", "insert", "save_owner"} => Wanted(q) = {UserShare}
           /\ q.pc = "advisory" => Wanted(q) = {Advisory(q.id)}
           /\ q.pc = "collection" => Wanted(q) = {Collection(q.collection)}
           /\ q.pc = "blob" => Wanted(q) = {Ledger(q.blob)}
           /\ q.pc = "supersede" =>
                Wanted(q) = IF Claimed(q.seen.blob) THEN {Ledger(q.seen.blob)} ELSE {}
           /\ q.pc = "user" => Wanted(q) = {User}
           /\ q.pc = "rows" => Wanted(q) = IF q.rows # <<>> THEN {Head(q.rows)} ELSE {}
           /\ q.pc \in {"staged", "select_rows", "commit"} => Wanted(q) = {}
  BY DEF Wanted

LEMMA MutationRow ==
    ASSUME NEW r, r.kind \in Mutations, MutationHolds(r), ReadsHold(r) PROVE TxHolds(r)
  BY KindsAssumption DEF TxHolds, OtherHolds, Mutations, Kinds

\* What is known of t when it takes a step.
LEMMA AtHand ==
    ASSUME IInv, NEW t \in Tx
    PROVE  /\ tx[t] \in TxRow /\ TxHolds(tx[t]) /\ OtherHolds(tx[t]) /\ ReadsHold(tx[t])
           /\ tx[t].kind \in Mutations => MutationHolds(tx[t])
           /\ tx[t].kind = "drop" => DropHolds(tx[t])
  BY DEF IInv, Typed, TxHolds

\* MoveKeeps for a statement that takes no more than the locks it asked for.
LEMMA StatementKeeps ==
    ASSUME IInv, NEW t \in Tx, Free(t), NEW r \in TxRow, Move(t, r), UNCHANGED tables,
           TxHolds(r), r.held \subseteq tx[t].held \cup Wanted(tx[t]),
           Created(r) => Created(tx[t]) /\ r.object = tx[t].object
    PROVE  IInv'
  <1>1. \A u \in Tx \ {t} : r.held \cap tx[u].held \subseteq {UserShare}
    BY FreeLocks DEF IInv, Exclusive
  <1>2. \A u \in Tx \ {t} : Created(r) /\ Created(tx[u]) => r.object # tx[u].object
    BY DEF IInv, Exclusive
  <1> QED
    BY <1>1, <1>2, MoveKeeps

-----------------------------------------------------------------------------
(* The statements of a mutation *)

LEMMA PrepareKeeps == ASSUME IInv, NEW t \in Tx, Prepare(t) PROVE IInv'
  <1> DEFINE q == tx[t]
  <1>1. /\ q \in TxRow /\ q.pc = "prepare" /\ Free(t) /\ q.kind \in Mutations
        /\ MutationHolds(q) /\ ReadsHold(q) /\ Wanted(q) = {Result(q.id)}
    BY AtHand, WhereItIs, WantedIs DEF Prepare, At
  <1>2. q.id \in MutationIDs /\ {Result(q.id)} \subseteq Lockable
    BY <1>1, LockableLocks DEF MutationHolds
  <1>3. "prepare_owner" \in Steps /\ "advisory" \in Steps
    BY DEF Steps
  <1>4. CASE results[q.id] = None
    <2>1. PICK r \in TxRow : /\ Move(t, r) /\ Alike(r, q) /\ r.pc = "prepare_owner"
                             /\ r.held = q.held \cup {Result(q.id)}
      BY <1>1, <1>2, <1>3, <1>4, TakeRow DEF Prepare
    <2>2. q.held = {} /\ ~q.accepted /\ q.seen = None
      BY <1>1 DEF MutationHolds, Writing
    <2>3. r.held = {Result(r.id)} /\ ~r.accepted /\ r.seen = None
      BY <2>1, <2>2 DEF Alike
    <2>4. MutationHolds(r)
      BY <1>1, <2>1, <2>3 DEF MutationHolds, Alike, Writing
    <2>5. ReadsHold(r)
      BY <1>1, <2>1, <2>3, Names DEF ReadsHold, Alike, Mutations
    <2> QED
      BY <1>1, <2>1, <2>4, <2>5, MutationRow, StatementKeeps
         DEF Created, Writing, Prepare, Alike
  <1>5. CASE results[q.id] # None
    <2>1. PICK r \in TxRow : /\ Move(t, r) /\ Alike(r, q) /\ r.pc = "advisory"
                             /\ r.held = q.held
      BY <1>1, <1>3, <1>5, GoRow DEF Prepare
    <2>2. MutationHolds(r) /\ ReadsHold(r)
      BY <1>1, <2>1 DEF MutationHolds, ReadsHold, Alike, Writing, Mutations
    <2> QED
      BY <1>1, <2>1, <2>2, MutationRow, StatementKeeps DEF Created, Writing, Prepare, Alike
  <1> QED
    BY <1>4, <1>5

LEMMA LockMutationKeeps == ASSUME IInv, NEW t \in Tx, LockMutation(t) PROVE IInv'
  <1> DEFINE q == tx[t]
  <1>1. /\ q \in TxRow /\ q.pc = "advisory" /\ Free(t) /\ q.kind \in Mutations
        /\ MutationHolds(q) /\ ReadsHold(q) /\ Wanted(q) = {Advisory(q.id)}
    BY AtHand, WhereItIs, WantedIs DEF LockMutation, At
  <1>2. {Advisory(q.id)} \subseteq Lockable /\ "collection" \in Steps
    BY <1>1, LockableLocks DEF MutationHolds, Steps
  <1>3. CASE Answered(q)
    BY <1>3, EndKeeps DEF LockMutation
  <1>4. CASE ~Answered(q)
    <2>1. PICK r \in TxRow : /\ Move(t, r) /\ Alike(r, q) /\ r.pc = "collection"
                             /\ r.held = q.held \cup {Advisory(q.id)}
      BY <1>1, <1>2, <1>4, TakeRow DEF LockMutation
    <2>2. MutationHolds(r) /\ ReadsHold(r)
      BY <1>1, <2>1, Names DEF MutationHolds, ReadsHold, Alike, Writing, Mutations
    <2> QED
      BY <1>1, <2>1, <2>2, MutationRow, StatementKeeps DEF Created, Writing, LockMutation, Alike
  <1> QED
    BY <1>3, <1>4

\* What LockCollection makes of q: where it goes, what it has seen.
CollectionRow(q, r) ==
    /\ r.kind = q.kind /\ r.collection = q.collection /\ r.object = q.object
    /\ r.blob = q.blob /\ r.id = q.id /\ r.held = q.held \cup {Collection(q.collection)}
    /\ \/ q.kind = "create" /\ r.pc = "staged" /\ r.seen = q.seen /\ r.accepted = q.accepted
       \/ q.kind = "drop" /\ r.pc = "select_rows" /\ r.seen = q.seen /\ r.accepted = q.accepted
       \/ /\ q.kind \in {"update", "delete"} /\ r.pc = "save"
          /\ r.seen = q.seen /\ r.accepted = q.accepted
       \/ /\ Current(q) /\ r.seen = objects[q.object]
          /\ \/ q.kind = "update" /\ r.pc = "staged" /\ r.accepted = q.accepted
             \/ q.kind = "delete" /\ r.pc = "supersede" /\ r.accepted

LEMMA CollectionLocked ==
    ASSUME Typed, NEW q \in TxRow, q.collection \in collections,
           q.kind \in Mutations \cup {"drop"},
           q.kind \in {"update", "delete"} => q.object \in Objects
    PROVE  WithCollection(q) \in TxRow /\ CollectionRow(q, WithCollection(q))
  <1> DEFINE L == {Collection(q.collection)}
             l == [q EXCEPT !.held = @ \cup L]
  <1>1. L \subseteq Lockable /\ {"staged", "select_rows", "save", "supersede"} \subseteq Steps
    BY LockableLocks DEF Typed, Steps
  <1>2. l \in TxRow /\ Alike(l, q) /\ l.held = q.held \cup L
    <2> HIDE DEF L
    <2> QED
      BY <1>1 DEF TxRow, Alike
  <1>3. q.kind \in {"update", "delete"} => objects[q.object] \in ObjectRow \cup {None}
    BY DEF Typed
  <1>4. PICK r : r = WithCollection(q)
    OBVIOUS
  <1>5. CASE q.kind = "create"
    <2>1. r = [l EXCEPT !.pc = "staged"]
      BY <1>4, <1>5 DEF WithCollection
    <2> HIDE DEF l
    <2> QED
      BY <1>1, <1>2, <1>3, <1>4, <1>5, <2>1 DEF TxRow, Alike, CollectionRow
  <1>6. CASE q.kind = "drop"
    <2>1. r = [l EXCEPT !.pc = "select_rows"]
      BY <1>4, <1>6 DEF WithCollection
    <2> HIDE DEF l
    <2> QED
      BY <1>1, <1>2, <1>3, <1>4, <1>6, <2>1 DEF TxRow, Alike, CollectionRow
  <1>7. CASE /\ q.kind \in {"update", "delete"}
             /\ ~Current(q) \/ (q.kind = "delete" /\ objects[q.object].deleted)
    <2>1. r = [l EXCEPT !.pc = "save"]
      BY <1>4, <1>7 DEF WithCollection
    <2> HIDE DEF l
    <2> QED
      BY <1>1, <1>2, <1>3, <1>4, <1>7, <2>1 DEF TxRow, Alike, CollectionRow
  <1>8. CASE q.kind = "update" /\ Current(q)
    <2>1. r = [l EXCEPT !.pc = "staged", !.seen = objects[q.object]]
      BY <1>4, <1>8 DEF WithCollection
    <2>2. PICK row \in ObjectRow \cup {None} : row = objects[q.object]
      BY <1>3, <1>8
    <2> HIDE DEF l
    <2>3. r \in TxRow
      BY <1>1, <1>2, <2>1, <2>2 DEF TxRow
    <2> QED
      BY <1>2, <1>4, <1>8, <2>1, <2>2, <2>3 DEF TxRow, Alike, CollectionRow
  <1>9. CASE q.kind = "delete" /\ Current(q) /\ ~objects[q.object].deleted
    <2>1. r = [l EXCEPT !.pc = "supersede", !.seen = objects[q.object],
                            !.accepted = TRUE]
      BY <1>4, <1>9 DEF WithCollection
    <2>2. PICK row \in ObjectRow \cup {None} : row = objects[q.object]
      BY <1>3, <1>9
    <2> HIDE DEF l
    <2>3. r \in TxRow
      BY <1>1, <1>2, <2>1, <2>2 DEF TxRow
    <2> QED
      BY <1>2, <1>4, <1>9, <2>1, <2>2, <2>3 DEF TxRow, Alike, CollectionRow
  <1> QED
    BY <1>5, <1>6, <1>7, <1>8, <1>9 DEF Mutations

LEMMA LockCollectionKeeps == ASSUME IInv, NEW t \in Tx, LockCollection(t) PROVE IInv'
  <1> DEFINE q == tx[t]
  <1>1. /\ q \in TxRow /\ q.pc = "collection" /\ Free(t) /\ q.kind \in Mutations \cup {"drop"}
        /\ TxHolds(q) /\ Wanted(q) = {Collection(q.collection)}
        /\ ReadsHold(q) /\ OtherHolds(q)
        /\ q.kind \in Mutations => MutationHolds(q)
    BY AtHand, WhereItIs, WantedIs DEF LockCollection, At
  <1>2. CASE q.collection \notin collections /\ q.kind = "drop"
    BY <1>2, EndKeeps DEF LockCollection
  <1>3. CASE q.collection \notin collections /\ q.kind # "drop"
    <2>1. "save" \in Steps /\ Go(t, "save")
      BY <1>3 DEF Steps, LockCollection
    <2>2. PICK r \in TxRow : Move(t, r) /\ Alike(r, q) /\ r.pc = "save" /\ r.held = q.held
      BY <1>1, <2>1, GoRow
    <2>3. q.held = {Advisory(q.id)} /\ ~q.accepted
      BY <1>1, <1>3 DEF MutationHolds, Writing
    <2>4. MutationHolds(r) /\ ReadsHold(r)
      BY <1>1, <1>3, <2>2, <2>3, Names DEF MutationHolds, ReadsHold, Alike, Writing, Mutations
    <2> QED
      BY <1>1, <1>3, <2>2, <2>3, <2>4, MutationRow, StatementKeeps
         DEF Created, LockCollection, Alike
  <1>4. CASE q.collection \in collections
    <2>1. PICK r \in TxRow : Move(t, r) /\ CollectionRow(q, r)
      <3>1. q.kind \in {"update", "delete"} => q.object \in Objects
        BY <1>1 DEF MutationHolds, Mutations
      <3> QED
        BY <1>1, <1>4, <3>1, CollectionLocked DEF IInv, LockCollection
    <2>2. CASE q.kind = "drop"
      <3>1. q.held = {} /\ ~q.accepted /\ q.collection \in Collections
        BY <1>1, <2>2 DEF OtherHolds
      <3>2. /\ r.kind = "drop" /\ r.collection = q.collection /\ r.pc = "select_rows"
            /\ r.held = {Collection(r.collection)} /\ ~r.accepted
        BY <2>1, <2>2, <3>1 DEF CollectionRow
      <3>3. TxHolds(r)
        BY <1>4, <3>1, <3>2, Names, KindsAssumption
           DEF TxHolds, OtherHolds, ReadsHold, DropHolds, Mutations, Kinds
      <3> QED
        BY <1>1, <2>1, <3>2, <3>3, StatementKeeps DEF Created, LockCollection, CollectionRow
    <2>3. CASE q.kind \in Mutations
      <3>1. q.held = {Advisory(q.id)} /\ ~q.accepted /\ q.seen = None /\ MutationHolds(q)
        BY <1>1, <2>3, Names DEF MutationHolds, Writing
      <3>2. /\ r.kind = q.kind /\ r.collection = q.collection /\ r.object = q.object
            /\ r.blob = q.blob /\ r.id = q.id
            /\ r.held = {Advisory(r.id), Collection(r.collection)}
        BY <2>1, <3>1 DEF CollectionRow
      <3>3. /\ r.pc \in {"staged", "supersede", "save"}
            /\ r.pc = "staged" => r.kind # "delete" /\ (r.kind = "update" => r.seen # None)
            /\ r.pc = "supersede" <=> r.accepted
            /\ r.pc = "supersede" => r.kind = "delete" /\ r.seen # None
            /\ r.seen # None => /\ r.kind # "create" /\ r.seen.collection = r.collection
                                /\ objects[r.object] = r.seen
        BY <2>1, <2>3, <3>1 DEF CollectionRow, Mutations, Current
      <3>4. MutationHolds(r)
        BY <3>1, <3>2, <3>3, <2>3 DEF MutationHolds, Writing, Mutations
      <3>5. ReadsHold(r)
        BY <1>4, <3>1, <3>2, <3>3, <2>3, Names DEF MutationHolds, ReadsHold, Writing, Mutations
      <3> QED
        BY <1>1, <2>1, <2>3, <3>1, <3>2, <3>3, <3>4, <3>5, MutationRow, StatementKeeps
           DEF Created, LockCollection, Writing
    <2> QED
      BY <1>1, <2>2, <2>3
  <1> QED
    BY <1>2, <1>3, <1>4

\* A mutation that is refused goes on to save the refusal.
LEMMA RefusedKeeps ==
    ASSUME IInv, NEW t \in Tx, tx[t].kind \in Mutations, tx[t].pc \in {"staged", "blob"},
           NEW r \in TxRow, Move(t, r), UNCHANGED tables, Free(t), Alike(r, tx[t]),
           r.pc = "save", r.held = tx[t].held \cup Wanted(tx[t]) \/ r.held = tx[t].held
    PROVE  IInv'
  <1> DEFINE q == tx[t]
  <1>1. q \in TxRow /\ MutationHolds(q) /\ ReadsHold(q)
    BY AtHand
  <1>2. Wanted(q) = (IF q.pc = "blob" THEN {Ledger(q.blob)} ELSE {}) /\ q.blob \in Blobs
    BY <1>1, WantedIs DEF MutationHolds, TxRow, Mutations
  <1>3. ~q.accepted /\ q.held = {Advisory(q.id), Collection(q.collection)}
    BY <1>1 DEF MutationHolds, Writing
  <1>4. MutationHolds(r)
    BY <1>1, <1>2, <1>3 DEF MutationHolds, Alike, Writing, Ledgers
  <1>5. ReadsHold(r)
    BY <1>1, <1>2, <1>3, Names DEF ReadsHold, Alike, Mutations
  <1> QED
    BY <1>2, <1>3, <1>4, <1>5, MutationRow, StatementKeeps DEF Created, Alike

LEMMA FindBlobKeeps == ASSUME IInv, NEW t \in Tx, FindBlob(t) PROVE IInv'
  <1> DEFINE q == tx[t]
  <1>1. /\ q \in TxRow /\ q.pc = "staged" /\ Free(t)
        /\ q.kind \in {"create", "update", "delete_blob"} /\ TxHolds(q) /\ OtherHolds(q)
        /\ ReadsHold(q) /\ Wanted(q) = {}
        /\ q.kind \in Mutations => MutationHolds(q)
    BY AtHand, WhereItIs, WantedIs DEF FindBlob, At
  <1>2. "save" \in Steps /\ "blob" \in Steps
    BY DEF Steps
  <1>3. CASE Qualifies(q)
    <2>1. PICK r \in TxRow : Move(t, r) /\ Alike(r, q) /\ r.pc = "blob" /\ r.held = q.held
      BY <1>1, <1>2, <1>3, GoRow DEF FindBlob
    <2>2. CASE q.kind = "delete_blob"
      <3>1. r.kind = "delete_blob" /\ r.held = {} /\ r.blob \in Blobs
        BY <1>1, <2>1, <2>2 DEF OtherHolds, Alike
      <3>2. TxHolds(r)
        BY <2>1, <3>1, KindsAssumption DEF TxHolds, OtherHolds, ReadsHold, Kinds, Mutations
      <3> QED
        BY <1>1, <2>1, <3>1, <3>2, StatementKeeps DEF FindBlob, Created
    <2>3. CASE q.kind \in Mutations
      <3>1. ~q.accepted /\ r.kind \in Mutations /\ r.pc \notin Writing
        BY <1>1, <2>1, <2>3 DEF MutationHolds, Alike, Writing
      <3>2. MutationHolds(r)
        BY <1>1, <2>1, <2>3, <3>1 DEF MutationHolds, Alike, Writing
      <3>3. ReadsHold(r)
        BY <1>1, <2>1, <2>3, <3>1 DEF ReadsHold, Alike, Mutations
      <3> QED
        BY <1>1, <2>1, <3>1, <3>2, <3>3, MutationRow, StatementKeeps DEF FindBlob, Created
    <2> QED
      BY <1>1, <2>2, <2>3 DEF Mutations
  <1>4. CASE ~Qualifies(q) /\ q.kind \in Mutations
    <2>1. PICK r \in TxRow : Move(t, r) /\ Alike(r, q) /\ r.pc = "save" /\ r.held = q.held
      BY <1>1, <1>2, <1>4, GoRow DEF FindBlob, NotQualified
    <2> QED
      BY <1>1, <1>4, <2>1, RefusedKeeps DEF FindBlob
  <1>5. CASE ~Qualifies(q) /\ q.kind \notin Mutations
    BY <1>5, EndKeeps DEF FindBlob, NotQualified
  <1> QED
    BY <1>3, <1>4, <1>5

LEMMA LockBlobKeeps == ASSUME IInv, NEW t \in Tx, LockBlob(t) PROVE IInv'
  <1> DEFINE q == tx[t]
             next == CASE q.kind = "create" -> "insert"
                       [] q.kind = "update" -> "supersede"
                       [] OTHER             -> "commit"
             L == {Ledger(q.blob)}
  <1>1. /\ q \in TxRow /\ q.pc = "blob" /\ Free(t)
        /\ q.kind \in {"create", "update", "delete_blob"} /\ TxHolds(q) /\ OtherHolds(q)
        /\ ReadsHold(q) /\ Wanted(q) = L
        /\ q.kind \in Mutations => MutationHolds(q)
    BY AtHand, WhereItIs, WantedIs DEF LockBlob, At
  <1>2. q.blob \in Blobs
    BY <1>1 DEF MutationHolds, OtherHolds, TxRow, Mutations
  <1>3. L \subseteq Lockable /\ "save" \in Steps /\ next \in Steps
    BY <1>2, LockableLocks DEF Steps
  <1>4. CASE Qualifies(q)
    <2>1. PICK r : r = [q EXCEPT !.held = @ \cup L, !.accepted = TRUE, !.pc = next]
      OBVIOUS
    <2>2. Move(t, r)
      BY <1>4, <2>1 DEF LockBlob
    <2> HIDE DEF next, L
    <2>3. /\ r \in TxRow /\ r.kind = q.kind /\ r.collection = q.collection
          /\ r.object = q.object /\ r.blob = q.blob /\ r.id = q.id /\ r.seen = q.seen
          /\ r.held = q.held \cup L /\ r.accepted = TRUE /\ r.pc = next
      BY <1>1, <1>3, <2>1 DEF TxRow
    <2>4. CASE q.kind = "delete_blob"
      <3>1. next = "commit" /\ ledger[q.blob] # None /\ q.held = {}
        BY <1>1, <1>4, <2>4 DEF next, Qualifies, OtherHolds
      <3>2. TxHolds(r)
        BY <1>2, <2>3, <2>4, <3>1, KindsAssumption
           DEF TxHolds, OtherHolds, ReadsHold, Kinds, Mutations, L
      <3> QED
        BY <1>1, <2>2, <2>3, <2>4, <3>2, StatementKeeps DEF LockBlob, Created, L
    <2>5. CASE q.kind \in Mutations
      <3>1. /\ next = (IF q.kind = "create" THEN "insert" ELSE "supersede")
            /\ Claimable(q.blob) /\ q.kind \in {"create", "update"}
        BY <1>1, <1>4, <2>5 DEF next, Qualifies, Mutations
      <3>2. q.held = {Advisory(q.id), Collection(q.collection)}
        BY <1>1, <2>5 DEF MutationHolds
      <3>3. /\ q.collection \in Collections /\ q.id \in MutationIDs /\ q.blob # None
            /\ q.kind = "update" => q.object \in Objects /\ q.seen # None
            /\ q.seen # None => q.kind # "create" /\ q.seen.collection = q.collection
        BY <1>1, <2>5, <3>1 DEF MutationHolds
      <3>4. MutationHolds(r)
        BY <2>3, <3>1, <3>2, <3>3 DEF MutationHolds, Writing, L
      <3>5. ReadsHold(r)
        BY <1>1, <2>3, <2>5, <3>1, <3>2 DEF ReadsHold, Mutations, Writing, L
      <3> QED
        BY <1>1, <2>2, <2>3, <2>5, <3>1, <3>4, <3>5, MutationRow, StatementKeeps
           DEF LockBlob, Created, Writing, L
    <2> QED
      BY <1>1, <2>4, <2>5 DEF Mutations
  <1>5. CASE ledger[q.blob] # None /\ ~Qualifies(q)
    <2>1. q.kind \in Mutations /\ Take(t, "save")
      BY <1>1, <1>5 DEF LockBlob, Qualifies, Mutations
    <2>2. PICK r \in TxRow : /\ Move(t, r) /\ Alike(r, q) /\ r.pc = "save"
                             /\ r.held = q.held \cup Wanted(q)
      BY <1>1, <1>3, <2>1, TakeRow
    <2> QED
      BY <1>1, <2>1, <2>2, RefusedKeeps DEF LockBlob
  <1>6. CASE ledger[q.blob] = None /\ ~Qualifies(q) /\ q.kind \in Mutations
    <2>1. Go(t, "save")
      BY <1>6 DEF LockBlob, NotQualified
    <2>2. PICK r \in TxRow : Move(t, r) /\ Alike(r, q) /\ r.pc = "save" /\ r.held = q.held
      BY <1>1, <1>3, <2>1, GoRow
    <2> QED
      BY <1>1, <1>6, <2>2, RefusedKeeps DEF LockBlob
  <1>7. CASE ledger[q.blob] = None /\ ~Qualifies(q) /\ q.kind \notin Mutations
    BY <1>7, EndKeeps DEF LockBlob, NotQualified
  <1> QED
    BY <1>4, <1>5, <1>6, <1>7

LEMMA InsertKeeps == ASSUME IInv, NEW t \in Tx, Insert(t) PROVE IInv'
  <1> DEFINE q == tx[t]
             L == {UserShare}
  <1>1. /\ q \in TxRow /\ q.pc = "insert" /\ Free(t) /\ q.kind \in Mutations
        /\ MutationHolds(q) /\ ReadsHold(q) /\ Wanted(q) = L /\ L \subseteq Lockable
        /\ "save" \in Steps
    BY AtHand, WhereItIs, WantedIs, LockableLocks DEF Insert, At, Steps
  <1>2. PICK o \in Objects : /\ objects[o] = None /\ \A u \in Tx : tx[u].object # o
                             /\ Move(t, [q EXCEPT !.object = o, !.pc = "save",
                                                  !.held = @ \cup L])
    BY DEF Insert
  <1>3. PICK r : r = [q EXCEPT !.object = o, !.pc = "save", !.held = @ \cup L]
    OBVIOUS
  <1>4. /\ r \in TxRow /\ r.kind = q.kind /\ r.collection = q.collection
        /\ r.object = o /\ r.blob = q.blob /\ r.id = q.id /\ r.seen = q.seen
        /\ r.held = q.held \cup L /\ r.accepted = q.accepted /\ r.pc = "save"
    <2> HIDE DEF L
    <2> QED
      BY <1>1, <1>3 DEF TxRow
  <1>5. /\ q.held = {Advisory(q.id), Collection(q.collection), Ledger(q.blob)}
        /\ q.kind = "create" /\ q.accepted /\ q.seen = None
        /\ q.collection \in Collections /\ q.id \in MutationIDs /\ q.blob \in Blobs
    BY <1>1 DEF MutationHolds, TxRow
  <1>6. MutationHolds(r)
    BY <1>4, <1>5, NoneAssumption DEF MutationHolds, Writing, Ledgers
  <1>7. ReadsHold(r)
    BY <1>1, <1>2, <1>4, <1>5 DEF ReadsHold, Mutations
  <1>8. \A u \in Tx \ {t} : r.held \cap tx[u].held \subseteq {UserShare}
    BY <1>1, <1>4, FreeLocks DEF IInv, Exclusive
  <1>9. Move(t, r) /\ \A u \in Tx : r.object # tx[u].object
    BY <1>2, <1>3, <1>4
  <1> QED
    BY <1>1, <1>4, <1>6, <1>7, <1>8, <1>9, MutationRow, MoveKeeps DEF Insert

LEMMA SupersedeKeeps == ASSUME IInv, NEW t \in Tx, Supersede(t) PROVE IInv'
  <1> DEFINE q == tx[t]
  <1>1. /\ q \in TxRow /\ q.pc = "supersede" /\ Free(t) /\ q.kind \in Mutations
        /\ MutationHolds(q) /\ ReadsHold(q) /\ "save" \in Steps
        /\ Wanted(q) = IF Claimed(q.seen.blob) THEN {Ledger(q.seen.blob)} ELSE {}
    BY AtHand, WhereItIs, WantedIs DEF Supersede, At, Steps
  <1>2. q.seen \in ObjectRow /\ q.accepted /\ q.kind # "create"
    BY <1>1 DEF MutationHolds, TxRow
  <1>3. Wanted(q) \subseteq Ledgers /\ Ledgers \subseteq Lockable
    BY <1>1, <1>2, LockableLocks DEF Ledgers, ObjectRow
  <1>4. PICK r \in TxRow : /\ Move(t, r) /\ Alike(r, q) /\ r.pc = "save"
                           /\ r.held = q.held \cup Wanted(q)
    BY <1>1, <1>3, TakeRow DEF Supersede
  <1>5. MutationHolds(r)
    <2>1. q.kind = "update" => q.blob \in Blobs
      BY <1>1 DEF MutationHolds, TxRow
    <2> QED
      BY <1>1, <1>2, <1>3, <1>4, <2>1 DEF MutationHolds, Alike, Writing, Ledgers
  <1>6. ReadsHold(r)
    <2>1. q.collection \in collections
      BY <1>1, <1>2 DEF MutationHolds, ReadsHold, Mutations
    <2> QED
      BY <1>1, <1>2, <1>4, <2>1 DEF ReadsHold, Alike, Mutations
  <1> QED
    BY <1>1, <1>2, <1>4, <1>5, <1>6, MutationRow, StatementKeeps DEF Supersede, Created, Alike

\* The two statements of a mutation's end keep what it wrote and take its result.
LEMMA SavedKeeps ==
    ASSUME IInv, NEW t \in Tx, Free(t), UNCHANGED tables, tx[t].pc \in {"save", "save_owner"},
           NEW pc \in Writing \ {"save"}, Take(t, pc)
    PROVE  IInv'
  <1> DEFINE q == tx[t]
  <1>1. /\ q \in TxRow /\ q.kind \in Mutations /\ MutationHolds(q) /\ ReadsHold(q)
        /\ Wanted(q) = (IF q.pc = "save" THEN {Result(q.id)} ELSE {UserShare})
        /\ pc \in Steps
    BY AtHand, WhereItIs, WantedIs DEF Writing, Steps
  <1>2. Wanted(q) \subseteq {Result(q.id), UserShare} /\ Wanted(q) \subseteq Lockable
    BY <1>1, LockableLocks DEF MutationHolds
  <1>3. PICK r \in TxRow : /\ Move(t, r) /\ Alike(r, q) /\ r.pc = pc
                           /\ r.held = q.held \cup Wanted(q)
    BY <1>1, <1>2, TakeRow
  <1>4. \A c : Collection(c) \in r.held <=> Collection(c) \in q.held
    BY <1>2, <1>3, Names
  <1>5. MutationHolds(r)
    BY <1>1, <1>2, <1>3, <1>4 DEF MutationHolds, Alike, Writing
  <1>6. ReadsHold(r)
    BY <1>1, <1>3, <1>4 DEF ReadsHold, Alike, Mutations, Writing
  <1> QED
    BY <1>1, <1>3, <1>5, <1>6, MutationRow, StatementKeeps DEF Created, Alike, Writing

LEMMA SaveResultKeeps == ASSUME IInv, NEW t \in Tx, SaveResult(t) PROVE IInv'
  <1>1. \E pc \in Writing \ {"save"} : Take(t, pc)
    BY DEF SaveResult, Writing
  <1> QED
    BY <1>1, SavedKeeps DEF SaveResult, At

LEMMA SaveOwnerKeeps == ASSUME IInv, NEW t \in Tx, SaveOwner(t) PROVE IInv'
  <1>1. \E pc \in Writing \ {"save"} : Take(t, pc)
    BY DEF SaveOwner, Writing
  <1> QED
    BY <1>1, SavedKeeps DEF SaveOwner, At

-----------------------------------------------------------------------------
(* The statements of the rest *)

LEMMA PurgeRowKeeps == ASSUME IInv, NEW t \in Tx, PurgeRow(t) PROVE IInv'
  <1> DEFINE q == tx[t]
             L == {Ledger(q.blob)}
  <1>1. /\ q \in TxRow /\ q.kind = "purge" /\ OtherHolds(q) /\ q.blob \in Blobs
        /\ L \subseteq Lockable /\ "commit" \in Steps
    BY AtHand, LockableLocks, ZenonT(60) DEF PurgeRow, OtherHolds, Steps
  <1>2. CASE Qualifies(q) /\ \A u \in Tx : Ledger(q.blob) \notin tx[u].held
    <2>1. PICK r : r = [q EXCEPT !.held = L, !.pc = "commit"]
      OBVIOUS
    <2>2. Move(t, r)
      BY <1>2, <2>1 DEF PurgeRow
    <2>3. Purgeable(q.blob) /\ ledger[q.blob] # None
      BY <1>1, <1>2 DEF Qualifies, Purgeable
    <2> HIDE DEF L
    <2>4. r \in TxRow /\ r.kind = "purge" /\ r.blob = q.blob /\ r.pc = "commit" /\ r.held = L
      BY <1>1, <2>1 DEF TxRow
    <2>5. TxHolds(r)
      BY <1>1, <2>3, <2>4, KindsAssumption
         DEF TxHolds, OtherHolds, ReadsHold, Kinds, Mutations, L
    <2>6. \A u \in Tx \ {t} : r.held \cap tx[u].held \subseteq {UserShare}
      BY <1>2, <2>4 DEF L
    <2> QED
      BY <2>2, <2>4, <2>5, <2>6, MoveKeeps DEF PurgeRow, Created
  <1>3. CASE ~(Qualifies(q) /\ \A u \in Tx : Ledger(q.blob) \notin tx[u].held)
    BY <1>3, EndKeeps DEF PurgeRow
  <1> QED
    BY <1>2, <1>3

LEMMA LockUserKeeps == ASSUME IInv, NEW t \in Tx, LockUser(t) PROVE IInv'
  <1> DEFINE q == tx[t]
  <1>1. /\ q \in TxRow /\ q.pc = "user" /\ Free(t) /\ q.kind = "claim" /\ OtherHolds(q)
        /\ Wanted(q) = {User} /\ {User} \subseteq Lockable /\ "select_rows" \in Steps
    BY AtHand, WhereItIs, WantedIs, LockableLocks DEF LockUser, At, Steps
  <1>2. PICK r \in TxRow : /\ Move(t, r) /\ Alike(r, q) /\ r.pc = "select_rows"
                           /\ r.held = q.held \cup {User}
    BY <1>1, TakeRow DEF LockUser
  <1>3. r.kind = "claim" /\ r.held = {User}
    BY <1>1, <1>2 DEF OtherHolds, Alike
  <1>4. TxHolds(r)
    BY <1>2, <1>3, KindsAssumption DEF TxHolds, OtherHolds, ReadsHold, Kinds, Mutations
  <1> QED
    BY <1>1, <1>2, <1>3, <1>4, StatementKeeps DEF LockUser, Created

LEMMA ClaimCollectionKeeps == ASSUME IInv, NEW t \in Tx, ClaimCollection(t) PROVE IInv'
  <1> DEFINE q == tx[t]
  <1>1. /\ q \in TxRow /\ q.pc = "select_rows" /\ q.kind = "claim" /\ OtherHolds(q)
        /\ q.held = {User} /\ "commit" \in Steps /\ Free(t)
    BY AtHand DEF ClaimCollection, At, OtherHolds, Steps
  <1>2. CASE collections # {}
    BY <1>2, EndKeeps DEF ClaimCollection
  <1>3. CASE collections = {}
    <2>1. PICK c \in Collections : Move(t, [q EXCEPT !.collection = c, !.pc = "commit"])
      BY <1>3 DEF ClaimCollection
    <2>2. PICK r : r = [q EXCEPT !.collection = c, !.pc = "commit"]
      OBVIOUS
    <2>3. /\ Move(t, r) /\ r \in TxRow /\ r.kind = "claim" /\ r.pc = "commit"
          /\ r.held = {User} /\ r.collection = c
      BY <1>1, <2>1, <2>2 DEF TxRow
    <2>4. TxHolds(r)
      BY <1>3, <2>3, KindsAssumption DEF TxHolds, OtherHolds, ReadsHold, Kinds, Mutations
    <2> QED
      BY <1>1, <2>3, <2>4, StatementKeeps DEF ClaimCollection, Created
  <1> QED
    BY <1>2, <1>3

LEMMA EndStatementKeeps == ASSUME IInv, NEW t \in Tx, EndStatement(t) PROVE IInv'
  <1> DEFINE q == tx[t]
  <1>1. /\ q \in TxRow /\ q.pc = "rows" /\ q.rows = <<>> /\ OtherHolds(q) /\ ReadsHold(q)
        /\ q.kind \in {"drop", "expire_pending", "expire_other"} /\ Free(t)
        /\ q.kind = "drop" => DropHolds(q)
    BY AtHand, WhereItIs DEF EndStatement, At
  <1>2. "select_rows" \in Steps /\ "commit" \in Steps
    BY DEF Steps
  <1>3. CASE q.kind = "drop" /\ ~q.accepted
    <2>1. PICK r : r = [q EXCEPT !.accepted = TRUE, !.pc = "select_rows"]
      OBVIOUS
    <2>2. /\ Move(t, r) /\ r \in TxRow /\ r.kind = "drop" /\ r.pc = "select_rows" /\ r.accepted
          /\ r.held = q.held /\ r.collection = q.collection
      BY <1>1, <1>2, <1>3, <2>1 DEF TxRow, EndStatement
    <2>3. OtherHolds(r)
      BY <1>1, <1>3, <2>2 DEF OtherHolds
    <2>4. ReadsHold(r)
      BY <1>1, <1>3, <2>2 DEF ReadsHold, Mutations
    <2>5. DropHolds(r)
      BY <1>1, <1>3, <2>2 DEF DropHolds, Listed
    <2> QED
      BY <1>1, <2>2, <2>3, <2>4, <2>5, StatementKeeps
         DEF EndStatement, Created, TxHolds, Mutations
  <1>4. CASE ~(q.kind = "drop" /\ ~q.accepted)
    <2>1. PICK r \in TxRow : Move(t, r) /\ Alike(r, q) /\ r.pc = "commit" /\ r.held = q.held
      BY <1>1, <1>2, <1>4, GoRow DEF EndStatement
    <2>2. OtherHolds(r)
      BY <1>1, <1>4, <2>1 DEF OtherHolds, Alike
    <2>3. ReadsHold(r)
      BY <1>1, <1>4, <2>1 DEF ReadsHold, Mutations, Alike
    <2>4. r.kind = "drop" => DropHolds(r)
      BY <1>1, <1>4, <2>1 DEF DropHolds, Alike
    <2> QED
      BY <1>1, <2>1, <2>2, <2>3, <2>4, StatementKeeps
         DEF EndStatement, Created, TxHolds, Mutations, Alike
  <1> QED
    BY <1>3, <1>4

\* The rows a statement finds, in any order.
LEMMA MatchingRows ==
    ASSUME NEW q
    PROVE  /\ Matching(q) \subseteq Ledgers \cup Results
           /\ q.kind # "drop" \/ q.accepted => Matching(q) \subseteq Results
           /\ q.kind = "drop" /\ ~q.accepted =>
                /\ Matching(q) \subseteq Ledgers
                /\ \A k \in Blobs : Ledger(k) \in Matching(q) <=> BlobOf(q.collection, k)
           /\ IsFiniteSet(Matching(q))
  <1>1. IsFiniteSet(Ledgers) /\ IsFiniteSet(Results)
    <2> DEFINE f == [k \in Blobs |-> Ledger(k)]
               g == [m \in MutationIDs |-> Result(m)]
    <2>1. f \in Surjection(Blobs, Ledgers) /\ g \in Surjection(MutationIDs, Results)
      BY DEF Surjection, Ledgers, Results
    <2> HIDE DEF f, g
    <2> QED
      BY <2>1, FiniteAssumption, FS_Surjection
  <1>2. /\ Matching(q) \subseteq Ledgers \cup Results
        /\ q.kind # "drop" \/ q.accepted => Matching(q) \subseteq Results
        /\ q.kind = "drop" /\ ~q.accepted => Matching(q) \subseteq Ledgers
    BY DEF Matching, Ledgers, Results
  <1>3. q.kind = "drop" /\ ~q.accepted =>
          \A k \in Blobs : Ledger(k) \in Matching(q) <=> BlobOf(q.collection, k)
    BY Names DEF Matching
  <1>4. IsFiniteSet(Matching(q))
    BY <1>1, <1>2, FS_Union, FS_Subset
  <1> QED
    BY <1>2, <1>3, <1>4

\* Whatever the order, each is in the list.
LEMMA EveryRowListed ==
    ASSUME NEW S, IsFiniteSet(S), NEW s \in SetToSeqs(S)
    PROVE  s \in Seq(S) /\ \A l \in S : \E i \in DOMAIN s : s[i] = l
  <1> DEFINE D == 1 .. Cardinality(S)
  <1>1. Cardinality(S) \in Nat
    BY FS_CardinalityType
  <1>2. s \in Injection(D, S)
    BY DEF SetToSeqs, Injection, IsInjective
  <1>3. IsFiniteSet(D) /\ Cardinality(D) = Cardinality(S)
    BY <1>1, FS_Interval
  <1> HIDE DEF D
  <1>4. s \in Surjection(D, S)
    BY <1>2, <1>3, FS_Injection
  <1>5. s \in [D -> S] /\ \A l \in S : \E i \in D : s[i] = l
    BY <1>4 DEF Surjection
  <1> QED
    BY <1>1, <1>5 DEF D

LEMMA SelectRowsKeeps == ASSUME IInv, NEW t \in Tx, SelectRows(t) PROVE IInv'
  <1> DEFINE q == tx[t]
  <1>1. /\ q \in TxRow /\ q.pc = "select_rows" /\ OtherHolds(q) /\ ReadsHold(q) /\ Free(t)
        /\ q.kind \in {"drop", "expire_pending", "expire_other"}
        /\ q.kind = "drop" => DropHolds(q)
    BY AtHand, WhereItIs DEF SelectRows, At
  <1>2. PICK s \in SetToSeqs(Matching(q)) : Move(t, [q EXCEPT !.rows = s, !.pc = "rows"])
    BY DEF SelectRows
  <1>3. s \in Seq(Matching(q)) /\ \A l \in Matching(q) : \E i \in DOMAIN s : s[i] = l
    BY MatchingRows, EveryRowListed
  <1>4. s \in Seq(Lockable) /\ "rows" \in Steps
    <2>1. Matching(q) \subseteq Lockable
      BY MatchingRows, LockableLocks DEF Ledgers, Results
    <2> QED
      BY <1>3, <2>1 DEF Steps
  <1>5. PICK r : r = [q EXCEPT !.rows = s, !.pc = "rows"]
    OBVIOUS
  <1>6. /\ Move(t, r) /\ r \in TxRow /\ r.kind = q.kind /\ r.collection = q.collection
        /\ r.pc = "rows" /\ r.held = q.held /\ r.accepted = q.accepted /\ r.rows = s
    BY <1>1, <1>2, <1>4, <1>5 DEF TxRow
  <1>7. OtherHolds(r)
    <2>1. /\ q.kind # "drop" \/ q.accepted => s \in Seq(Results)
          /\ q.kind = "drop" /\ ~q.accepted => s \in Seq(Ledgers)
      BY <1>3, MatchingRows
    <2> QED
      BY <1>1, <1>6, <2>1 DEF OtherHolds
  <1>8. ReadsHold(r)
    BY <1>1, <1>6 DEF ReadsHold, Mutations
  <1>9. ASSUME r.kind = "drop" PROVE DropHolds(r)
    <2>1. CASE q.accepted
      BY <1>1, <1>6, <1>9, <2>1 DEF DropHolds
    <2>2. CASE ~q.accepted
      BY <1>1, <1>3, <1>6, <1>9, <2>2, MatchingRows DEF DropHolds, Listed
    <2> QED
      BY <2>1, <2>2
  <1> QED
    BY <1>1, <1>6, <1>7, <1>8, <1>9, StatementKeeps DEF SelectRows, Created, TxHolds, Mutations

LEMMA LockRowKeeps == ASSUME IInv, NEW t \in Tx, LockRow(t) PROVE IInv'
  <1> DEFINE q == tx[t]
             W == Wanted(q) \cap StillThere(q)
  <1>1. /\ q \in TxRow /\ q.pc = "rows" /\ OtherHolds(q) /\ ReadsHold(q) /\ Free(t)
        /\ q.kind \in {"drop", "expire_pending", "expire_other"} /\ q.rows # <<>>
        /\ q.kind = "drop" => DropHolds(q)
        /\ Wanted(q) = {Head(q.rows)}
    BY AtHand, WhereItIs, WantedIs DEF LockRow, At
  <1>2. /\ Tail(q.rows) \in Seq(Lockable)
        /\ \A l : Listed(q, l) => l = Head(q.rows) \/ \E i \in DOMAIN Tail(q.rows) : Tail(q.rows)[i] = l
    <2>1. PICK s \in Seq(Lockable) : s = q.rows /\ s # <<>>
      BY <1>1 DEF TxRow
    <2>2. Tail(s) \in Seq(Lockable)
      BY <2>1
    <2>3. ASSUME NEW i \in DOMAIN s
          PROVE  s[i] = Head(s) \/ \E j \in DOMAIN Tail(s) : Tail(s)[j] = s[i]
      <3>1. CASE i = 1
        BY <2>1, <3>1
      <3>2. CASE i # 1
        <4>1. i - 1 \in DOMAIN Tail(s) /\ Tail(s)[i - 1] = s[i]
          BY <2>1, <2>3, <3>2
        <4> QED
          BY <4>1
      <3> QED
        BY <3>1, <3>2
    <2> QED
      BY <2>1, <2>2, <2>3 DEF Listed
  <1>3. /\ W \subseteq Lockable
        /\ q.kind # "drop" \/ q.accepted => W \subseteq Results
        /\ q.kind = "drop" /\ ~q.accepted =>
             /\ W \subseteq Ledgers
             /\ \A k \in Blobs : Ledger(k) \in W => BlobOf(q.collection, k)
             /\ \A k \in Blobs : BlobOf(q.collection, k) /\ Ledger(k) = Head(q.rows) =>
                  Ledger(k) \in W
    <2>1. q.kind # "drop" => StillThere(q) \subseteq Results
      BY DEF StillThere, Results
    <2>2. q.kind = "drop" => StillThere(q) = Matching(q)
      BY DEF StillThere
    <2> QED
      BY <1>1, <2>1, <2>2, MatchingRows, LockableLocks DEF Ledgers, Results
  <1>4. PICK r : r = [q EXCEPT !.rows = Tail(@), !.held = @ \cup W]
    OBVIOUS
  <1>5. Move(t, r)
    BY <1>4 DEF LockRow
  <1>6. W \subseteq Wanted(q)
    OBVIOUS
  <1> HIDE DEF W
  <1>7. /\ r \in TxRow /\ r.kind = q.kind /\ r.collection = q.collection
        /\ r.pc = "rows" /\ r.held = q.held \cup W /\ r.accepted = q.accepted
        /\ r.rows = Tail(q.rows)
    BY <1>1, <1>2, <1>3, <1>4 DEF TxRow
  <1>8. OtherHolds(r)
    <2>1. /\ q.kind # "drop" \/ q.accepted => Tail(q.rows) \in Seq(Results)
          /\ q.kind = "drop" /\ ~q.accepted => Tail(q.rows) \in Seq(Ledgers)
      <3>1. \A S : q.rows \in Seq(S) => Tail(q.rows) \in Seq(S)
        BY <1>1
      <3> QED
        BY <1>1, <3>1 DEF OtherHolds
    <2> QED
      BY <1>1, <1>3, <1>7, <2>1 DEF OtherHolds
  <1>9. ReadsHold(r)
    BY <1>1, <1>3, <1>7, Names DEF ReadsHold, Mutations, OtherHolds
  <1>10. ASSUME r.kind = "drop" PROVE DropHolds(r)
    <2>1. CASE q.accepted
      <3>1. \A k : Ledger(k) \notin W
        BY <1>3, <2>1, Names DEF Results
      <3> QED
        BY <1>1, <1>7, <1>10, <2>1, <3>1 DEF DropHolds
    <2>2. CASE ~q.accepted
      <3>1. ASSUME NEW k \in Blobs, Ledger(k) \in r.held PROVE BlobOf(r.collection, k)
        BY <1>1, <1>3, <1>7, <1>10, <2>2, <3>1 DEF DropHolds
      <3>2. ASSUME NEW k \in Blobs, BlobOf(r.collection, k), Ledger(k) \notin r.held
            PROVE  Listed(r, Ledger(k))
        <4>1. Listed(q, Ledger(k))
          BY <1>1, <1>7, <1>10, <2>2, <3>2 DEF DropHolds
        <4>2. Ledger(k) # Head(q.rows)
          BY <1>3, <1>7, <1>10, <2>2, <3>2
        <4> QED
          BY <1>2, <1>7, <4>1, <4>2 DEF Listed
      <3> QED
        BY <1>7, <2>2, <3>1, <3>2 DEF DropHolds
    <2> QED
      BY <2>1, <2>2
  <1> QED
    BY <1>1, <1>5, <1>6, <1>7, <1>8, <1>9, <1>10, StatementKeeps
       DEF LockRow, Created, TxHolds, Mutations

-----------------------------------------------------------------------------
(* Commits *)

\* A commit keeps the invariant when the tables it leaves are sound and what the
\* others have read is still so.
LEMMA CommitKeeps ==
    ASSUME IInv, NEW t \in Tx, End(t),
           /\ collections' \subseteq Collections
           /\ objects' \in [Objects -> ObjectRow \cup {None}]
           /\ ledger' \in [Blobs -> LedgerRow \cup {None}]
           /\ results' \in [MutationIDs -> ResultRow \cup {None}],
           ObjectsHoldTheirBlobs',
           \A u \in Tx \ {t} : tx'[u] = tx[u] =>
             ReadsHold(tx[u])' /\ (tx[u].kind = "drop" => DropHolds(tx[u])')
    PROVE  IInv'
  <1> DEFINE r == [Idle EXCEPT !.pc = "ended"]
  <1>1. r \in TxRow /\ r.kind = None /\ r.held = {} /\ r.pc = "ended"
    BY IdleRow DEF Idle
  <1>2. \A q : q.kind = None /\ q.held = {} /\ q.pc = "ended" => TxHolds(q)'
    BY KindsAssumption DEF TxHolds, OtherHolds, ReadsHold, Kinds, Mutations
  <1>3. tx' = [tx EXCEPT ![t] = r]
    BY DEF End, Move
  <1> HIDE DEF r
  <1>4. /\ tx' \in [Tx -> TxRow] /\ tx'[t] = r /\ \A u \in Tx \ {t} : tx'[u] = tx[u]
    BY <1>1, <1>3 DEF IInv, Typed
  <1>5. Exclusive'
    BY <1>1, <1>4, KindsAssumption DEF IInv, Exclusive, Created, Kinds, Mutations
  <1>6. \A u \in Tx : TxHolds(tx[u])'
    <2>1. TxHolds(tx[t])'
      BY <1>1, <1>2, <1>4
    <2>2. ASSUME NEW u \in Tx \ {t} PROVE TxHolds(tx[u])'
      <3>1. ReadsHold(tx[u])' /\ (tx[u].kind = "drop" => DropHolds(tx[u])') /\ tx'[u] = tx[u]
        BY <1>4
      <3> QED
        BY <3>1 DEF IInv, TxHolds
    <2> QED
      BY <2>1, <2>2
  <1> QED
    BY <1>4, <1>5, <1>6 DEF IInv, Typed

\* What t has locked, nobody else has.
LEMMA NobodyElse ==
    ASSUME IInv, NEW t \in Tx, NEW u \in Tx \ {t}, NEW l \in tx[t].held, l # UserShare
    PROVE  l \notin tx[u].held
  BY DEF IInv, Exclusive

LEMMA CommitPrepareKeeps == ASSUME IInv, NEW t \in Tx, CommitPrepare(t) PROVE IInv'
  <1> DEFINE q == tx[t]
  <1>1. /\ q \in TxRow /\ q.pc = "prepare_owner" /\ q.kind \in Mutations /\ MutationHolds(q)
        /\ ReadsHold(q) /\ "advisory" \in Steps
    BY AtHand, WhereItIs DEF CommitPrepare, At, Steps
  <1>2. PICK r : r = [q EXCEPT !.pc = "advisory", !.held = {}, !.prepared = TRUE]
    OBVIOUS
  <1>3. /\ Move(t, r) /\ r \in TxRow /\ r.kind = q.kind /\ r.collection = q.collection
        /\ r.object = q.object /\ r.blob = q.blob /\ r.id = q.id /\ r.seen = q.seen
        /\ r.held = {} /\ r.accepted = q.accepted /\ r.pc = "advisory"
    BY <1>1, <1>2 DEF TxRow, CommitPrepare
  <1>4. ~q.accepted /\ q.seen = None
    BY <1>1, Names DEF MutationHolds, Writing
  <1>5. MutationHolds(r) /\ ReadsHold(r)
    BY <1>1, <1>3, <1>4 DEF MutationHolds, ReadsHold, Writing, Mutations
  <1>6. results' \in [MutationIDs -> ResultRow \cup {None}]
    <2>0. PICK age \in {0, 1} :
            results' = [results EXCEPT ![q.id] =
                          [collection |-> q.collection, status |-> "pending", age |-> age]]
      BY DEF CommitPrepare
    <2> DEFINE row == [collection |-> q.collection, status |-> "pending", age |-> age]
    <2>1. row \in ResultRow
      BY <1>1 DEF MutationHolds, ResultRow
    <2>2. results' = [results EXCEPT ![q.id] = row]
      BY <2>0
    <2> HIDE DEF row
    <2> QED
      BY <2>1, <2>2 DEF IInv, Typed
  <1> QED
    BY <1>1, <1>3, <1>5, <1>6, MutationRow, MoveKeepsRest DEF CommitPrepare, Created, Writing

LEMMA RemainingResults ==
    ASSUME IInv, NEW q PROVE Remaining(q) \in [MutationIDs -> ResultRow \cup {None}]
  BY DEF Remaining, IInv, Typed

LEMMA CommitExpiryKeeps == ASSUME IInv, NEW t \in Tx, CommitExpiry(t) PROVE IInv'
  <1> DEFINE r == [Idle EXCEPT !.pc = "ended"]
  <1>1. r \in TxRow /\ r.kind = None /\ r.held = {} /\ r.pc = "ended" /\ Move(t, r)
    BY IdleRow DEF Idle, CommitExpiry, End
  <1>2. results' \in [MutationIDs -> ResultRow \cup {None}]
    BY RemainingResults DEF CommitExpiry
  <1> HIDE DEF r
  <1>3. TxHolds(r)
    BY <1>1, KindsAssumption DEF TxHolds, OtherHolds, ReadsHold, Kinds, Mutations
  <1> QED
    BY <1>1, <1>2, <1>3, MoveKeepsRest, KindsAssumption
       DEF CommitExpiry, Created, Kinds, Mutations

LEMMA CommitClaimKeeps == ASSUME IInv, NEW t \in Tx, CommitClaim(t) PROVE IInv'
  <1> DEFINE q == tx[t]
  <1>1. q \in TxRow /\ q.kind = "claim" /\ q.held = {User} /\ q.collection \in Collections
    BY AtHand DEF CommitClaim, At, OtherHolds
  <1>2. PICK c \in Collections : collections' = collections \cup {c}
    BY <1>1 DEF CommitClaim
  <1>3. ObjectsHoldTheirBlobs'
    BY <1>2 DEF CommitClaim, IInv, ObjectsHoldTheirBlobs, EachHoldsItsBlob, KeptFor
  <1>4. ASSUME NEW u \in Tx \ {t}, tx'[u] = tx[u]
        PROVE  ReadsHold(tx[u])' /\ (tx[u].kind = "drop" => DropHolds(tx[u])')
    <2>1. PICK v : v = tx[u]
      OBVIOUS
    <2>2. /\ ReadsHold(v) /\ OtherHolds(v) /\ User \notin v.held
          /\ v.kind = "drop" => DropHolds(v)
      BY <1>1, <2>1, AtHand, NobodyElse, Names
    <2>3. ~(v.kind = "claim" /\ v.pc = "commit")
      BY <2>2 DEF OtherHolds
    <2>4. ReadsHold(v)'
      BY <1>2, <2>2, <2>3 DEF ReadsHold, CommitClaim, Claimable, Claimed, Purgeable
    <2>5. v.kind = "drop" => DropHolds(v)'
      BY <2>2 DEF DropHolds, CommitClaim, BlobOf
    <2> QED
      BY <1>4, <2>1, <2>4, <2>5
  <1> QED
    BY <1>2, <1>3, <1>4, CommitKeeps DEF CommitClaim, IInv, Typed

LEMMA CommitBlobKeeps == ASSUME IInv, NEW t \in Tx, CommitBlob(t) PROVE IInv'
  <1> DEFINE q == tx[t]
  <1>1. /\ q \in TxRow /\ q.kind \in {"delete_blob", "purge"} /\ q.blob \in Blobs
        /\ Ledger(q.blob) \in q.held /\ ledger[q.blob] # None
        /\ q.kind = "purge" => Purgeable(q.blob)
    BY AtHand DEF CommitBlob, At, OtherHolds, ReadsHold
  <1>2. CASE ledger' = ledger
    BY <1>2, EndKeeps DEF CommitBlob, tables
  <1>3. CASE /\ ledger' = [ledger EXCEPT ![q.blob] = None]
             /\ q.kind = "purge" \/ ledger[q.blob].state \in {"staged", "stale"}
    <2>1. ~Claimed(q.blob)
      BY <1>1, <1>3 DEF Purgeable, Claimed
    <2>2. ledger' \in [Blobs -> LedgerRow \cup {None}]
      BY <1>3 DEF IInv, Typed
    <2>3. \A k \in Blobs : ledger'[k] = IF k = q.blob THEN None ELSE ledger[k]
      BY <1>3 DEF IInv, Typed
    <2>4. ObjectsHoldTheirBlobs'
      <3>1. \A o \in Objects : objects[o] # None => objects[o].blob \in Blobs
        BY DEF IInv, Typed, ObjectRow
      <3> QED
        BY <1>1, <2>1, <2>3, <3>1
           DEF CommitBlob, IInv, ObjectsHoldTheirBlobs, EachHoldsItsBlob, KeptFor, Claimed, Row
    <2>5. ASSUME NEW u \in Tx \ {t}, tx'[u] = tx[u]
          PROVE  ReadsHold(tx[u])' /\ (tx[u].kind = "drop" => DropHolds(tx[u])')
      <3>1. PICK v \in TxRow : v = tx[u]
        BY AtHand
      <3>2. /\ ReadsHold(v) /\ OtherHolds(v) /\ Ledger(q.blob) \notin v.held
            /\ v.kind = "drop" => DropHolds(v)
            /\ v.kind \in Mutations => MutationHolds(v)
        BY <1>1, <3>1, AtHand, NobodyElse, Names
      <3>3. /\ v.kind \in Mutations /\ v.accepted /\ v.blob # None => v.blob # q.blob
            /\ v.kind \in {"delete_blob", "purge"} /\ v.pc = "commit" => v.blob # q.blob
        BY <3>2 DEF MutationHolds, OtherHolds
      <3>4. v.seen # None => v.seen.blob \in Blobs
        BY DEF TxRow, ObjectRow
      <3>5. ReadsHold(v)'
        BY <2>3, <3>2, <3>3, <3>4
           DEF ReadsHold, CommitBlob, Claimable, Claimed, Purgeable, TxRow, OtherHolds
      <3>6. v.kind = "drop" => DropHolds(v)'
        BY <2>3, <3>2 DEF DropHolds, CommitBlob, BlobOf
      <3> QED
        BY <2>5, <3>1, <3>5, <3>6
    <2> QED
      BY <2>2, <2>4, <2>5, CommitKeeps DEF CommitBlob, IInv, Typed
  <1> QED
    BY <1>1, <1>2, <1>3 DEF CommitBlob

LEMMA CommitDropKeeps == ASSUME IInv, NEW t \in Tx, CommitDrop(t) PROVE IInv'
  <1> DEFINE q == tx[t]
             c == q.collection
  <1>1. /\ q \in TxRow /\ q.kind = "drop" /\ DropHolds(q) /\ q.accepted
        /\ c \in Collections /\ Collection(c) \in q.held
    BY AtHand DEF CommitDrop, At, OtherHolds
  <1>2. /\ collections' = collections \ {c}
        /\ \A o \in Objects : objects'[o] = IF objects[o] # None /\ objects[o].collection = c
                                            THEN None ELSE objects[o]
        /\ \A k \in Blobs : ledger'[k] = IF Ledger(k) \in q.held THEN Row("purgeable", c)
                                         ELSE ledger[k]
    BY DEF CommitDrop
  <1>3. /\ collections' \subseteq Collections
        /\ objects' \in [Objects -> ObjectRow \cup {None}]
        /\ ledger' \in [Blobs -> LedgerRow \cup {None}]
        /\ results' \in [MutationIDs -> ResultRow \cup {None}]
    <2>1. Row("purgeable", c) \in LedgerRow
      BY <1>1 DEF Row, LedgerRow
    <2> QED
      BY <2>1, RemainingResults DEF CommitDrop, IInv, Typed
  <1>4. \A k \in Blobs : /\ Ledger(k) \in q.held => BlobOf(c, k)
                         /\ BlobOf(c, k) => Ledger(k) \in q.held
    BY <1>1 DEF DropHolds
  <1>5. ObjectsHoldTheirBlobs'
    <2>1. \A o \in Objects : objects[o] # None => objects[o].blob \in Blobs
      BY DEF IInv, Typed, ObjectRow
    <2>2. Row("purgeable", c).state = "purgeable"
      BY DEF Row
    <2>3. ASSUME NEW k \in Blobs, ledger'[k] # None, ledger'[k].state = "claimed"
          PROVE  ledger'[k].collection \in collections'
      BY <1>2, <1>4, <2>2, <2>3 DEF IInv, ObjectsHoldTheirBlobs, EachHoldsItsBlob, BlobOf
    <2>4. ASSUME NEW o \in Objects, objects'[o] # None
          PROVE  /\ objects'[o].collection \in collections'
                 /\ \A p \in Objects \ {o} : objects'[p] # None => objects'[p].blob # objects'[o].blob
                 /\ KeptFor(ledger'[objects'[o].blob], objects'[o].collection)
                 /\ ~objects'[o].deleted =>
                      ledger'[objects'[o].blob] = Row("claimed", objects'[o].collection)
      <3>1. objects'[o] = objects[o] /\ objects[o].collection # c /\ objects[o].blob \in Blobs
        BY <1>2, <2>1, <2>4
      <3>2. /\ objects[o].collection \in collections
            /\ \A p \in Objects \ {o} : objects[p] # None => objects[p].blob # objects[o].blob
            /\ KeptFor(ledger[objects[o].blob], objects[o].collection)
            /\ ~objects[o].deleted =>
                 ledger[objects[o].blob] = Row("claimed", objects[o].collection)
        BY <2>4, <3>1 DEF IInv, ObjectsHoldTheirBlobs, EachHoldsItsBlob, KeptFor
      <3>3. ~objects[o].deleted => Ledger(objects[o].blob) \notin q.held
        BY <1>4, <3>1, <3>2 DEF BlobOf, Row
      <3> QED
        BY <1>2, <2>2, <3>1, <3>2, <3>3 DEF KeptFor
    <2> QED
      BY <2>3, <2>4 DEF ObjectsHoldTheirBlobs, EachHoldsItsBlob, KeptFor
  <1>6. ASSUME NEW u \in Tx \ {t}, tx'[u] = tx[u]
        PROVE  ReadsHold(tx[u])' /\ (tx[u].kind = "drop" => DropHolds(tx[u])')
    <2>1. PICK v \in TxRow : v = tx[u]
      BY AtHand
    <2>2. /\ ReadsHold(v) /\ OtherHolds(v) /\ Collection(c) \notin v.held
          /\ \A k \in Blobs : Ledger(k) \in v.held => Ledger(k) \notin q.held
          /\ v.kind = "drop" => DropHolds(v)
          /\ v.kind \in Mutations => MutationHolds(v)
      BY <1>1, <2>1, AtHand, NobodyElse, Names
    <2>3. Row("purgeable", c).state = "purgeable"
      BY DEF Row
    <2>4. /\ v.kind \in Mutations /\ v.accepted /\ v.blob # None =>
               v.blob \in Blobs /\ ledger'[v.blob] = ledger[v.blob]
          /\ v.kind \in {"delete_blob", "purge"} /\ v.pc = "commit" =>
               ledger'[v.blob] = ledger[v.blob]
      BY <1>2, <2>2 DEF MutationHolds, OtherHolds, TxRow
    <2>5. ASSUME v.kind \in Mutations, v.seen # None
          PROVE  /\ objects'[v.object] = v.seen
                 /\ Claimed(v.seen.blob)' => Claimed(v.seen.blob)
      <3>1. /\ v.seen.blob \in Blobs /\ v.object \in Objects /\ v.seen.collection # c
            /\ objects[v.object] = v.seen
        BY <2>2, <2>5 DEF TxRow, ObjectRow, MutationHolds, ReadsHold
      <3> QED
        BY <1>2, <2>3, <2>5, <3>1 DEF Claimed
    <2>6. v.kind = "create" /\ v.accepted /\ v.pc # "insert" => objects'[v.object] = None
      BY <1>2, <2>2 DEF ReadsHold, MutationHolds, Mutations
    <2>7. ReadsHold(v)'
      <3>1. /\ v.kind \in Mutations \cup {"drop"} /\ Collection(v.collection) \in v.held =>
                 v.collection \in collections'
            /\ v.kind = "claim" /\ v.pc = "commit" => collections' = {}
        BY <1>2, <2>2 DEF ReadsHold
      <3>2. v.kind \in Mutations /\ v.accepted /\ v.blob # None => Claimable(v.blob)'
        BY <2>2, <2>4 DEF ReadsHold, Claimable
      <3>3. /\ v.kind \in {"delete_blob", "purge"} /\ v.pc = "commit" => ledger'[v.blob] # None
            /\ v.kind = "purge" /\ v.pc = "commit" => Purgeable(v.blob)'
        BY <2>2, <2>4 DEF ReadsHold, Purgeable
      <3> QED
        BY <2>2, <2>5, <2>6, <3>1, <3>2, <3>3 DEF ReadsHold
    <2>8. ASSUME v.kind = "drop" PROVE DropHolds(v)'
      BY <1>2, <2>2, <2>3, <2>8 DEF DropHolds, BlobOf
    <2> QED
      BY <1>6, <2>1, <2>7, <2>8
  <1> QED
    BY <1>3, <1>5, <1>6, CommitKeeps DEF CommitDrop

\* What a mutation writes, it has locked.
LEMMA AcceptedWrites ==
    ASSUME IInv, NEW t \in Tx, CommitMutation(t), tx[t].accepted
    PROVE  LET q == tx[t]
               old == IF q.kind = "create" THEN None ELSE q.seen.blob IN
           /\ q.object \in Objects /\ q.collection \in collections
           /\ q.kind = "create" => q.blob \in Blobs /\ objects[q.object] = None
           /\ q.kind # "create" =>
                /\ objects[q.object] # None /\ old \in Blobs
                /\ objects[q.object].collection = q.collection
                /\ objects[q.object].blob = old
           /\ Collection(q.collection) \in q.held
           /\ q.blob # None => q.blob \in Blobs /\ Claimable(q.blob) /\ Ledger(q.blob) \in q.held
           /\ old # None => (Claimed(old) => Ledger(old) \in q.held)
           /\ Written(q) \in ObjectRow /\ Written(q).collection = q.collection
           /\ Written(q).blob = (IF q.blob # None THEN q.blob ELSE old)
           /\ ~Written(q).deleted => q.blob # None
           /\ objects' = [objects EXCEPT ![q.object] = Written(q)]
           /\ \A k \in Blobs : ledger'[k] =
                IF k = q.blob THEN Row("claimed", q.collection)
                ELSE IF k = old /\ Claimed(k) THEN [ledger[k] EXCEPT !.state = "retained"]
                ELSE ledger[k]
  <1> DEFINE q == tx[t]
             old == IF q.kind = "create" THEN None ELSE q.seen.blob
  <1>1. /\ q \in TxRow /\ q.kind \in Mutations /\ q.pc = "commit" /\ MutationHolds(q)
        /\ ReadsHold(q) /\ q.accepted
    BY AtHand DEF CommitMutation, At
  <1>2. /\ q.object \in Objects /\ Collection(q.collection) \in q.held
        /\ q.collection \in collections /\ q.collection \in Collections
        /\ q.blob # None => q.blob \in Blobs /\ Claimable(q.blob) /\ Ledger(q.blob) \in q.held
        /\ q.kind = "delete" <=> q.blob = None
    BY <1>1 DEF MutationHolds, ReadsHold, TxRow, Mutations
  <1>3. CASE q.kind = "create"
    <2>1. Written(q) = [collection |-> q.collection, version |-> 1, blob |-> q.blob,
                        deleted |-> FALSE]
      BY <1>3 DEF Written
    <2>2. objects[q.object] = None
      BY <1>1, <1>3 DEF ReadsHold
    <2> QED
      BY <1>1, <1>2, <1>3, <2>1, <2>2 DEF CommitMutation, ObjectRow
  <1>4. CASE q.kind # "create"
    <2>1. /\ q.seen \in ObjectRow /\ q.seen # None /\ objects[q.object] = q.seen
          /\ q.seen.collection = q.collection /\ old = q.seen.blob /\ old \in Blobs
          /\ Claimed(old) => Ledger(old) \in q.held
      BY <1>1, <1>4 DEF MutationHolds, ReadsHold, TxRow, ObjectRow, Writing
    <2>2. CASE q.kind = "update"
      <3>1. Written(q) = [q.seen EXCEPT !.version = @ + 1, !.blob = q.blob]
        BY <2>2 DEF Written
      <3>2. /\ Written(q) \in ObjectRow /\ Written(q).collection = q.collection
            /\ Written(q).blob = q.blob
        <4>1. PICK w \in ObjectRow : w = q.seen
          BY <2>1
        <4>2. w.version + 1 \in Nat /\ q.blob \in Blobs
          BY <1>2, <2>2 DEF ObjectRow
        <4> QED
          BY <2>1, <3>1, <4>1, <4>2 DEF ObjectRow
      <3> QED
        BY <1>1, <1>2, <1>4, <2>1, <2>2, <3>2 DEF CommitMutation
    <2>3. CASE q.kind = "delete"
      <3>1. Written(q) = [q.seen EXCEPT !.version = @ + 1, !.deleted = TRUE]
        BY <2>3 DEF Written
      <3>2. /\ Written(q) \in ObjectRow /\ Written(q).collection = q.collection
            /\ Written(q).blob = old /\ Written(q).deleted
        <4>1. PICK w \in ObjectRow : w = q.seen
          BY <2>1
        <4>2. w.version + 1 \in Nat
          BY DEF ObjectRow
        <4> QED
          BY <2>1, <3>1, <4>1, <4>2 DEF ObjectRow
      <3> QED
        BY <1>1, <1>2, <1>4, <2>1, <2>3, <3>2 DEF CommitMutation
    <2> QED
      BY <1>1, <1>4, <2>2, <2>3 DEF Mutations
  <1> QED
    BY <1>3, <1>4

LEMMA CommitMutationKeeps == ASSUME IInv, NEW t \in Tx, CommitMutation(t) PROVE IInv'
  <1> DEFINE q == tx[t]
             c == q.collection
             old == IF q.kind = "create" THEN None ELSE q.seen.blob
  <1>1. /\ q \in TxRow /\ q.kind \in Mutations /\ q.pc = "commit" /\ MutationHolds(q)
        /\ c \in Collections /\ q.id \in MutationIDs /\ End(t) /\ collections' = collections
    BY AtHand DEF CommitMutation, At, MutationHolds
  <1>2. results' \in [MutationIDs -> ResultRow \cup {None}]
    <2> DEFINE was == results[q.id]
               row == [collection |-> IF was = None THEN c ELSE was.collection,
                       status |-> "done", age |-> IF was = None THEN 0 ELSE was.age]
    <2>1. was \in ResultRow \cup {None}
      BY <1>1 DEF IInv, Typed
    <2>2. row \in ResultRow
      BY <1>1, <2>1 DEF ResultRow
    <2>3. results' = [results EXCEPT ![q.id] = row]
      BY DEF CommitMutation
    <2> HIDE DEF row
    <2> QED
      BY <2>2, <2>3 DEF IInv, Typed
  <1>3. None \notin Blobs
    BY NoneAssumption
  <1>4. CASE ~q.accepted
    <2> DEFINE r == [Idle EXCEPT !.pc = "ended"]
    <2>1. r \in TxRow /\ r.kind = None /\ r.held = {} /\ r.pc = "ended" /\ Move(t, r)
      BY <1>1, IdleRow DEF Idle, End
    <2> HIDE DEF r
    <2>2. TxHolds(r)
      BY <2>1, KindsAssumption DEF TxHolds, OtherHolds, ReadsHold, Kinds, Mutations
    <2> QED
      BY <1>2, <1>4, <2>1, <2>2, MoveKeepsRest, KindsAssumption
         DEF CommitMutation, Created, Kinds, Mutations
  <1>5. CASE q.accepted
    <2>1. /\ q.object \in Objects /\ c \in collections
          /\ q.kind = "create" => q.blob \in Blobs /\ objects[q.object] = None
          /\ q.kind # "create" =>
               /\ objects[q.object] # None /\ old \in Blobs
               /\ objects[q.object].collection = c /\ objects[q.object].blob = old
          /\ Collection(c) \in q.held
          /\ q.blob # None => q.blob \in Blobs /\ Claimable(q.blob) /\ Ledger(q.blob) \in q.held
          /\ old # None => (Claimed(old) => Ledger(old) \in q.held)
      BY <1>5, AcceptedWrites
    <2>2. PICK w \in ObjectRow :
            /\ w.collection = c /\ w.blob = (IF q.blob # None THEN q.blob ELSE old)
            /\ ~w.deleted => q.blob # None
            /\ objects' = [objects EXCEPT ![q.object] = w]
      BY <1>5, AcceptedWrites
    <2>3. \A k \in Blobs : ledger'[k] =
            IF k = q.blob THEN Row("claimed", c)
            ELSE IF k = old /\ Claimed(k) THEN [ledger[k] EXCEPT !.state = "retained"]
            ELSE ledger[k]
      BY <1>5, AcceptedWrites
    <2>4. \A o \in Objects : objects'[o] = IF o = q.object THEN w ELSE objects[o]
      BY <2>1, <2>2 DEF IInv, Typed
    <2> HIDE DEF old
    <2>5. ASSUME NEW k \in Blobs
          PROVE  /\ k = q.blob => ledger'[k] = Row("claimed", c)
                 /\ k # q.blob /\ k = old /\ Claimed(k) =>
                      /\ ledger'[k] \in LedgerRow /\ ledger'[k].state = "retained"
                      /\ ledger'[k].collection = ledger[k].collection
                 /\ k # q.blob /\ ~(k = old /\ Claimed(k)) => ledger'[k] = ledger[k]
      <3>1. ledger[k] \in LedgerRow \cup {None}
        BY DEF IInv, Typed
      <3> QED
        BY <2>3, <3>1 DEF LedgerRow, Claimed
    <2>6. objects' \in [Objects -> ObjectRow \cup {None}]
      BY <2>1, <2>2 DEF IInv, Typed
    <2>7. ledger' \in [Blobs -> LedgerRow \cup {None}]
      <3>1. Row("claimed", c) \in LedgerRow
        BY <1>1 DEF Row, LedgerRow
      <3>2. ledger' = [k \in Blobs |-> ledger'[k]]
        BY <1>5 DEF CommitMutation
      <3>3. \A k \in Blobs : ledger'[k] \in LedgerRow \cup {None}
        BY <2>5, <3>1 DEF IInv, Typed
      <3> QED
        BY <3>2, <3>3
    <2>8. ObjectsHoldTheirBlobs'
      <3>1. \A o \in Objects : objects[o] # None => objects[o].blob \in Blobs
        BY DEF IInv, Typed, ObjectRow
      <3>2. \A o \in Objects : objects[o] # None =>
              /\ objects[o].collection \in collections
              /\ \A p \in Objects \ {o} : objects[p] # None => objects[p].blob # objects[o].blob
              /\ KeptFor(ledger[objects[o].blob], objects[o].collection)
              /\ ~objects[o].deleted =>
                   ledger[objects[o].blob] = Row("claimed", objects[o].collection)
        BY DEF IInv, ObjectsHoldTheirBlobs, EachHoldsItsBlob, KeptFor
      <3>3. \A o \in Objects \ {q.object} : objects[o] # None => objects[o].blob # w.blob
        <4>1. CASE q.blob # None
          <5>1. w.blob = q.blob /\ ledger[q.blob] # None /\ ledger[q.blob].state = "staged"
            BY <2>1, <2>2, <4>1 DEF Claimable
          <5> QED
            BY <3>2, <5>1 DEF KeptFor
        <4>2. CASE q.blob = None
          <5>1. objects[q.object] # None /\ objects[q.object].blob = w.blob
            BY <1>3, <2>1, <2>2, <4>2
          <5> QED
            BY <2>1, <3>2, <5>1
        <4> QED
          BY <4>1, <4>2
      <3>4. \A k \in Blobs : ledger[k] # None /\ ledger[k].state = "claimed" =>
              ledger[k].collection \in collections
        BY DEF IInv, ObjectsHoldTheirBlobs, EachHoldsItsBlob, KeptFor
      <3>5. Row("claimed", c).state = "claimed" /\ Row("claimed", c).collection = c
        BY DEF Row
      <3>6. ASSUME NEW k \in Blobs, ledger'[k] # None, ledger'[k].state = "claimed"
            PROVE  ledger'[k].collection \in collections'
        BY <1>1, <2>1, <2>5, <3>4, <3>5, <3>6
      <3>7. ASSUME NEW o \in Objects \ {q.object}, objects'[o] # None
            PROVE  /\ objects'[o].collection \in collections'
                   /\ \A p \in Objects \ {o} :
                        objects'[p] # None => objects'[p].blob # objects'[o].blob
                   /\ KeptFor(ledger'[objects'[o].blob], objects'[o].collection)
                   /\ ~objects'[o].deleted =>
                        ledger'[objects'[o].blob] = Row("claimed", objects'[o].collection)
        <4>1. objects'[o] = objects[o] /\ objects[o].blob \in Blobs
          BY <2>4, <3>1, <3>7
        <4>2. ledger'[objects[o].blob] = ledger[objects[o].blob]
          <5>1. objects[o].blob # q.blob
            BY <1>3, <2>1, <3>2, <3>7, <4>1 DEF Claimable, KeptFor
          <5>2. objects[o].blob # old
            BY <2>1, <3>2, <3>7, <4>1, <5>1, NoneAssumption DEF old
          <5> QED
            BY <2>5, <4>1, <5>1, <5>2
        <4>3. \A p \in Objects \ {o} : objects'[p] # None => objects'[p].blob # objects'[o].blob
          BY <2>4, <3>2, <3>3, <3>7, <4>1
        <4> QED
          BY <1>1, <3>2, <3>7, <4>1, <4>2, <4>3
      <3>8. LET o == q.object IN
            /\ objects'[o].collection \in collections'
            /\ \A p \in Objects \ {o} :
                 objects'[p] # None => objects'[p].blob # objects'[o].blob
            /\ KeptFor(ledger'[objects'[o].blob], objects'[o].collection)
            /\ ~objects'[o].deleted =>
                 ledger'[objects'[o].blob] = Row("claimed", objects'[o].collection)
        <4>1. objects'[q.object] = w
          BY <2>1, <2>4
        <4>2. CASE q.blob # None
          <5>1. w.blob = q.blob /\ q.blob \in Blobs /\ ledger'[w.blob] = Row("claimed", c)
            BY <2>1, <2>2, <2>5, <4>2
          <5> QED
            BY <1>1, <2>1, <2>2, <2>4, <3>3, <3>5, <4>1, <5>1 DEF KeptFor
        <4>3. CASE q.blob = None
          <5>1. /\ w.blob = old /\ old \in Blobs /\ w.deleted /\ objects[q.object].blob = old
                /\ objects[q.object] # None
            BY <2>1, <2>2, <4>3, NoneAssumption
          <5>2. KeptFor(ledger'[old], c)
            BY <1>3, <2>1, <2>5, <3>2, <4>3, <5>1 DEF KeptFor
          <5> QED
            BY <1>1, <2>1, <2>2, <2>4, <3>3, <4>1, <5>1, <5>2
        <4> QED
          BY <4>2, <4>3
      <3> QED
        BY <2>1, <3>6, <3>7, <3>8 DEF ObjectsHoldTheirBlobs, EachHoldsItsBlob, KeptFor
    <2>9. ASSUME NEW u \in Tx \ {t}, tx'[u] = tx[u]
          PROVE  ReadsHold(tx[u])' /\ (tx[u].kind = "drop" => DropHolds(tx[u])')
      <3>1. PICK v \in TxRow : v = tx[u]
        BY AtHand
      <3>2. /\ ReadsHold(v) /\ OtherHolds(v) /\ Collection(c) \notin v.held
            /\ q.blob # None => Ledger(q.blob) \notin v.held
            /\ old # None /\ Claimed(old) => Ledger(old) \notin v.held
            /\ v.kind = "drop" => DropHolds(v)
            /\ v.kind \in Mutations => MutationHolds(v)
        BY <2>1, <3>1, AtHand, NobodyElse, Names
      <3>3. \A k \in Blobs : Ledger(k) \in v.held => ledger'[k] = ledger[k]
        BY <1>3, <2>5, <3>2
      <3>4. Row("claimed", c).state = "claimed" /\ Row("claimed", c).collection = c
        BY DEF Row
      <3>5. /\ v.kind \in Mutations /\ v.accepted /\ v.blob # None =>
                 ledger'[v.blob] = ledger[v.blob]
            /\ v.kind \in {"delete_blob", "purge"} /\ v.pc = "commit" =>
                 ledger'[v.blob] = ledger[v.blob]
        BY <3>2, <3>3 DEF MutationHolds, OtherHolds, TxRow
      <3>6. ASSUME v.kind \in Mutations, v.seen # None
            PROVE  /\ objects'[v.object] = v.seen
                   /\ v.accepted /\ v.pc \in Writing /\ Claimed(v.seen.blob)' =>
                        Ledger(v.seen.blob) \in v.held
        <4>1. /\ v.seen.blob \in Blobs /\ v.object \in Objects /\ v.seen.collection # c
              /\ objects[v.object] = v.seen
          BY <3>2, <3>6 DEF TxRow, ObjectRow, MutationHolds, ReadsHold
        <4>2. v.object # q.object
          BY <2>1, <3>6, <4>1
        <4>3. v.seen.blob # q.blob
          BY <1>3, <2>1, <3>6, <4>1
             DEF IInv, ObjectsHoldTheirBlobs, EachHoldsItsBlob, KeptFor, Claimable
        <4>4. Claimed(v.seen.blob)' => Claimed(v.seen.blob)
          BY <2>5, <4>1, <4>3 DEF Claimed
        <4> QED
          BY <2>4, <3>2, <3>6, <4>1, <4>2, <4>4 DEF ReadsHold
      <3>7. v.kind = "create" /\ v.accepted /\ v.pc # "insert" => objects'[v.object] = None
        <4> SUFFICES ASSUME v.kind = "create", v.accepted, v.pc # "insert"
                     PROVE  objects'[v.object] = None
          OBVIOUS
        <4>1. v.object \in Objects /\ objects[v.object] = None /\ Created(v)
          BY <3>2 DEF ReadsHold, MutationHolds, Mutations, Created
        <4>2. v.object # q.object
          <5>1. CASE q.kind = "create"
            BY <1>1, <1>5, <3>1, <4>1, <5>1 DEF IInv, Exclusive, Created, Writing
          <5>2. CASE q.kind # "create"
            BY <2>1, <4>1, <5>2
          <5> QED
            BY <5>1, <5>2
        <4> QED
          BY <2>4, <4>1, <4>2
      <3>8. ReadsHold(v)'
        <4>1. v.kind \in Mutations /\ v.accepted /\ v.blob # None => Claimable(v.blob)'
          BY <3>2, <3>5 DEF ReadsHold, Claimable
        <4>2. /\ v.kind \in {"delete_blob", "purge"} /\ v.pc = "commit" => ledger'[v.blob] # None
              /\ v.kind = "purge" /\ v.pc = "commit" => Purgeable(v.blob)'
          BY <3>2, <3>5 DEF ReadsHold, Purgeable
        <4> QED
          BY <1>1, <3>2, <3>6, <3>7, <4>1, <4>2 DEF ReadsHold
      <3>9. ASSUME v.kind = "drop" PROVE DropHolds(v)'
        <4>1. ASSUME NEW k \in Blobs, v.collection # c
              PROVE  BlobOf(v.collection, k)' => BlobOf(v.collection, k)
          BY <2>5, <3>4, <4>1 DEF BlobOf, Claimed
        <4>2. v.pc = "rows" \/ v.accepted => v.collection # c
          BY <3>2, <3>9 DEF OtherHolds
        <4>3. \A k \in Blobs : Ledger(k) \in v.held => BlobOf(v.collection, k)'
          BY <3>2, <3>3, <3>9 DEF DropHolds, BlobOf
        <4> QED
          BY <3>2, <3>9, <4>1, <4>2, <4>3 DEF DropHolds
      <3> QED
        BY <2>9, <3>1, <3>8, <3>9
    <2> QED
      BY <1>1, <1>2, <2>6, <2>7, <2>8, <2>9, CommitKeeps DEF IInv, Typed
  <1> QED
    BY <1>4, <1>5

-----------------------------------------------------------------------------
(* The invariant and what follows from it *)

LEMMA InitInv == Init => IInv
  <1> SUFFICES ASSUME Init PROVE IInv
    OBVIOUS
  <1>1. PICK s \in Contents : /\ collections = s.collections /\ objects = s.objects
                              /\ ledger = s.ledger /\ results = s.results
    BY DEF Init
  <1>2. /\ Idle \in TxRow /\ Idle.kind = None /\ Idle.held = {} /\ Idle.pc = "ready"
    BY IdleRow DEF Idle
  <1>3. tx = [t \in Tx |-> Idle]
    BY DEF Init
  <1>4. Typed /\ ObjectsHoldTheirBlobs
    BY <1>1, <1>2, <1>3, ContentsAssumption DEF Typed, ObjectsHoldTheirBlobs
  <1>5. TxHolds(Idle)
    BY <1>2, KindsAssumption DEF TxHolds, OtherHolds, ReadsHold, Kinds, Mutations
  <1>6. Exclusive
    BY <1>2, <1>3, KindsAssumption DEF Exclusive, Created, Kinds, Mutations
  <1> QED
    BY <1>3, <1>4, <1>5, <1>6 DEF IInv

LEMMA NextInv == IInv /\ [Next]_vars => IInv'
  <1> SUFFICES ASSUME IInv, [Next]_vars PROVE IInv'
    OBVIOUS
  <1>1. CASE UNCHANGED vars
    <2>1. /\ UNCHANGED <<collections, objects, ledger, results, tx>>
      BY <1>1 DEF vars, tables
    <2>2. \A q : TxHolds(q)' <=> TxHolds(q)
      BY <2>1 DEF TxHolds, ReadsHold, DropHolds, Claimable, Claimed, Purgeable, BlobOf
    <2> QED
      BY <2>1, <2>2 DEF IInv, Typed, Exclusive, ObjectsHoldTheirBlobs
  <1>2. ASSUME NEW t \in Tx, Start(t) PROVE IInv'
    BY <1>2, StartKeeps
  <1>3. ASSUME NEW t \in Tx, Abort(t) PROVE IInv'
    BY <1>3, EndKeeps DEF Abort
  <1>4. ASSUME NEW t \in Tx, Statement(t) PROVE IInv'
    BY <1>4, PrepareKeeps, CommitPrepareKeeps, LockMutationKeeps, LockCollectionKeeps,
       FindBlobKeeps, LockBlobKeeps, PurgeRowKeeps, InsertKeeps, SupersedeKeeps,
       SaveResultKeeps, SaveOwnerKeeps, CommitMutationKeeps, CommitBlobKeeps, LockUserKeeps,
       ClaimCollectionKeeps, CommitClaimKeeps, SelectRowsKeeps, LockRowKeeps,
       EndStatementKeeps, CommitExpiryKeeps, CommitDropKeeps
       DEF Statement
  <1> QED
    BY <1>1, <1>2, <1>3, <1>4 DEF Next, Done

LEMMA Inductive == Spec => []IInv
  BY InitInv, NextInv, PTL DEF Spec

\* The rows, and what each transaction runs, holds and has yet to lock, stay of
\* their types.
THEOREM TypeCorrect == Spec => []TypeOK
  <1>1. IInv => TypeOK
    BY DEF IInv, Typed, TypeOK, TxRow
  <1> QED
    BY <1>1, Inductive, PTL

\* A mutation commits against the collection, the version and the staged blob it
\* read: lockCollection's and stagedBlobSize's FOR UPDATE keep each as it was.
THEOREM ReadsStayTrue == Spec => []LockedReadsStayTrue
  <1>1. IInv => LockedReadsStayTrue
    <2> SUFFICES ASSUME IInv, NEW t \in Tx, tx[t].kind \in Mutations, tx[t].accepted
                 PROVE  /\ tx[t].collection \in collections
                        /\ tx[t].seen # None => objects[tx[t].object] = tx[t].seen
                        /\ tx[t].blob # None => Claimable(tx[t].blob)
      BY DEF LockedReadsStayTrue
    <2>1. MutationHolds(tx[t]) /\ ReadsHold(tx[t])
      BY AtHand
    <2> QED
      BY <2>1 DEF MutationHolds, ReadsHold
  <1> QED
    BY <1>1, Inductive, PTL

\* However transactions meet, a live object's blob is claimed for its collection,
\* no two objects name one blob, and a deleted collection leaves nothing behind.
THEOREM ObjectsKeepTheirBlobs == Spec => []ObjectsHoldTheirBlobs
  <1>1. IInv => ObjectsHoldTheirBlobs
    BY DEF IInv
  <1> QED
    BY <1>1, Inductive, PTL

\* Claim makes a collection only when the account has none at its commit: the
\* lock on the account's row spans its look and its insertion.
THEOREM ClaimsMeet == Spec => ClaimsConverge
  <1>1. IInv /\ [Next]_vars => [\A c \in collections' \ collections : collections = {}]_vars
    <2> SUFFICES ASSUME IInv, Next, NEW c \in collections' \ collections
                 PROVE  collections = {}
      BY SMTT(30)
    <2>1. PICK t \in Tx : CommitClaim(t) \/ CommitDrop(t)
      BY DEF Next, Start, Statement, Abort, Done, vars, tables, Prepare, CommitPrepare,
             LockMutation, LockCollection, FindBlob, LockBlob, PurgeRow, Insert, Supersede,
             SaveResult, SaveOwner, CommitMutation, CommitBlob, LockUser, ClaimCollection,
             SelectRows, LockRow, EndStatement, CommitExpiry
    <2>2. CASE CommitClaim(t)
      BY <2>2, AtHand DEF CommitClaim, At, ReadsHold
    <2>3. CASE CommitDrop(t)
      BY <2>3 DEF CommitDrop
    <2> QED
      BY <2>1, <2>2, <2>3, SMTT(30)
  <1> QED
    BY <1>1, Inductive, PTL DEF Spec, ClaimsConverge

-----------------------------------------------------------------------------
(* Deadlocks: a transaction that takes its locks in order waits only for     *)
(* holders of locks it has not reached, and they only for holders of later   *)
(* ones, so nothing leads back to it.                                        *)

Bulk == {"drop", "expire_pending", "expire_other"}

\* Who holds one of the locks.
Holders(locks) == {u \in Tx : tx[u].held \cap locks # {}}

LEMMA NoCycle ==
    ASSUME NEW t \in Tx, NEW S \in SUBSET Tx, t \notin S,
           \A u \in Tx : WaitsFor(t, u) => u \in S,
           \A u \in S, v \in Tx : WaitsFor(u, v) => v \in S
    PROVE  ~InCycle(t)
  BY DEF InCycle

\* What a lock is waited for with: itself, but the account's row for a share.
LEMMA WaitedLock ==
    ASSUME IInv, NEW u \in Tx, NEW v \in Tx, WaitsFor(u, v)
    PROVE  \E w \in Wanted(tx[u]) :
             /\ w \in Ledgers \cup Results => w \in tx[v].held
             /\ w = UserShare => User \in tx[v].held
             /\ \A c : w = Collection(c) => w \in tx[v].held
             /\ \A m : w = Advisory(m) => w \in tx[v].held
  <1>1. PICK w \in Wanted(tx[u]), h \in tx[v].held : Conflicts(w, h)
    BY DEF WaitsFor
  <1>2. h \in Lockable
    BY <1>1 DEF IInv, Typed, TxRow
  <1>3. w \in Ledgers \cup Results => h = w
    BY <1>1 DEF Conflicts, Ledgers, Results, Ledger, Result
  <1>4. w = UserShare => h = User
    BY <1>1, <1>2 DEF Conflicts, Lockable, Ledger, Result, Collection, Advisory, User, UserShare
  <1>5. (\A c : w = Collection(c) => h = w) /\ (\A m : w = Advisory(m) => h = w)
    BY <1>1 DEF Conflicts, Collection, Advisory
  <1> QED
    BY <1>1, <1>3, <1>4, <1>5

\* What a transaction that has some lock still asks for.
LEMMA MutationWants ==
    ASSUME IInv, NEW u \in Tx, tx[u].kind \in Mutations
    PROVE  LET q == tx[u] IN
           /\ User \notin q.held
           /\ (\E m : Result(m) \in q.held) => Wanted(q) \subseteq {UserShare}
           /\ (\E k : Ledger(k) \in q.held) => Wanted(q) \subseteq Ledgers \cup Results \cup {UserShare}
  <1> DEFINE q == tx[u]
  <1>1. q \in TxRow /\ MutationHolds(q)
    BY AtHand
  <1>2. User \notin q.held
    BY <1>1, Names DEF MutationHolds, Writing, Ledgers
  <1>3. ASSUME NEW m, Result(m) \in q.held
        PROVE  Wanted(q) \subseteq {UserShare}
    <2>1. q.pc \in {"prepare_owner", "save_owner", "commit"}
      BY <1>1, <1>3, Names DEF MutationHolds, Writing, Ledgers
    <2> QED
      BY <2>1, WantedIs
  <1>4. ASSUME NEW k, Ledger(k) \in q.held
        PROVE  Wanted(q) \subseteq Ledgers \cup Results \cup {UserShare}
    <2>1. q.pc \in {"insert", "supersede"} \cup Writing
      BY <1>1, <1>4, Names DEF MutationHolds, Writing
    <2>2. q.pc = "supersede" => Ledger(q.seen.blob) \in Ledgers
      BY <1>1 DEF MutationHolds, Ledgers, TxRow, ObjectRow
    <2>3. Result(q.id) \in Results
      BY <1>1 DEF MutationHolds, Results
    <2> QED
      BY <2>1, <2>2, <2>3, WantedIs DEF Writing
  <1> QED
    BY <1>2, <1>3, <1>4

LEMMA OtherWants ==
    ASSUME IInv, NEW u \in Tx, tx[u].kind \notin Mutations, tx[u].held # {}
    PROVE  LET q == tx[u] IN
           /\ q.kind \in {"claim", "delete_blob", "purge"} => Wanted(q) = {}
           /\ User \in q.held => q.kind = "claim"
           /\ q.kind \in Bulk => Wanted(q) \subseteq Ledgers \cup Results
           /\ (\E m : Result(m) \in q.held) => Wanted(q) \subseteq Results
           /\ q.kind \in Kinds
  <1> DEFINE q == tx[u]
  <1>1. q \in TxRow /\ OtherHolds(q) /\ q.held # {} /\ q.kind \notin Mutations
    BY AtHand
  <1>2. q.kind \in {"claim", "delete_blob", "purge"} \cup Bulk
    BY <1>1 DEF OtherHolds, TxRow, Kinds, Mutations, Bulk
  <1>3. CASE q.kind \in {"claim", "delete_blob", "purge"}
    <2>1. q.pc \in {"select_rows", "commit"}
      BY <1>1, <1>3 DEF OtherHolds
    <2>2. \A m : Result(m) \notin q.held
      BY <1>1, <1>3, Names DEF OtherHolds
    <2>3. User \in q.held => q.kind = "claim"
      BY <1>1, <1>3, Names DEF OtherHolds
    <2> QED
      BY <1>2, <1>3, <2>1, <2>2, <2>3, WantedIs DEF Bulk, Kinds
  <1>4. CASE q.kind \in Bulk
    <2>1. q.pc \in {"select_rows", "rows", "commit"}
      BY <1>1, <1>4 DEF OtherHolds, Bulk
    <2>2. User \notin q.held
      BY <1>1, <1>4, Names DEF OtherHolds, Bulk, Ledgers, Results
    <2>3. (\E m : Result(m) \in q.held) => q.kind # "drop" \/ q.accepted
      BY <1>1, <1>4, Names DEF OtherHolds, Ledgers
    <2>4. ASSUME q.pc = "rows", q.rows # <<>>
          PROVE  /\ Head(q.rows) \in Ledgers \cup Results
                 /\ q.kind # "drop" \/ q.accepted => Head(q.rows) \in Results
      <3>1. q.rows \in Seq(IF q.kind = "drop" /\ ~q.accepted THEN Ledgers ELSE Results)
        BY <1>1, <1>4, <2>4 DEF OtherHolds, Bulk
      <3>2. \A S : q.rows \in Seq(S) => Head(q.rows) \in S
        BY <2>4
      <3> QED
        BY <3>1, <3>2
    <2>5. Wanted(q) \subseteq Ledgers \cup Results
          /\ ((\E m : Result(m) \in q.held) => Wanted(q) \subseteq Results)
      BY <2>1, <2>3, <2>4, WantedIs
    <2> QED
      BY <1>4, <2>2, <2>5 DEF Bulk, Kinds, Mutations
  <1> QED
    BY <1>2, <1>3, <1>4

LEMMA AfterUser ==
    ASSUME IInv, NEW u \in Holders({User}), NEW v \in Tx PROVE ~WaitsFor(u, v)
  <1>1. u \in Tx /\ User \in tx[u].held
    BY DEF Holders
  <1>2. Wanted(tx[u]) = {}
    BY <1>1, MutationWants, OtherWants
  <1> QED
    BY <1>2 DEF WaitsFor

LEMMA AfterResult ==
    ASSUME IInv, NEW u \in Holders(Results \cup {User}), NEW v \in Tx, WaitsFor(u, v)
    PROVE  v \in Holders(Results \cup {User})
  <1>1. u \in Tx /\ ~(User \in tx[u].held)
    BY AfterUser DEF Holders
  <1>2. PICK m \in MutationIDs : Result(m) \in tx[u].held
    BY <1>1 DEF Holders, Results
  <1>3. Wanted(tx[u]) \subseteq Results \cup {UserShare}
    BY <1>1, <1>2, MutationWants, OtherWants
  <1> QED
    BY <1>1, <1>3, WaitedLock DEF Holders

LEMMA AfterLedger ==
    ASSUME IInv, NEW u \in Tx, NEW k \in Blobs, Ledger(k) \in tx[u].held
    PROVE  Wanted(tx[u]) \subseteq Ledgers \cup Results \cup {UserShare}
  BY MutationWants, OtherWants DEF Bulk, Kinds, Mutations

\* Nobody waits for a transaction that has no lock, and one that asks for none
\* waits for nobody.
LEMMA EmptyHanded ==
    ASSUME NEW t \in Tx, tx[t].held = {} \/ Wanted(tx[t]) = {} PROVE ~InCycle(t)
  <1>1. CASE tx[t].held = {}
    <2>1. \A u \in Tx : ~WaitsFor(u, t)
      BY <1>1 DEF WaitsFor
    <2>2. \A u \in Tx : WaitsFor(t, u) => u \in Tx \ {t}
      BY DEF WaitsFor
    <2>3. \A u \in Tx \ {t}, v \in Tx : WaitsFor(u, v) => v \in Tx \ {t}
      BY <2>1
    <2> QED
      BY <2>2, <2>3, NoCycle
  <1>2. CASE Wanted(tx[t]) = {}
    <2>1. \A u \in Tx : ~WaitsFor(t, u)
      BY <1>2 DEF WaitsFor
    <2> QED
      BY <2>1, NoCycle
  <1> QED
    BY <1>1, <1>2

LEMMA AtShare ==
    ASSUME IInv, NEW t \in Tx, tx[t].kind \in Mutations,
           tx[t].pc \in {"prepare_owner", "insert", "save_owner"}
    PROVE  ~InCycle(t)
  <1> DEFINE S == Holders({User})
  <1>1. S \in SUBSET Tx /\ t \notin S
    BY MutationWants DEF Holders
  <1>2. \A u \in Tx : WaitsFor(t, u) => u \in S
    BY WantedIs, WaitedLock DEF Holders
  <1>3. \A u \in S, v \in Tx : WaitsFor(u, v) => v \in S
    BY AfterUser
  <1> HIDE DEF S
  <1> QED
    BY <1>1, <1>2, <1>3, NoCycle

LEMMA AtCollection ==
    ASSUME IInv, NEW t \in Tx, tx[t].kind \in Mutations, tx[t].pc = "collection"
    PROVE  ~InCycle(t)
  <1> DEFINE q == tx[t]
             S == {u \in Tx \ {t} : tx[u].held # {}}
  <1>1. q.held = {Advisory(q.id)}
    BY AtHand DEF MutationHolds
  <1>2. \A u \in Tx : WaitsFor(t, u) => u \in S
    BY DEF WaitsFor
  <1>3. ASSUME NEW u \in S, NEW v \in Tx, WaitsFor(u, v)
        PROVE  v \in S
    <2>1. v # t
      <3> SUFFICES ASSUME v = t PROVE FALSE
        OBVIOUS
      <3>1. PICK w \in Wanted(tx[u]) : Conflicts(w, Advisory(q.id))
        BY <1>1, <1>3 DEF WaitsFor
      <3>2. w = Advisory(q.id)
        BY <3>1 DEF Conflicts, Advisory
      <3>3. CASE tx[u].kind \in Mutations
        <4>1. tx[u] \in TxRow /\ MutationHolds(tx[u])
          BY <3>3, AtHand
        <4>2. tx[u].pc # "advisory" /\ tx[u].pc # "prepare"
          BY <4>1 DEF MutationHolds
        <4>3. tx[u].pc \in {"prepare_owner", "collection", "staged", "blob", "insert",
                            "supersede"} \cup Writing
          BY <4>1, <4>2 DEF MutationHolds
        <4> QED
          BY <3>1, <3>2, <4>3, WantedIs, Names DEF Writing
      <3>4. CASE tx[u].kind \notin Mutations
        <4>1. Wanted(tx[u]) \subseteq Ledgers \cup Results
          BY <3>4, OtherWants DEF Bulk, Kinds, Mutations
        <4> QED
          BY <3>1, <3>2, <4>1, Names DEF Ledgers, Results
      <3> QED
        BY <3>3, <3>4
    <2> QED
      BY <1>3, <2>1 DEF WaitsFor
  <1> HIDE DEF S
  <1>4. S \in SUBSET Tx /\ t \notin S
    BY DEF S
  <1> QED
    BY <1>2, <1>3, <1>4, NoCycle

LEMMA AtBlob ==
    ASSUME IInv, NEW t \in Tx, tx[t].kind \in Mutations, tx[t].pc = "blob"
    PROVE  ~InCycle(t)
  <1> DEFINE q == tx[t]
             X == Ledgers \cup Results \cup {User}
             S == Holders(X)
  <1>1. /\ q.held = {Advisory(q.id), Collection(q.collection)}
        /\ Wanted(q) = {Ledger(q.blob)} /\ q.blob \in Blobs
    BY AtHand, WantedIs DEF MutationHolds, TxRow
  <1>2. S \in SUBSET Tx /\ t \notin S
    BY <1>1, Names DEF Holders, Ledgers, Results
  <1>3. \A u \in Tx : WaitsFor(t, u) => u \in S
    BY <1>1, WaitedLock DEF Holders, Ledgers
  <1>4. ASSUME NEW u \in S, NEW v \in Tx, WaitsFor(u, v)
        PROVE  v \in S
    <2>1. CASE \E k \in Blobs : Ledger(k) \in tx[u].held
      <3>1. Wanted(tx[u]) \subseteq Ledgers \cup Results \cup {UserShare}
        BY <2>1, AfterLedger DEF Holders
      <3> QED
        BY <1>4, <3>1, WaitedLock DEF Holders
    <2>2. CASE u \in Holders(Results \cup {User})
      <3>1. v \in Holders(Results \cup {User})
        BY <1>4, <2>2, AfterResult
      <3> QED
        BY <3>1 DEF Holders
    <2> QED
      BY <2>1, <2>2 DEF Holders, Ledgers
  <1> HIDE DEF S
  <1> QED
    BY <1>2, <1>3, <1>4, NoCycle

LEMMA AtSave ==
    ASSUME IInv, NEW t \in Tx, tx[t].kind \in Mutations, tx[t].pc = "save"
    PROVE  ~InCycle(t)
  <1> DEFINE q == tx[t]
             S == Holders(Results \cup {User})
  <1>1. /\ q.held \subseteq {Advisory(q.id), Collection(q.collection), UserShare} \cup Ledgers
        /\ Wanted(q) = {Result(q.id)} /\ q.id \in MutationIDs
    BY AtHand, WantedIs DEF MutationHolds, Writing
  <1>2. S \in SUBSET Tx /\ t \notin S
    BY <1>1, Names DEF Holders, Ledgers, Results
  <1>3. \A u \in Tx : WaitsFor(t, u) => u \in S
    BY <1>1, WaitedLock DEF Holders, Results
  <1>4. \A u \in S, v \in Tx : WaitsFor(u, v) => v \in S
    BY AfterResult
  <1> HIDE DEF S
  <1> QED
    BY <1>2, <1>3, <1>4, NoCycle

\* A blob still claimed for the object is locked by nobody who can wait for t:
\* a mutation that is past its own blob, or a job.
LEMMA AtSupersede ==
    ASSUME IInv, NEW t \in Tx, tx[t].kind \in Mutations, tx[t].pc = "supersede"
    PROVE  ~InCycle(t)
  <1> DEFINE q == tx[t]
             k == q.seen.blob
             Above == Holders(Results \cup {User})
             S == Above \cup {u \in Tx \ {t} : Ledger(k) \in tx[u].held}
  <1>1. /\ q \in TxRow /\ MutationHolds(q) /\ ReadsHold(q) /\ q.accepted /\ q.seen # None
        /\ q.kind # "create" /\ Collection(q.collection) \in q.held
        /\ q.held \subseteq {Advisory(q.id), Collection(q.collection)} \cup Ledgers
        /\ q.seen.collection = q.collection
        /\ Wanted(q) = IF Claimed(k) THEN {Ledger(k)} ELSE {}
    <2>1. q \in TxRow /\ MutationHolds(q) /\ ReadsHold(q)
      BY AtHand
    <2>2. q.kind = "update" => Ledger(q.blob) \in Ledgers
      BY <2>1 DEF MutationHolds, TxRow, Ledgers
    <2> QED
      BY <2>1, <2>2, WantedIs DEF MutationHolds
  <1>2. CASE ~Claimed(k)
    BY <1>1, <1>2, EmptyHanded
  <1>3. CASE Claimed(k)
    <2>1. k \in Blobs /\ ledger[k].collection = q.collection
      <3>1. q.object \in Objects /\ objects[q.object] = q.seen /\ q.seen \in ObjectRow
        BY <1>1 DEF MutationHolds, ReadsHold, TxRow
      <3> QED
        BY <1>1, <1>3, <3>1
           DEF IInv, ObjectsHoldTheirBlobs, EachHoldsItsBlob, Claimed, ObjectRow
    <2>2. S \in SUBSET Tx /\ t \notin S
      BY <1>1, Names DEF Holders, Ledgers, Results
    <2>3. \A u \in Tx : WaitsFor(t, u) => u \in S
      BY <1>1, <1>3, <2>1, WaitedLock DEF WaitsFor, Ledgers
    <2>4. ASSUME NEW u \in Tx \ {t}, Ledger(k) \in tx[u].held, NEW v \in Tx, WaitsFor(u, v)
          PROVE  v \in Above
      <3>1. Wanted(tx[u]) \subseteq Results \cup {UserShare}
        <4>1. CASE tx[u].kind \in Mutations
          <5>1. tx[u] \in TxRow /\ MutationHolds(tx[u]) /\ ReadsHold(tx[u])
            BY <4>1, AtHand
          <5>2. tx[u].pc \in {"insert", "supersede"} \cup Writing
            BY <2>4, <5>1, Names DEF MutationHolds
          <5>3. tx[u].pc \in Writing
            <6>1. tx[u].pc \notin Writing /\ tx[u].blob # None => tx[u].blob # k
              BY <1>3, <4>1, <5>1, <5>2 DEF MutationHolds, ReadsHold, Claimable, Claimed
            <6> QED
              BY <2>4, <5>1, <5>2, <6>1, Names DEF MutationHolds
          <5> QED
            BY <5>1, <5>3, WantedIs DEF Writing, MutationHolds, Results
        <4>2. CASE tx[u].kind = "drop"
          <5>1. DropHolds(tx[u]) /\ OtherHolds(tx[u])
            BY <4>2, AtHand
          <5>2. tx[u].collection = q.collection
            BY <2>1, <2>4, <5>1 DEF DropHolds, BlobOf
          <5>3. Collection(q.collection) \in tx[u].held
            BY <2>4, <4>2, <5>1, <5>2 DEF OtherHolds
          <5> QED
            BY <1>1, <5>3, NobodyElse, Names
        <4>3. CASE tx[u].kind \notin Mutations \cup {"drop"}
          <5>1. tx[u].kind \notin {"expire_pending", "expire_other"}
            <6>1. OtherHolds(tx[u])
              BY AtHand
            <6> QED
              BY <2>4, <6>1, Names DEF OtherHolds, Results
          <5> QED
            BY <2>4, <4>3, <5>1, OtherWants DEF Bulk, Kinds
        <4> QED
          BY <4>1, <4>2, <4>3
      <3> QED
        BY <2>4, <3>1, WaitedLock DEF Holders
    <2>5. \A u \in S, v \in Tx : WaitsFor(u, v) => v \in S
      BY <2>4, AfterResult
    <2> HIDE DEF S
    <2> QED
      BY <2>2, <2>3, <2>5, NoCycle
  <1> QED
    BY <1>2, <1>3

\* prepareMutation, lockMutation, lockCollection, stagedBlobSize and saveResult
\* lock in one order, and Claim, blobs.Delete and purgeBlobRow lock one row: none
\* is ever a deadlock's victim, whatever runs beside it.
THEOREM OthersNeverDeadlock == Spec => []OnlyBulkStatementsDeadlock
  <1>1. IInv => OnlyBulkStatementsDeadlock
    <2> SUFFICES ASSUME IInv, NEW t \in Tx, tx[t].kind \notin Bulk
                 PROVE  ~InCycle(t)
      BY DEF OnlyBulkStatementsDeadlock, Bulk
    <2>1. tx[t] \in TxRow
      BY AtHand
    <2>2. CASE tx[t].kind \in Mutations
      <3>1. MutationHolds(tx[t])
        BY <2>2, AtHand
      <3>2. CASE tx[t].pc \in {"prepare", "advisory"}
        BY <3>1, <3>2, EmptyHanded DEF MutationHolds
      <3>3. CASE tx[t].pc \in {"staged", "commit"}
        BY <3>3, WantedIs, EmptyHanded
      <3> QED
        BY <2>2, <3>1, <3>2, <3>3, AtShare, AtCollection, AtBlob, AtSave, AtSupersede
           DEF MutationHolds, Writing
    <2>3. CASE tx[t].kind \notin Mutations /\ tx[t].held # {}
      BY <2>3, OtherWants, EmptyHanded DEF Bulk, Kinds, Mutations
    <2>4. CASE tx[t].held = {}
      BY <2>4, EmptyHanded
    <2> QED
      BY <2>2, <2>3, <2>4
  <1> QED
    BY <1>1, Inductive, PTL

=============================================================================
