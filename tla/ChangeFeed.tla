----------------------------- MODULE ChangeFeed -----------------------------
(***************************************************************************)
(* What the collections of one user promise to a device that pulls:        *)
(* every change takes the collection's next cursor value and leaves it on  *)
(* the one object it changed, so the rows after a cursor are exactly what  *)
(* changed since.  CollectionContents implements this; PullClient relies   *)
(* on it.                                                                  *)
(***************************************************************************)
EXTENDS Integers

CONSTANTS Collections, Objects, None

VARIABLES
    collections,     \* the collections that exist
    current_version, \* each collection's cursor
    rows             \* what List shows of each object, or None

feed == <<collections, current_version, rows>>

\* The content of an object is named by its version.
Row == [collection_id : Collections, version : Nat, change_seq : Nat,
        deleted : BOOLEAN]

FeedTypeOK ==
    /\ collections \subseteq Collections
    /\ current_version \in [Collections -> Nat]
    /\ rows \in [Objects -> Row \cup {None}]

FeedInit ==
    /\ collections \in SUBSET Collections
    /\ current_version = [c \in Collections |-> 0]
    /\ rows = [o \in Objects |-> None]

\* A collection id is claimed once.
Claim(c) ==
    /\ c \notin collections /\ current_version[c] = 0
    /\ collections' = collections \cup {c}
    /\ UNCHANGED <<current_version, rows>>

\* The versions an object may have next: it is created, updated or deleted,
\* and a tombstone stays a tombstone.
NextVersions(o, c) ==
    IF rows[o] = None THEN {[version |-> 1, deleted |-> FALSE]}
    ELSE {[version |-> rows[o].version + 1, deleted |-> b] :
            b \in {x \in BOOLEAN : rows[o].deleted => x}}

\* The object o of c takes the cursor's next value.
Change(c, o) ==
    /\ c \in collections
    /\ rows[o] # None => rows[o].collection_id = c
    /\ current_version' = [current_version EXCEPT ![c] = @ + 1]
    /\ \E v \in NextVersions(o, c) :
         rows' = [rows EXCEPT ![o] =
           [collection_id |-> c, version |-> v.version,
            change_seq |-> current_version[c] + 1, deleted |-> v.deleted]]
    /\ UNCHANGED collections

\* A deleted collection takes its objects with it.
Delete(c) ==
    /\ c \in collections
    /\ collections' = collections \ {c}
    /\ rows' = [o \in Objects |->
         IF rows[o] # None /\ rows[o].collection_id = c THEN None ELSE rows[o]]
    /\ UNCHANGED current_version

FeedNext ==
    \E c \in Collections :
        Claim(c) \/ Delete(c) \/ (\E o \in Objects : Change(c, o))

FeedSpec == FeedInit /\ [][FeedNext]_feed
=============================================================================
