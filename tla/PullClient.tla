----------------------------- MODULE PullClient -----------------------------
(***************************************************************************)
(* A device pulls a collection page by page while others change it         *)
(* (objects.List, handleListObjects; API.md "Pull (catch up)").  A page    *)
(* asked for may find its object moved behind the next one, the collection *)
(* gone between List's two queries, and the device may stop anywhere.      *)
(***************************************************************************)
EXTENDS ChangeFeed, FiniteSets

CONSTANTS
    Devices,
    Limits,          \* ?limit= values, None for a pull without one
    MaxVersion       \* bound on a collection's current_version

ASSUME LimitsAssumption == Limits \subseteq (Nat \ {0}) \cup {None} /\ None \notin Nat
ASSUME RowAssumption == None \notin Row
ASSUME PullBounds == MaxVersion \in Nat

VARIABLES
    cursor,          \* each device's cursor in each collection
    replica,         \* each device's copy of each object, or None
    pulls            \* each device's pull: the answer it waits for or applies

vars == <<collections, current_version, rows, cursor, replica, pulls>>

NoPage == [o \in Objects |-> None]

\* asked is a history field: the collection's version when the pull began.
Pull == [pc : {"idle", "select", "apply", "advance", "more"},
         collection : Collections, limit : Limits, asked : Nat,
         page : [Objects -> Row \cup {None}], next : Nat, more : BOOLEAN]

TypeOK ==
    /\ FeedTypeOK
    /\ cursor \in [Devices -> [Collections -> Nat]]
    /\ replica \in [Devices -> [Objects -> Row \cup {None}]]
    /\ pulls \in [Devices -> Pull]

Init ==
    /\ FeedInit
    /\ cursor = [d \in Devices |-> [c \in Collections |-> 0]]
    /\ replica = [d \in Devices |-> NoPage]
    /\ pulls \in [Devices ->
         [pc : {"idle"}, collection : Collections, limit : Limits, asked : {0},
          page : {NoPage}, next : {0}, more : {FALSE}]]

-----------------------------------------------------------------------------
(* The server: List                                                         *)

InCollection(o, c) == rows[o] # None /\ rows[o].collection_id = c

\* Bug: change_seq >= the cursor.
DueAgain(c, since) == {o \in Objects : InCollection(o, c) /\ rows[o].change_seq >= since}

\* WHERE collection_id = c AND change_seq > since
Due(c, since) == {o \in Objects : InCollection(o, c) /\ rows[o].change_seq > since}

\* Bug: LIMIT without ORDER BY.
AnyPages(due, limit) ==
    IF limit = None THEN {due}
    ELSE {page \in SUBSET due :
            Cardinality(page) = limit \/ (page = due /\ Cardinality(due) <= limit)}

\* ORDER BY change_seq LIMIT limit: the first rows, all if they are no more.
Pages(due, limit) ==
    IF limit = None THEN {due}
    ELSE {page \in SUBSET due :
            /\ Cardinality(page) = limit \/ (page = due /\ Cardinality(due) <= limit)
            /\ \A o \in page, p \in due \ page : rows[o].change_seq < rows[p].change_seq}

\* nextCursor, or the client's "highest change_seq you received".
IsNextCursor(next, page, c, since) ==
    \/ page = {} /\ next = since
    \/ \E last \in page : /\ next = rows[last].change_seq
                          /\ \A o \in page : rows[o].change_seq <= next

\* Bug: LIMIT limit, so that the row that tells there is more never comes.
NeverMore(page, due) == FALSE

\* LIMIT limit + 1 found another row.
HasMore(page, due) == page # due

-----------------------------------------------------------------------------
(* The device and its requests                                              *)

\* The first page is asked for, and Exists finds the collection.
Ask(d, c) ==
    /\ pulls[d].pc = "idle" /\ c \in collections
    /\ \E limit \in Limits :
         pulls' = [pulls EXCEPT ![d] =
           [@ EXCEPT !.pc = "select", !.collection = c, !.limit = limit,
                     !.asked = current_version[c]]]
    /\ UNCHANGED <<collections, current_version, rows, cursor, replica>>

\* The next page is.
AskMore(d) ==
    /\ pulls[d].pc = "more" /\ pulls[d].collection \in collections
    /\ pulls' = [pulls EXCEPT ![d].pc = "select"]
    /\ UNCHANGED <<collections, current_version, rows, cursor, replica>>

\* List's SELECT, a query of its own.  A collection deleted since Exists has
\* no rows and answers like one without changes.
Select(d) ==
    LET pull == pulls[d]
        since == cursor[d][pull.collection]
        due == Due(pull.collection, since) IN
    /\ pull.pc = "select"
    /\ \E page \in Pages(due, pull.limit) :
       \E next \in 0 .. current_version[pull.collection] :
         /\ IsNextCursor(next, page, pull.collection, since)
         /\ pulls' = [pulls EXCEPT ![d] =
              [@ EXCEPT !.pc = "apply", !.next = next, !.more = HasMore(page, due),
                        !.page = [o \in Objects |-> IF o \in page THEN rows[o] ELSE None]]]
    /\ UNCHANGED <<collections, current_version, rows, cursor, replica>>

\* "Apply the rows in order, ..."
Apply(d) ==
    /\ pulls[d].pc = "apply"
    /\ replica' = [replica EXCEPT ![d] =
         [o \in Objects |-> IF pulls[d].page[o] # None THEN pulls[d].page[o] ELSE @[o]]]
    /\ pulls' = [pulls EXCEPT ![d].pc = "advance"]
    /\ UNCHANGED <<collections, current_version, rows, cursor>>

\* "... then advance your cursor", and go on while hasMore says so.
Advance(d) ==
    /\ pulls[d].pc = "advance"
    /\ cursor' = [cursor EXCEPT ![d][pulls[d].collection] = pulls[d].next]
    /\ pulls' = [pulls EXCEPT ![d] =
         [@ EXCEPT !.pc = IF pulls[d].more THEN "more" ELSE "idle",
                   !.page = NoPage, !.next = 0, !.more = FALSE]]
    /\ UNCHANGED <<collections, current_version, rows, replica>>

\* The answer is lost, the device stops, or the next page is a 404.
Stop(d) ==
    /\ pulls[d].pc # "idle"
    /\ pulls' = [pulls EXCEPT ![d] =
         [@ EXCEPT !.pc = "idle", !.page = NoPage, !.next = 0, !.more = FALSE]]
    /\ UNCHANGED <<collections, current_version, rows, cursor, replica>>

-----------------------------------------------------------------------------

PullStep(d) ==
    \/ \E c \in Collections : Ask(d, c)
    \/ AskMore(d) \/ Select(d) \/ Apply(d) \/ Advance(d)

FeedStep ==
    /\ \A c \in Collections : current_version'[c] <= MaxVersion
    /\ UNCHANGED <<cursor, replica, pulls>>

Next ==
    \/ FeedNext /\ FeedStep
    \/ \E d \in Devices : PullStep(d) \/ Stop(d)

Spec == Init /\ [][Next]_vars

\* Devices keep pulling each collection, on the doorbell and on the safety
\* poll; pulls may fail at any page, but not every answer is lost for ever.
FairSpec ==
    /\ Spec
    /\ \A d \in Devices :
         /\ WF_vars(AskMore(d)) /\ SF_vars(Select(d)) /\ SF_vars(Apply(d)) /\ SF_vars(Advance(d))
         /\ \A c \in Collections : SF_vars(Ask(d, c))

-----------------------------------------------------------------------------
(* Properties                                                               *)

\* A device's copy is right up to its cursor: no object that moved between two
\* pages, between List's queries or during an interrupted pull is skipped.
NothingIsSkipped ==
    \A d \in Devices, c \in Collections, o \in Objects :
        InCollection(o, c) /\ rows[o].change_seq <= cursor[d][c]
            => replica[d][o] = rows[o]

\* A pull that says it has no more has reached the version its collection had
\* when it began, which is the currentVersion of the event that prompted it.
DonePullsCatchUp ==
    \A d \in Devices :
        LET pull == pulls[d] IN
        /\ pull.pc \in {"apply", "advance"} /\ ~pull.more
        /\ pull.collection \in collections
        => pull.next >= pull.asked

\* A device that keeps pulling gets every change.
ChangesArrive ==
    \A d \in Devices, c \in Collections : \A v \in 1 .. MaxVersion :
        current_version[c] = v ~> cursor[d][c] >= v \/ c \notin collections
=============================================================================
