-------------------------- MODULE PullClientProofs --------------------------
(***************************************************************************)
(* A device that pulls misses nothing, for any number of objects, devices, *)
(* collections and page sizes.                                             *)
(***************************************************************************)
EXTENDS PullClient, TLAPS

\* The feed's changes are ordered without ties, up to the cursor, and a
\* cursor that moved is the last changed object's.
Ordered ==
    \A o \in Objects : rows[o] # None =>
        /\ rows[o].collection_id \in collections
        /\ rows[o].change_seq \in 1 .. current_version[rows[o].collection_id]

Taken ==
    \A c \in collections : current_version[c] > 0 =>
        \E o \in Objects : InCollection(o, c) /\ rows[o].change_seq = current_version[c]

\* No device is ahead of a collection.
CursorsBehind ==
    \A d \in Devices :
        /\ \A c \in Collections : cursor[d][c] <= current_version[c]
        /\ pulls[d].pc # "idle" => pulls[d].asked <= current_version[pulls[d].collection]

\* A page that device d holds is right up to its next cursor; what changed
\* since it was read is behind that.
PageHolds(d) ==
    LET pull == pulls[d]
        c == pull.collection IN
    pull.pc \in {"apply", "advance"} =>
        /\ cursor[d][c] <= pull.next /\ pull.next <= current_version[c]
        /\ \A o \in Objects : InCollection(o, c) /\ rows[o].change_seq <= pull.next =>
             rows[o].change_seq <= cursor[d][c] \/ pull.page[o] = rows[o]
        /\ \A o \in Objects : pull.page[o] # None /\ rows[o] # None =>
             \/ pull.page[o] = rows[o]
             \/ rows[o].change_seq > cursor[d][rows[o].collection_id]

\* An applied page is in the replica.
PageApplied(d) ==
    pulls[d].pc = "advance" =>
        \A o \in Objects :
            InCollection(o, pulls[d].collection) /\ rows[o].change_seq <= pulls[d].next
                => replica[d][o] = rows[o]

PagesHold == \A d \in Devices : PageHolds(d) /\ PageApplied(d)

IInv ==
    /\ TypeOK /\ Ordered /\ Taken /\ CursorsBehind /\ PagesHold
    /\ NothingIsSkipped /\ DonePullsCatchUp

-----------------------------------------------------------------------------
(* The feed's steps                                                         *)

\* A change puts one row at the cursor's next value.
LEMMA ChangePutsARow ==
    ASSUME FeedTypeOK, NEW c \in Collections, NEW o \in Objects, Change(c, o)
    PROVE  /\ c \in collections /\ collections' = collections
           /\ rows' = [rows EXCEPT ![o] = rows'[o]]
           /\ rows'[o] \in Row /\ rows'[o] # None
           /\ rows'[o].collection_id = c /\ rows'[o].change_seq = current_version[c] + 1
           /\ current_version' = [current_version EXCEPT ![c] = current_version[c] + 1]
           /\ rows[o] # None => rows[o].collection_id = c
  <1>1. PICK v \in NextVersions(o, c) :
          rows' = [rows EXCEPT ![o] =
            [collection_id |-> c, version |-> v.version,
             change_seq |-> current_version[c] + 1, deleted |-> v.deleted]]
    BY DEF Change
  <1>2. v.version \in Nat /\ v.deleted \in BOOLEAN
    <2>1. CASE rows[o] = None
      <3>1. v = [version |-> 1, deleted |-> FALSE]
        BY <2>1 DEF NextVersions
      <3> QED
        BY <3>1
    <2>2. CASE rows[o] # None
      <3>1. PICK b \in BOOLEAN : v = [version |-> rows[o].version + 1, deleted |-> b]
        BY <2>2 DEF NextVersions
      <3>2. rows[o].version \in Nat
        BY <2>2 DEF FeedTypeOK, Row
      <3> QED
        BY <3>1, <3>2
    <2> QED
      BY <2>1, <2>2
  <1>3. current_version[c] + 1 \in Nat
    BY DEF FeedTypeOK
  <1> DEFINE row == [collection_id |-> c, version |-> v.version,
                     change_seq |-> current_version[c] + 1, deleted |-> v.deleted]
  <1>4. /\ row \in Row /\ row.collection_id = c
        /\ row.change_seq = current_version[c] + 1
    BY <1>2, <1>3 DEF Row
  <1>5. rows' = [rows EXCEPT ![o] = row] /\ rows'[o] = row
    BY <1>1 DEF FeedTypeOK
  <1>6. /\ c \in collections /\ collections' = collections
        /\ current_version' = [current_version EXCEPT ![c] = current_version[c] + 1]
        /\ rows[o] # None => rows[o].collection_id = c
    BY DEF Change
  <1> HIDE DEF row
  <1>7. rows' = [rows EXCEPT ![o] = rows'[o]]
    BY <1>5
  <1>8. /\ rows'[o] \in Row /\ rows'[o] # None
        /\ rows'[o].collection_id = c /\ rows'[o].change_seq = current_version[c] + 1
    BY <1>4, <1>5, RowAssumption
  <1> QED
    BY <1>6, <1>7, <1>8, Zenon

\* The feed stays well typed.
LEMMA FeedTypeStep == FeedTypeOK /\ FeedNext => FeedTypeOK'
  <1> SUFFICES ASSUME FeedTypeOK, FeedNext PROVE FeedTypeOK'
    OBVIOUS
  <1>1. ASSUME NEW c \in Collections, Claim(c) \/ Delete(c) PROVE FeedTypeOK'
    BY <1>1 DEF Claim, Delete, FeedTypeOK
  <1>2. ASSUME NEW c \in Collections, NEW o \in Objects, Change(c, o) PROVE FeedTypeOK'
    BY <1>2, ChangePutsARow DEF FeedTypeOK
  <1> QED
    BY <1>1, <1>2 DEF FeedNext

\* The feed's own invariants are inductive.
LEMMA FeedStepOrdered ==
    FeedTypeOK /\ Ordered /\ Taken /\ FeedNext => Ordered' /\ Taken'
  <1> SUFFICES ASSUME FeedTypeOK, Ordered, Taken, FeedNext PROVE Ordered' /\ Taken'
    OBVIOUS
  <1>1. ASSUME NEW c \in Collections, Claim(c) PROVE Ordered' /\ Taken'
    BY <1>1 DEF Claim, Ordered, Taken, FeedTypeOK, InCollection
  <1>2. ASSUME NEW c \in Collections, Delete(c) PROVE Ordered' /\ Taken'
    <2>1. \A o \in Objects :
            /\ rows'[o] = IF InCollection(o, c) THEN None ELSE rows[o]
            /\ \A x \in collections' : InCollection(o, x)' <=> InCollection(o, x)
      BY <1>2 DEF Delete, InCollection, FeedTypeOK
    <2> QED
      BY <1>2, <2>1 DEF Delete, Ordered, Taken, InCollection, FeedTypeOK
  <1>3. ASSUME NEW c \in Collections, NEW o \in Objects, Change(c, o)
        PROVE  Ordered' /\ Taken'
    <2>1. /\ c \in collections /\ collections' = collections
          /\ \A p \in Objects \ {o} : rows'[p] = rows[p]
          /\ rows'[o] # None
          /\ rows'[o].collection_id = c /\ rows'[o].change_seq = current_version[c] + 1
          /\ current_version'[c] = current_version[c] + 1
          /\ \A x \in Collections \ {c} : current_version'[x] = current_version[x]
          /\ rows[o] # None => rows[o].collection_id = c
      BY <1>3, ChangePutsARow DEF FeedTypeOK
    <2>2. current_version \in [Collections -> Nat]
      BY DEF FeedTypeOK
    <2>3. ASSUME NEW p \in Objects, rows'[p] # None
          PROVE  /\ rows'[p].collection_id \in collections'
                 /\ rows'[p].change_seq \in 1 .. current_version'[rows'[p].collection_id]
      <3>1. CASE p = o
        BY <2>1, <2>2, <3>1
      <3>2. CASE p # o
        <4>1. /\ rows'[p] = rows[p] /\ rows[p].collection_id \in collections
              /\ rows[p].change_seq \in 1 .. current_version[rows[p].collection_id]
          BY <2>1, <2>3, <3>2 DEF Ordered
        <4>2. rows[p].collection_id \in Collections
          BY <4>1 DEF FeedTypeOK
        <4> QED
          BY <2>1, <2>2, <4>1, <4>2
      <3> QED
        BY <3>1, <3>2
    <2>4. ASSUME NEW x \in collections, current_version'[x] > 0
          PROVE  \E p \in Objects : InCollection(p, x)' /\ rows'[p].change_seq = current_version'[x]
      <3>1. CASE x = c
        BY <2>1, <3>1 DEF InCollection
      <3>2. CASE x # c
        <4>1. x \in Collections /\ current_version'[x] = current_version[x]
          BY <2>1, <3>2 DEF FeedTypeOK
        <4>2. PICK p \in Objects : InCollection(p, x) /\ rows[p].change_seq = current_version[x]
          BY <2>4, <4>1 DEF Taken
        <4>3. p # o
          BY <2>1, <3>2, <4>2 DEF InCollection
        <4> QED
          BY <2>1, <4>1, <4>2, <4>3 DEF InCollection
      <3> QED
        BY <3>1, <3>2
    <2> QED
      BY <2>1, <2>3, <2>4 DEF Ordered, Taken
  <1> QED
    BY <1>1, <1>2, <1>3 DEF FeedNext

\* A step of the feed leaves a row alone, removes it, or moves it past its
\* collection's cursor; cursors only grow.
Moved(o) ==
    \/ rows'[o] = rows[o]
    \/ rows'[o] = None
    \/ /\ rows'[o] # None /\ rows'[o].collection_id \in Collections
       /\ rows'[o].change_seq > current_version[rows'[o].collection_id]

\* FeedNext moves rows only in these ways.
LEMMA FeedMoves ==
    ASSUME FeedTypeOK, FeedNext
    PROVE  /\ \A o \in Objects : Moved(o)
           /\ \A c \in Collections : current_version[c] <= current_version'[c]
           /\ \A c \in Collections : c \in collections' => c \in collections \/ current_version'[c] = 0
  <1>1. ASSUME NEW c \in Collections, Claim(c) \/ Delete(c)
        PROVE  /\ \A o \in Objects : Moved(o)
               /\ current_version' = current_version
               /\ \A x \in Collections : x \in collections' => x \in collections \/ current_version'[x] = 0
    BY <1>1 DEF Claim, Delete, Moved, FeedTypeOK
  <1>2. ASSUME NEW c \in Collections, NEW o \in Objects, Change(c, o)
        PROVE  /\ \A p \in Objects : Moved(p)
               /\ \A x \in Collections : current_version[x] <= current_version'[x]
               /\ collections' = collections
    BY <1>2, ChangePutsARow DEF Moved, FeedTypeOK
  <1> QED
    BY <1>1, <1>2 DEF FeedNext, FeedTypeOK

-----------------------------------------------------------------------------
(* The device's steps                                                       *)

\* No page is a page.
LEMMA NoPageTyped == NoPage \in [Objects -> Row \cup {None}]
  BY DEF NoPage

\* The pull of device d once a page was read.
Read(d, page, next, more) ==
    [pulls[d] EXCEPT !.pc = "apply", !.next = next, !.more = more,
                     !.page = [o \in Objects |-> IF o \in page THEN rows[o] ELSE None]]

\* What it is made of.
LEMMA ReadTyped ==
    ASSUME TypeOK, NEW d \in Devices, NEW page \in SUBSET Objects, NEW next \in Nat,
           NEW more \in BOOLEAN
    PROVE  LET pull == Read(d, page, next, more) IN
           /\ pull \in Pull
           /\ pull.pc = "apply" /\ pull.collection = pulls[d].collection
           /\ pull.asked = pulls[d].asked /\ pull.next = next /\ pull.more = more
           /\ \A o \in Objects : pull.page[o] = IF o \in page THEN rows[o] ELSE None
  <1> DEFINE rs == [o \in Objects |-> IF o \in page THEN rows[o] ELSE None]
  <1>1. /\ rs \in [Objects -> Row \cup {None}] /\ pulls[d] \in Pull
        /\ \A o \in Objects : rs[o] = IF o \in page THEN rows[o] ELSE None
    BY SMTT(30) DEF TypeOK, FeedTypeOK
  <1>2. Read(d, page, next, more) =
          [pulls[d] EXCEPT !.pc = "apply", !.next = next, !.more = more, !.page = rs]
    BY SMTT(30) DEF Read
  <1> HIDE DEF rs
  <1> QED
    BY <1>1, <1>2 DEF Pull

\* A SELECT reads the first rows after the cursor: what is due and not behind
\* the next cursor is among them, and all of it if there is no more.
LEMMA SelectReads ==
    ASSUME TypeOK, NEW d \in Devices, Select(d)
    PROVE  LET c == pulls[d].collection
               since == cursor[d][c]
               due == Due(c, since) IN
           \E page \in SUBSET Objects, next \in Nat, more \in BOOLEAN :
             /\ pulls' = [pulls EXCEPT ![d] = Read(d, page, next, more)]
             /\ page \subseteq due
             /\ next <= current_version[c]
             /\ IsNextCursor(next, page, c, since)
             /\ \A o \in page, p \in due \ page : rows[o].change_seq < rows[p].change_seq
             /\ ~more => page = due
  <1> DEFINE c == pulls[d].collection
             since == cursor[d][c]
             due == Due(c, since)
  <1>1. PICK page \in Pages(due, pulls[d].limit), next \in 0 .. current_version[c] :
          /\ IsNextCursor(next, page, c, since)
          /\ pulls' = [pulls EXCEPT ![d] = Read(d, page, next, HasMore(page, due))]
    BY DEF Select, Read
  <1>2. current_version[c] \in Nat
    BY DEF TypeOK, FeedTypeOK, Pull
  <1>3. /\ page \subseteq due
        /\ \A o \in page, p \in due \ page : rows[o].change_seq < rows[p].change_seq
    BY <1>1 DEF Pages
  <1>4. due \subseteq Objects
    BY DEF Due
  <1>5. HasMore(page, due) \in BOOLEAN /\ (~HasMore(page, due) => page = due)
    BY DEF HasMore
  <1>6. next \in Nat /\ next <= current_version[c]
    BY <1>1, <1>2
  <1> HIDE DEF due
  <1> QED
    BY <1>1, <1>3, <1>4, <1>5, <1>6, ZenonT(60) DEF due

\* The state stays well typed.
LEMMA TypeStep == TypeOK /\ [Next]_vars => TypeOK'
  <1> SUFFICES ASSUME TypeOK, [Next]_vars PROVE TypeOK'
    OBVIOUS
  <1>1. CASE FeedNext /\ FeedStep
    BY <1>1, FeedTypeStep DEF FeedStep, TypeOK
  <1>2. ASSUME NEW d \in Devices, UNCHANGED feed,
               NEW pull \in Pull, pulls' = [pulls EXCEPT ![d] = pull],
               cursor' \in [Devices -> [Collections -> Nat]],
               replica' \in [Devices -> [Objects -> Row \cup {None}]]
        PROVE  TypeOK'
    BY <1>2 DEF feed, FeedTypeOK, TypeOK
  <1>3. ASSUME NEW d \in Devices, NEW c \in Collections, Ask(d, c) PROVE TypeOK'
    <2>1. PICK limit \in Limits : pulls' = [pulls EXCEPT ![d] =
            [@ EXCEPT !.pc = "select", !.collection = c, !.limit = limit,
                      !.asked = current_version[c]]]
      BY <1>3 DEF Ask
    <2> DEFINE pull == [pulls[d] EXCEPT !.pc = "select", !.collection = c, !.limit = limit,
                                        !.asked = current_version[c]]
    <2>2. pull \in Pull
      BY DEF TypeOK, FeedTypeOK, Pull
    <2>3. pulls' = [pulls EXCEPT ![d] = pull]
      BY <2>1
    <2> HIDE DEF pull
    <2> QED
      BY <1>2, <1>3, <2>2, <2>3 DEF Ask, feed, TypeOK
  <1>4. ASSUME NEW d \in Devices, AskMore(d) PROVE TypeOK'
    BY <1>4 DEF AskMore, TypeOK, FeedTypeOK, Pull
  <1>5. ASSUME NEW d \in Devices, Select(d) PROVE TypeOK'
    <2>1. PICK page \in SUBSET Objects, next \in Nat, more \in BOOLEAN :
            pulls' = [pulls EXCEPT ![d] = Read(d, page, next, more)]
      BY <1>5, SelectReads
    <2>2. Read(d, page, next, more) \in Pull
      BY ReadTyped
    <2> QED
      BY <1>2, <1>5, <2>1, <2>2 DEF Select, feed, TypeOK
  <1>6. ASSUME NEW d \in Devices, Apply(d) PROVE TypeOK'
    BY <1>6, ZenonT(60) DEF Apply, TypeOK, FeedTypeOK, Pull
  <1>7. ASSUME NEW d \in Devices, Advance(d) PROVE TypeOK'
    <2> DEFINE pull == [pulls[d] EXCEPT
                 !.pc = IF pulls[d].more THEN "more" ELSE "idle",
                 !.page = NoPage, !.next = 0, !.more = FALSE]
    <2>1. pull \in Pull
      BY NoPageTyped DEF TypeOK, Pull
    <2>2. pulls' = [pulls EXCEPT ![d] = pull]
      BY <1>7 DEF Advance
    <2> HIDE DEF pull
    <2>3. cursor' \in [Devices -> [Collections -> Nat]]
      BY <1>7 DEF Advance, TypeOK, Pull
    <2> QED
      BY <1>2, <1>7, <2>1, <2>2, <2>3 DEF Advance, feed, TypeOK
  <1>8. ASSUME NEW d \in Devices, Stop(d) PROVE TypeOK'
    <2> DEFINE pull == [pulls[d] EXCEPT
                 !.pc = "idle", !.page = NoPage, !.next = 0, !.more = FALSE]
    <2>1. pull \in Pull
      BY NoPageTyped DEF TypeOK, Pull
    <2>2. pulls' = [pulls EXCEPT ![d] = pull]
      BY <1>8 DEF Stop
    <2> HIDE DEF pull
    <2> QED
      BY <1>2, <1>8, <2>1, <2>2 DEF Stop, feed, TypeOK
  <1>9. CASE UNCHANGED vars
    BY <1>9 DEF vars, TypeOK, FeedTypeOK
  <1> QED
    BY <1>1, <1>3, <1>4, <1>5, <1>6, <1>7, <1>8, <1>9 DEF Next, PullStep

-----------------------------------------------------------------------------
(* Nothing is skipped                                                       *)

\* A step of the feed leaves everything a device holds or has right.
LEMMA FeedKeepsPulls == IInv /\ FeedNext /\ FeedStep => IInv'
  <1> SUFFICES ASSUME IInv, FeedNext, FeedStep PROVE IInv'
    OBVIOUS
  <1>1. /\ UNCHANGED <<cursor, replica, pulls>> /\ TypeOK /\ TypeOK' /\ Ordered' /\ Taken'
        /\ \A o \in Objects : Moved(o)
        /\ \A c \in Collections : current_version[c] <= current_version'[c]
        /\ \A c \in Collections : c \in collections' => c \in collections \/ current_version'[c] = 0
    BY FeedTypeStep, FeedStepOrdered, FeedMoves DEF FeedStep, IInv, TypeOK
  <1>2. /\ current_version \in [Collections -> Nat] /\ current_version' \in [Collections -> Nat]
        /\ cursor \in [Devices -> [Collections -> Nat]]
        /\ rows \in [Objects -> Row \cup {None}] /\ rows' \in [Objects -> Row \cup {None}]
        /\ pulls \in [Devices -> Pull]
    BY <1>1 DEF TypeOK, FeedTypeOK
  <1>3. ASSUME NEW d \in Devices
        PROVE  /\ pulls[d].collection \in Collections /\ pulls[d].asked \in Nat
               /\ pulls[d].next \in Nat
    BY <1>2 DEF Pull
  <1>4. CursorsBehind'
    BY <1>1, <1>2, <1>3 DEF IInv, CursorsBehind
  \* What was changed is past every cursor, and so behind every page.
  <1>5. ASSUME NEW o \in Objects, NEW c \in Collections,
               rows'[o] # None, rows'[o].collection_id = c,
               NEW n \in Nat, n <= current_version[c], rows'[o].change_seq <= n
        PROVE  rows'[o] = rows[o] /\ InCollection(o, c)
    <2>1. rows'[o].change_seq \in Nat /\ rows'[o].collection_id = c
      BY <1>2, <1>5 DEF InCollection, Row
    <2> QED
      BY <1>1, <1>2, <1>5, <2>1 DEF Moved, InCollection
  <1>6. NothingIsSkipped'
    BY <1>1, <1>2, <1>5 DEF IInv, NothingIsSkipped, CursorsBehind, InCollection
  <1>7. ASSUME NEW d \in Devices PROVE PageHolds(d)' /\ PageApplied(d)'
    <2> DEFINE c == pulls[d].collection
               n == pulls[d].next
    <2>1. PageHolds(d) /\ PageApplied(d) /\ c \in Collections /\ n \in Nat
      BY <1>3 DEF IInv, PagesHold
    <2>2. CASE pulls[d].pc \in {"apply", "advance"}
      <3>1. cursor[d][c] <= n /\ n <= current_version[c] /\ n <= current_version'[c]
        BY <1>1, <1>2, <2>1, <2>2 DEF PageHolds
      <3>2. ASSUME NEW o \in Objects, rows'[o] # None, rows'[o].collection_id = c,
                   rows'[o].change_seq <= n
            PROVE  rows'[o] = rows[o] /\ InCollection(o, c)
        BY <1>5, <2>1, <3>1, <3>2
      <3>3. ASSUME NEW o \in Objects, pulls[d].page[o] # None, rows'[o] # None
            PROVE  \/ pulls[d].page[o] = rows'[o]
                   \/ rows'[o].change_seq > cursor[d][rows'[o].collection_id]
        <4>1. CASE rows'[o] = rows[o]
          BY <2>1, <2>2, <3>3, <4>1 DEF PageHolds
        <4>2. CASE rows'[o] # rows[o]
          <5> DEFINE x == rows'[o].collection_id
          <5>1. x \in Collections /\ rows'[o].change_seq > current_version[x]
            BY <1>1, <3>3, <4>2 DEF Moved
          <5>2. cursor[d][x] <= current_version[x]
            BY <5>1 DEF IInv, CursorsBehind
          <5>3. rows'[o].change_seq \in Nat
            BY <1>2, <3>3 DEF Row
          <5> QED
            BY <1>2, <5>1, <5>2, <5>3
        <4> QED
          BY <4>1, <4>2
      <3>4. PageHolds(d)'
        BY <1>1, <2>1, <2>2, <3>1, <3>2, <3>3 DEF PageHolds, InCollection
      <3>5. PageApplied(d)'
        BY <1>1, <2>1, <2>2, <3>2 DEF PageApplied, InCollection
      <3> QED
        BY <3>4, <3>5
    <2>3. CASE pulls[d].pc \notin {"apply", "advance"}
      BY <1>1, <2>3 DEF PageHolds, PageApplied
    <2> QED
      BY <2>2, <2>3
  <1>8. DonePullsCatchUp'
    <2> SUFFICES ASSUME NEW d \in Devices, pulls[d].pc \in {"apply", "advance"},
                        ~pulls[d].more, pulls[d].collection \in collections'
                 PROVE  pulls[d].next >= pulls[d].asked
      BY <1>1 DEF DonePullsCatchUp
    <2> DEFINE c == pulls[d].collection
    <2>1. c \in Collections /\ pulls[d].asked \in Nat /\ pulls[d].next \in Nat
      BY <1>3
    <2>2. CASE c \in collections
      BY <2>2 DEF IInv, DonePullsCatchUp
    <2>3. CASE c \notin collections
      <3>1. current_version'[c] = 0
        BY <1>1, <2>1, <2>3
      <3>2. pulls[d].asked <= current_version[c] /\ current_version[c] <= current_version'[c]
        BY <1>1, <2>1 DEF IInv, CursorsBehind
      <3> QED
        BY <1>2, <2>1, <3>1, <3>2
    <2> QED
      BY <2>2, <2>3
  <1> QED
    BY <1>1, <1>4, <1>6, <1>7, <1>8 DEF IInv, PagesHold

\* What the invariant says of one device.
DeviceInv(d) ==
    /\ \A c \in Collections : cursor[d][c] <= current_version[c]
    /\ pulls[d].pc # "idle" => pulls[d].asked <= current_version[pulls[d].collection]
    /\ PageHolds(d) /\ PageApplied(d)
    /\ \A c \in Collections, o \in Objects :
         InCollection(o, c) /\ rows[o].change_seq <= cursor[d][c] => replica[d][o] = rows[o]
    /\ /\ pulls[d].pc \in {"apply", "advance"} /\ ~pulls[d].more
       /\ pulls[d].collection \in collections
       => pulls[d].next >= pulls[d].asked

\* The invariant, device by device.
LEMMA InvByDevice ==
    IInv <=> TypeOK /\ Ordered /\ Taken /\ \A d \in Devices : DeviceInv(d)
  BY DEF IInv, DeviceInv, CursorsBehind, PagesHold, NothingIsSkipped, DonePullsCatchUp

\* A device that does nothing is as it was.
LEMMA OtherDeviceKept ==
    ASSUME NEW d \in Devices, DeviceInv(d), UNCHANGED feed,
           pulls'[d] = pulls[d], cursor'[d] = cursor[d], replica'[d] = replica[d]
    PROVE  DeviceInv(d)'
  BY DEF DeviceInv, feed, PageHolds, PageApplied, InCollection

\* A device between two pages holds nothing but its cursor and replica.
LEMMA NoPageKept ==
    ASSUME NEW d \in Devices, DeviceInv(d), UNCHANGED feed,
           cursor'[d] = cursor[d], replica'[d] = replica[d],
           pulls'[d].pc \notin {"apply", "advance"},
           pulls'[d].pc # "idle" =>
               pulls'[d].asked <= current_version[pulls'[d].collection]
    PROVE  DeviceInv(d)'
  BY DEF DeviceInv, feed, PageHolds, PageApplied, InCollection

\* A page read is right up to its next cursor: it is a prefix of what is due.
LEMMA SelectHolds ==
    ASSUME IInv, NEW d \in Devices, Select(d)
    PROVE  DeviceInv(d)'
  <1> DEFINE c == pulls[d].collection
             since == cursor[d][c]
             due == Due(c, since)
  <1>1. PICK page \in SUBSET Objects, next \in Nat, more \in BOOLEAN :
          /\ pulls' = [pulls EXCEPT ![d] = Read(d, page, next, more)]
          /\ page \subseteq due
          /\ next <= current_version[c]
          /\ IsNextCursor(next, page, c, since)
          /\ \A o \in page, p \in due \ page : rows[o].change_seq < rows[p].change_seq
          /\ ~more => page = due
    BY SelectReads DEF IInv
  <1> DEFINE pull == Read(d, page, next, more)
  <1>2. /\ pull.pc = "apply" /\ pull.collection = c
        /\ pull.asked = pulls[d].asked /\ pull.next = next /\ pull.more = more
        /\ \A o \in Objects : pull.page[o] = IF o \in page THEN rows[o] ELSE None
    BY ReadTyped DEF IInv
  <1>3. pulls'[d] = pull
    BY <1>1 DEF IInv, TypeOK
  <1>4. /\ UNCHANGED <<collections, current_version, rows, cursor, replica>>
        /\ pulls[d].pc = "select"
    BY DEF Select
  <1>5. /\ c \in Collections /\ since \in Nat /\ current_version[c] \in Nat
        /\ pulls[d].asked \in Nat
        /\ \A o \in Objects : rows[o] # None => rows[o].change_seq \in Nat
    BY DEF IInv, TypeOK, FeedTypeOK, Pull, Row
  <1>6. DeviceInv(d)
    BY InvByDevice
  <1>7. \A o \in Objects : o \in due <=> InCollection(o, c) /\ rows[o].change_seq > since
    BY DEF Due
  <1> HIDE DEF pull, due
  <1>8. since <= next
    BY <1>1, <1>5, <1>7 DEF IsNextCursor, InCollection
  \* The last row of the page bounds it, and what is due beyond is later.
  <1>9. ASSUME NEW o \in Objects, InCollection(o, c), rows[o].change_seq <= next
        PROVE  rows[o].change_seq <= since \/ o \in page
    <2>1. CASE page = {}
      BY <1>1, <1>9, <2>1 DEF IsNextCursor
    <2>2. CASE page # {} /\ o \in due \ page
      <3>1. PICK last \in page : next = rows[last].change_seq
        BY <1>1, <2>2 DEF IsNextCursor
      <3>2. last \in Objects /\ InCollection(last, c)
        BY <1>1, <1>7
      <3> QED
        BY <1>1, <1>5, <1>9, <2>2, <3>1, <3>2 DEF InCollection
    <2>3. CASE o \notin due
      BY <1>5, <1>7, <1>9, <2>3 DEF InCollection
    <2> QED
      BY <2>1, <2>2, <2>3
  <1>10. ASSUME NEW o \in Objects, o \in page PROVE pull.page[o] = rows[o]
    BY <1>2, <1>10
  \* A complete page reaches the last change, and so what the pull asked for.
  <1>11. ASSUME ~more, c \in collections PROVE next >= pulls[d].asked
    <2>1. pulls[d].asked <= current_version[c]
      BY <1>4, <1>6 DEF DeviceInv
    <2>2. CASE current_version[c] = 0
      BY <1>5, <2>1, <2>2
    <2>3. CASE current_version[c] > 0
      <3>1. PICK o \in Objects : InCollection(o, c) /\ rows[o].change_seq = current_version[c]
        BY <1>11, <2>3 DEF IInv, Taken
      <3>2. CASE o \in due
        BY <1>1, <1>5, <1>11, <2>1, <3>1, <3>2 DEF IsNextCursor
      <3>3. CASE o \notin due
        BY <1>5, <1>7, <1>8, <2>1, <3>1, <3>3
      <3> QED
        BY <3>2, <3>3
    <2> QED
      BY <1>5, <2>2, <2>3
  <1>12. ASSUME NEW o \in Objects, pull.page[o] # None PROVE pull.page[o] = rows[o]
    BY <1>2, <1>12
  <1> HIDE DEF c, since
  <1>13. PageHolds(d)'
    <2>1. /\ pulls'[d].collection = c /\ pulls'[d].next = next /\ pulls'[d].pc = "apply"
          /\ pulls'[d].page = pull.page /\ cursor'[d][c] = since
      BY <1>2, <1>3, <1>4 DEF since
    <2> QED
      BY <1>1, <1>4, <1>8, <1>9, <1>10, <1>12, <2>1 DEF PageHolds, InCollection
  <1>14. PageApplied(d)'
    BY <1>2, <1>3 DEF PageApplied
  <1>15. /\ pulls'[d].asked <= current_version'[pulls'[d].collection]
         /\ (~pulls'[d].more /\ pulls'[d].collection \in collections') =>
              pulls'[d].next >= pulls'[d].asked
    <2>1. /\ pulls'[d].asked = pulls[d].asked /\ pulls'[d].next = next
          /\ pulls'[d].more = more /\ pulls'[d].collection = c
      BY <1>2, <1>3
    <2>2. pulls[d].asked <= current_version[c]
      BY <1>4, <1>6 DEF DeviceInv, c
    <2> QED
      BY <1>4, <1>11, <2>1, <2>2
  <1> QED
    BY <1>4, <1>6, <1>13, <1>14, <1>15 DEF DeviceInv, InCollection

\* Applying it makes the replica right up to the page's next cursor, and never
\* puts an older row back.
LEMMA ApplyHolds ==
    ASSUME IInv, NEW d \in Devices, Apply(d)
    PROVE  DeviceInv(d)'
  <1>1. /\ UNCHANGED <<collections, current_version, rows, cursor>>
        /\ pulls[d].pc = "apply"
        /\ pulls'[d] = [pulls[d] EXCEPT !.pc = "advance"]
        /\ \A o \in Objects : replica'[d][o] =
             IF pulls[d].page[o] # None THEN pulls[d].page[o] ELSE replica[d][o]
    BY DEF Apply, IInv, TypeOK
  <1>2. /\ pulls[d] \in Pull /\ rows \in [Objects -> Row \cup {None}]
        /\ cursor[d] \in [Collections -> Nat]
    BY DEF IInv, TypeOK, FeedTypeOK
  <1>3. /\ pulls'[d].pc = "advance" /\ pulls'[d].collection = pulls[d].collection
        /\ pulls'[d].asked = pulls[d].asked /\ pulls'[d].next = pulls[d].next
        /\ pulls'[d].more = pulls[d].more /\ pulls'[d].page = pulls[d].page
    BY <1>1, <1>2 DEF Pull
  <1>4. DeviceInv(d) /\ PageHolds(d)
    BY InvByDevice DEF DeviceInv
  <1>5. ASSUME NEW c \in Collections, NEW o \in Objects, rows[o] # None,
               rows[o].collection_id = c, rows[o].change_seq <= cursor[d][c]
        PROVE  replica'[d][o] = rows[o]
    <2>1. replica[d][o] = rows[o]
      BY <1>4, <1>5 DEF DeviceInv, InCollection
    <2>2. pulls[d].page[o] # None => pulls[d].page[o] = rows[o]
      BY <1>1, <1>2, <1>4, <1>5 DEF PageHolds, Row
    <2> QED
      BY <1>1, <2>1, <2>2
  <1>6. PageHolds(d)'
    BY <1>1, <1>3, <1>4 DEF PageHolds, InCollection
  <1>7. PageApplied(d)'
    <2> SUFFICES ASSUME NEW o \in Objects, rows[o] # None,
                        rows[o].collection_id = pulls[d].collection,
                        rows[o].change_seq <= pulls[d].next
                 PROVE  replica'[d][o] = rows[o]
      BY <1>1, <1>3 DEF PageApplied, InCollection
    <2>1. \/ rows[o].change_seq <= cursor[d][pulls[d].collection]
          \/ pulls[d].page[o] = rows[o]
      BY <1>1, <1>4 DEF PageHolds, InCollection
    <2> QED
      BY <1>1, <1>2, <1>5, <2>1 DEF Pull
  <1>8. \A c \in Collections, o \in Objects :
          (InCollection(o, c) /\ rows[o].change_seq <= cursor[d][c])' => (replica[d][o] = rows[o])'
    BY <1>1, <1>5 DEF InCollection
  <1> QED
    BY <1>1, <1>3, <1>4, <1>6, <1>7, <1>8 DEF DeviceInv

\* So advancing the cursor to it skips nothing.
LEMMA AdvanceHolds ==
    ASSUME IInv, NEW d \in Devices, Advance(d)
    PROVE  DeviceInv(d)'
  <1>1. /\ UNCHANGED <<collections, current_version, rows, replica>>
        /\ pulls[d].pc = "advance" /\ pulls[d].collection \in Collections
        /\ pulls[d] \in Pull
        /\ \A c \in Collections : cursor'[d][c] =
             IF c = pulls[d].collection THEN pulls[d].next ELSE cursor[d][c]
    BY DEF Advance, IInv, TypeOK, Pull
  <1>2. /\ pulls'[d].pc \in {"more", "idle"}
        /\ pulls'[d].collection = pulls[d].collection /\ pulls'[d].asked = pulls[d].asked
    <2>1. pulls'[d] = [pulls[d] EXCEPT
                 !.pc = IF pulls[d].more THEN "more" ELSE "idle",
                 !.page = NoPage, !.next = 0, !.more = FALSE]
      BY DEF Advance, IInv, TypeOK
    <2> QED
      BY <1>1, <2>1 DEF Pull
  <1>3. DeviceInv(d) /\ PageHolds(d) /\ PageApplied(d)
    BY InvByDevice DEF DeviceInv
  <1>4. \A c \in Collections : cursor'[d][c] <= current_version[c]
    BY <1>1, <1>3 DEF DeviceInv, PageHolds
  <1>5. ASSUME NEW c \in Collections, NEW o \in Objects, rows[o] # None,
               rows[o].collection_id = c, rows[o].change_seq <= cursor'[d][c]
        PROVE  replica[d][o] = rows[o]
    BY <1>1, <1>3, <1>5 DEF DeviceInv, PageApplied, InCollection
  <1>6. PageHolds(d)' /\ PageApplied(d)'
    BY <1>2 DEF PageHolds, PageApplied
  <1>7. \A c \in Collections, o \in Objects :
          (InCollection(o, c) /\ rows[o].change_seq <= cursor[d][c])' => (replica[d][o] = rows[o])'
    BY <1>1, <1>5 DEF InCollection
  <1> QED
    BY <1>1, <1>2, <1>3, <1>4, <1>6, <1>7 DEF DeviceInv

\* Asking and stopping leave a device without a page.
LEMMA AskHolds ==
    ASSUME IInv, NEW d \in Devices,
           (\E c \in Collections : Ask(d, c)) \/ AskMore(d) \/ Stop(d)
    PROVE  DeviceInv(d)'
  <1>1. /\ UNCHANGED feed /\ cursor'[d] = cursor[d] /\ replica'[d] = replica[d]
        /\ pulls[d] \in Pull /\ current_version \in [Collections -> Nat]
    BY DEF Ask, AskMore, Stop, feed, IInv, TypeOK, FeedTypeOK
  <1>2. DeviceInv(d)
    BY InvByDevice
  <1>3. ASSUME NEW c \in Collections, Ask(d, c) PROVE DeviceInv(d)'
    <2>1. PICK limit \in Limits : pulls'[d] =
            [pulls[d] EXCEPT !.pc = "select", !.collection = c, !.limit = limit,
                             !.asked = current_version[c]]
      BY <1>3 DEF Ask, IInv, TypeOK
    <2>2. /\ pulls'[d].pc = "select" /\ pulls'[d].collection = c
          /\ pulls'[d].asked = current_version[c]
      BY <1>1, <2>1 DEF Pull
    <2>3. pulls'[d].asked <= current_version[pulls'[d].collection]
      BY <1>1, <2>2
    <2> QED
      BY <1>1, <1>2, <2>2, <2>3, NoPageKept
  <1>4. CASE AskMore(d)
    <2>1. pulls'[d] = [pulls[d] EXCEPT !.pc = "select"] /\ pulls[d].pc = "more"
      BY <1>4 DEF AskMore, IInv, TypeOK
    <2>2. /\ pulls'[d].pc = "select" /\ pulls'[d].collection = pulls[d].collection
          /\ pulls'[d].asked = pulls[d].asked
      BY <1>1, <2>1 DEF Pull
    <2>3. pulls'[d].asked <= current_version[pulls'[d].collection]
      BY <1>2, <2>1, <2>2 DEF DeviceInv
    <2> QED
      BY <1>1, <1>2, <2>2, <2>3, NoPageKept
  <1>5. CASE Stop(d)
    <2>1. pulls'[d] = [pulls[d] EXCEPT
                 !.pc = "idle", !.page = NoPage, !.next = 0, !.more = FALSE]
      BY <1>5 DEF Stop, IInv, TypeOK
    <2>2. pulls'[d].pc = "idle"
      BY <1>1, <2>1, SMTT(30) DEF Pull
    <2> QED
      BY <1>1, <1>2, <2>2, NoPageKept
  <1> QED
    BY <1>3, <1>4, <1>5

\* A device's step touches that device alone.
LEMMA DeviceKeepsInv ==
    ASSUME IInv, NEW d \in Devices, PullStep(d) \/ Stop(d)
    PROVE  IInv'
  <1>1. DeviceInv(d)'
    BY SelectHolds, ApplyHolds, AdvanceHolds, AskHolds, SMTT(30) DEF PullStep
  <1>2. UNCHANGED feed
    BY DEF PullStep, Stop, Ask, AskMore, Select, Apply, Advance, feed
  <1>3. ASSUME NEW e \in Devices, e # d
        PROVE  pulls'[e] = pulls[e] /\ cursor'[e] = cursor[e] /\ replica'[e] = replica[e]
    BY <1>3 DEF PullStep, Stop, Ask, AskMore, Select, Apply, Advance, IInv, TypeOK
  <1>4. \A e \in Devices : DeviceInv(e)'
    BY <1>1, <1>2, <1>3, InvByDevice, OtherDeviceKept
  <1>5. TypeOK'
    BY TypeStep DEF IInv, Next
  <1>6. Ordered' /\ Taken'
    BY <1>2 DEF IInv, Ordered, Taken, InCollection, feed
  <1> QED
    BY <1>4, <1>5, <1>6, SMTT(30)
       DEF IInv, DeviceInv, CursorsBehind, PagesHold, NothingIsSkipped, DonePullsCatchUp

\* Nothing has happened yet.
LEMMA InitInv == Init => IInv
  <1> SUFFICES ASSUME Init PROVE IInv
    OBVIOUS
  <1>1. TypeOK
    <2>1. FeedTypeOK
      BY DEF Init, FeedInit, FeedTypeOK
    <2>2. [pc : {"idle"}, collection : Collections, limit : Limits, asked : {0},
           page : {NoPage}, next : {0}, more : {FALSE}] \subseteq Pull
      <3>1. ASSUME NEW page \in [Objects -> Row \cup {None}]
            PROVE  [pc : {"idle"}, collection : Collections, limit : Limits, asked : {0},
                    page : {page}, next : {0}, more : {FALSE}] \subseteq Pull
        <4> SUFFICES ASSUME NEW pull \in
                 [pc : {"idle"}, collection : Collections, limit : Limits, asked : {0},
                  page : {page}, next : {0}, more : {FALSE}]
               PROVE  pull \in Pull
          OBVIOUS
        <4>1. /\ pull = [pc |-> pull.pc, collection |-> pull.collection, limit |-> pull.limit,
                         asked |-> pull.asked, page |-> pull.page, next |-> pull.next,
                         more |-> pull.more]
              /\ pull.pc = "idle" /\ pull.collection \in Collections
              /\ pull.limit \in Limits /\ pull.asked = 0 /\ pull.page = page
              /\ pull.next = 0 /\ pull.more = FALSE
          OBVIOUS
        <4>2. 0 \in Nat /\ FALSE \in BOOLEAN
              /\ "idle" \in {"idle", "select", "apply", "advance", "more"}
          OBVIOUS
        <4> QED
          BY <3>1, <4>1, <4>2, Zenon DEF Pull
      <3> QED
        BY <3>1, NoPageTyped, Zenon
    <2>3. pulls \in [Devices -> Pull]
      BY <2>2, Zenon DEF Init
    <2> QED
      BY <2>1, <2>3, NoPageTyped DEF Init, TypeOK
  <1>2. /\ \A o \in Objects : rows[o] = None
        /\ \A c \in Collections : current_version[c] = 0
        /\ \A d \in Devices : pulls[d].pc = "idle"
        /\ \A d \in Devices, c \in Collections : cursor[d][c] = 0
    BY DEF Init, FeedInit
  <1>3. Ordered /\ Taken
    BY <1>1, <1>2 DEF Ordered, Taken, TypeOK, FeedTypeOK
  <1>4. ASSUME NEW d \in Devices PROVE DeviceInv(d)
    BY <1>2 DEF DeviceInv, PageHolds, PageApplied, InCollection
  <1> QED
    BY <1>1, <1>3, <1>4, InvByDevice

\* The invariant is inductive.
LEMMA NextInv == IInv /\ [Next]_vars => IInv'
  <1> SUFFICES ASSUME IInv, [Next]_vars PROVE IInv'
    OBVIOUS
  <1>1. CASE FeedNext /\ FeedStep
    BY <1>1, FeedKeepsPulls
  <1>2. ASSUME NEW d \in Devices, PullStep(d) \/ Stop(d) PROVE IInv'
    BY <1>2, DeviceKeepsInv
  <1>3. CASE UNCHANGED vars
    BY <1>3 DEF vars, IInv, TypeOK, FeedTypeOK, Ordered, Taken, CursorsBehind, PagesHold,
                PageHolds, PageApplied, NothingIsSkipped, DonePullsCatchUp, InCollection
  <1> QED
    BY <1>1, <1>2, <1>3 DEF Next

\* List and a device that follows the documents never skip a change, whatever
\* is committed between two pages and wherever a pull is interrupted.
THEOREM PullsMissNothing == Spec => []NothingIsSkipped
  <1>1. IInv => NothingIsSkipped
    BY DEF IInv
  <1> QED
    BY InitInv, NextInv, <1>1, PTL DEF Spec

\* The answer without hasMore reaches the version the collection had when the
\* pull began.
THEOREM PullsCatchUp == Spec => []DonePullsCatchUp
  <1>1. IInv => DonePullsCatchUp
    BY DEF IInv
  <1> QED
    BY InitInv, NextInv, <1>1, PTL DEF Spec
=============================================================================
