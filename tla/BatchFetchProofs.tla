-------------------------- MODULE BatchFetchProofs --------------------------
(***************************************************************************)
(* What a device makes of the answers to its fetches is true, and batches  *)
(* stay under their cap, for any keys, sizes, bounds and devices.          *)
(***************************************************************************)
EXTENDS BatchFetch, FiniteSetTheorems, WellFoundedInduction, TLAPS

(* The inductive invariant *)

FrameRow == [key : Keys, status : Statuses, bytes : Nat]
ResponseRow == [pc : {"idle", "next", "copying"}, batch : BOOLEAN, keys : Seq(Keys),
                size : Nat, written : Nat, shipped : BOOLEAN, sent : Seq(FrameRow)]

Typed ==
    /\ files \in [Keys -> Nat \cup {None}]
    /\ upload \in [Keys -> {"none", "writing", "told", "stopped"}]
    /\ copy \in [Devices -> [Keys -> Nat \cup {Gone, None}]]
    /\ response \in [Devices -> ResponseRow]

\* A file is never longer than its blob, and whole once its key is told.
FilesHold ==
    \A k \in Keys :
        /\ files[k] # None => files[k] <= SizeOf[k]
        /\ upload[k] = "writing" => files[k] # None
        /\ upload[k] = "told" => files[k] \in {SizeOf[k], None}

\* A blob that no batch will ever ship again.
Dead(k) == upload[k] = "told" /\ (files[k] = None \/ SizeOf[k] > MaxBlob)

TrueFrame(f) ==
    /\ f.status = "ok" => f.bytes = SizeOf[f.key]
    /\ f.status = "missing" => Dead(f.key)
    /\ f.status # "ok" => f.bytes = 0

TrueResponse(r) ==
    /\ \A i \in DOMAIN r.keys : upload[r.keys[i]] = "told"
    /\ \A i \in DOMAIN r.sent : TrueFrame(r.sent[i])
    /\ r.pc = "copying" => r.keys # <<>> /\ r.size = SizeOf[Head(r.keys)]

TrueCopy(c) == \A k \in Keys : c[k] \in {SizeOf[k], None} \/ (c[k] = Gone /\ Dead(k))

\* written counts the frames sent, and what it has reached at each blob but the
\* first is within the cap.
Sizes(frames, size) ==
    size = [i \in 0 .. Len(frames) |->
              IF i = 0 THEN 0 ELSE size[i - 1] + Fixed + frames[i].bytes]

Blob(r, i) == r.sent[i].status = "ok"

Counted(r) ==
    /\ r.shipped <=> \E i \in DOMAIN r.sent : Blob(r, i)
    /\ \E size : Sizes(r.sent, size)
    /\ \A size : Sizes(r.sent, size) =>
         /\ size[Len(r.sent)] = r.written
         /\ r.batch => \A i, j \in DOMAIN r.sent :
              i < j /\ Blob(r, i) /\ Blob(r, j) => size[j] <= Cap
    /\ r.pc = "copying" /\ r.batch /\ r.shipped => r.written + Fixed + r.size <= Cap

IInv ==
    /\ Typed /\ FilesHold
    /\ \A d \in Devices : TrueCopy(copy[d]) /\ TrueResponse(response[d]) /\ Counted(response[d])

-----------------------------------------------------------------------------
(* Sets and sequences *)

LEMMA MaxIn ==
    ASSUME NEW n \in Nat, NEW S \in SUBSET (1 .. n), S # {}
    PROVE  Max(S) \in S /\ \A i \in S : i <= Max(S)
  <1> DEFINE T == {x \in Nat : \E i \in S : x = n - i}
  <1>1. T \subseteq Nat /\ T # {}
    <2>1. PICK i \in S : i \in 1 .. n
      OBVIOUS
    <2>2. n - i \in T
      BY <2>1
    <2> QED
      BY <2>2
  <1>2. PICK x \in T : \A y \in T : <<y, x>> \notin OpToRel(<, Nat)
    BY <1>1, NatLessThanWellFounded, WFMin
  <1>3. \A y \in T : ~(y < x)
    BY <1>1, <1>2 DEF OpToRel
  <1>4. PICK m \in S : x = n - m
    BY <1>2
  <1>5. ASSUME NEW i \in S PROVE m >= i
    <2>1. n - i \in T
      OBVIOUS
    <2>2. ~(n - i < n - m)
      BY <1>3, <1>4, <2>1
    <2> QED
      BY <2>2
  <1>6. \E j \in S : \A i \in S : j >= i
    BY <1>5
  <1>7. Max(S) \in S /\ \A i \in S : Max(S) >= i
    BY <1>6 DEF Max
  <1> QED
    BY <1>7

\* Any order of the keys of a request.
LEMMA KeysInOrder ==
    ASSUME NEW S \in SUBSET Keys, NEW q \in SetToSeqs(S)
    PROVE  q \in Seq(S)
  <1>1. Cardinality(S) \in Nat
    BY KeysAssumption, FS_Subset, FS_CardinalityType
  <1> QED
    BY <1>1 DEF SetToSeqs

LEMMA SizePositive == \A k \in Keys : SizeOf[k] \in Nat /\ SizeOf[k] > 0
  BY SizesAssumption

LEMMA Bounds == Fixed \in Nat /\ Cap \in Nat /\ MaxBlob \in Nat /\ None \notin Nat
  BY BoundsAssumption, NoneAssumption

LEMMA RowParts ==
    ASSUME NEW r \in ResponseRow
    PROVE  /\ r.keys \in Seq(Keys) /\ \A i \in DOMAIN r.keys : r.keys[i] \in Keys
           /\ r.sent \in Seq(FrameRow) /\ \A i \in DOMAIN r.sent : r.sent[i] \in FrameRow
           /\ r.size \in Nat /\ r.written \in Nat
  <1>1. r.keys \in Seq(Keys) /\ r.sent \in Seq(FrameRow) /\ r.size \in Nat /\ r.written \in Nat
    BY DEF ResponseRow
  <1>2. PICK ks \in Seq(Keys) : ks = r.keys
    BY <1>1
  <1>3. PICK fs \in Seq(FrameRow) : fs = r.sent
    BY <1>1
  <1>4. \A i \in DOMAIN ks : ks[i] \in Keys
    OBVIOUS
  <1>5. \A i \in DOMAIN fs : fs[i] \in FrameRow
    OBVIOUS
  <1> QED
    BY <1>1, <1>2, <1>3, <1>4, <1>5

-----------------------------------------------------------------------------
(* What a response counts, frame by frame *)

\* The sizes up to a frame are those without the frames after it, so what holds
\* of every count of a response is carried from one frame to the next.
LEMMA OneFrameMore ==
    ASSUME NEW frames \in Seq(FrameRow), NEW f \in FrameRow
    PROVE  /\ \A size : Sizes(frames, size) =>
                \E more : Sizes(Append(frames, f), more)
           /\ \A more : Sizes(Append(frames, f), more) =>
                \E size : /\ Sizes(frames, size)
                          /\ \A i \in 0 .. Len(frames) : more[i] = size[i]
                          /\ more[Len(frames) + 1] = size[Len(frames)] + Fixed + f.bytes
  <1> DEFINE n == Len(frames)
             longer == Append(frames, f)
  <1>1. n \in Nat /\ Len(longer) = n + 1 /\ longer[n + 1] = f
        /\ \A i \in 1 .. n : longer[i] = frames[i]
    OBVIOUS
  <1> HIDE DEF n, longer
  <1>2. ASSUME NEW size, Sizes(frames, size)
        PROVE  \E more : Sizes(longer, more)
    <2> DEFINE more == [i \in 0 .. n + 1 |-> IF i = n + 1 THEN size[n] + Fixed + f.bytes ELSE size[i]]
    <2>1. \A i \in 0 .. n : size[i] = IF i = 0 THEN 0 ELSE size[i - 1] + Fixed + frames[i].bytes
      BY <1>2 DEF Sizes, n
    <2>2. ASSUME NEW i \in 0 .. n + 1
          PROVE  more[i] = IF i = 0 THEN 0 ELSE more[i - 1] + Fixed + longer[i].bytes
      <3>1. CASE i = n + 1
        BY <1>1, <3>1
      <3>2. CASE i = 0
        BY <1>1, <2>1, <3>2
      <3>3. CASE i \in 1 .. n
        <4>1. more[i] = size[i] /\ more[i - 1] = size[i - 1]
          BY <1>1, <3>3
        <4> QED
          BY <1>1, <2>1, <3>3, <4>1
      <3> QED
        BY <1>1, <3>1, <3>2, <3>3
    <2>3. more = [i \in 0 .. n + 1 |->
                    IF i = 0 THEN 0 ELSE more[i - 1] + Fixed + longer[i].bytes]
      <3> DEFINE again == [i \in 0 .. n + 1 |->
                    IF i = 0 THEN 0 ELSE more[i - 1] + Fixed + longer[i].bytes]
      <3>1. \A i \in 0 .. n + 1 : more[i] = again[i]
        BY <2>2
      <3> QED
        BY <3>1
    <2> HIDE DEF more
    <2>4. Sizes(longer, more)
      BY <1>1, <2>3 DEF Sizes
    <2> QED
      BY <2>4
  <1>3. ASSUME NEW more, Sizes(longer, more)
        PROVE  \E size : /\ Sizes(frames, size)
                         /\ \A i \in 0 .. n : more[i] = size[i]
                         /\ more[n + 1] = size[n] + Fixed + f.bytes
    <2> DEFINE size == [i \in 0 .. n |-> more[i]]
    <2>1. \A i \in 0 .. n + 1 :
            more[i] = IF i = 0 THEN 0 ELSE more[i - 1] + Fixed + longer[i].bytes
      BY <1>1, <1>3 DEF Sizes
    <2>2. ASSUME NEW i \in 0 .. n
          PROVE  size[i] = IF i = 0 THEN 0 ELSE size[i - 1] + Fixed + frames[i].bytes
      <3>1. CASE i = 0
        BY <1>1, <2>1, <3>1
      <3>2. CASE i \in 1 .. n
        <4>1. size[i] = more[i] /\ size[i - 1] = more[i - 1]
          BY <1>1, <3>2
        <4> QED
          BY <1>1, <2>1, <3>2, <4>1
      <3> QED
        BY <1>1, <3>1, <3>2
    <2>3. size = [i \in 0 .. n |-> IF i = 0 THEN 0 ELSE size[i - 1] + Fixed + frames[i].bytes]
      <3> DEFINE again == [i \in 0 .. n |->
                    IF i = 0 THEN 0 ELSE size[i - 1] + Fixed + frames[i].bytes]
      <3>1. \A i \in 0 .. n : size[i] = again[i]
        BY <2>2
      <3> QED
        BY <3>1
    <2>4. \A i \in 0 .. n : more[i] = size[i]
      OBVIOUS
    <2>5. more[n + 1] = size[n] + Fixed + f.bytes
      BY <1>1, <2>1, <2>4
    <2> HIDE DEF size
    <2>6. Sizes(frames, size)
      BY <2>3 DEF Sizes, n
    <2> QED
      BY <2>4, <2>5, <2>6
  <1> QED
    BY <1>2, <1>3 DEF n, longer

LEMMA SentKeeps ==
    ASSUME NEW r \in ResponseRow, r.keys # <<>>, TrueResponse(r), Counted(r),
           NEW f \in FrameRow, TrueFrame(f),
           f.status = "ok" /\ r.batch /\ r.shipped => r.written + Fixed + f.bytes <= Cap
    PROVE  /\ Sent(r, f) \in ResponseRow
           /\ TrueResponse(Sent(r, f)) /\ Counted(Sent(r, f))
  <1>1. PICK q : q = Sent(r, f)
    OBVIOUS
  <1>2. PICK ks \in Seq(Keys) : ks = r.keys
    BY RowParts
  <1>3. PICK fs \in Seq(FrameRow) : fs = r.sent
    BY RowParts
  <1>4. Tail(ks) \in Seq(Keys) /\ \A i \in DOMAIN Tail(ks) : \E j \in DOMAIN ks : Tail(ks)[i] = ks[j]
    <2>1. ks # <<>>
      BY <1>2
    <2>2. Tail(ks) \in Seq(Keys) /\ Len(Tail(ks)) = Len(ks) - 1
          /\ \A i \in 1 .. Len(ks) - 1 : Tail(ks)[i] = ks[i + 1]
      BY <2>1
    <2>3. \A i \in 1 .. Len(ks) - 1 : i + 1 \in DOMAIN ks
      OBVIOUS
    <2> QED
      BY <2>2, <2>3
  <1>5. /\ Append(fs, f) \in Seq(FrameRow) /\ Len(Append(fs, f)) = Len(fs) + 1
        /\ Append(fs, f)[Len(fs) + 1] = f
        /\ \A i \in DOMAIN fs : Append(fs, f)[i] = fs[i]
        /\ Len(fs) \in Nat /\ DOMAIN fs = 1 .. Len(fs) /\ DOMAIN Append(fs, f) = 1 .. Len(fs) + 1
    OBVIOUS
  <1>6. /\ q.pc = "next" /\ q.keys = Tail(ks) /\ q.sent = Append(fs, f)
        /\ q.written = r.written + Fixed + f.bytes
        /\ q.shipped = (r.shipped \/ f.status = "ok")
        /\ q.batch = r.batch /\ q.size = r.size
    BY <1>1, <1>2, <1>3 DEF Sent, ResponseRow
  <1>7. q \in ResponseRow
    <2>1. r.written + Fixed + f.bytes \in Nat
      BY Bounds DEF ResponseRow, FrameRow
    <2> QED
      BY <1>1, <1>2, <1>3, <1>4, <1>5, <2>1 DEF Sent, ResponseRow
  <1>8. TrueResponse(q)
    <2>1. \A i \in DOMAIN q.keys : upload[q.keys[i]] = "told"
      BY <1>2, <1>4, <1>6 DEF TrueResponse
    <2>2. \A i \in DOMAIN fs : TrueFrame(fs[i])
      BY <1>3 DEF TrueResponse
    <2>3. \A i \in DOMAIN q.sent : TrueFrame(q.sent[i])
      <3>1. \A i \in 1 .. Len(fs) + 1 : TrueFrame(Append(fs, f)[i])
        <4> SUFFICES ASSUME NEW i \in 1 .. Len(fs) + 1 PROVE TrueFrame(Append(fs, f)[i])
          OBVIOUS
        <4>1. CASE i = Len(fs) + 1
          BY <1>5, <4>1
        <4>2. CASE i \in DOMAIN fs
          BY <1>5, <2>2, <4>2
        <4> QED
          BY <1>5, <4>1, <4>2
      <3> QED
        BY <1>5, <1>6, <3>1
    <2> QED
      BY <1>6, <2>1, <2>3 DEF TrueResponse
  <1>9. Counted(q)
    <2>1. q.shipped <=> \E i \in DOMAIN q.sent : Blob(q, i)
      <3>1. r.shipped <=> \E i \in DOMAIN fs : fs[i].status = "ok"
        BY <1>3 DEF Counted, Blob
      <3>2. (\E i \in DOMAIN Append(fs, f) : Append(fs, f)[i].status = "ok")
            <=> (\E i \in DOMAIN fs : fs[i].status = "ok") \/ f.status = "ok"
        <4>1. \A i \in DOMAIN Append(fs, f) : i \in DOMAIN fs \/ i = Len(fs) + 1
          BY <1>5
        <4>2. Len(fs) + 1 \in DOMAIN Append(fs, f) /\ DOMAIN fs \subseteq DOMAIN Append(fs, f)
          BY <1>5
        <4> QED
          BY <1>5, <4>1, <4>2
      <3> QED
        BY <1>6, <3>1, <3>2 DEF Blob
    <2>2. \E size : Sizes(q.sent, size)
      BY <1>3, <1>6, OneFrameMore DEF Counted
    <2>3. ASSUME NEW more, Sizes(q.sent, more)
          PROVE  /\ more[Len(q.sent)] = q.written
                 /\ q.batch => \A i, j \in DOMAIN q.sent :
                      i < j /\ Blob(q, i) /\ Blob(q, j) => more[j] <= Cap
      <3>1. PICK size : /\ Sizes(fs, size)
                        /\ \A i \in 0 .. Len(fs) : more[i] = size[i]
                        /\ more[Len(fs) + 1] = size[Len(fs)] + Fixed + f.bytes
        BY <1>6, <2>3, OneFrameMore
      <3>2. /\ size[Len(fs)] = r.written
            /\ r.batch => \A i, j \in DOMAIN fs :
                 i < j /\ fs[i].status = "ok" /\ fs[j].status = "ok" => size[j] <= Cap
        BY <1>3, <3>1 DEF Counted, Blob
      <3>3. more[Len(q.sent)] = q.written
        BY <1>5, <1>6, <3>1, <3>2
      <3>4. ASSUME q.batch, NEW i \in DOMAIN q.sent, NEW j \in DOMAIN q.sent,
                   i < j, Blob(q, i), Blob(q, j)
            PROVE  more[j] <= Cap
        <4>0. i \in 1 .. Len(fs) + 1 /\ j \in 1 .. Len(fs) + 1 /\ i \in DOMAIN fs
          BY <1>5, <1>6, <3>4
        <4>1. fs[i].status = "ok"
          BY <1>5, <1>6, <3>4, <4>0 DEF Blob
        <4>2. CASE j = Len(fs) + 1
          <5>1. f.status = "ok" /\ r.shipped /\ r.batch
            BY <1>3, <1>5, <1>6, <3>4, <4>0, <4>1, <4>2 DEF Blob, Counted
          <5> QED
            BY <1>5, <3>1, <3>2, <4>2, <5>1
        <4>3. CASE j \in DOMAIN fs
          <5>1. fs[j].status = "ok" /\ j \in 0 .. Len(fs)
            BY <1>5, <1>6, <3>4, <4>3 DEF Blob
          <5>2. size[j] <= Cap
            BY <1>6, <3>2, <3>4, <4>0, <4>1, <4>3, <5>1
          <5> QED
            BY <3>1, <5>1, <5>2
        <4> QED
          BY <1>5, <4>0, <4>2, <4>3
      <3> QED
        BY <3>3, <3>4
    <2>4. q.pc # "copying"
      BY <1>6
    <2> QED
      BY <2>1, <2>2, <2>3, <2>4 DEF Counted
  <1> QED
    BY <1>1, <1>7, <1>8, <1>9

-----------------------------------------------------------------------------
(* Steps *)

\* Files come, grow and go: what was known of those told is still so.
LEMMA StoringKeeps ==
    ASSUME IInv, NEW k \in Keys, Storing(k)
    PROVE  IInv'
  <1>1. Typed'
    <2>1. files' \in [Keys -> Nat \cup {None}]
      BY SizePositive, Bounds
         DEF IInv, Typed, FilesHold, Storing, Create, Write, Tell, StopWriting, RemoveFile
    <2> QED
      BY <2>1 DEF IInv, Typed, Storing, Create, Write, Tell, StopWriting, RemoveFile
  <1>2. FilesHold'
    BY SizePositive, Bounds
       DEF IInv, Typed, FilesHold, Storing, Create, Write, Tell, StopWriting, RemoveFile
  <1>3. \A j \in Keys : /\ upload[j] = "told" => upload'[j] = "told"
                        /\ Dead(j) => Dead(j)'
    BY DEF IInv, Typed, Dead, Storing, Create, Write, Tell, StopWriting, RemoveFile
  <1>4. UNCHANGED <<copy, response>>
    BY DEF Storing, Create, Write, Tell, StopWriting, RemoveFile
  <1>5. ASSUME NEW d \in Devices
        PROVE  (TrueCopy(copy[d]) /\ TrueResponse(response[d]) /\ Counted(response[d]))'
    <2>1. PICK r \in ResponseRow : r = response[d]
      BY DEF IInv, Typed
    <2>2. TrueCopy(copy[d])'
      BY <1>3, <1>4 DEF IInv, TrueCopy
    <2>3. \A i \in DOMAIN r.keys : r.keys[i] \in Keys
      BY RowParts
    <2>4. \A i \in DOMAIN r.sent : r.sent[i].key \in Keys
      BY RowParts DEF FrameRow
    <2>5. TrueResponse(r)'
      BY <1>3, <2>1, <2>3, <2>4 DEF IInv, TrueResponse, TrueFrame
    <2>6. Counted(r)'
      BY <2>1 DEF IInv, Counted, Sizes, Blob
    <2> QED
      BY <1>4, <2>1, <2>2, <2>5, <2>6
  <1> QED
    BY <1>1, <1>2, <1>5 DEF IInv

\* One response moves on; the disk and the copies stay.
LEMMA RespondKeeps ==
    ASSUME IInv, NEW d \in Devices, NEW r \in ResponseRow, Respond(d, r),
           UNCHANGED <<disk, copy>>, TrueResponse(r), Counted(r)
    PROVE  IInv'
  <1>1. UNCHANGED <<files, upload, copy>>
    BY DEF disk
  <1>2. \A q : /\ TrueResponse(q)' <=> TrueResponse(q)
               /\ Counted(q)' <=> Counted(q)
               /\ TrueCopy(q)' <=> TrueCopy(q)
    BY <1>1 DEF TrueResponse, TrueFrame, Dead, Counted, Sizes, Blob, TrueCopy
  <1>3. /\ response' \in [Devices -> ResponseRow] /\ response'[d] = r
        /\ \A e \in Devices \ {d} : response'[e] = response[e]
    BY DEF Respond, IInv, Typed
  <1> QED
    BY <1>1, <1>2, <1>3 DEF IInv, Typed, FilesHold

\* A response with nothing sent.
LEMMA NothingSent ==
    ASSUME NEW r \in ResponseRow, r.sent = <<>>, r.written = 0, r.shipped = FALSE,
           r.pc # "copying", \A i \in DOMAIN r.keys : upload[r.keys[i]] = "told"
    PROVE  TrueResponse(r) /\ Counted(r)
  <1>1. DOMAIN r.sent = {} /\ Len(r.sent) = 0
    OBVIOUS
  <1>2. TrueResponse(r)
    BY <1>1 DEF TrueResponse
  <1>3. \E size : Sizes(r.sent, size)
    <2> DEFINE size == [i \in 0 .. 0 |-> 0]
    <2>1. size = [i \in 0 .. 0 |-> IF i = 0 THEN 0 ELSE size[i - 1] + Fixed + r.sent[i].bytes]
      OBVIOUS
    <2> HIDE DEF size
    <2> QED
      BY <1>1, <2>1 DEF Sizes
  <1>4. ASSUME NEW size, Sizes(r.sent, size) PROVE size[Len(r.sent)] = 0
    BY <1>1, <1>4 DEF Sizes
  <1> QED
    BY <1>1, <1>2, <1>3, <1>4 DEF Counted

LEMMA IdleHolds == Idle \in ResponseRow /\ TrueResponse(Idle) /\ Counted(Idle)
  <1>1. Idle \in ResponseRow
    BY DEF Idle, ResponseRow
  <1>2. /\ Idle.sent = <<>> /\ Idle.written = 0 /\ Idle.shipped = FALSE /\ Idle.pc = "idle"
        /\ Idle.keys = <<>>
    BY DEF Idle
  <1>3. \A i \in DOMAIN Idle.keys : upload[Idle.keys[i]] = "told"
    BY <1>2
  <1> QED
    BY <1>1, <1>2, <1>3, NothingSent

LEMMA AskingKeeps ==
    ASSUME IInv, NEW d \in Devices, NEW q \in Seq(Wanted(d)), NEW r, r \in ResponseRow,
           r = [Idle EXCEPT !.pc = "next", !.batch = r.batch, !.keys = q],
           Respond(d, r), UNCHANGED <<disk, copy>>
    PROVE  IInv'
  <1>1. q \in Seq(Keys) /\ \A i \in DOMAIN q : upload[q[i]] = "told"
    BY DEF Wanted
  <1>2. /\ r.pc = "next" /\ r.keys = q /\ r.sent = <<>> /\ r.written = 0 /\ r.shipped = FALSE
    BY DEF Idle
  <1>3. TrueResponse(r) /\ Counted(r)
    BY <1>1, <1>2, NothingSent
  <1> QED
    BY <1>3, RespondKeeps

LEMMA RequestBatchKeeps ==
    ASSUME IInv, NEW d \in Devices, RequestBatch(d)
    PROVE  IInv'
  <1>1. PICK S \in SUBSET Wanted(d) :
          \E q \in SetToSeqs(S) : Respond(d, [Idle EXCEPT !.pc = "next", !.keys = q])
    BY DEF RequestBatch
  <1>2. PICK q \in SetToSeqs(S) : Respond(d, [Idle EXCEPT !.pc = "next", !.keys = q])
    BY <1>1
  <1>3. q \in Seq(Wanted(d)) /\ q \in Seq(Keys)
    <2>1. S \in SUBSET Keys
      BY DEF Wanted
    <2>2. q \in Seq(S)
      BY <2>1, KeysInOrder
    <2> QED
      BY <2>1, <2>2
  <1>4. PICK r : r = [Idle EXCEPT !.pc = "next", !.keys = q]
    OBVIOUS
  <1>5. r \in ResponseRow /\ r = [Idle EXCEPT !.pc = "next", !.batch = r.batch, !.keys = q]
    BY <1>3, <1>4, IdleHolds DEF ResponseRow
  <1> QED
    BY <1>2, <1>3, <1>4, <1>5, AskingKeeps DEF RequestBatch, Serving

LEMMA RequestKeeps ==
    ASSUME IInv, NEW d \in Devices, Request(d)
    PROVE  IInv'
  <1>1. PICK k \in Wanted(d) :
          Respond(d, [Idle EXCEPT !.pc = "next", !.batch = FALSE, !.keys = <<k>>])
    BY DEF Request
  <1>2. <<k>> \in Seq(Wanted(d)) /\ <<k>> \in Seq(Keys)
    BY DEF Wanted
  <1>3. PICK r : r = [Idle EXCEPT !.pc = "next", !.batch = FALSE, !.keys = <<k>>]
    OBVIOUS
  <1>4. r \in ResponseRow /\ r = [Idle EXCEPT !.pc = "next", !.batch = r.batch, !.keys = <<k>>]
    BY <1>2, <1>3, IdleHolds DEF ResponseRow
  <1> QED
    BY <1>1, <1>2, <1>3, <1>4, AskingKeeps DEF Request, Serving

\* The file of the key a response has come to: none, or the blob, whole.
LEMMA HeadHolds ==
    ASSUME IInv, NEW d \in Devices, response[d].keys # <<>>
    PROVE  LET k == Head(response[d].keys) IN
           /\ k \in Keys /\ upload[k] = "told" /\ files[k] \in {SizeOf[k], None}
           /\ SizeOf[k] \in Nat /\ SizeOf[k] # None
  <1>1. PICK r \in ResponseRow : r = response[d] /\ TrueResponse(r)
    BY DEF IInv, Typed
  <1>2. PICK ks \in Seq(Keys) : ks = r.keys
    BY RowParts
  <1>3. ks # <<>> /\ 1 \in DOMAIN ks /\ Head(ks) = ks[1]
    BY <1>1, <1>2
  <1>4. ks[1] \in Keys /\ upload[ks[1]] = "told"
    BY <1>1, <1>2, <1>3 DEF TrueResponse
  <1> QED
    BY <1>1, <1>2, <1>3, <1>4, SizePositive, Bounds DEF IInv, FilesHold

LEMMA FrameKeeps ==
    ASSUME IInv, NEW d \in Devices, response[d].keys # <<>>, UNCHANGED <<disk, copy>>,
           NEW f \in FrameRow, TrueFrame(f), Respond(d, Sent(response[d], f)),
           LET r == response[d] IN
           f.status = "ok" /\ r.batch /\ r.shipped => r.written + Fixed + f.bytes <= Cap
    PROVE  IInv'
  <1>1. response[d] \in ResponseRow /\ TrueResponse(response[d]) /\ Counted(response[d])
    BY DEF IInv, Typed
  <1>2. /\ Sent(response[d], f) \in ResponseRow
        /\ TrueResponse(Sent(response[d], f)) /\ Counted(Sent(response[d], f))
    BY <1>1, SentKeeps
  <1> QED
    BY <1>2, RespondKeeps

LEMMA MissingKeeps ==
    ASSUME IInv, NEW d \in Devices, Missing(d)
    PROVE  IInv'
  <1> DEFINE r == response[d]
             k == Head(r.keys)
             f == Frame(k, "missing", 0)
  <1>1. r.keys # <<>> /\ ~Available(r, k) /\ Respond(d, Sent(r, f)) /\ UNCHANGED <<disk, copy>>
    BY DEF Missing, Serving
  <1>2. k \in Keys /\ upload[k] = "told" /\ files[k] \in {SizeOf[k], None}
        /\ SizeOf[k] \in Nat
    BY <1>1, HeadHolds
  <1> HIDE DEF k, r
  <1>3. Dead(k)
    BY <1>1, <1>2, Bounds DEF Available, Dead
  <1>4. f \in FrameRow /\ TrueFrame(f) /\ f.status # "ok"
    BY <1>2, <1>3 DEF Frame, FrameRow, Statuses, TrueFrame
  <1> HIDE DEF f
  <1> QED
    BY <1>1, <1>4, FrameKeeps DEF r

LEMMA OmitKeeps ==
    ASSUME IInv, NEW d \in Devices, Omit(d)
    PROVE  IInv'
  <1> DEFINE r == response[d]
             k == Head(r.keys)
             f == Frame(k, "omitted", 0)
  <1>1. r.keys # <<>> /\ Respond(d, Sent(r, f)) /\ UNCHANGED <<disk, copy>>
    BY DEF Omit, Serving
  <1>2. k \in Keys
    BY <1>1, HeadHolds
  <1> HIDE DEF k, r
  <1>3. f \in FrameRow /\ TrueFrame(f) /\ f.status # "ok"
    BY <1>2 DEF Frame, FrameRow, Statuses, TrueFrame
  <1> HIDE DEF f
  <1> QED
    BY <1>1, <1>3, FrameKeeps DEF r

\* The size it announces is the blob's.
LEMMA ShipKeeps ==
    ASSUME IInv, NEW d \in Devices, Ship(d)
    PROVE  IInv'
  <1>1. PICK r \in ResponseRow : r = response[d] /\ TrueResponse(r) /\ Counted(r)
    BY DEF IInv, Typed
  <1>2. PICK k : k = Head(r.keys)
    OBVIOUS
  <1>3. PICK q : q = [r EXCEPT !.pc = "copying", !.size = files[k]]
    OBVIOUS
  <1>4. /\ r.keys # <<>> /\ Available(r, k) /\ Fits(r, k) /\ Respond(d, q)
        /\ UNCHANGED <<disk, copy>>
    BY <1>1, <1>2, <1>3 DEF Ship, Serving
  <1>5. files[k] = SizeOf[k] /\ files[k] \in Nat
    BY <1>1, <1>2, <1>4, HeadHolds DEF Available
  <1>6. /\ q \in ResponseRow /\ q.pc = "copying" /\ q.size = files[k] /\ q.keys = r.keys
        /\ q.sent = r.sent /\ q.written = r.written /\ q.batch = r.batch /\ q.shipped = r.shipped
    BY <1>3, <1>5 DEF ResponseRow
  <1>7. TrueResponse(q)
    BY <1>1, <1>2, <1>4, <1>5, <1>6 DEF TrueResponse
  <1>8. Counted(q)
    BY <1>1, <1>4, <1>6 DEF Counted, Blob, Fits
  <1> QED
    BY <1>4, <1>6, <1>7, <1>8, RespondKeeps

LEMMA CopyBytesKeeps ==
    ASSUME IInv, NEW d \in Devices, CopyBytes(d)
    PROVE  IInv'
  <1> DEFINE r == response[d]
             k == Head(r.keys)
             f == Frame(k, "ok", r.size)
  <1>1. r.pc = "copying" /\ Respond(d, Sent(r, f)) /\ UNCHANGED <<disk, copy>>
    BY DEF CopyBytes, Serving
  <1>2. r \in ResponseRow /\ TrueResponse(r) /\ Counted(r)
    BY DEF IInv, Typed
  <1>3. r.keys # <<>> /\ r.size = SizeOf[k]
    BY <1>1, <1>2 DEF TrueResponse
  <1>4. k \in Keys /\ r.size \in Nat
    BY <1>3, HeadHolds
  <1>5. r.batch /\ r.shipped => r.written + Fixed + r.size <= Cap
    BY <1>1, <1>2 DEF Counted
  <1> HIDE DEF k, r
  <1>6. f \in FrameRow /\ TrueFrame(f) /\ f.bytes = r.size
    BY <1>3, <1>4 DEF Frame, FrameRow, Statuses, TrueFrame
  <1> HIDE DEF f
  <1> QED
    BY <1>1, <1>3, <1>5, <1>6, FrameKeeps DEF r

-----------------------------------------------------------------------------
(* What a device learns *)

\* From true frames it learns what is true.
LEMMA LearntIsTrue ==
    ASSUME NEW old \in [Keys -> Nat \cup {Gone, None}], TrueCopy(old),
           NEW frames \in Seq(FrameRow), \A i \in DOMAIN frames : TrueFrame(frames[i])
    PROVE  /\ Learnt(old, frames) \in [Keys -> Nat \cup {Gone, None}]
           /\ TrueCopy(Learnt(old, frames))
  <1> DEFINE new == Learnt(old, frames)
  <1>1. ASSUME NEW k \in Keys
        PROVE  /\ new[k] \in Nat \cup {Gone, None}
               /\ new[k] \in {SizeOf[k], None} \/ (new[k] = Gone /\ Dead(k))
    <2> DEFINE seen == {i \in DOMAIN frames : frames[i].key = k /\ frames[i].status # "omitted"}
    <2>1. new[k] = IF seen = {} THEN old[k]
                   ELSE IF frames[Max(seen)].status = "ok" THEN frames[Max(seen)].bytes ELSE Gone
      BY DEF Learnt
    <2>2. CASE seen = {}
      BY <2>1, <2>2 DEF TrueCopy
    <2>3. CASE seen # {}
      <3>1. Len(frames) \in Nat /\ seen \in SUBSET (1 .. Len(frames))
        OBVIOUS
      <3>2. Max(seen) \in seen
        BY <2>3, <3>1, MaxIn
      <3>3. PICK f : f = frames[Max(seen)]
        OBVIOUS
      <3>4. f \in FrameRow /\ f.key = k /\ f.status # "omitted" /\ TrueFrame(f)
        BY <3>2, <3>3
      <3>5. f.status = "ok" \/ f.status = "missing"
        BY <3>4 DEF FrameRow, Statuses
      <3>6. new[k] = IF f.status = "ok" THEN f.bytes ELSE Gone
        BY <2>1, <2>3, <3>3
      <3> QED
        BY <3>4, <3>5, <3>6, SizePositive DEF TrueFrame
    <2> QED
      BY <2>2, <2>3
  <1>2. new = [k \in Keys |-> new[k]]
    BY DEF Learnt
  <1> HIDE DEF new
  <1>3. new \in [Keys -> Nat \cup {Gone, None}]
    BY <1>1, <1>2
  <1>4. TrueCopy(new)
    BY <1>1 DEF TrueCopy
  <1> QED
    BY <1>3, <1>4 DEF new

LEMMA ReceiveKeeps ==
    ASSUME IInv, NEW d \in Devices, NEW frames \in Seq(FrameRow),
           \A i \in DOMAIN frames : TrueFrame(frames[i]),
           Receive(d, frames), UNCHANGED disk
    PROVE  IInv'
  <1>1. PICK new : new = Learnt(copy[d], frames)
    OBVIOUS
  <1>2. copy[d] \in [Keys -> Nat \cup {Gone, None}] /\ TrueCopy(copy[d])
    BY DEF IInv, Typed
  <1>3. new \in [Keys -> Nat \cup {Gone, None}] /\ TrueCopy(new)
    BY <1>1, <1>2, LearntIsTrue
  <1>4. copy' = [copy EXCEPT ![d] = new] /\ response' = [response EXCEPT ![d] = Idle]
        /\ UNCHANGED <<files, upload>>
    BY <1>1 DEF Receive, Respond, disk
  <1>5. \A q : /\ TrueResponse(q)' <=> TrueResponse(q)
               /\ Counted(q)' <=> Counted(q)
               /\ TrueCopy(q)' <=> TrueCopy(q)
    BY <1>4 DEF TrueResponse, TrueFrame, Dead, Counted, Sizes, Blob, TrueCopy
  <1>6. /\ copy' \in [Devices -> [Keys -> Nat \cup {Gone, None}]]
        /\ response' \in [Devices -> ResponseRow]
        /\ copy'[d] = new /\ response'[d] = Idle
        /\ \A e \in Devices \ {d} : copy'[e] = copy[e] /\ response'[e] = response[e]
    BY <1>3, <1>4, IdleHolds DEF IInv, Typed
  <1>7. ASSUME NEW e \in Devices
        PROVE  TrueCopy(copy'[e]) /\ TrueResponse(response'[e]) /\ Counted(response'[e])
    BY <1>3, <1>6, IdleHolds DEF IInv
  <1>8. \A e \in Devices :
          (TrueCopy(copy[e]) /\ TrueResponse(response[e]) /\ Counted(response[e]))'
    BY <1>5, <1>7
  <1>9. FilesHold' /\ Typed'
    BY <1>4, <1>6 DEF IInv, Typed, FilesHold
  <1> QED
    BY <1>8, <1>9 DEF IInv

LEMMA CompleteKeeps ==
    ASSUME IInv, NEW d \in Devices, Complete(d)
    PROVE  IInv'
  <1>1. response[d] \in ResponseRow /\ TrueResponse(response[d])
    BY DEF IInv, Typed
  <1>2. /\ response[d].sent \in Seq(FrameRow)
        /\ \A i \in DOMAIN response[d].sent : TrueFrame(response[d].sent[i])
    BY <1>1, RowParts DEF TrueResponse
  <1> QED
    BY <1>2, ReceiveKeeps DEF Complete

LEMMA BreakOffKeeps ==
    ASSUME IInv, NEW d \in Devices, BreakOff(d)
    PROVE  IInv'
  <1>1. PICK r \in ResponseRow : r = response[d] /\ TrueResponse(r)
    BY DEF IInv, Typed
  <1>2. PICK fs \in Seq(FrameRow) : fs = r.sent
    BY RowParts
  <1>3. PICK n \in 0 .. Len(fs) : Receive(d, SubSeq(fs, 1, n))
    BY <1>1, <1>2 DEF BreakOff
  <1>4. /\ SubSeq(fs, 1, n) \in Seq(FrameRow) /\ Len(SubSeq(fs, 1, n)) = n
        /\ \A i \in 1 .. n : SubSeq(fs, 1, n)[i] = fs[i]
    OBVIOUS
  <1>5. DOMAIN SubSeq(fs, 1, n) = 1 .. n /\ 1 .. n \subseteq DOMAIN fs
    BY <1>4
  <1>6. \A i \in DOMAIN SubSeq(fs, 1, n) : TrueFrame(SubSeq(fs, 1, n)[i])
    BY <1>1, <1>2, <1>4, <1>5 DEF TrueResponse
  <1> QED
    BY <1>3, <1>4, <1>6, ReceiveKeeps DEF BreakOff

-----------------------------------------------------------------------------
(* The invariant is inductive *)

LEMMA InitInv == Init => IInv
  <1> SUFFICES ASSUME Init PROVE IInv
    OBVIOUS
  <1>1. Typed
    BY SizePositive, FoundAssumption, IdleHolds DEF Init, Typed
  <1>2. FilesHold
    BY SizePositive, FoundAssumption, Bounds DEF Init, FilesHold
  <1>3. \A d \in Devices : TrueCopy(copy[d]) /\ TrueResponse(response[d]) /\ Counted(response[d])
    BY IdleHolds DEF Init, TrueCopy
  <1> QED
    BY <1>1, <1>2, <1>3 DEF IInv

LEMMA NextInv == IInv /\ [Next]_vars => IInv'
  <1> SUFFICES ASSUME IInv, [Next]_vars PROVE IInv'
    OBVIOUS
  <1>1. ASSUME NEW k \in Keys, Storing(k) PROVE IInv'
    BY <1>1, StoringKeeps
  <1>2. ASSUME NEW d \in Devices, RequestBatch(d) PROVE IInv'
    BY <1>2, RequestBatchKeeps
  <1>3. ASSUME NEW d \in Devices, Request(d) PROVE IInv'
    BY <1>3, RequestKeeps
  <1>4. ASSUME NEW d \in Devices, Answer(d) PROVE IInv'
    BY <1>4, MissingKeeps, OmitKeeps, ShipKeeps, CopyBytesKeeps, CompleteKeeps DEF Answer
  <1>5. ASSUME NEW d \in Devices, BreakOff(d) PROVE IInv'
    BY <1>5, BreakOffKeeps
  <1>6. CASE UNCHANGED vars
    BY <1>6 DEF vars, IInv, Typed, FilesHold, TrueResponse, TrueFrame, Dead, Counted, Sizes,
                Blob, TrueCopy
  <1> QED
    BY <1>1, <1>2, <1>3, <1>4, <1>5, <1>6 DEF Next

LEMMA Inductive == Spec => []IInv
  BY InitInv, NextInv, PTL DEF Spec

-----------------------------------------------------------------------------
(* Theorems *)

\* Files never outgrow their blobs, and frames carry bytes exactly when they
\* carry a blob.
THEOREM TypeCorrect == Spec => []TypeOK
  <1>1. ASSUME IInv PROVE TypeOK
    <2>1. \A k \in Keys : files[k] \in 0 .. SizeOf[k] \cup {None}
      BY <1>1, SizePositive DEF IInv, Typed, FilesHold
    <2>2. ASSUME NEW d \in Devices
          PROVE  /\ \A k \in Keys : copy[d][k] \in Nat \cup {Gone, None}
                 /\ response[d].pc \in {"idle", "next", "copying"}
                 /\ response[d].keys \in Seq(Keys)
                 /\ response[d].written \in Nat
                 /\ \A i \in DOMAIN response[d].sent :
                      LET f == response[d].sent[i] IN
                      f.key \in Keys /\ f.status \in Statuses /\ (f.status = "ok" <=> f.bytes > 0)
      <3>1. PICK r \in ResponseRow : r = response[d] /\ TrueResponse(r)
        BY <1>1 DEF IInv, Typed
      <3>2. \A k \in Keys : copy[d][k] \in Nat \cup {Gone, None}
        BY <1>1 DEF IInv, Typed
      <3>3. r.pc \in {"idle", "next", "copying"} /\ r.keys \in Seq(Keys) /\ r.written \in Nat
        BY DEF ResponseRow
      <3>4. ASSUME NEW i \in DOMAIN r.sent
            PROVE  LET f == r.sent[i] IN
                   f.key \in Keys /\ f.status \in Statuses /\ (f.status = "ok" <=> f.bytes > 0)
        <4>1. r.sent[i] \in FrameRow /\ TrueFrame(r.sent[i])
          BY <3>1, RowParts DEF TrueResponse
        <4> QED
          BY <4>1, SizePositive DEF FrameRow, TrueFrame
      <3> QED
        BY <3>1, <3>2, <3>3, <3>4
    <2>3. upload \in [Keys -> {"none", "writing", "told", "stopped"}]
      BY <1>1 DEF IInv, Typed
    <2> QED
      BY <2>1, <2>2, <2>3 DEF TypeOK
  <1> QED
    BY <1>1, Inductive, PTL

\* No device takes a part of a blob for the blob, or a blob that will yet be
\* found for one that is gone.
THEOREM CopiesAreTrue == Spec => []AnswersAreTrue
  <1>1. IInv => AnswersAreTrue
    BY DEF IInv, AnswersAreTrue, TrueCopy, Dead
  <1> QED
    BY <1>1, Inductive, PTL

\* No batch passes its cap by more than the frames that follow its last blob,
\* unless that blob is its only one.
THEOREM BatchesStayCapped == Spec => []ResponsesAreCapped
  <1>1. ASSUME IInv, NEW d \in Devices, response[d].batch,
               Cardinality({i \in DOMAIN response[d].sent : response[d].sent[i].status = "ok"}) > 1
        PROVE  LET sent  == response[d].sent
                   blobs == {i \in DOMAIN sent : sent[i].status = "ok"} IN
               Encoded(sent)[Max(blobs)] <= Cap
    <2>1. PICK r \in ResponseRow : r = response[d] /\ Counted(r)
      BY <1>1 DEF IInv, Typed
    <2>2. PICK fs \in Seq(FrameRow) : fs = r.sent
      BY RowParts
    <2> DEFINE blobs == {i \in DOMAIN fs : fs[i].status = "ok"}
    <2>3. Len(fs) \in Nat /\ blobs \in SUBSET (1 .. Len(fs)) /\ Cardinality(blobs) > 1
      BY <1>1, <2>1, <2>2
    <2>4. blobs # {} /\ blobs # {Max(blobs)}
      <3>1. \A m : Cardinality({m}) = 1
        BY FS_Singleton
      <3>2. Cardinality({}) = 0
        BY FS_EmptySet
      <3> HIDE DEF blobs
      <3>3. PICK n : n = Cardinality(blobs) /\ n > 1
        BY <2>3
      <3>4. ASSUME blobs = {} PROVE FALSE
        BY <3>2, <3>3, <3>4
      <3>5. ASSUME blobs = {Max(blobs)} PROVE FALSE
        <4>1. Cardinality(blobs) = 1
          BY <3>1, <3>5, Zenon
        <4> QED
          BY <3>3, <4>1
      <3> QED
        BY <3>4, <3>5
    <2>5. Max(blobs) \in blobs /\ \A i \in blobs : i <= Max(blobs)
      BY <2>3, <2>4, MaxIn
    <2> HIDE DEF blobs
    <2>6. PICK i \in blobs : i # Max(blobs)
      BY <2>4, <2>5
    <2>7. i < Max(blobs)
      <3>1. i \in blobs /\ Max(blobs) \in blobs /\ i <= Max(blobs)
        BY <2>5
      <3>2. \A j \in blobs : j \in Nat
        <4>1. \A j \in 1 .. Len(fs) : j \in Nat
          OBVIOUS
        <4> QED
          BY <4>1, <2>3, Zenon
      <3> QED
        BY <2>6, <3>1, <3>2
    <2>8. Sizes(fs, Encoded(fs))
      <3>1. \E size : Sizes(fs, size)
        BY <2>1, <2>2 DEF Counted
      <3> QED
        BY <3>1 DEF Sizes, Encoded
    <2>9. Encoded(fs)[Max(blobs)] <= Cap
      BY <1>1, <2>1, <2>2, <2>5, <2>6, <2>7, <2>8 DEF Counted, Blob, blobs
    <2> QED
      BY <2>1, <2>2, <2>9 DEF blobs
  <1>2. IInv => ResponsesAreCapped
    BY <1>1 DEF ResponsesAreCapped
  <1> QED
    BY <1>2, Inductive, PTL
=============================================================================
