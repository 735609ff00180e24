----------------------------- MODULE BatchFetch -----------------------------
(***************************************************************************)
(* Fetching blobs: the download and batch-fetch handlers of                *)
(* cmd/server/blobs.go read BLOB_DIR, and nothing else, while requests     *)
(* write new files there and garbage collection, reconciliation's victims  *)
(* and clients' deletes remove others.  The handlers ask no ledger and     *)
(* take no lock: what keeps a device from getting half a file is that a    *)
(* key is told only after its file is written, that an open file outlives  *)
(* its name, and that a response which breaks off is seen to.              *)
(*                                                                         *)
(* A device asks for keys until it has each blob or knows it is gone, as   *)
(* docs/API.md tells it to.  Sizes stand for bytes.                        *)
(***************************************************************************)
EXTENDS Integers, Sequences, FiniteSetsExt, SequencesExt

CONSTANTS
    Keys,
    Devices,
    SizeOf,        \* the bytes of each blob
    Found,         \* the keys whose files are there at first, and known
    Fixed,         \* bytes of a frame without its blob: frameOverhead + len(key)
    Cap,           \* maxBatchBytes
    MaxBlob,       \* maxBlobBytes
    MaxKeys,       \* maxBatchFetchKeys
    Gone, None

ASSUME KeysAssumption == IsFiniteSet(Keys)
ASSUME SizesAssumption == SizeOf \in [Keys -> Nat \ {0}]
ASSUME FoundAssumption == Found \subseteq Keys
ASSUME BoundsAssumption == {Fixed, Cap, MaxBlob, MaxKeys} \subseteq Nat \ {0}
ASSUME NoneAssumption == None \notin Nat \cup Keys \cup {Gone} /\ Gone \notin Nat

VARIABLES
    files,         \* the bytes each file holds, or None when there is none
    upload,        \* how far the request that stores a key is
    copy,          \* each device: the bytes it has of a blob, Gone, or None
    response       \* each device's request to the server

disk   == <<files, upload>>
vars   == <<files, upload, copy, response>>

Statuses == {"ok", "missing", "omitted"}
Frame(k, status, bytes) == [key |-> k, status |-> status, bytes |-> bytes]

Idle == [pc |-> "idle", batch |-> TRUE, keys |-> <<>>, size |-> 0,
         written |-> 0, shipped |-> FALSE, sent |-> <<>>]

-----------------------------------------------------------------------------
(* Store.Put and Store.Remove *)

Create(k) ==
    /\ upload[k] = "none"
    /\ upload' = [upload EXCEPT ![k] = "writing"]
    /\ files' = [files EXCEPT ![k] = 0]
    /\ UNCHANGED <<copy, response>>

Write(k) ==
    /\ upload[k] = "writing"
    /\ \E n \in files[k] + 1 .. SizeOf[k] : files' = [files EXCEPT ![k] = n]
    /\ UNCHANGED <<upload, copy, response>>

\* Bug: the key is given away before the bytes are there.
TellFirst(k) ==
    /\ upload[k] = "writing"
    /\ upload' = [upload EXCEPT ![k] = "told"]
    /\ files' \in {[files EXCEPT ![k] = n] : n \in {files[k], SizeOf[k]}}
    /\ UNCHANGED <<copy, response>>

\* Stage returns the key: as the answer of an upload, or in the object that
\* claims it, which every device of the account then lists.
Tell(k) ==
    /\ upload[k] = "writing" /\ files[k] = SizeOf[k]
    /\ upload' = [upload EXCEPT ![k] = "told"]
    /\ UNCHANGED <<files, copy, response>>

\* The disk is full, or the server dies: a part of the file stays, and its key
\* is never told.
StopWriting(k) ==
    /\ upload[k] = "writing"
    /\ upload' = [upload EXCEPT ![k] = "stopped"]
    /\ UNCHANGED <<files, copy, response>>

\* Garbage collection or a client's delete, a day or more after the upload for
\* one, with the key in hand for the other.
RemoveFile(k) ==
    /\ files[k] # None /\ upload[k] # "writing"
    /\ files' = [files EXCEPT ![k] = None]
    /\ UNCHANGED <<upload, copy, response>>

-----------------------------------------------------------------------------
(* A request *)

Wanted(d) == {k \in Keys : upload[k] = "told" /\ copy[d][k] = None}

Respond(d, r) == response' = [response EXCEPT ![d] = r]
Serving(d, pc) == response[d].pc = pc /\ UNCHANGED <<disk, copy>>

\* A device asks for what it lacks, in any order, and again for what a batch
\* omitted; more than MaxKeys at once would be refused.
RequestBatch(d) ==
    /\ Serving(d, "idle")
    /\ \E S \in SUBSET Wanted(d) \ {{}} :
         /\ Cardinality(S) <= MaxKeys
         /\ \E q \in SetToSeqs(S) : Respond(d, [Idle EXCEPT !.pc = "next", !.keys = q])

Request(d) ==
    /\ Serving(d, "idle")
    /\ \E k \in Wanted(d) :
         Respond(d, [Idle EXCEPT !.pc = "next", !.batch = FALSE, !.keys = <<k>>])

\* Open and Stat.  A batch has no frame for a file larger than an upload may
\* be; a download has no frames.
Available(r, k) == files[k] # None /\ (r.batch => files[k] <= MaxBlob)

\* Bug: the first blob is measured like the others.
FitsAlways(r, k) == r.batch => r.written + Fixed + files[k] <= Cap

Fits(r, k) == r.batch /\ r.shipped => r.written + Fixed + files[k] <= Cap

\* Bug: only the blobs' bytes are counted.
SentBytesOnly(r, frame) ==
    [r EXCEPT !.pc = "next", !.keys = Tail(@), !.sent = Append(@, frame),
              !.written = @ + frame.bytes, !.shipped = @ \/ frame.status = "ok"]

\* writeFrameHeader, and written += fixed + size.
Sent(r, frame) ==
    [r EXCEPT !.pc = "next", !.keys = Tail(@), !.sent = Append(@, frame),
              !.written = @ + Fixed + frame.bytes, !.shipped = @ \/ frame.status = "ok"]

Missing(d) ==
    LET r == response[d] IN
    /\ Serving(d, "next") /\ r.keys # <<>> /\ ~Available(r, Head(r.keys))
    /\ Respond(d, Sent(r, Frame(Head(r.keys), "missing", 0)))

\* Bug: what does not fit is reported as absent.
OmitAsMissing(d) ==
    LET r == response[d] IN
    /\ Serving(d, "next") /\ r.keys # <<>>
    /\ Available(r, Head(r.keys)) /\ ~Fits(r, Head(r.keys))
    /\ Respond(d, Sent(r, Frame(Head(r.keys), "missing", 0)))

Omit(d) ==
    LET r == response[d] IN
    /\ Serving(d, "next") /\ r.keys # <<>>
    /\ Available(r, Head(r.keys)) /\ ~Fits(r, Head(r.keys))
    /\ Respond(d, Sent(r, Frame(Head(r.keys), "omitted", 0)))

\* The header says how many bytes follow.
Ship(d) ==
    LET r == response[d] IN
    /\ Serving(d, "next") /\ r.keys # <<>>
    /\ Available(r, Head(r.keys)) /\ Fits(r, Head(r.keys))
    /\ Respond(d, [r EXCEPT !.pc = "copying", !.size = files[Head(r.keys)]])

\* What the open file holds by now; one that has lost its name keeps its bytes.
Held(r) == IF files[Head(r.keys)] = None THEN r.size ELSE files[Head(r.keys)]

\* io.Copy; with another length than announced the handler breaks off.
CopyBytes(d) ==
    LET r == response[d] IN
    /\ Serving(d, "copying") /\ Held(r) = r.size
    /\ Respond(d, Sent(r, Frame(Head(r.keys), "ok", r.size)))

\* What a device makes of the frames it has read.
Learnt(old, frames) ==
    [k \in Keys |->
       LET seen == {i \in DOMAIN frames : frames[i].key = k /\ frames[i].status # "omitted"} IN
       IF seen = {} THEN old[k]
       ELSE LET f == frames[Max(seen)] IN IF f.status = "ok" THEN f.bytes ELSE Gone]

Receive(d, frames) ==
    /\ copy' = [copy EXCEPT ![d] = Learnt(@, frames)]
    /\ Respond(d, Idle)

Complete(d) ==
    /\ response[d].pc = "next" /\ response[d].keys = <<>>
    /\ Receive(d, response[d].sent)
    /\ UNCHANGED disk

\* The connection is lost or dropped, by the server's panic for one: the device
\* keeps the whole frames that reached it, and asks for the rest again.
BreakOff(d) ==
    /\ response[d].pc # "idle"
    /\ \E n \in 0 .. Len(response[d].sent) : Receive(d, SubSeq(response[d].sent, 1, n))
    /\ UNCHANGED disk

Answer(d) ==
    Missing(d) \/ Omit(d) \/ Ship(d) \/ CopyBytes(d) \/ Complete(d)

Storing(k) == Create(k) \/ Write(k) \/ Tell(k) \/ StopWriting(k) \/ RemoveFile(k)

Init ==
    /\ files = [k \in Keys |-> IF k \in Found THEN SizeOf[k] ELSE None]
    /\ upload = [k \in Keys |-> IF k \in Found THEN "told" ELSE "none"]
    /\ copy = [d \in Devices |-> [k \in Keys |-> None]]
    /\ response = [d \in Devices |-> Idle]

Next ==
    \/ \E k \in Keys : Storing(k)
    \/ \E d \in Devices : RequestBatch(d) \/ Request(d) \/ Answer(d) \/ BreakOff(d)

\* The handler goes on with what it began, and devices go on asking, in batches.
Spec == Init /\ [][Next]_vars
        /\ \A d \in Devices : WF_vars(RequestBatch(d)) /\ WF_vars(Answer(d))

-----------------------------------------------------------------------------
(* Properties *)

TypeOK ==
    /\ \A k \in Keys : files[k] \in 0 .. SizeOf[k] \cup {None}
    /\ upload \in [Keys -> {"none", "writing", "told", "stopped"}]
    /\ \A d \in Devices :
         /\ \A k \in Keys : copy[d][k] \in Nat \cup {Gone, None}
         /\ response[d].pc \in {"idle", "next", "copying"}
         /\ response[d].keys \in Seq(Keys)
         /\ response[d].written \in Nat
         /\ \A i \in DOMAIN response[d].sent :
              LET f == response[d].sent[i] IN
              f.key \in Keys /\ f.status \in Statuses /\ (f.status = "ok" <=> f.bytes > 0)

\* What a device makes of a batch is true, whatever is written, removed or cut
\* off while it reads: it never takes a part of a blob for the blob, and what it
\* takes for gone will never be found, as the file was removed after its upload
\* was told, or has no frame.
AnswersAreTrue ==
    \A d \in Devices, k \in Keys :
        \/ copy[d][k] \in {SizeOf[k], None}
        \/ copy[d][k] = Gone /\ (files[k] = None \/ SizeOf[k] > MaxBlob)

\* The bytes of the first i frames.
Encoded(frames) ==
    LET size[i \in 0 .. Len(frames)] ==
          IF i = 0 THEN 0 ELSE size[i - 1] + Fixed + frames[i].bytes
    IN  size

\* The encoded response stays under the cap up to its last blob, unless that
\* is its only one; only frames without a blob may follow.
ResponsesAreCapped ==
    \A d \in Devices :
        LET sent  == response[d].sent
            blobs == {i \in DOMAIN sent : sent[i].status = "ok"} IN
        response[d].batch /\ Cardinality(blobs) > 1 => Encoded(sent)[Max(blobs)] <= Cap

\* Re-requesting what was omitted gets a device every blob, larger than the cap
\* or not, unless it is gone, once connections no longer break.
ConnectionsLast == <>[][\A d \in Devices : BreakOff(d) => Complete(d)]_vars

EveryBlobArrives ==
    ConnectionsLast =>
        \A d \in Devices, k \in Keys : upload[k] = "told" ~> copy[d][k] # None
=============================================================================
