-------------------------- MODULE BlobTransferProofs --------------------------
(***************************************************************************)
(* For every length of the file, every window of the stream, any number of *)
(* replays, downloads, faults and edits: a download that reports success   *)
(* is the whole file, only a complete upload is attached, and a failed one *)
(* can be repeated or is in the bucket as a whole, unless a short object   *)
(* of another upload has replaced a whole one.                             *)
(***************************************************************************)
EXTENDS BlobTransfer, SequenceTheorems, TLAPS

JobStates == [at : {"idle", "stage", "upload", "attach", "cleanup", "replay", "remove", "end"},
              todo : SUBSET {"create", "blob"}, err : BOOLEAN]
Uploads == [enc : 0 .. EncDone, cli : {"none", "open", "read", "wait", "ok", "failed"},
            sent : 0 .. Frames, half : BOOLEAN, cut : BOOLEAN,
            srv : {"none", "first", "lookup", "put", "returned"}, status : {"ok", "err"},
            rcv : {"none", "write", "recv", "eof", "err"},
            taken : 0 .. Frames, got : 0 .. Frames]
Loads == [at : {"idle", "open", "read", "ok", "failed"}, ver : 0 .. 1 + MaxEdits,
          src : 0 .. Frames, read : 0 .. Frames, out : 0 .. Frames]

\* TypeOK with the domains of the functions and the edits that are left.
Shape ==
    /\ TypeOK
    /\ job \in [Jobs -> JobStates] /\ up \in [Jobs -> Uploads] /\ load \in [Loaders -> Loads]
    /\ left \in [faults : 0 .. MaxFaults, edits : 0 .. MaxEdits]
    /\ secret.version + left.edits <= 1 + MaxEdits /\ local + left.edits <= 1 + MaxEdits

\* The client has sent the frames before the one the encoder holds out, and no more once
\* its side of the stream is closed.
SendOK(u) ==
    /\ u.cli \in {"open", "read", "wait", "ok"} /\ u.enc # EncFailed => u.sent = u.enc - 1
    /\ u.cli \in {"wait", "ok"} => ~Encoding(u)
    /\ u.half => u.cli \notin {"open", "read"}
    /\ u.cli = "open" => u.enc = 1 /\ ~u.half
    /\ u.cli # "open" \/ (u.srv = "none" /\ u.taken = 0)
    /\ u.cli = "none" => u.enc = EncDone

\* PutObject has read what the goroutine took from the stream, but for the frame it holds
\* out to the pipe, and "ok" is returned only at the end of a stream the client closed.
RecvOK(u) ==
    /\ u.taken <= u.sent
    /\ u.srv \in {"none", "first"} => u.taken = 0 /\ u.got = 0 /\ u.rcv = "none"
    /\ u.srv = "lookup" => u.taken = 1 /\ u.got = 0 /\ u.rcv = "write"
    /\ u.srv = "put" => u.taken = IF u.rcv = "write" THEN u.got + 1 ELSE u.got
    /\ u.srv = "put" /\ u.rcv = "eof" => u.half /\ u.taken = u.sent
    /\ u.srv = "returned" /\ u.status = "ok" => u.half /\ u.got = u.sent /\ u.rcv # "recv"
    /\ u.cli = "ok" => u.srv = "returned" /\ u.status = "ok"

\* The server has stored a whole object and answered so.
Done(u) == u.srv = "returned" /\ u.status = "ok" /\ u.got = Frames

\* A job that goes on to attach has a complete upload; one that cleans up has attached.
JobOK(j) ==
    /\ job[j].at \in {"attach", "cleanup"} => up[j].cli = "ok" /\ up[j].enc = EncDone
    /\ job[j].at \in {"cleanup", "remove"} => secret.ref

\* The staged copy outlives every upload of it.
StagedOK == job[Creator].at \in {"upload", "attach"} => secret.ref \/ staged

\* A failed CreateBinary is attached after all or can be repeated.
Queued == job[Creator].err => secret.ref \/ (staged /\ "blob" \in outbox)

\* What a handler has stored whole, and what is attached, was whole in the bucket.
Stored ==
    /\ \A j \in Jobs : Done(up[j]) => StoredWhole
    /\ secret.ref => StoredWhole

\* What a download has written are the chunks it has opened, in order.
LoadOK(l) ==
    /\ l.at \in {"idle", "open", "read"} => l.out = l.read
    /\ l.at = "ok" => l.out = Frames - 1

BlobInv ==
    /\ Shape
    /\ \A j \in Jobs : SendOK(up[j]) /\ RecvOK(up[j]) /\ JobOK(j)
    /\ StagedOK /\ Queued /\ Stored
    /\ \A d \in Loaders : LoadOK(load[d])

----------------------------------------------------------------------------
\* A function on 1 .. n is a sequence, and so is a single element.
LEMMA FunctionIsSeq ==
    ASSUME NEW S, NEW n \in Nat, NEW f \in [1 .. n -> S]
    PROVE  f \in Seq(S) /\ Len(f) = n
<1>1. f \in Seq(S)
  BY SeqDef
<1>2. DOMAIN f = 1 .. n /\ DOMAIN f = 1 .. Len(f) /\ Len(f) \in Nat
  BY <1>1, LenProperties
<1> QED BY <1>1, <1>2

LEMMA SingleIsSeq ==
    ASSUME NEW S, NEW x \in S
    PROVE  <<x>> \in Seq(S) /\ Len(<<x>>) = 1 /\ <<x>>[1] = x
OBVIOUS

\* The encrypted stream has the stream id, the chunks and the empty last chunk, the only
\* one sealed as the last.
LEMMA StreamFacts ==
    /\ Frames = FileChunks + 2 /\ Frames \in Nat /\ EncFailed = 0 /\ EncDone = Frames + 1
    /\ \A i \in 2 .. Frames : Stream[i].last = TRUE => i = Frames
<1> DEFINE body == [i \in 1 .. FileChunks |-> SealChunk(i - 1, FALSE)]
           last == SealChunk(FileChunks, TRUE)
           C == [counter : Int, last : BOOLEAN, ad : Int]
<1>1. FileChunks \in Nat
  BY BlobAssumption
<1>2. StreamID \in C /\ last \in C /\ \A i \in 1 .. FileChunks : SealChunk(i - 1, FALSE) \in C
  BY <1>1 DEF StreamID, SealChunk, createVersion
<1>3. body \in Seq(C) /\ Len(body) = FileChunks /\ \A i \in 1 .. FileChunks : body[i] = SealChunk(i - 1, FALSE)
  <2>1. body \in [1 .. FileChunks -> C] /\ \A i \in 1 .. FileChunks : body[i] = SealChunk(i - 1, FALSE)
    <3> HIDE DEF last, C
    <3> QED BY <1>2
  <2> HIDE DEF body, last, C
  <2> QED BY <1>1, <2>1, FunctionIsSeq
<1>4. <<StreamID>> \in Seq(C) /\ Len(<<StreamID>>) = 1 /\ <<last>> \in Seq(C) /\ Len(<<last>>) = 1
  <2> HIDE DEF body, last, C
  <2> QED BY <1>2, SingleIsSeq
<1>5. Stream = (<<StreamID>> \o body) \o <<last>>
  BY DEF Stream
<1> HIDE DEF body, last, C
<1> DEFINE head == <<StreamID>> \o body
<1>6. head \in Seq(C) /\ Len(head) = FileChunks + 1
      /\ \A i \in 2 .. FileChunks + 1 : head[i] = body[i - 1]
  BY <1>1, <1>3, <1>4
<1>7. Len(head \o <<last>>) = FileChunks + 2
      /\ \A i \in 1 .. FileChunks + 1 : (head \o <<last>>)[i] = head[i]
  <2> HIDE DEF head
  <2> QED BY <1>1, <1>4, <1>6
<1>8. Len(Stream) = FileChunks + 2 /\ \A i \in 2 .. FileChunks + 1 : Stream[i] = body[i - 1]
  BY <1>1, <1>5, <1>6, <1>7
<1>9. \A i \in 2 .. FileChunks + 1 : Stream[i].last = FALSE
  BY <1>1, <1>3, <1>8 DEF SealChunk
<1>10. Frames = FileChunks + 2
  BY <1>8 DEF Frames
<1> QED BY <1>1, <1>9, <1>10 DEF EncFailed, EncDone

\* The bounds.
LEMMA FaultFacts ==
    ASSUME Shape, Fault \/ left' = left
    PROVE  left' \in [faults : 0 .. MaxFaults, edits : 0 .. MaxEdits] /\ left'.edits = left.edits
BY BlobAssumption DEF Shape, Fault

\* A whole object may be replaced by a short one, but that is remembered.
BucketMoves == object' \in 0 .. Frames /\ torn' \in BOOLEAN /\ (StoredWhole => StoredWhole')

LEMMA BucketStays == ASSUME BlobInv, UNCHANGED bucket PROVE BucketMoves
BY DEF BlobInv, Shape, TypeOK, bucket, BucketMoves, StoredWhole

\* A step of the two ends of upload j: the job, the secret and the cache are not theirs.
Transfer(j, u) ==
    /\ up' = [up EXCEPT ![j] = u] /\ u \in Uploads /\ SendOK(u) /\ RecvOK(u)
    /\ up[j].cli # "ok"
    /\ Done(u) => Done(up[j]) \/ StoredWhole'
    /\ BucketMoves /\ (Fault \/ left' = left)
    /\ UNCHANGED <<secret, localVars, job, load>>

LEMMA TransferInv ==
    ASSUME BlobInv, NEW j \in Jobs, NEW u, Transfer(j, u)
    PROVE  BlobInv'
<1>0. Shape /\ up \in [Jobs -> Uploads] /\ job \in [Jobs -> JobStates] /\ UNCHANGED <<secret, localVars, job, load>>
  BY DEF BlobInv, Shape, Transfer
<1>1. /\ up' \in [Jobs -> Uploads] /\ up'[j] = u
      /\ \A k \in Jobs : k # j => up'[k] = up[k]
  BY <1>0 DEF Transfer
<1>2. left' \in [faults : 0 .. MaxFaults, edits : 0 .. MaxEdits] /\ left'.edits = left.edits
  BY <1>0, FaultFacts DEF Transfer
<1>3. TypeOK'
  BY <1>0, <1>1 DEF Shape, TypeOK, Transfer, BucketMoves, Uploads, localVars
<1>4. Shape'
  BY <1>0, <1>1, <1>2, <1>3 DEF Shape, localVars
<1>5. ASSUME NEW k \in Jobs PROVE (SendOK(up[k]) /\ RecvOK(up[k]) /\ JobOK(k))'
  <2>1. CASE k = j
    <3>1. SendOK(up[k])' /\ RecvOK(up[k])'
      BY <1>1, <2>1 DEF Transfer, SendOK, RecvOK, Encoding
    <3>2. JobOK(k)'
      BY <1>0, <2>1 DEF BlobInv, Transfer, JobOK
    <3> QED BY <3>1, <3>2
  <2>2. CASE k # j
    BY <1>0, <1>1, <2>2 DEF BlobInv, SendOK, RecvOK, Encoding, JobOK
  <2> QED BY <2>1, <2>2
<1>6. StagedOK' /\ Queued'
  BY <1>0 DEF BlobInv, StagedOK, Queued, localVars
<1>7. \A d \in Loaders : LoadOK(load[d])'
  BY <1>0 DEF BlobInv, LoadOK
<1>8. Stored'
  <2>1. ASSUME NEW k \in Jobs, Done(up'[k]) PROVE StoredWhole'
    <3>1. (\A m \in Jobs : Done(up[m]) => StoredWhole) /\ (StoredWhole => StoredWhole')
      BY DEF BlobInv, Stored, Transfer, BucketMoves
    <3>2. CASE k = j
      BY <1>1, <2>1, <3>1, <3>2 DEF Transfer
    <3>3. CASE k # j
      BY <1>1, <2>1, <3>1, <3>3
    <3> QED BY <3>2, <3>3
  <2>2. secret'.ref => StoredWhole'
    BY <1>0 DEF BlobInv, Stored, Transfer, BucketMoves
  <2> QED BY <2>1, <2>2 DEF Stored, Done
<1> QED BY <1>4, <1>5, <1>6, <1>7, <1>8 DEF BlobInv

\* What the invariant says of one upload.
LEMMA UploadFacts ==
    ASSUME BlobInv, NEW j \in Jobs
    PROVE  /\ up \in [Jobs -> Uploads] /\ up[j] \in Uploads
           /\ SendOK(up[j]) /\ RecvOK(up[j]) /\ object \in 0 .. Frames
BY DEF BlobInv, Shape, TypeOK

LEMMA NoUploadOK ==
    NoUpload \in Uploads /\ SendOK(NoUpload) /\ RecvOK(NoUpload) /\ ~Done(NoUpload)
BY StreamFacts DEF NoUpload, Uploads, SendOK, RecvOK, Encoding, Done

\* The client's end of the stream.
LEMMA OpenStreamInv == ASSUME BlobInv, NEW j \in Jobs, OpenStream(j) PROVE BlobInv'
<1> DEFINE u == [up[j] EXCEPT !.cli = "read", !.srv = "first"]
           v == [up[j] EXCEPT !.cli = "failed"]
<1>0. /\ up \in [Jobs -> Uploads] /\ up[j] \in Uploads /\ SendOK(up[j]) /\ RecvOK(up[j])
      /\ BucketMoves /\ up[j].cli = "open"
  BY UploadFacts, BucketStays DEF OpenStream
<1>1. u \in Uploads /\ v \in Uploads
  BY <1>0 DEF Uploads
<1>2. SendOK(u) /\ RecvOK(u) /\ SendOK(v) /\ RecvOK(v)
  BY <1>0, StreamFacts DEF Uploads, SendOK, RecvOK, Encoding
<1>3. up' = [up EXCEPT ![j] = u] \/ up' = [up EXCEPT ![j] = v]
  BY <1>0 DEF OpenStream
<1>4. (Done(u) => Done(up[j])) /\ (Done(v) => Done(up[j]))
  BY <1>0 DEF Uploads, Done
<1>5. Transfer(j, u) \/ Transfer(j, v)
  <2> HIDE DEF u, v
  <2> QED BY <1>0, <1>1, <1>2, <1>3, <1>4 DEF OpenStream, Transfer
<1> QED BY <1>5, TransferInv

LEMMA SendChunkInv == ASSUME BlobInv, NEW j \in Jobs, SendChunk(j) PROVE BlobInv'
<1> DEFINE v == IF Over(up[j]) THEN [up[j] EXCEPT !.cli = "failed"]
                ELSE [up[j] EXCEPT !.sent = @ + 1]
           w == [v EXCEPT !.enc = @ + 1]
           x == [v EXCEPT !.enc = EncFailed]
<1>0. /\ up \in [Jobs -> Uploads] /\ up[j] \in Uploads /\ SendOK(up[j]) /\ RecvOK(up[j])
      /\ BucketMoves /\ up[j].cli = "read" /\ Encoding(up[j])
  BY UploadFacts, BucketStays DEF SendChunk
<1>1. up[j].enc \in 1 .. Frames /\ up[j].sent = up[j].enc - 1
  BY <1>0, StreamFacts DEF Uploads, Encoding, SendOK
<1>2. w \in Uploads /\ x \in Uploads
  BY <1>0, <1>1, StreamFacts DEF Uploads
<1>3. SendOK(w) /\ SendOK(x)
  BY <1>0, <1>1, StreamFacts DEF Uploads, SendOK, Encoding
<1>4. RecvOK(w) /\ RecvOK(x)
  <2>1. up[j].sent \in Nat /\ up[j].taken \in Nat /\ up[j].got \in Nat
    BY <1>0, StreamFacts DEF Uploads
  <2>2. CASE Over(up[j])
    BY <1>0, <2>1, <2>2, StreamFacts DEF Uploads, SendOK, RecvOK
  <2>3. CASE ~Over(up[j])
    BY <1>0, <2>1, <2>3, StreamFacts DEF Uploads, SendOK, RecvOK, Over
  <2> QED BY <2>2, <2>3
<1>5. (Done(w) => Done(up[j])) /\ (Done(x) => Done(up[j]))
  BY <1>0 DEF Uploads, Done
<1>6. (up' = [up EXCEPT ![j] = w] /\ UNCHANGED left) \/ (up' = [up EXCEPT ![j] = x] /\ Fault)
  BY DEF SendChunk
<1>7. Transfer(j, w) \/ Transfer(j, x)
  <2> HIDE DEF w, x
  <2> QED BY <1>0, <1>2, <1>3, <1>4, <1>5, <1>6 DEF SendChunk, Transfer
<1> QED BY <1>7, TransferInv

LEMMA CloseSendInv == ASSUME BlobInv, NEW j \in Jobs, CloseSend(j) PROVE BlobInv'
<1> DEFINE u == [up[j] EXCEPT !.half = TRUE, !.cli = "wait"]
<1>0. /\ up \in [Jobs -> Uploads] /\ up[j] \in Uploads /\ SendOK(up[j]) /\ RecvOK(up[j])
      /\ BucketMoves /\ up[j].cli = "read" /\ ~Encoding(up[j])
  BY UploadFacts, BucketStays DEF CloseSend
<1>1. u \in Uploads /\ (Done(u) => Done(up[j]))
  BY <1>0 DEF Uploads, Done
<1>2. SendOK(u) /\ RecvOK(u)
  BY <1>0, StreamFacts DEF Uploads, SendOK, RecvOK, Encoding
<1>3. up' = [up EXCEPT ![j] = u]
  BY <1>0 DEF CloseSend
<1>4. Transfer(j, u)
  <2> HIDE DEF u
  <2> QED BY <1>0, <1>1, <1>2, <1>3 DEF CloseSend, Transfer
<1> QED BY <1>4, TransferInv

LEMMA RecvStatusInv == ASSUME BlobInv, NEW j \in Jobs, RecvStatus(j) PROVE BlobInv'
<1> DEFINE u == [up[j] EXCEPT !.cli = IF ~up[j].cut /\ up[j].status = "ok" THEN "ok" ELSE "failed"]
<1>0. /\ up \in [Jobs -> Uploads] /\ up[j] \in Uploads /\ SendOK(up[j]) /\ RecvOK(up[j])
      /\ BucketMoves /\ up[j].cli = "wait" /\ Over(up[j])
  BY UploadFacts, BucketStays DEF RecvStatus
<1>1. u \in Uploads /\ (Done(u) => Done(up[j]))
  BY <1>0 DEF Uploads, Done
<1>2. SendOK(u) /\ RecvOK(u)
  BY <1>0, StreamFacts DEF Uploads, SendOK, RecvOK, Encoding, Over
<1>3. up' = [up EXCEPT ![j] = u]
  BY <1>0 DEF RecvStatus
<1>4. Transfer(j, u)
  <2> HIDE DEF u
  <2> QED BY <1>0, <1>1, <1>2, <1>3 DEF RecvStatus, Transfer
<1> QED BY <1>4, TransferInv

\* The handler returns: "ok" only at the end of the data, with the object stored.
LEMMA HandlerReturnsInv ==
    ASSUME BlobInv, NEW j \in Jobs, NEW s \in {"ok", "err"}, HandlerReturns(j, s),
           Running(up[j]), s = "ok" => up[j].srv = "put" /\ up[j].rcv = "eof",
           s = "ok" /\ up[j].got = Frames => StoredWhole',
           BucketMoves, Fault \/ left' = left,
           UNCHANGED <<secret, localVars, job, load>>
    PROVE  BlobInv'
<1> DEFINE r == [up[j] EXCEPT !.srv = "returned", !.status = s]
           u == IF up[j].cli = "none" THEN NoUpload ELSE r
<1>0. /\ up \in [Jobs -> Uploads] /\ up[j] \in Uploads /\ SendOK(up[j]) /\ RecvOK(up[j])
      /\ up[j].srv \notin {"none", "returned"}
  BY UploadFacts DEF Running
<1>1. r \in Uploads /\ (Done(r) => s = "ok" /\ up[j].got = Frames)
  BY <1>0 DEF Uploads, Done
<1>2. SendOK(r) /\ RecvOK(r)
  BY <1>0, StreamFacts DEF Uploads, SendOK, RecvOK, Encoding
<1>3. up' = [up EXCEPT ![j] = u]
  BY <1>0 DEF HandlerReturns
<1>4. u \in Uploads /\ SendOK(u) /\ RecvOK(u) /\ (Done(u) => StoredWhole')
  <2> HIDE DEF r
  <2> QED BY <1>1, <1>2, NoUploadOK
<1>5. up[j].cli # "ok"
  BY <1>0 DEF RecvOK
<1>6. Transfer(j, u)
  <2> HIDE DEF u
  <2> QED BY <1>3, <1>4, <1>5 DEF Transfer
<1> QED BY <1>6, TransferInv

LEMMA HandlerRefuseInv == ASSUME BlobInv, NEW j \in Jobs, HandlerRefuse(j) PROVE BlobInv'
<1>1. Running(up[j]) /\ BucketMoves
  BY UploadFacts, BucketStays DEF HandlerRefuse, Running
<1> QED BY <1>1, HandlerReturnsInv DEF HandlerRefuse

LEMMA RecvFirstInv == ASSUME BlobInv, NEW j \in Jobs, RecvFirst(j) PROVE BlobInv'
<1> DEFINE u == [up[j] EXCEPT !.srv = "lookup", !.rcv = "write", !.taken = @ + 1]
<1>0. /\ up \in [Jobs -> Uploads] /\ up[j] \in Uploads /\ SendOK(up[j]) /\ RecvOK(up[j])
      /\ BucketMoves /\ up[j].srv = "first" /\ Running(up[j])
  BY UploadFacts, BucketStays DEF RecvFirst, Running
<1>1. CASE InFlight(up[j]) > 0
           /\ up' = [up EXCEPT ![j].srv = "lookup", ![j].rcv = "write", ![j].taken = @ + 1]
  <2>1. u \in Uploads /\ SendOK(u) /\ RecvOK(u)
    BY <1>0, <1>1, StreamFacts DEF Uploads, SendOK, RecvOK, Encoding, InFlight
  <2>2. up' = [up EXCEPT ![j] = u] /\ up[j].cli # "ok" /\ ~Done(u)
    BY <1>0, <1>1 DEF RecvOK, Done, Uploads
  <2>3. Transfer(j, u)
    <3> HIDE DEF u
    <3> QED BY <1>0, <2>1, <2>2 DEF RecvFirst, Transfer
  <2> QED BY <2>3, TransferInv
<1>2. CASE HandlerReturns(j, "err")
  BY <1>0, <1>2, HandlerReturnsInv DEF RecvFirst
<1> QED BY <1>1, <1>2 DEF RecvFirst

LEMMA UploadChunkedInv == ASSUME BlobInv, NEW j \in Jobs, UploadChunked(j) PROVE BlobInv'
<1> DEFINE u == [up[j] EXCEPT !.srv = "put"]
<1>0. /\ up \in [Jobs -> Uploads] /\ up[j] \in Uploads /\ SendOK(up[j]) /\ RecvOK(up[j])
      /\ BucketMoves /\ up[j].srv = "lookup" /\ Running(up[j])
  BY UploadFacts, BucketStays DEF UploadChunked, Running
<1>1. CASE up' = [up EXCEPT ![j].srv = "put"] /\ UNCHANGED left
  <2>1. u \in Uploads /\ ~Done(u)
    BY <1>0 DEF Uploads, Done
  <2>2. SendOK(u) /\ RecvOK(u)
    BY <1>0, StreamFacts DEF Uploads, SendOK, RecvOK, Encoding
  <2>3. up' = [up EXCEPT ![j] = u] /\ up[j].cli # "ok"
    BY <1>0, <1>1 DEF RecvOK
  <2>4. Transfer(j, u)
    <3> HIDE DEF u
    <3> QED BY <1>0, <1>1, <2>1, <2>2, <2>3 DEF UploadChunked, Transfer
  <2> QED BY <2>4, TransferInv
<1>2. CASE HandlerReturns(j, "err") /\ (Fault \/ left' = left)
  BY <1>0, <1>2, HandlerReturnsInv DEF UploadChunked
<1> QED BY <1>1, <1>2 DEF UploadChunked, RequestFails

LEMMA ReadPipeInv == ASSUME BlobInv, NEW j \in Jobs, ReadPipe(j) PROVE BlobInv'
<1> DEFINE u == [up[j] EXCEPT !.rcv = "recv", !.got = @ + 1]
<1>0. /\ up \in [Jobs -> Uploads] /\ up[j] \in Uploads /\ SendOK(up[j]) /\ RecvOK(up[j])
      /\ BucketMoves /\ up[j].srv = "put" /\ up[j].rcv = "write"
  BY UploadFacts, BucketStays DEF ReadPipe
<1>1. up[j].got + 1 = up[j].taken /\ up[j].got + 1 \in 0 .. Frames
  BY <1>0, StreamFacts DEF Uploads, RecvOK
<1>2. u \in Uploads /\ ~Done(u)
  BY <1>0, <1>1 DEF Uploads, Done
<1>3. SendOK(u) /\ RecvOK(u)
  BY <1>0, <1>1, StreamFacts DEF Uploads, SendOK, RecvOK, Encoding
<1>4. up' = [up EXCEPT ![j] = u] /\ up[j].cli # "ok"
  BY <1>0 DEF ReadPipe, RecvOK
<1>5. Transfer(j, u)
  <2> HIDE DEF u
  <2> QED BY <1>0, <1>2, <1>3, <1>4 DEF ReadPipe, Transfer
<1> QED BY <1>5, TransferInv

LEMMA RecvChunkInv == ASSUME BlobInv, NEW j \in Jobs, RecvChunk(j) PROVE BlobInv'
<1> DEFINE u == [up[j] EXCEPT !.rcv = "write", !.taken = @ + 1]
           v == [up[j] EXCEPT !.rcv = "eof"]
           w == [up[j] EXCEPT !.rcv = "err"]
<1>0. /\ up \in [Jobs -> Uploads] /\ up[j] \in Uploads /\ SendOK(up[j]) /\ RecvOK(up[j])
      /\ BucketMoves /\ up[j].rcv = "recv" /\ up[j].cli # "ok"
      /\ up[j].srv \notin {"none", "first", "lookup"}
      /\ ~(up[j].srv = "returned" /\ up[j].status = "ok")
  BY UploadFacts, BucketStays DEF RecvChunk, RecvOK
<1>1. ~Done(u) /\ ~Done(v) /\ ~Done(w)
  BY <1>0 DEF Uploads, Done
<1>2. CASE InFlight(up[j]) > 0 /\ up' = [up EXCEPT ![j].rcv = "write", ![j].taken = @ + 1]
  <2>1. u \in Uploads
    BY <1>0, <1>2, StreamFacts DEF Uploads, InFlight, RecvOK
  <2>2. SendOK(u)
    BY <1>0, <1>2, StreamFacts DEF Uploads, SendOK, RecvOK, Encoding, InFlight
  <2>3. RecvOK(u)
    BY <1>0, <1>2, StreamFacts DEF Uploads, SendOK, RecvOK, Encoding, InFlight
  <2>4. up' = [up EXCEPT ![j] = u]
    BY <1>0, <1>2
  <2>5. Transfer(j, u)
    <3> HIDE DEF u
    <3> QED BY <1>0, <1>1, <2>1, <2>2, <2>3, <2>4 DEF RecvChunk, Transfer
  <2> QED BY <2>5, TransferInv
<1>3. CASE InFlight(up[j]) = 0 /\ up[j].half /\ up' = [up EXCEPT ![j].rcv = "eof"]
  <2>1. v \in Uploads
    BY <1>0, <1>3, StreamFacts DEF Uploads
  <2>2. SendOK(v)
    BY <1>0, <1>3, StreamFacts DEF Uploads, SendOK, RecvOK, Encoding, InFlight
  <2>3. RecvOK(v)
    BY <1>0, <1>3, StreamFacts DEF Uploads, SendOK, RecvOK, Encoding, InFlight
  <2>4. up' = [up EXCEPT ![j] = v]
    BY <1>0, <1>3
  <2>5. Transfer(j, v)
    <3> HIDE DEF v
    <3> QED BY <1>0, <1>1, <2>1, <2>2, <2>3, <2>4 DEF RecvChunk, Transfer
  <2> QED BY <2>5, TransferInv
<1>4. CASE up' = [up EXCEPT ![j].rcv = "err"]
  <2>1. w \in Uploads /\ SendOK(w) /\ RecvOK(w)
    BY <1>0, <1>4, StreamFacts DEF Uploads, SendOK, RecvOK, Encoding
  <2>2. up' = [up EXCEPT ![j] = w]
    BY <1>0, <1>4
  <2>3. Transfer(j, w)
    <3> HIDE DEF w
    <3> QED BY <1>0, <1>1, <2>1, <2>2 DEF RecvChunk, Transfer
  <2> QED BY <2>3, TransferInv
<1> QED BY <1>2, <1>3, <1>4 DEF RecvChunk

\* A shorter object over a whole one sets torn.
LEMMA PutChunkInv == ASSUME BlobInv, NEW j \in Jobs, PutChunk(j) PROVE BlobInv'
<1>1. Running(up[j]) /\ up[j].got \in 0 .. Frames /\ object \in 0 .. Frames /\ torn \in BOOLEAN
  BY UploadFacts DEF PutChunk, Running, Uploads, BlobInv, Shape, TypeOK
<1>2. CASE /\ PipeClosed(up[j]) /\ up[j].rcv # "err"
           /\ object' = up[j].got
           /\ torn' = (up[j].got < Frames /\ (torn \/ object = Frames))
           /\ HandlerReturns(j, "ok") /\ UNCHANGED left
  <2>1. up[j].rcv = "eof"
    BY <1>2 DEF PipeClosed
  <2>2. object' \in 0 .. Frames /\ torn' \in BOOLEAN
    BY <1>1, <1>2
  <2>3. up[j].got < Frames \/ up[j].got = Frames
    BY <1>1, StreamFacts
  <2>4. (StoredWhole => StoredWhole') /\ (up[j].got = Frames => StoredWhole')
    BY <1>2, <2>3 DEF StoredWhole
  <2>5. up[j].srv = "put" /\ BucketMoves /\ UNCHANGED <<secret, localVars, job, load>>
    BY <2>2, <2>4 DEF PutChunk, BucketMoves
  <2> QED BY <1>1, <1>2, <2>1, <2>4, <2>5, HandlerReturnsInv
<1>3. CASE HandlerReturns(j, "err") /\ UNCHANGED bucket /\ (Fault \/ left' = left)
  BY <1>1, <1>3, BucketStays, HandlerReturnsInv DEF PutChunk
<1> QED BY <1>2, <1>3 DEF PutChunk, RequestFails

LEMMA CutStreamInv == ASSUME BlobInv, NEW j \in Jobs, CutStream(j) PROVE BlobInv'
<1> DEFINE u == [up[j] EXCEPT !.cut = TRUE]
<1>0. /\ up \in [Jobs -> Uploads] /\ up[j] \in Uploads /\ SendOK(up[j]) /\ RecvOK(up[j])
      /\ BucketMoves /\ up[j].cli # "ok"
  BY UploadFacts, BucketStays DEF CutStream
<1>1. u \in Uploads /\ SendOK(u) /\ RecvOK(u) /\ (Done(u) => Done(up[j]))
  <2>1. u \in Uploads /\ (Done(u) => Done(up[j]))
    BY <1>0, StreamFacts DEF Uploads, Done
  <2>2. SendOK(u)
    BY <1>0, StreamFacts DEF Uploads, SendOK, RecvOK, Encoding
  <2>3. RecvOK(u)
    BY <1>0, StreamFacts DEF Uploads, SendOK, RecvOK, Encoding
  <2> QED BY <2>1, <2>2, <2>3
<1>2. up' = [up EXCEPT ![j] = u]
  BY <1>0 DEF CutStream
<1>3. Transfer(j, u)
  <2> HIDE DEF u
  <2> QED BY <1>0, <1>1, <1>2 DEF CutStream, Transfer
<1> QED BY <1>3, TransferInv

----------------------------------------------------------------------------
Secrets == [st : {"none", "live", "deleted"}, version : 0 .. 1 + MaxEdits, ref : BOOLEAN]

\* A step of job j, which leaves it in state r and its upload in u.  An attachment is never
\* undone, so what the other jobs rely on stays.
JobMoves(j, r, u) ==
    /\ job' = [job EXCEPT ![j] = r] /\ r \in JobStates
    /\ up' = [up EXCEPT ![j] = u] /\ u \in Uploads /\ SendOK(u) /\ RecvOK(u)
    /\ r.at \in {"attach", "cleanup"} => u.cli = "ok" /\ u.enc = EncDone
    /\ r.at \in {"cleanup", "remove"} => secret'.ref
    /\ secret' \in Secrets /\ secret'.version \in {secret.version, createVersion}
    /\ secret.ref => secret'.ref
    /\ Done(u) => Done(up[j])
    /\ secret'.ref => secret.ref \/ Done(up[j])
    /\ local' \in {local, createVersion}
    /\ staged' \in BOOLEAN /\ outbox' \subseteq {"create", "blob"}
    /\ Fault \/ left' = left
    /\ UNCHANGED <<bucket, load>>

LEMMA JobMovesInv ==
    ASSUME BlobInv, NEW j \in Jobs, NEW r, NEW u, JobMoves(j, r, u),
           StagedOK', Queued'
    PROVE  BlobInv'
<1>0. /\ Shape /\ TypeOK /\ up \in [Jobs -> Uploads] /\ job \in [Jobs -> JobStates]
      /\ UNCHANGED <<bucket, load>>
  BY DEF BlobInv, Shape, JobMoves
<1>1. /\ up' \in [Jobs -> Uploads] /\ up'[j] = u
      /\ job' \in [Jobs -> JobStates] /\ job'[j] = r
      /\ \A k \in Jobs : k # j => up'[k] = up[k] /\ job'[k] = job[k]
  BY <1>0 DEF JobMoves
<1>2. left' \in [faults : 0 .. MaxFaults, edits : 0 .. MaxEdits] /\ left'.edits = left.edits
  BY <1>0, FaultFacts DEF JobMoves
<1>3. local' \in 0 .. 1 + MaxEdits /\ secret' \in Secrets /\ staged' \in BOOLEAN
      /\ outbox' \subseteq {"create", "blob"}
  BY <1>0, BlobAssumption DEF TypeOK, JobMoves, createVersion
<1>4. TypeOK'
  BY <1>0, <1>1, <1>3 DEF Shape, TypeOK, Uploads, JobStates, Secrets, bucket
<1>5. /\ secret'.version + left'.edits <= 1 + MaxEdits
      /\ local' + left'.edits <= 1 + MaxEdits
  <2>1. left.edits \in 0 .. MaxEdits /\ secret.version \in Int /\ local \in Int
        /\ secret.version + left.edits <= 1 + MaxEdits /\ local + left.edits <= 1 + MaxEdits
    BY <1>0 DEF Shape, TypeOK
  <2> QED BY <1>2, <2>1, BlobAssumption DEF JobMoves, createVersion
<1>6. Shape'
  BY <1>0, <1>1, <1>2, <1>4, <1>5 DEF Shape
<1>7. ASSUME NEW k \in Jobs PROVE (SendOK(up[k]) /\ RecvOK(up[k]) /\ JobOK(k))'
  <2>1. CASE k = j
    BY <1>1, <2>1 DEF JobMoves, SendOK, RecvOK, Encoding, JobOK
  <2>2. CASE k # j
    BY <1>1, <2>2 DEF BlobInv, JobMoves, SendOK, RecvOK, Encoding, JobOK
  <2> QED BY <2>1, <2>2
<1>8. \A d \in Loaders : LoadOK(load[d])'
  BY <1>0 DEF BlobInv, LoadOK
<1>9. Stored'
  <2>1. (\A m \in Jobs : Done(up[m]) => StoredWhole) /\ (secret.ref => StoredWhole)
        /\ StoredWhole' = StoredWhole
    BY <1>0 DEF BlobInv, Stored, StoredWhole, bucket
  <2>2. ASSUME NEW k \in Jobs, Done(up'[k]) PROVE StoredWhole'
    <3>1. CASE k = j
      BY <1>1, <2>1, <2>2, <3>1 DEF JobMoves
    <3>2. CASE k # j
      BY <1>1, <2>1, <2>2, <3>2
    <3> QED BY <3>1, <3>2
  <2>3. secret'.ref => StoredWhole'
    BY <2>1 DEF JobMoves
  <2> QED BY <2>2, <2>3 DEF Stored, Done
<1> QED BY <1>6, <1>7, <1>8, <1>9 DEF BlobInv

\* What the invariant says of one job.
LEMMA JobFacts ==
    ASSUME BlobInv, NEW j \in Jobs
    PROVE  /\ job \in [Jobs -> JobStates] /\ up \in [Jobs -> Uploads]
           /\ job[j] \in JobStates /\ up[j] \in Uploads
           /\ SendOK(up[j]) /\ RecvOK(up[j]) /\ JobOK(j)
           /\ secret \in Secrets /\ staged \in BOOLEAN /\ outbox \subseteq {"create", "blob"}
           /\ StagedOK /\ Queued
           /\ Creator \in Jobs
BY DEF BlobInv, Shape, TypeOK, Secrets, Jobs

LEMMA DropOK ==
    ASSUME NEW u \in Uploads, SendOK(u), RecvOK(u)
    PROVE  Drop(u) \in Uploads /\ SendOK(Drop(u)) /\ RecvOK(Drop(u)) /\ ~Done(Drop(u))
<1> DEFINE d == [u EXCEPT !.enc = EncDone, !.cli = "none"]
<1>0. EncDone \in 0 .. EncDone
  BY StreamFacts
<1>1. d \in Uploads
  BY <1>0 DEF Uploads
<1>2. SendOK(d) /\ RecvOK(d) /\ (Running(u) => ~Done(d))
  BY StreamFacts DEF Uploads, SendOK, RecvOK, Encoding, Running, Done
<1> QED BY <1>1, <1>2, NoUploadOK DEF Drop

Fresh == [NoUpload EXCEPT !.enc = 1, !.cli = "open"]

LEMMA FreshOK == Fresh \in Uploads /\ SendOK(Fresh) /\ RecvOK(Fresh) /\ ~Done(Fresh)
<1>1. 1 \in 0 .. EncDone /\ 0 \in 0 .. Frames /\ EncFailed = 0
  BY StreamFacts
<1>2. /\ NoUpload.sent = 0 /\ NoUpload.taken = 0 /\ NoUpload.half = FALSE
      /\ NoUpload.srv = "none" /\ NoUpload.rcv = "none" /\ NoUpload.got = 0
  BY DEF NoUpload
<1>3. Fresh \in Uploads
  BY <1>1, NoUploadOK DEF Fresh, Uploads
<1>4. /\ Fresh.enc = 1 /\ Fresh.cli = "open" /\ Fresh.sent = 0 /\ Fresh.taken = 0
      /\ Fresh.half = FALSE /\ Fresh.srv = "none" /\ Fresh.rcv = "none" /\ Fresh.got = 0
  BY <1>2, NoUploadOK DEF Fresh, Uploads
<1> QED BY <1>1, <1>3, <1>4 DEF SendOK, RecvOK, Encoding, Done

Ended(err) == [at |-> "end", todo |-> {}, err |-> err]

LEMMA EndedOK == ASSUME NEW err \in BOOLEAN PROVE Ended(err) \in JobStates
BY DEF Ended, JobStates

\* CreateBinary.
LEMMA CreateSecretInv == ASSUME BlobInv, CreateSecret PROVE BlobInv'
<1> DEFINE r == [job[Creator] EXCEPT !.at = "stage"]
<1>0. /\ job \in [Jobs -> JobStates] /\ up \in [Jobs -> Uploads]
      /\ job[Creator] \in JobStates /\ up[Creator] \in Uploads
      /\ SendOK(up[Creator]) /\ RecvOK(up[Creator])
      /\ secret \in Secrets /\ staged \in BOOLEAN /\ outbox \subseteq {"create", "blob"}
      /\ StagedOK /\ Queued /\ Creator \in Jobs
  BY JobFacts DEF Jobs
<1>1. r \in JobStates /\ r.at = "stage" /\ r.err = job[Creator].err
  BY <1>0 DEF JobStates
<1>2. job' = [job EXCEPT ![Creator] = r] /\ up' = [up EXCEPT ![Creator] = up[Creator]]
  BY <1>0 DEF CreateSecret, Goto
<1>3. secret' \in Secrets /\ secret'.version \in {secret.version, createVersion} /\ secret'.ref = secret.ref
  <2>1. createVersion \in 0 .. 1 + MaxEdits
    BY BlobAssumption DEF createVersion
  <2>2. CASE UNCHANGED secret
    BY <1>0, <2>2
  <2>3. CASE secret' = [secret EXCEPT !.st = "live", !.version = createVersion]
    BY <1>0, <2>1, <2>3 DEF Secrets
  <2> QED BY <2>2, <2>3 DEF CreateSecret
<1> HIDE DEF r
<1>4. JobMoves(Creator, r, up[Creator])
  BY <1>0, <1>1, <1>2, <1>3 DEF CreateSecret, JobMoves
<1>5. StagedOK' /\ Queued'
  <2>1. job'[Creator] = r /\ outbox \subseteq outbox' /\ staged' = staged
    BY <1>0, <1>2 DEF CreateSecret
  <2> QED BY <1>0, <1>1, <1>3, <2>1 DEF StagedOK, Queued
<1> QED BY <1>0, <1>4, <1>5, JobMovesInv

LEMMA StageFileInv == ASSUME BlobInv, StageFile PROVE BlobInv'
<1> DEFINE r == [job[Creator] EXCEPT !.at = "upload"]
<1>0. /\ job \in [Jobs -> JobStates] /\ up \in [Jobs -> Uploads]
      /\ job[Creator] \in JobStates /\ up[Creator] \in Uploads
      /\ SendOK(up[Creator]) /\ RecvOK(up[Creator])
      /\ secret \in Secrets /\ staged \in BOOLEAN /\ outbox \subseteq {"create", "blob"}
      /\ StagedOK /\ Queued /\ Creator \in Jobs
  BY JobFacts DEF Jobs
<1>1. r \in JobStates /\ r.at = "upload" /\ r.err = job[Creator].err
  BY <1>0 DEF JobStates
<1>2. CASE staged' = TRUE /\ Goto(Creator, "upload") /\ StartUpload(Creator) /\ UNCHANGED left
  <2>1. job' = [job EXCEPT ![Creator] = r] /\ up' = [up EXCEPT ![Creator] = Fresh]
    BY <1>0, <1>2 DEF Goto, StartUpload, Fresh
  <2> HIDE DEF r
  <2>2. JobMoves(Creator, r, Fresh)
    BY <1>0, <1>1, <1>2, <2>1, FreshOK DEF StageFile, JobMoves
  <2>3. job'[Creator] = r /\ UNCHANGED <<secret, outbox>>
    BY <1>0, <2>1 DEF StageFile
  <2>4. StagedOK' /\ Queued'
    BY <1>0, <1>1, <1>2, <2>3 DEF StagedOK, Queued
  <2> QED BY <1>0, <2>2, <2>4, JobMovesInv
<1>3. CASE Fault /\ End(Creator, FALSE) /\ UNCHANGED <<staged, up>>
  <2>1. job' = [job EXCEPT ![Creator] = Ended(FALSE)] /\ up' = [up EXCEPT ![Creator] = up[Creator]]
    BY <1>0, <1>3 DEF End, Ended
  <2>2. JobMoves(Creator, Ended(FALSE), up[Creator])
    <3>1. Ended(FALSE).at = "end" /\ Ended(FALSE) \in JobStates
      BY EndedOK DEF Ended
    <3> QED BY <1>0, <1>3, <2>1, <3>1 DEF StageFile, JobMoves
  <2>3. job'[Creator].at = "end" /\ job'[Creator].err = FALSE
    BY <1>0, <2>1 DEF Ended
  <2> QED BY <1>0, <2>2, <2>3, JobMovesInv DEF StagedOK, Queued
<1> QED BY <1>2, <1>3 DEF StageFile

\* enqueueBlobUpload: the staged copy is there as long as nothing is attached.
LEMMA GiveUpInv ==
    ASSUME BlobInv, NEW j \in Jobs, job[j].at \in {"upload", "attach"}, GiveUp(j),
           secret' \in Secrets, secret'.version = secret.version, secret.ref => secret'.ref,
           secret'.ref => secret.ref \/ Done(up[j]),
           Fault \/ left' = left, UNCHANGED <<bucket, local, staged, load>>
    PROVE  BlobInv'
<1>0. /\ job \in [Jobs -> JobStates] /\ up \in [Jobs -> Uploads]
      /\ job[j] \in JobStates /\ up[j] \in Uploads
      /\ SendOK(up[j]) /\ RecvOK(up[j])
      /\ secret \in Secrets /\ staged \in BOOLEAN /\ outbox \subseteq {"create", "blob"}
      /\ StagedOK /\ Queued /\ Creator \in Jobs
  BY JobFacts
<1>1. job' = [job EXCEPT ![j] = Ended(j = Creator)] /\ up' = [up EXCEPT ![j] = Drop(up[j])]
      /\ outbox' = IF j = Creator THEN outbox \cup {"blob"} ELSE outbox
  BY <1>0 DEF GiveUp, End, Ended
<1>2. Drop(up[j]) \in Uploads /\ SendOK(Drop(up[j])) /\ RecvOK(Drop(up[j])) /\ ~Done(Drop(up[j]))
  BY <1>0, DropOK
<1>3. Ended(j = Creator) \in JobStates /\ Ended(j = Creator).at = "end"
      /\ Ended(j = Creator).err = (j = Creator)
  BY EndedOK DEF Ended
<1>4. outbox' \subseteq {"create", "blob"} /\ outbox \subseteq outbox' /\ (j = Creator => "blob" \in outbox')
  BY <1>0, <1>1
<1>5. JobMoves(j, Ended(j = Creator), Drop(up[j]))
  BY <1>0, <1>1, <1>2, <1>3, <1>4 DEF JobMoves
<1>6. StagedOK' /\ Queued'
  <2>1. CASE j = Creator
    <3>1. job'[Creator].at = "end" /\ "blob" \in outbox' /\ (secret'.ref \/ staged')
      BY <1>0, <1>1, <1>3, <1>4, <2>1 DEF StagedOK
    <3> QED BY <3>1 DEF StagedOK, Queued
  <2>2. CASE j # Creator
    <3>1. job'[Creator] = job[Creator]
      BY <1>0, <1>1, <2>2
    <3> QED BY <1>0, <1>4, <3>1 DEF StagedOK, Queued
  <2> QED BY <2>1, <2>2
<1> QED BY <1>5, <1>6, JobMovesInv

\* A job goes on to a later state with its upload; the other variables may change.
LEMMA UploadReturnsInv == ASSUME BlobInv, NEW j \in Jobs, UploadReturns(j) PROVE BlobInv'
<1> DEFINE r == [job[j] EXCEPT !.at = "attach"]
<1>0. /\ job \in [Jobs -> JobStates] /\ up \in [Jobs -> Uploads]
      /\ job[j] \in JobStates /\ up[j] \in Uploads
      /\ SendOK(up[j]) /\ RecvOK(up[j])
      /\ secret \in Secrets /\ staged \in BOOLEAN /\ outbox \subseteq {"create", "blob"}
      /\ StagedOK /\ Queued /\ Creator \in Jobs
  BY JobFacts
<1>1. CASE Uploaded(up[j]) /\ Goto(j, "attach") /\ UNCHANGED <<outbox, up>>
  <2>1. job' = [job EXCEPT ![j] = r] /\ up' = [up EXCEPT ![j] = up[j]]
    BY <1>0, <1>1 DEF Goto
  <2>2. r \in JobStates /\ r.at = "attach" /\ r.err = job[j].err
    BY <1>0 DEF JobStates
  <2>3. up[j].cli = "ok" /\ up[j].enc = EncDone
    BY <1>1 DEF UploadReturns, Uploaded, JoinEncoder, Encoding
  <2> HIDE DEF r
  <2>4. JobMoves(j, r, up[j])
    BY <1>0, <1>1, <2>1, <2>2, <2>3 DEF UploadReturns, JobMoves
  <2>5. job'[j] = r /\ (j # Creator => job'[Creator] = job[Creator])
    BY <1>0, <2>1
  <2>6. StagedOK' /\ Queued'
    BY <1>0, <1>1, <2>2, <2>5 DEF StagedOK, Queued, UploadReturns
  <2> QED BY <2>4, <2>6, JobMovesInv
<1>2. CASE GiveUp(j)
  BY <1>0, <1>2, GiveUpInv DEF UploadReturns
<1> QED BY <1>1, <1>2 DEF UploadReturns

\* A job that may attach has every frame in the object its handler stored.
LEMMA AttachDone ==
    ASSUME BlobInv, NEW j \in Jobs, job[j].at \in {"attach", "cleanup"}
    PROVE  Done(up[j])
<1>1. up[j].cli = "ok" /\ up[j].enc = EncDone /\ SendOK(up[j]) /\ RecvOK(up[j])
  BY DEF BlobInv, JobOK
<1>2. up[j].sent = EncDone - 1
  BY <1>1, StreamFacts DEF SendOK
<1>3. up[j].srv = "returned" /\ up[j].status = "ok" /\ up[j].got = up[j].sent
  BY <1>1 DEF RecvOK
<1> QED BY <1>2, <1>3, StreamFacts DEF Done

LEMMA AttachBlobInv == ASSUME BlobInv, NEW j \in Jobs, AttachBlob(j) PROVE BlobInv'
<1> DEFINE r == [job[j] EXCEPT !.at = "cleanup"]
<1>0. /\ job \in [Jobs -> JobStates] /\ up \in [Jobs -> Uploads]
      /\ job[j] \in JobStates /\ up[j] \in Uploads
      /\ SendOK(up[j]) /\ RecvOK(up[j]) /\ JobOK(j)
      /\ secret \in Secrets /\ staged \in BOOLEAN /\ outbox \subseteq {"create", "blob"}
      /\ StagedOK /\ Queued /\ Creator \in Jobs
  BY JobFacts
<1>1. secret' \in Secrets /\ secret'.version = secret.version /\ (secret.ref => secret'.ref)
      /\ Done(up[j])
  BY <1>0, AttachDone DEF AttachBlob, Secrets
<1>2. CASE secret' = [secret EXCEPT !.ref = TRUE] /\ Goto(j, "cleanup") /\ UNCHANGED <<outbox, up, left>>
  <2>1. job' = [job EXCEPT ![j] = r] /\ up' = [up EXCEPT ![j] = up[j]]
    BY <1>0, <1>2 DEF Goto
  <2>2. r \in JobStates /\ r.at = "cleanup"
    BY <1>0 DEF JobStates
  <2>3. up[j].cli = "ok" /\ up[j].enc = EncDone /\ secret'.ref
    BY <1>0, <1>2 DEF AttachBlob, JobOK, Secrets
  <2> HIDE DEF r
  <2>4. JobMoves(j, r, up[j])
    BY <1>0, <1>1, <1>2, <2>1, <2>2, <2>3 DEF AttachBlob, JobMoves
  <2> QED BY <2>3, <2>4, JobMovesInv DEF StagedOK, Queued
<1>3. CASE GiveUp(j) /\ (Fault \/ UNCHANGED left)
  BY <1>0, <1>1, <1>3, GiveUpInv DEF AttachBlob
<1> QED BY <1>2, <1>3 DEF AttachBlob

LEMMA CleanupStagedInv == ASSUME BlobInv, NEW j \in Jobs, CleanupStaged(j) PROVE BlobInv'
<1> DEFINE r == IF j = Creator THEN Ended(FALSE) ELSE [job[j] EXCEPT !.at = "remove"]
<1>0. /\ job \in [Jobs -> JobStates] /\ up \in [Jobs -> Uploads]
      /\ job[j] \in JobStates /\ up[j] \in Uploads
      /\ SendOK(up[j]) /\ RecvOK(up[j]) /\ JobOK(j)
      /\ secret \in Secrets /\ staged \in BOOLEAN /\ outbox \subseteq {"create", "blob"}
  BY JobFacts
<1>1. job' = [job EXCEPT ![j] = r] /\ up' = [up EXCEPT ![j] = Drop(up[j])] /\ secret'.ref
  BY <1>0 DEF CleanupStaged, Goto, End, Ended, JobOK
<1>2. r \in JobStates /\ r.at \in {"end", "remove"}
  BY <1>0, EndedOK DEF JobStates, Ended
<1> HIDE DEF r
<1>3. JobMoves(j, r, Drop(up[j]))
  BY <1>0, <1>1, <1>2, DropOK DEF CleanupStaged, JobMoves
<1> QED BY <1>1, <1>3, JobMovesInv DEF StagedOK, Queued

\* ReplayOutbox.
LEMMA SyncFacts == ASSUME NEW j \in Syncs PROVE j \in Jobs /\ j # Creator
BY BlobAssumption DEF Jobs

\* A step of a replay that keeps the secret's attachment, the staged copy and, without an
\* attachment, the entry of the upload.
LEMMA SyncMovesInv ==
    ASSUME BlobInv, NEW j \in Syncs, NEW r, NEW u, JobMoves(j, r, u), UNCHANGED staged,
           secret.ref \/ ("blob" \in outbox => "blob" \in outbox')
    PROVE  BlobInv'
<1>1. /\ j \in Jobs /\ j # Creator /\ job \in [Jobs -> JobStates]
      /\ StagedOK /\ Queued /\ Creator \in Jobs
  BY SyncFacts, JobFacts
<1>2. job'[Creator] = job[Creator] /\ (secret.ref => secret'.ref)
  BY <1>1 DEF JobMoves
<1>3. StagedOK' /\ Queued'
  BY <1>1, <1>2 DEF StagedOK, Queued
<1> QED BY <1>1, <1>3, JobMovesInv

LEMMA ListPendingInv == ASSUME BlobInv, NEW j \in Syncs, ListPending(j) PROVE BlobInv'
<1> DEFINE r == [at |-> "replay", todo |-> outbox, err |-> FALSE]
<1>0. /\ job \in [Jobs -> JobStates] /\ up \in [Jobs -> Uploads]
      /\ j \in Jobs /\ up[j] \in Uploads /\ SendOK(up[j]) /\ RecvOK(up[j])
      /\ secret \in Secrets /\ staged \in BOOLEAN /\ outbox \subseteq {"create", "blob"}
  BY SyncFacts, JobFacts
<1>1. job' = [job EXCEPT ![j] = r] /\ up' = [up EXCEPT ![j] = up[j]]
  BY <1>0 DEF ListPending
<1>2. r \in JobStates /\ r.at = "replay"
  BY <1>0 DEF JobStates
<1> HIDE DEF r
<1>3. JobMoves(j, r, up[j])
  BY <1>0, <1>1, <1>2 DEF ListPending, JobMoves, localVars
<1> QED BY <1>3, SyncMovesInv DEF ListPending, localVars

LEMMA ReplayCreateInv == ASSUME BlobInv, NEW j \in Syncs, ReplayCreate(j) PROVE BlobInv'
<1> DEFINE r == [job[j] EXCEPT !.todo = @ \ {"create"}]
<1>0. /\ job \in [Jobs -> JobStates] /\ up \in [Jobs -> Uploads]
      /\ j \in Jobs /\ job[j] \in JobStates
      /\ up[j] \in Uploads /\ SendOK(up[j]) /\ RecvOK(up[j])
      /\ secret \in Secrets /\ staged \in BOOLEAN /\ outbox \subseteq {"create", "blob"}
  BY SyncFacts, JobFacts
<1>1. up' = [up EXCEPT ![j] = up[j]]
  BY <1>0 DEF ReplayCreate
<1>2. CASE /\ secret' = [secret EXCEPT !.st = "live", !.version = createVersion]
           /\ outbox' = outbox \ {"create"}
           /\ job' = [job EXCEPT ![j].todo = @ \ {"create"}]
           /\ UNCHANGED left
  <2>1. job' = [job EXCEPT ![j] = r]
    BY <1>0, <1>2
  <2>2. r \in JobStates /\ r.at = "replay"
    BY <1>0 DEF JobStates, ReplayCreate
  <2>3. createVersion \in 0 .. 1 + MaxEdits
    BY BlobAssumption DEF createVersion
  <2>4. secret' \in Secrets /\ secret'.version = createVersion /\ secret'.ref = secret.ref
    BY <1>0, <1>2, <2>3 DEF Secrets
  <2> HIDE DEF r
  <2>5. JobMoves(j, r, up[j])
    BY <1>0, <1>1, <1>2, <2>1, <2>2, <2>4 DEF ReplayCreate, JobMoves
  <2> QED BY <1>2, <2>5, SyncMovesInv DEF ReplayCreate
<1>3. CASE End(j, FALSE) /\ UNCHANGED <<secret, outbox>> /\ (Fault \/ UNCHANGED left)
  <2>1. job' = [job EXCEPT ![j] = Ended(FALSE)]
    BY <1>3 DEF End, Ended
  <2>2. Ended(FALSE) \in JobStates /\ Ended(FALSE).at = "end"
    BY EndedOK DEF Ended
  <2>3. JobMoves(j, Ended(FALSE), up[j])
    BY <1>0, <1>1, <1>3, <2>1, <2>2 DEF ReplayCreate, JobMoves
  <2> QED BY <1>3, <2>3, SyncMovesInv DEF ReplayCreate
<1> QED BY <1>2, <1>3 DEF ReplayCreate

LEMMA RetryBlobUploadInv == ASSUME BlobInv, NEW j \in Syncs, RetryBlobUpload(j) PROVE BlobInv'
<1> DEFINE r == [job[j] EXCEPT !.at = "upload"]
<1>0. /\ job \in [Jobs -> JobStates] /\ up \in [Jobs -> Uploads]
      /\ j \in Jobs /\ job[j] \in JobStates
      /\ up[j] \in Uploads /\ SendOK(up[j]) /\ RecvOK(up[j])
      /\ secret \in Secrets /\ staged \in BOOLEAN /\ outbox \subseteq {"create", "blob"}
  BY SyncFacts, JobFacts
<1>1. CASE Goto(j, "upload") /\ StartUpload(j)
  <2>1. job' = [job EXCEPT ![j] = r] /\ up' = [up EXCEPT ![j] = Fresh]
    BY <1>0, <1>1 DEF Goto, StartUpload, Fresh
  <2>2. r \in JobStates /\ r.at = "upload"
    BY <1>0 DEF JobStates
  <2> HIDE DEF r
  <2>3. JobMoves(j, r, Fresh)
    BY <1>0, <2>1, <2>2, FreshOK DEF RetryBlobUpload, JobMoves, localVars
  <2> QED BY <2>3, SyncMovesInv DEF RetryBlobUpload, localVars
<1>2. CASE End(j, FALSE) /\ UNCHANGED up
  <2>1. job' = [job EXCEPT ![j] = Ended(FALSE)] /\ up' = [up EXCEPT ![j] = up[j]]
    BY <1>0, <1>2 DEF End, Ended
  <2>2. Ended(FALSE) \in JobStates /\ Ended(FALSE).at = "end"
    BY EndedOK DEF Ended
  <2>3. JobMoves(j, Ended(FALSE), up[j])
    BY <1>0, <2>1, <2>2 DEF RetryBlobUpload, JobMoves, localVars
  <2> QED BY <2>3, SyncMovesInv DEF RetryBlobUpload, localVars
<1> QED BY <1>1, <1>2 DEF RetryBlobUpload

LEMMA RemoveOutboxInv == ASSUME BlobInv, NEW j \in Syncs, RemoveOutbox(j) PROVE BlobInv'
<1>0. /\ job \in [Jobs -> JobStates] /\ up \in [Jobs -> Uploads]
      /\ j \in Jobs /\ job[j] \in JobStates /\ JobOK(j)
      /\ up[j] \in Uploads /\ SendOK(up[j]) /\ RecvOK(up[j])
      /\ secret \in Secrets /\ staged \in BOOLEAN /\ outbox \subseteq {"create", "blob"}
  BY SyncFacts, JobFacts
<1>1. job' = [job EXCEPT ![j] = Ended(FALSE)] /\ up' = [up EXCEPT ![j] = up[j]]
  BY <1>0 DEF RemoveOutbox, End, Ended
<1>2. Ended(FALSE) \in JobStates /\ Ended(FALSE).at = "end"
  BY EndedOK DEF Ended
<1>3. outbox' \subseteq {"create", "blob"} /\ (secret.ref \/ outbox' = outbox)
  BY <1>0 DEF RemoveOutbox, JobOK
<1>4. JobMoves(j, Ended(FALSE), up[j])
  BY <1>0, <1>1, <1>2, <1>3 DEF RemoveOutbox, JobMoves
<1> QED BY <1>3, <1>4, SyncMovesInv DEF RemoveOutbox

----------------------------------------------------------------------------
(* The downloads. *)

LoadMoves(d, l) ==
    /\ load' = [load EXCEPT ![d] = l] /\ l \in Loads /\ LoadOK(l)
    /\ Fault \/ left' = left
    /\ UNCHANGED <<secret, bucket, localVars, job, up>>

LEMMA LoadMovesInv ==
    ASSUME BlobInv, NEW d \in Loaders, NEW l, LoadMoves(d, l)
    PROVE  BlobInv'
<1>0. Shape /\ TypeOK /\ UNCHANGED <<secret, bucket, localVars, job, up>>
  BY DEF BlobInv, Shape, LoadMoves
<1>1. load' \in [Loaders -> Loads] /\ load'[d] = l /\ \A e \in Loaders : e # d => load'[e] = load[e]
  BY <1>0 DEF Shape, LoadMoves
<1>2. left' \in [faults : 0 .. MaxFaults, edits : 0 .. MaxEdits] /\ left'.edits = left.edits
  BY <1>0, FaultFacts DEF LoadMoves
<1>3. TypeOK'
  BY <1>0, <1>1 DEF TypeOK, Loads, localVars, bucket
<1>4. Shape'
  BY <1>0, <1>1, <1>2, <1>3 DEF Shape, localVars
<1>5. \A j \in Jobs : (SendOK(up[j]) /\ RecvOK(up[j]) /\ JobOK(j))'
  BY <1>0 DEF BlobInv, SendOK, RecvOK, Encoding, JobOK
<1>6. StagedOK' /\ Queued'
  BY <1>0 DEF BlobInv, StagedOK, Queued, localVars
<1>7. ASSUME NEW e \in Loaders PROVE LoadOK(load[e])'
  BY <1>1 DEF BlobInv, LoadOK, LoadMoves
<1>8. Stored'
  BY <1>0 DEF BlobInv, Stored, StoredWhole, Done, bucket
<1> QED BY <1>4, <1>5, <1>6, <1>7, <1>8 DEF BlobInv

LEMMA FailedLoadOK == FailedLoad \in Loads /\ LoadOK(FailedLoad)
BY StreamFacts, BlobAssumption DEF FailedLoad, NoLoad, Loads, LoadOK

LEMMA DownloadBinaryInv == ASSUME BlobInv, NEW d \in Loaders, DownloadBinary(d) PROVE BlobInv'
<1> DEFINE l == [load[d] EXCEPT !.at = "open", !.ver = IF local = 0 THEN createVersion ELSE local]
<1>0. load \in [Loaders -> Loads] /\ load[d].out = load[d].read /\ local \in 0 .. 1 + MaxEdits
      /\ createVersion \in 0 .. 1 + MaxEdits
  BY BlobAssumption DEF BlobInv, Shape, TypeOK, LoadOK, DownloadBinary, createVersion
<1>1. l \in Loads /\ LoadOK(l)
  BY <1>0 DEF Loads, LoadOK
<1>2. load' = [load EXCEPT ![d] = l]
  BY <1>0 DEF DownloadBinary
<1>3. LoadMoves(d, l)
  <2> HIDE DEF l
  <2> QED BY <1>1, <1>2 DEF DownloadBinary, LoadMoves
<1> QED BY <1>3, LoadMovesInv

LEMMA DownloadChunkedInv == ASSUME BlobInv, NEW d \in Loaders, DownloadChunked(d) PROVE BlobInv'
<1> DEFINE l == [load[d] EXCEPT !.at = "read", !.src = object]
<1>0. load \in [Loaders -> Loads] /\ object \in 0 .. Frames /\ load[d].out = load[d].read
  BY DEF BlobInv, Shape, TypeOK, LoadOK, DownloadChunked
<1>1. l \in Loads /\ LoadOK(l)
  BY <1>0 DEF Loads, LoadOK
<1>2. load' = [load EXCEPT ![d] = l] \/ load' = [load EXCEPT ![d] = FailedLoad]
  BY <1>0 DEF DownloadChunked
<1>3. LoadMoves(d, l) \/ LoadMoves(d, FailedLoad)
  <2> HIDE DEF l
  <2> QED BY <1>1, <1>2, FailedLoadOK DEF DownloadChunked, LoadMoves
<1> QED BY <1>3, LoadMovesInv

\* Only the last frame of the stream opens as the last one.
LEMMA DecodeChunkInv == ASSUME BlobInv, NEW d \in Loaders, DecodeChunk(d) PROVE BlobInv'
<1> DEFINE last == load[d].read + 2 = load[d].src
           l == [load[d] EXCEPT !.read = @ + 1, !.out = @ + 1, !.at = IF last THEN "ok" ELSE "read"]
           opened == OpenChunk(Stream[load[d].read + 2], load[d].read, last, load[d].ver)
<1>0. /\ load \in [Loaders -> Loads] /\ load[d] \in Loads
      /\ load[d].at = "read" /\ load[d].out = load[d].read
  BY DEF BlobInv, Shape, LoadOK, DecodeChunk
<1>1. CASE load[d].src < load[d].read + 2 \/ ~opened
  <2>1. load' = [load EXCEPT ![d] = FailedLoad]
    <3> HIDE DEF l
    <3> QED BY <1>1 DEF DecodeChunk
  <2> QED BY <2>1, FailedLoadOK, LoadMovesInv DEF DecodeChunk, LoadMoves
<1>2. CASE ~(load[d].src < load[d].read + 2) /\ opened
  <2>1. load[d].read + 2 \in 2 .. Frames
    BY <1>0, <1>2, StreamFacts DEF Loads
  <2>2. Stream[load[d].read + 2].last = last
    BY <1>2 DEF OpenChunk
  <2>3. last => load[d].read + 2 = Frames
    BY <2>1, <2>2, StreamFacts
  <2> HIDE DEF opened
  <2>4. l \in Loads /\ LoadOK(l)
    <3>1. Frames \in Nat /\ load[d].read \in Nat /\ load[d].read + 1 \in 0 .. Frames
          /\ load[d].out + 1 = load[d].read + 1
      BY <1>0, <2>1, StreamFacts DEF Loads
    <3>2. ASSUME NEW a \in {"ok", "read"}, a = "ok" => load[d].read + 1 = Frames - 1
          PROVE  LET m == [load[d] EXCEPT !.read = @ + 1, !.out = @ + 1, !.at = a]
                 IN  m \in Loads /\ LoadOK(m)
      BY <1>0, <3>1, <3>2 DEF Loads, LoadOK
    <3>3. last => load[d].read + 1 = Frames - 1
      BY <2>3, <3>1
    <3> QED BY <3>2, <3>3
  <2>5. load' = [load EXCEPT ![d] = l]
    BY <1>2 DEF DecodeChunk, opened
  <2>6. LoadMoves(d, l)
    <3> HIDE DEF l
    <3> QED BY <2>4, <2>5 DEF DecodeChunk, LoadMoves
  <2> QED BY <2>6, LoadMovesInv
<1> QED BY <1>1, <1>2

LEMMA DownloadCutInv == ASSUME BlobInv, NEW d \in Loaders, DownloadCut(d) PROVE BlobInv'
BY FailedLoadOK, LoadMovesInv DEF DownloadCut, LoadMoves

----------------------------------------------------------------------------
(* Beside the transfer. *)

\* An edit uses up one of the bound and adds one to the versions.
LEMMA EditInv ==
    ASSUME BlobInv, MarkOTPCodeUsed \/ DeleteSecret
    PROVE  BlobInv'
<1>0. /\ Shape /\ TypeOK /\ secret \in Secrets /\ Edit
      /\ UNCHANGED <<bucket, staged, outbox, job, up, load>>
  BY DEF BlobInv, Shape, TypeOK, Secrets, MarkOTPCodeUsed, DeleteSecret, localVars
<1>1. left' \in [faults : 0 .. MaxFaults, edits : 0 .. MaxEdits] /\ left'.edits = left.edits - 1
      /\ left.edits \in 1 .. MaxEdits
  BY <1>0, BlobAssumption DEF Shape, Edit
<1>2. local \in Nat /\ local' \in {local, local + 1}
  BY <1>0 DEF TypeOK, MarkOTPCodeUsed, DeleteSecret, localVars
<1>3. secret.version \in Nat /\ secret.version + 1 \in 0 .. 1 + MaxEdits
  BY <1>0, <1>1, BlobAssumption DEF Shape, Secrets
<1>4. secret' \in Secrets /\ secret'.version = secret.version + 1 /\ secret'.ref = secret.ref
  BY <1>0, <1>3 DEF Secrets, MarkOTPCodeUsed, DeleteSecret
<1>5. /\ secret'.version + left'.edits <= 1 + MaxEdits
      /\ local' + left'.edits <= 1 + MaxEdits /\ local' \in 0 .. 1 + MaxEdits
  BY <1>0, <1>1, <1>2, <1>3, <1>4, BlobAssumption DEF Shape
<1>6. TypeOK'
  BY <1>0, <1>4, <1>5 DEF TypeOK, Secrets, bucket
<1>7. Shape'
  BY <1>0, <1>1, <1>5, <1>6 DEF Shape
<1>8. \A j \in Jobs : (SendOK(up[j]) /\ RecvOK(up[j]) /\ JobOK(j))'
  BY <1>0, <1>4 DEF BlobInv, SendOK, RecvOK, Encoding, JobOK
<1>9. StagedOK' /\ Queued'
  BY <1>0, <1>4 DEF BlobInv, StagedOK, Queued
<1>10. \A d \in Loaders : LoadOK(load[d])'
  BY <1>0 DEF BlobInv, LoadOK
<1>11. Stored'
  BY <1>0, <1>4 DEF BlobInv, Stored, StoredWhole, Done, bucket
<1> QED BY <1>7, <1>8, <1>9, <1>10, <1>11 DEF BlobInv

\* After a crash no upload of the client runs; what the server still does is cut off.
LEMMA CrashInv == ASSUME BlobInv, Crash PROVE BlobInv'
<1>0. /\ Shape /\ TypeOK /\ UNCHANGED <<secret, bucket, localVars>> /\ Fault
      /\ up \in [Jobs -> Uploads]
  BY DEF BlobInv, Shape, Crash
<1>1. left' \in [faults : 0 .. MaxFaults, edits : 0 .. MaxEdits] /\ left'.edits = left.edits
  BY <1>0, FaultFacts
<1>2. ASSUME NEW j \in Jobs
      PROVE  up'[j] \in Uploads /\ SendOK(up[j])' /\ RecvOK(up[j])' /\ ~Done(up'[j])
  <2> DEFINE x == [Drop(up[j]) EXCEPT !.cut = TRUE]
             u == IF Running(up[j]) THEN x ELSE NoUpload
  <2>1. Drop(up[j]) \in Uploads /\ SendOK(Drop(up[j])) /\ RecvOK(Drop(up[j])) /\ ~Done(Drop(up[j]))
    BY DropOK, UploadFacts
  <2>2. x \in Uploads /\ SendOK(x) /\ RecvOK(x) /\ ~Done(x)
    <3>1. x \in Uploads /\ ~Done(x)
      BY <2>1, StreamFacts DEF Uploads, Done
    <3>2. SendOK(x)
      BY <2>1, StreamFacts DEF Uploads, SendOK, RecvOK, Encoding
    <3>3. RecvOK(x)
      BY <2>1, StreamFacts DEF Uploads, SendOK, RecvOK, Encoding
    <3> QED BY <3>1, <3>2, <3>3
  <2> HIDE DEF x
  <2>3. u \in Uploads /\ SendOK(u) /\ RecvOK(u) /\ ~Done(u)
    BY <2>2, NoUploadOK
  <2>4. up'[j] = u
    BY DEF Crash, x
  <2> HIDE DEF u
  <2> QED BY <2>3, <2>4 DEF SendOK, RecvOK, Encoding
<1>3. up' \in [Jobs -> Uploads]
  <2>1. DOMAIN up' = Jobs /\ up' = [j \in Jobs |-> up'[j]]
    BY DEF Crash
  <2> QED BY <1>2, <2>1
<1>4. job' \in [Jobs -> JobStates] /\ \A j \in Jobs : job'[j].at \in {"idle", "end"} /\ job'[j].err = FALSE
  BY DEF Crash, JobStates
<1>5. load' \in [Loaders -> Loads] /\ \A d \in Loaders : load'[d].at = "idle" /\ load'[d].out = load'[d].read
  BY StreamFacts, BlobAssumption DEF Crash, Loads, NoLoad
<1>6. TypeOK'
  BY <1>0, <1>3, <1>4, <1>5 DEF TypeOK, Uploads, JobStates, Loads, localVars, bucket
<1>7. Shape'
  BY <1>0, <1>1, <1>3, <1>4, <1>5, <1>6 DEF Shape, localVars
<1>8. \A j \in Jobs : JobOK(j)'
  BY <1>4 DEF JobOK
<1>9. StagedOK' /\ Queued'
  <2>1. Creator \in Jobs
    BY DEF Jobs
  <2> QED BY <1>4, <2>1 DEF StagedOK, Queued
<1>10. \A d \in Loaders : LoadOK(load[d])'
  BY <1>5 DEF LoadOK
<1>11. Stored'
  BY <1>0, <1>2 DEF BlobInv, Stored, StoredWhole, Done, bucket
<1> QED BY <1>2, <1>7, <1>8, <1>9, <1>10, <1>11 DEF BlobInv

----------------------------------------------------------------------------
LEMMA InitInv == ASSUME Init PROVE BlobInv
<1>1. up = [j \in Jobs |-> NoUpload] /\ up \in [Jobs -> Uploads] /\ \A j \in Jobs : up[j] = NoUpload
  BY NoUploadOK DEF Init
<1>2. job \in [Jobs -> JobStates] /\ \A j \in Jobs : job[j].at = "idle" /\ job[j].err = FALSE
  BY DEF Init, JobStates
<1>3. load \in [Loaders -> Loads] /\ \A d \in Loaders : load[d].at = "idle" /\ load[d].out = load[d].read
  BY StreamFacts, BlobAssumption DEF Init, Loads, NoLoad
<1>4. left \in [faults : 0 .. MaxFaults, edits : 0 .. MaxEdits] /\ left.edits = MaxEdits
  BY BlobAssumption DEF Init
<1>5. secret \in Secrets /\ secret.version = 0 /\ secret.ref = FALSE /\ torn = FALSE /\ local = 0 /\ object = 0 /\ staged = FALSE /\ outbox = {}
  BY BlobAssumption DEF Init, Secrets
<1>6. TypeOK
  <2>1. local \in 0 .. 1 + MaxEdits /\ object \in 0 .. Frames
    BY <1>5, BlobAssumption, StreamFacts
  <2> QED BY <1>1, <1>2, <1>3, <1>5, <2>1 DEF TypeOK, Uploads, JobStates, Loads, Secrets
<1>7. Shape
  BY <1>1, <1>2, <1>3, <1>4, <1>5, <1>6, BlobAssumption DEF Shape
<1>8. \A j \in Jobs : SendOK(up[j]) /\ RecvOK(up[j]) /\ JobOK(j)
  BY <1>1, <1>2, NoUploadOK DEF JobOK
<1>9. StagedOK /\ Queued
  <2>1. Creator \in Jobs
    BY DEF Jobs
  <2> QED BY <1>2, <2>1 DEF StagedOK, Queued
<1>10. \A d \in Loaders : LoadOK(load[d])
  BY <1>3 DEF LoadOK
<1>11. Stored
  BY <1>1, <1>5, NoUploadOK DEF Stored
<1> QED BY <1>7, <1>8, <1>9, <1>10, <1>11 DEF BlobInv

LEMMA NextInv == ASSUME BlobInv, [Next]_vars PROVE BlobInv'
<1>1. ASSUME NEW j \in Jobs, JobStep(j) PROVE BlobInv'
  BY <1>1, UploadReturnsInv, AttachBlobInv, CleanupStagedInv, OpenStreamInv, SendChunkInv,
     CloseSendInv, RecvStatusInv, CreateSecretInv, StageFileInv, ListPendingInv,
     ReplayCreateInv, RetryBlobUploadInv, RemoveOutboxInv DEF JobStep
<1>2. ASSUME NEW j \in Jobs, ServerStep(j) PROVE BlobInv'
  BY <1>2, RecvFirstInv, UploadChunkedInv, ReadPipeInv, RecvChunkInv, PutChunkInv DEF ServerStep
<1>3. CASE Environment
  BY <1>3, HandlerRefuseInv, CutStreamInv, DownloadBinaryInv, DownloadChunkedInv, DecodeChunkInv,
     DownloadCutInv, EditInv, CrashInv DEF Environment
<1>4. CASE UNCHANGED vars
  <2>1. UNCHANGED <<secret, bucket, localVars, job, up, load, left>>
    BY <1>4 DEF vars
  <2>2. Shape' /\ Stored' /\ StagedOK' /\ Queued'
    BY <2>1 DEF bucket, localVars, BlobInv, Shape, TypeOK, Stored, StoredWhole, Done, StagedOK, Queued
  <2>3. \A j \in Jobs : (SendOK(up[j]) /\ RecvOK(up[j]) /\ JobOK(j))'
    BY <2>1 DEF BlobInv, SendOK, RecvOK, Encoding, JobOK
  <2>4. \A d \in Loaders : LoadOK(load[d])'
    BY <2>1 DEF BlobInv, LoadOK
  <2> QED BY <2>2, <2>3, <2>4 DEF BlobInv
<1> QED BY <1>1, <1>2, <1>3, <1>4 DEF Next

\* BlobInv holds in every reachable state: CreateBinary, ReplayOutbox, DownloadBinary and
\* the two UploadBlob halves, in any interleaving, with every fault and crash.
THEOREM BlobInvariance == Spec => []BlobInv
<1>1. Init => BlobInv
  BY InitInv
<1>2. BlobInv /\ [Next]_vars => BlobInv'
  BY NextInv
<1> QED BY <1>1, <1>2, PTL DEF Spec

\* The type invariant: counters of frames, states of goroutines and versions stay in
\* their ranges.
THEOREM BlobTypeOK == Spec => []TypeOK
<1>1. BlobInv => TypeOK
  BY DEF BlobInv, Shape
<1> QED BY <1>1, BlobInvariance, PTL

\* DownloadBinary (binary.go) reports success only for a whole file, whatever the number
\* of its chunks: the empty last chunk is the only one that opens as the end.
THEOREM DownloadsAreWhole == Spec => []DownloadHonest
<1>1. BlobInv => DownloadHonest
  BY DEF BlobInv, LoadOK, DownloadHonest
<1> QED BY <1>1, BlobInvariance, PTL

\* AttachBlob (binary.go) is called only for an upload whose own frames all reached the
\* bucket, although the pipes of binary.go and blob_service.go pass the failure of their
\* writer on as the end of the data: the encoder's own error and the half-closed stream tell
\* them apart.  What a reference names was whole, and is, unless torn: then another upload
\* of the same file has replaced the object by a short one.
THEOREM OnlyCompleteAttached == Spec => []AttachOnlyComplete
<1>1. ASSUME BlobInv, NEW j \in Jobs, job[j].at \in {"attach", "cleanup"}
      PROVE  up[j].got = Frames /\ StoredWhole
  <2>1. Done(up[j])
    BY <1>1, AttachDone
  <2> QED BY <1>1, <2>1 DEF BlobInv, Stored, Done
<1>2. BlobInv => AttachOnlyComplete
  BY <1>1 DEF AttachOnlyComplete, BlobInv, Stored
<1> QED BY <1>2, BlobInvariance, PTL

\* When CreateBinary (binary.go) reports a failure, the staged copy and the outbox entry are
\* both there, or the reference is set and the bucket holds the whole file: no replay, crash
\* or edit takes one of them away.  The exception is torn: another upload of the same
\* file, whose encoder failed, has replaced the whole object.
THEOREM FailedUploadsRepeatable == Spec => []FailedUploadIsQueued
<1>1. BlobInv => FailedUploadIsQueued
  BY DEF BlobInv, Queued, Stored, StoredWhole, FailedUploadIsQueued
<1> QED BY <1>1, BlobInvariance, PTL
=============================================================================
