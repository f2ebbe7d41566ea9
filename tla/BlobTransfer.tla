---------------------------- MODULE BlobTransfer ----------------------------
(***************************************************************************)
(* The file of one binary secret on its way to the object store and back.  *)
(* An upload is five actors in a row: the encrypting goroutine, a pipe,    *)
(* the gRPC stream, the server's receiving goroutine, a second pipe, and   *)
(* PutObject.  CreateBinary runs it once; when it fails the outbox has it  *)
(* repeated from the staged copy by every later ReplayOutbox, two of which *)
(* may run at the same time.  A frame of the encrypted stream is one unit  *)
(* of the pipes and of the stream.                                         *)
(***************************************************************************)
EXTENDS Integers, Sequences, FiniteSets

CONSTANTS
    Creator,        \* the screen or CLI command that runs CreateBinary
    Syncs,          \* jobs that run ReplayOutbox on the same device
    Loaders,        \* jobs that run DownloadBinary
    FileChunks,     \* length of the file in chunks of binaryStreamChunkSize
    Window,         \* frames a stream buffers before Send blocks
    MaxFaults,      \* bound: failures of network, server, disk or client in one behaviour
    MaxEdits        \* bound: changes of the secret beside the transfer

ASSUME BlobAssumption ==
    /\ FileChunks \in Nat /\ Window \in Nat \ {0}
    /\ Creator \notin Syncs
    /\ MaxFaults \in Nat /\ MaxEdits \in Nat

VARIABLES
    secret,     \* the server's row: state, version, whether blob_ref is set
    object,     \* frames of the object in the bucket; 0: no object
    torn,       \* history: a shorter object has replaced a whole one since
    local,      \* version in the client's cache; 0: no row
    staged,     \* pending_uploads/<secretID> holds the file
    outbox,     \* pending entries of the secret: "create", "blob"
    job,        \* [Jobs -> what CreateBinary or ReplayOutbox is doing]
    up,         \* [Jobs -> the upload]
    load,       \* [Loaders -> the download]
    left        \* what is left of the bounds

Jobs == {Creator} \cup Syncs
bucket == <<object, torn>>
localVars == <<local, staged, outbox>>
vars == <<secret, bucket, localVars, job, up, load, left>>

Fault == left.faults > 0 /\ left' = [left EXCEPT !.faults = @ - 1]
Edit == left.edits > 0 /\ left' = [left EXCEPT !.edits = @ - 1]

createVersion == 1

----------------------------------------------------------------------------
(* The encrypted stream. *)

StreamID == [counter |-> -1, last |-> FALSE, ad |-> 0]

\* The associated data binds a chunk to its number, to the end of the stream
\* and to the version of the secret.
SealChunk(counter, last) == [counter |-> counter, last |-> last, ad |-> createVersion]

\* A file ends with a read of no bytes: the last chunk is empty.
Stream ==
    <<StreamID>> \o [i \in 1 .. FileChunks |-> SealChunk(i - 1, FALSE)]
                 \o <<SealChunk(FileChunks, TRUE)>>
Frames == Len(Stream)

\* Mutant: OpenChunk without the end-of-stream flag in the associated data.
OpenChunkNoLast(frame, counter, last, version) ==
    frame.counter = counter /\ frame.ad = version

\* Only the arguments the chunk was sealed with open it.
OpenChunk(frame, counter, last, version) ==
    frame = [counter |-> counter, last |-> last, ad |-> version]

----------------------------------------------------------------------------
(* State of an upload.  enc is the frame encodeStream holds out to the     *)
(* pipe: it blocks there until the other side reads.                       *)

EncFailed == 0
EncDone == Frames + 1

Encoding(u) == u.enc \notin {EncFailed, EncDone}

NoUpload == [enc |-> EncDone, cli |-> "none", sent |-> 0, half |-> FALSE, cut |-> FALSE,
             srv |-> "none", status |-> "ok", rcv |-> "none", taken |-> 0, got |-> 0]

InFlight(u) == u.sent - u.taken
Running(u) == u.srv \notin {"none", "returned"}

\* The client is done with the upload; its handler may still run.
Drop(u) == IF Running(u) THEN [u EXCEPT !.enc = EncDone, !.cli = "none"] ELSE NoUpload

\* Mutant: the goroutine forgets to close its pipe at the end of the stream.
PipeClosedOnError(u) == u.rcv = "err"

\* The receiving goroutine has closed its end of the pipe.
PipeClosed(u) == u.rcv \in {"eof", "err"}

NoLoad == [at |-> "idle", ver |-> 0, src |-> 0, read |-> 0, out |-> 0]

Init ==
    /\ secret = [st |-> "none", version |-> 0, ref |-> FALSE]
    /\ object = 0 /\ torn = FALSE
    /\ local = 0 /\ staged = FALSE /\ outbox = {}
    /\ job = [j \in Jobs |-> [at |-> "idle", todo |-> {}, err |-> FALSE]]
    /\ up = [j \in Jobs |-> NoUpload]
    /\ load = [d \in Loaders |-> NoLoad]
    /\ left = [faults |-> MaxFaults, edits |-> MaxEdits]

Goto(j, at) == job' = [job EXCEPT ![j].at = at]
End(j, err) == job' = [job EXCEPT ![j] = [at |-> "end", todo |-> {}, err |-> err]]

----------------------------------------------------------------------------
(* CreateBinary *)

\* createTyped: on the server, or in the cache and the outbox.  A create whose
\* answer is lost belongs to OfflineSync.
CreateSecret ==
    /\ job[Creator].at = "idle"
    /\ local' = createVersion
    /\ Goto(Creator, "stage")
    /\ \/ /\ secret' = [secret EXCEPT !.st = "live", !.version = createVersion]
          /\ UNCHANGED <<outbox, left>>
       \/ /\ Fault
          /\ outbox' = outbox \cup {"create"}
          /\ UNCHANGED secret
    /\ UNCHANGED <<bucket, staged, up, load>>

\* Both goroutines of an upload start: NewStreamEncrypter, the pipe, UploadBlob.
StartUpload(j) ==
    /\ ~Running(up[j])
    /\ up' = [up EXCEPT ![j] = [NoUpload EXCEPT !.enc = 1, !.cli = "open"]]

\* StageFile copies the file and CreateBinary opens the copy.  A failing copy is
\* removed and the error returned: nothing is queued.
StageFile ==
    /\ job[Creator].at = "stage"
    /\ \/ /\ staged' = TRUE
          /\ Goto(Creator, "upload")
          /\ StartUpload(Creator)
          /\ UNCHANGED left
       \/ /\ Fault
          /\ End(Creator, FALSE)
          /\ UNCHANGED <<staged, up>>
    /\ UNCHANGED <<secret, bucket, local, outbox, load>>

\* uploadBinaryData waits for UploadBlob and then for the encoder.
JoinEncoder(u) == u.cli \in {"ok", "failed"} /\ ~Encoding(u)
\* Mutant: uploadBinaryData drops the encoder's error.
UploadedIgnoresEncoder(u) == u.cli = "ok"

Uploaded(u) == u.cli = "ok" /\ u.enc # EncFailed

\* Mutant: a failed upload is reported and not queued.
GiveUpForgets(j) ==
    outbox' = outbox /\ End(j, j = Creator) /\ up' = [up EXCEPT ![j] = Drop(@)]

\* enqueueBlobUpload of a failed CreateBinary; a failed retry keeps its entry.
GiveUp(j) ==
    /\ outbox' = IF j = Creator THEN outbox \cup {"blob"} ELSE outbox
    /\ End(j, j = Creator)
    /\ up' = [up EXCEPT ![j] = Drop(@)]

UploadReturns(j) ==
    /\ job[j].at = "upload"
    /\ JoinEncoder(up[j])
    /\ \/ Uploaded(up[j]) /\ Goto(j, "attach") /\ UNCHANGED <<outbox, up>>
       \/ ~Uploaded(up[j]) /\ GiveUp(j)
    /\ UNCHANGED <<secret, bucket, local, staged, load, left>>

\* AttachBlob under the optimistic lock on createVersion.
CanAttach == secret.st = "live" /\ secret.version = createVersion

AttachBlob(j) ==
    /\ job[j].at = "attach"
    /\ \/ /\ CanAttach
          /\ secret' = [secret EXCEPT !.ref = TRUE]
          /\ Goto(j, "cleanup")
          /\ UNCHANGED <<outbox, up, left>>
       \/ /\ CanAttach                       \* executed, the answer is lost
          /\ Fault
          /\ secret' = [secret EXCEPT !.ref = TRUE]
          /\ GiveUp(j)
       \/ /\ ~CanAttach                      \* conflict or not found
          /\ GiveUp(j)
          /\ UNCHANGED <<secret, left>>
       \/ /\ Fault
          /\ GiveUp(j)
          /\ UNCHANGED secret
    /\ UNCHANGED <<bucket, local, staged, load>>

CleanupStaged(j) ==
    /\ job[j].at = "cleanup"
    /\ staged' = FALSE
    /\ IF j = Creator THEN End(j, FALSE) ELSE Goto(j, "remove")
    /\ up' = [up EXCEPT ![j] = Drop(@)]
    /\ UNCHANGED <<secret, bucket, local, outbox, load, left>>

----------------------------------------------------------------------------
(* ReplayOutbox: the entries are read once, then replayed in order. *)

ListPending(j) ==
    /\ job[j].at \in {"idle", "end"} /\ outbox # {}
    /\ job' = [job EXCEPT ![j] = [at |-> "replay", todo |-> outbox, err |-> FALSE]]
    /\ UNCHANGED <<secret, bucket, localVars, up, load, left>>

\* An unreachable server or a secret that is already there ends the replay.
ReplayCreate(j) ==
    /\ job[j].at = "replay" /\ "create" \in job[j].todo
    /\ \/ /\ secret.st = "none"
          /\ secret' = [secret EXCEPT !.st = "live", !.version = createVersion]
          /\ outbox' = outbox \ {"create"}
          /\ job' = [job EXCEPT ![j].todo = @ \ {"create"}]
          /\ UNCHANGED left
       \/ /\ secret.st # "none"
          /\ End(j, FALSE)
          /\ UNCHANGED <<secret, outbox, left>>
       \/ /\ Fault
          /\ End(j, FALSE)
          /\ UNCHANGED <<secret, outbox>>
    /\ UNCHANGED <<bucket, local, staged, up, load>>

\* RetryBlobUpload opens the staged copy; without one the replay fails.
RetryBlobUpload(j) ==
    /\ job[j].at = "replay" /\ job[j].todo = {"blob"}
    /\ \/ staged /\ Goto(j, "upload") /\ StartUpload(j)
       \/ ~staged /\ End(j, FALSE) /\ UNCHANGED up
    /\ UNCHANGED <<secret, bucket, localVars, load, left>>

RemoveOutbox(j) ==
    /\ job[j].at = "remove" \/ (job[j].at = "replay" /\ job[j].todo = {})
    /\ outbox' = IF job[j].at = "remove" THEN outbox \ {"blob"} ELSE outbox
    /\ End(j, FALSE)
    /\ UNCHANGED <<secret, bucket, local, staged, up, load, left>>

----------------------------------------------------------------------------
(* UploadBlob of the client. *)

\* The stream is opened, or refused at once when the server is unreachable.
\* Nobody closes the pipe's reading end on the way out.
OpenStream(j) ==
    /\ up[j].cli = "open"
    /\ \/ /\ up' = [up EXCEPT ![j].cli = "read", ![j].srv = "first"]
          /\ UNCHANGED left
       \/ /\ Fault
          /\ up' = [up EXCEPT ![j].cli = "failed"]
    /\ UNCHANGED <<secret, bucket, localVars, job, load>>

\* The stream is over: the server returned its status, or the connection broke.
Over(u) == u.cut \/ u.srv = "returned"

\* One Read of the pipe and one Send.  The encoder goes on to its next frame, to
\* the end of the file, or fails to read it: all of them end in Close.
SendChunk(j) ==
    LET u == up[j] IN
    /\ u.cli = "read" /\ Encoding(u)
    /\ Over(u) \/ InFlight(u) < Window
    /\ LET v == IF Over(u) THEN [u EXCEPT !.cli = "failed"]
                ELSE [u EXCEPT !.sent = @ + 1]
       IN \/ up' = [up EXCEPT ![j] = [v EXCEPT !.enc = @ + 1]] /\ UNCHANGED left
          \/ u.enc # Frames /\ up' = [up EXCEPT ![j] = [v EXCEPT !.enc = EncFailed]]
             /\ Fault
    /\ UNCHANGED <<secret, bucket, localVars, job, load>>

\* EOF on the pipe: CloseAndRecv closes the sending side and waits.
CloseSend(j) ==
    /\ up[j].cli = "read" /\ ~Encoding(up[j])
    /\ up' = [up EXCEPT ![j].half = TRUE, ![j].cli = "wait"]
    /\ UNCHANGED <<secret, bucket, localVars, job, load, left>>

RecvStatus(j) ==
    /\ up[j].cli = "wait" /\ Over(up[j])
    /\ up' = [up EXCEPT ![j].cli =
                IF ~up[j].cut /\ up[j].status = "ok" THEN "ok" ELSE "failed"]
    /\ UNCHANGED <<secret, bucket, localVars, job, load, left>>

----------------------------------------------------------------------------
(* UploadBlob of the server: the handler, its receiving goroutine, and     *)
(* UploadChunked with PutChunk.  When the client has gone too, the upload  *)
(* is forgotten, with a goroutine that may still wait at its pipe.         *)

HandlerReturns(j, status) ==
    up' = [up EXCEPT ![j] = IF @.cli = "none" THEN NoUpload
                            ELSE [@ EXCEPT !.srv = "returned", !.status = status]]

\* No storage is configured, or no user in the context.
HandlerRefuse(j) ==
    /\ up[j].srv = "first"
    /\ Fault
    /\ HandlerReturns(j, "err")
    /\ UNCHANGED <<secret, bucket, localVars, job, load>>

\* The first message is received and handed to the new goroutine, which holds it out
\* to the pipe.  The client always has a frame to send, so the stream is never empty.
RecvFirst(j) ==
    /\ up[j].srv = "first"
    /\ \/ /\ InFlight(up[j]) > 0
          /\ up' = [up EXCEPT ![j].srv = "lookup", ![j].rcv = "write", ![j].taken = @ + 1]
       \/ up[j].cut /\ HandlerReturns(j, "err")
    /\ UNCHANGED <<secret, bucket, localVars, job, load, left>>

\* A query or a request to the object store fails, at no cost once the stream's
\* context is cancelled.
RequestFails(j) == IF up[j].cut THEN UNCHANGED left ELSE Fault

\* GetForUpdate: any state of the row will do, deleted too.  An error returns, and
\* nobody closes the reading end of the pipe.
UploadChunked(j) ==
    /\ up[j].srv = "lookup"
    /\ \/ /\ secret.st # "none"
          /\ up' = [up EXCEPT ![j].srv = "put"]
          /\ UNCHANGED left
       \/ secret.st = "none" /\ HandlerReturns(j, "err") /\ UNCHANGED left
       \/ RequestFails(j) /\ HandlerReturns(j, "err")
    /\ UNCHANGED <<secret, bucket, localVars, job, load>>

\* PutObject reads the frame the goroutine holds out to the pipe.
ReadPipe(j) ==
    /\ up[j].srv = "put" /\ up[j].rcv = "write"
    /\ up' = [up EXCEPT ![j].rcv = "recv", ![j].got = @ + 1]
    /\ UNCHANGED <<secret, bucket, localVars, job, load, left>>

\* The goroutine's Recv, whether the handler still runs or not: a frame, which it holds
\* out to the pipe, the end of the stream, or its error.  The last two close the pipe
\* as if the data were complete.  A handler that returns cancels the stream.
RecvChunk(j) ==
    LET u == up[j] IN
    /\ u.rcv = "recv"
    /\ \/ InFlight(u) > 0 /\ up' = [up EXCEPT ![j].rcv = "write", ![j].taken = @ + 1]
       \/ InFlight(u) = 0 /\ u.half /\ up' = [up EXCEPT ![j].rcv = "eof"]
       \/ Over(u) /\ up' = [up EXCEPT ![j].rcv = "err"]
    /\ UNCHANGED <<secret, bucket, localVars, job, load, left>>

\* At the end of the data the object replaces the one under its key, whichever upload
\* stored that.  Recv fails only when the context is cancelled, and then PutObject fails
\* too.  It may fail at any moment before, with the goroutine at its pipe or in Recv.
PutChunk(j) ==
    /\ up[j].srv = "put"
    /\ \/ /\ PipeClosed(up[j]) /\ up[j].rcv # "err"
          /\ object' = up[j].got
          /\ torn' = (up[j].got < Frames /\ (torn \/ object = Frames))
          /\ HandlerReturns(j, "ok")
          /\ UNCHANGED left
       \/ /\ RequestFails(j)
          /\ HandlerReturns(j, "err")
          /\ UNCHANGED bucket
    /\ UNCHANGED <<secret, localVars, job, load>>

CutStream(j) ==
    /\ up[j].cli \in {"read", "wait"} /\ ~Over(up[j])
    /\ Fault
    /\ up' = [up EXCEPT ![j].cut = TRUE]
    /\ UNCHANGED <<secret, bucket, localVars, job, load>>

----------------------------------------------------------------------------
(* DownloadBinary, and the two commands that run it into a new file.       *)

\* The partial file is removed.
FailedLoad == [NoLoad EXCEPT !.at = "failed"]

\* os.Create truncates a file of that name; the version the chunks must be bound to
\* is read from the cache before the stream opens.
DownloadBinary(d) ==
    /\ load[d].at = "idle"
    /\ load' = [load EXCEPT ![d].at = "open",
                            ![d].ver = IF local = 0 THEN createVersion ELSE local]
    /\ UNCHANGED <<secret, bucket, localVars, job, up, left>>

\* The server checks the row and opens the object.  No row, a deleted one or one
\* without blob_ref is refused.
DownloadChunked(d) ==
    /\ load[d].at = "open"
    /\ load' = [load EXCEPT ![d] =
                 IF secret.st = "live" /\ secret.ref
                 THEN [@ EXCEPT !.at = "read", !.src = object]
                 ELSE FailedLoad]
    /\ UNCHANGED <<secret, bucket, localVars, job, up, left>>

\* decodeStream opens the pending chunk when it knows whether another follows:
\* its counter is the number of chunks already written.
DecodeChunk(d) ==
    LET l == load[d]
        chunk == Stream[l.read + 2]
        last == l.read + 2 = l.src
    IN
    /\ l.at = "read"
    /\ load' = [load EXCEPT ![d] =
                 IF l.src < l.read + 2 \/ ~OpenChunk(chunk, l.read, last, l.ver)
                 THEN FailedLoad
                 ELSE [l EXCEPT !.read = @ + 1, !.out = @ + 1,
                                !.at = IF last THEN "ok" ELSE "read"]]
    /\ UNCHANGED <<secret, bucket, localVars, job, up, left>>

\* The stream breaks: an error, never the end of the data.
DownloadCut(d) ==
    /\ load[d].at = "read"
    /\ Fault
    /\ load' = [load EXCEPT ![d] = FailedLoad]
    /\ UNCHANGED <<secret, bucket, localVars, job, up>>

----------------------------------------------------------------------------
(* What happens to the secret and the client beside the transfer. *)

\* MarkOTPCodeUsed re-encrypts the three tiers of any secret under the next version.
MarkOTPCodeUsed ==
    /\ Edit
    /\ secret.st = "live" /\ local = secret.version
    /\ secret' = [secret EXCEPT !.version = @ + 1]
    /\ local' = local + 1
    /\ UNCHANGED <<bucket, staged, outbox, job, up, load>>

\* Another device deletes the secret: the object stays.
DeleteSecret ==
    /\ Edit
    /\ secret.st = "live"
    /\ secret' = [secret EXCEPT !.st = "deleted", !.version = @ + 1]
    /\ UNCHANGED <<bucket, localVars, job, up, load>>

\* The client is killed: its goroutines are gone, the server sees broken streams.
Crash ==
    /\ Fault
    /\ job' = [j \in Jobs |-> [at |-> IF j = Creator /\ job[j].at = "idle" THEN "idle" ELSE "end",
                               todo |-> {}, err |-> FALSE]]
    /\ up' = [j \in Jobs |-> IF Running(up[j]) THEN [Drop(up[j]) EXCEPT !.cut = TRUE] ELSE NoUpload]
    /\ load' = [d \in Loaders |-> NoLoad]
    /\ UNCHANGED <<secret, bucket, localVars>>

----------------------------------------------------------------------------
JobStep(j) ==
    \/ UploadReturns(j) \/ AttachBlob(j) \/ CleanupStaged(j)
    \/ OpenStream(j) \/ SendChunk(j) \/ CloseSend(j) \/ RecvStatus(j)
    \/ j = Creator /\ (CreateSecret \/ StageFile)
    \/ j \in Syncs /\ (ListPending(j) \/ ReplayCreate(j) \/ RetryBlobUpload(j) \/ RemoveOutbox(j))

ServerStep(j) ==
    \/ RecvFirst(j) \/ UploadChunked(j) \/ ReadPipe(j) \/ RecvChunk(j) \/ PutChunk(j)

Environment ==
    \/ \E j \in Jobs : HandlerRefuse(j) \/ CutStream(j)
    \/ \E d \in Loaders :
         DownloadBinary(d) \/ DownloadChunked(d) \/ DecodeChunk(d) \/ DownloadCut(d)
    \/ MarkOTPCodeUsed \/ DeleteSecret \/ Crash

Next == (\E j \in Jobs : JobStep(j) \/ ServerStep(j)) \/ Environment

Spec == Init /\ [][Next]_vars

----------------------------------------------------------------------------
(* Properties *)

TypeOK ==
    /\ secret \in [st : {"none", "live", "deleted"}, version : 0 .. 1 + MaxEdits, ref : BOOLEAN]
    /\ object \in 0 .. Frames /\ torn \in BOOLEAN /\ local \in 0 .. 1 + MaxEdits
    /\ staged \in BOOLEAN /\ outbox \subseteq {"create", "blob"}
    /\ \A j \in Jobs :
        /\ job[j] \in [at : {"idle", "stage", "upload", "attach", "cleanup", "replay", "remove", "end"},
                       todo : SUBSET {"create", "blob"}, err : BOOLEAN]
        /\ up[j] \in [enc : 0 .. EncDone, cli : {"none", "open", "read", "wait", "ok", "failed"},
                      sent : 0 .. Frames, half : BOOLEAN, cut : BOOLEAN,
                      srv : {"none", "first", "lookup", "put", "returned"}, status : {"ok", "err"},
                      rcv : {"none", "write", "recv", "eof", "err"},
                      taken : 0 .. Frames, got : 0 .. Frames]
    /\ \A d \in Loaders :
        load[d] \in [at : {"idle", "open", "read", "ok", "failed"}, ver : 0 .. 1 + MaxEdits,
                     src : 0 .. Frames, read : 0 .. Frames, out : 0 .. Frames]

\* binary.go: a download that reports success wrote every chunk of the file,
\* whatever an interrupted upload left in the bucket.
DownloadHonest ==
    \A d \in Loaders : load[d].at = "ok" => load[d].out = Frames - 1

\* Some upload has put a whole object under the key.
StoredWhole == object = Frames \/ torn

\* binary.go, blob_service.go: AttachBlob is only called for an upload whose every
\* frame reached the bucket, although each pipe reports the failure of its writer as
\* the end of the data; and a reference is only ever set over an object that was whole.
\* It need not be whole any more: another upload of the same file whose encoder fails
\* may have replaced it by a short one (torn), before the attach or after.
AttachOnlyComplete ==
    /\ \A j \in Jobs : job[j].at \in {"attach", "cleanup"} => up[j].got = Frames /\ StoredWhole
    /\ secret.ref => StoredWhole

\* binary.go:86: when CreateBinary reports that the upload or the attachment failed, the
\* outbox and the staged copy can repeat it, or the reference is set and the bucket holds
\* the whole file: no retry, crash or second replay takes the copy away before.  The one
\* exception is torn, and there the file is lost: two uploads of the staged copy run
\* at a time, one is attached and removes copy and entry, and the other, whose
\* encoder failed, then stores its short object under the same key.
FailedUploadIsQueued ==
    job[Creator].err =>
        \/ staged /\ "blob" \in outbox
        \/ secret.ref /\ (object = Frames \/ torn)

\* The call has failed and the encoder still has data: nobody closes the reading end
\* of the pipe, and uploadBinaryData waits for the encoder before it looks at the error.
Hung(j) == up[j].cli = "failed" /\ Encoding(up[j])

\* The handler has returned an error and its goroutine holds out a frame: nobody closes
\* the reading end of this pipe either.
Leaked(j) == up[j].srv = "returned" /\ up[j].rcv = "write"

\* A handler, its receiving goroutine or a call of uploadBinaryData that has not ended.
Waits(j) ==
    \/ Running(up[j])
    \/ up[j].rcv \in {"write", "recv"} /\ ~Leaked(j)
    \/ job[j].at = "upload" /\ ~Hung(j)

\* binary.go, blob.go, blob_service.go: two places apart, nobody waits for ever at one of
\* the two pipes or at the stream between them: while a handler, its goroutine or
\* the client's call has not ended, one of the sides can take a step, whatever was
\* cut, refused or closed.  The frames are finite, so all of them end.  The two places
\* where the code does wait for ever are the client's call in Hung and the server's
\* goroutine in Leaked.
NobodyStuck ==
    \A j \in Jobs : Waits(j) => ENABLED ServerStep(j) \/ ENABLED JobStep(j)
=============================================================================
