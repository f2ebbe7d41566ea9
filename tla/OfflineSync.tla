---------------------------- MODULE OfflineSync ----------------------------
(***************************************************************************)
(* Devices of one user that share a vault: each has the SQLite cache and   *)
(* outbox of LocalStore and talks to the server of SecretStore over a      *)
(* network that loses requests and answers.  A device runs one or more     *)
(* threads (a CLI command, the dashboard's commands and its background     *)
(* sync); a thread runs one job: a user's create, update or delete, the    *)
(* resolution of a conflict, ReplayOutbox, Sync, LoadIndexes or            *)
(* GetPayload.  One action is one RPC or one SQL statement, and the        *)
(* process may die between any two.                                        *)
(***************************************************************************)
EXTENDS LocalStore, FiniteSets, SequencesExt

CONSTANTS
    Devices,
    Secrets,
    UserThreads,        \* screens and CLI commands: they run the user's jobs
    SyncThreads,        \* the background sync, gophkeeper sync: replay, pull, indexes
    Kinds,              \* what users do to a cached secret: "update", "delete"
    MaxWrites,          \* bound: changes a user asks for in one behaviour
    MaxLostRequests,    \* bound: writing RPCs that fail without effect
    MaxLostReplies,     \* bound: writing RPCs that fail although they were executed
    MaxCrashes,         \* bound: times a device's processes are killed
    MaxResolves         \* bound: times a user opens a conflict of the outbox

ASSUME BoundsAssumption ==
    /\ MaxWrites \in Nat /\ MaxLostRequests \in Nat /\ MaxLostReplies \in Nat
    /\ MaxCrashes \in Nat /\ MaxResolves \in Nat

ASSUME SecretsAssumption == IsFiniteSet(Secrets)

ASSUME KindsAssumption == Kinds \subseteq {"update", "delete"}

\* The goroutines and processes that share one device's database.
Threads == UserThreads \cup SyncThreads

VARIABLES
    sec, vaultVersion,  \* the server: SecretStore
    cache,      \* [Devices -> [Secrets -> cached row]]
    outbox,     \* [Devices -> set of entries]
    nextId,     \* [Devices -> Nat]: AUTOINCREMENT of the outbox
    synced,     \* [Devices -> Nat]: vaults.synced_version
    job,        \* [Devices -> [Threads -> job]]
    left,       \* what is left of the bounds
    log         \* history of the writes: what was asked, answered and applied

serverVars == <<sec, vaultVersion>>
localVars == <<cache, outbox, nextId, synced>>
vars == <<serverVars, localVars, job, left, log>>

Vault == "vault"
Cipher == [w : 1 .. MaxWrites, version : Nat]

INSTANCE SecretStore
    WITH Vaults <- {Vault}, VaultOf <- [s \in Secrets |-> Vault],
         Binary <- {}, Ciphers <- Cipher, Blobs <- {}

(***************************************************************************)
(* A change as it travels from the user to the server.  seen is the write  *)
(* whose content the user changed (0: none) and onDirty tells whether that *)
(* content was itself not yet known to the server; neither is state of the *)
(* program.                                                                *)
(***************************************************************************)
Change(kind, s, base, w, seen, onDirty) ==
    [kind |-> kind, s |-> s, base |-> base, enc |-> Enc(w, base + 1),
     seen |-> seen, onDirty |-> onDirty]

Idle == [at |-> "idle", todo |-> <<>>]

Init ==
    /\ StoreInit
    /\ cache = [d \in Devices |-> [s \in Secrets |-> NoRow]]
    /\ outbox = [d \in Devices |-> {}]
    /\ nextId = [d \in Devices |-> 1]
    /\ synced = [d \in Devices |-> 0]
    /\ job = [d \in Devices |-> [t \in Threads |-> Idle]]
    /\ left = [writes |-> MaxWrites, requests |-> MaxLostRequests,
               replies |-> MaxLostReplies, crashes |-> MaxCrashes,
               resolves |-> MaxResolves]
    /\ log = [created |-> {}, asked |-> {}, acked |-> {}, refused |-> {},
              applied |-> {}, blind |-> {}, killed |-> {}]

Run(d, t, j) == job' = [job EXCEPT ![d][t] = j]

----------------------------------------------------------------------------
(* One RPC that writes. *)

\* What mapSecretErr and mapErr make of the server's verdict.
Verdict(op) ==
    IF op.kind = "create"
    THEN IF Exists(sec[op.s]) THEN "internal" ELSE "ok"
    ELSE IF ~Exists(sec[op.s]) \/ sec[op.s].deleted THEN "notfound"
    ELSE IF sec[op.s].version # op.base THEN "conflict" ELSE "ok"

\* The server executes the change.  History: it is applied, and blind if it
\* replaces content its author never saw.
Execute(op) ==
    /\ \/ op.kind = "create" /\ CreateSecret(op.s, op.enc)
       \/ op.kind = "update" /\ UpdateSecret(op.s, op.base, op.enc)
       \/ op.kind = "delete" /\ DeleteSecret(op.s, op.base)
    /\ log' = [log EXCEPT
                !.applied = @ \cup {op.enc.w},
                !.blind = IF op.kind # "create" /\ sec[op.s].enc.w # op.seen
                          THEN @ \cup {op} ELSE @]

\* The call returns the server's verdict, or fails: with ErrUnavailable or
\* ErrInternal, before the server executed the request or after.  refused: the
\* writes the user has to give up when there is no effect.
Call(op, answer, refused) ==
    LET Turned == log' = [log EXCEPT !.refused = @ \cup refused] /\ UNCHANGED serverVars IN
    \/ /\ answer = Verdict(op)
       /\ IF answer = "ok" THEN Execute(op) ELSE Turned
       /\ UNCHANGED left
    \/ /\ answer \in {"offline", "internal"} /\ left.requests > 0
       /\ left' = [left EXCEPT !.requests = @ - 1]
       /\ Turned
    \/ /\ answer \in {"offline", "internal"} /\ left.replies > 0 /\ Verdict(op) = "ok"
       /\ left' = [left EXCEPT !.replies = @ - 1]
       /\ Execute(op)

Answers == {"ok", "notfound", "conflict", "internal", "offline"}

----------------------------------------------------------------------------
(* The statements a job has still to run, in order. *)

Upsert(s, enc, tiers, version, dirty) ==
    [do |-> "upsert", s |-> s, enc |-> enc, tiers |-> tiers, version |-> version,
     dirty |-> dirty]
SetIndex(s, enc, version)   == [do |-> "index", s |-> s, enc |-> enc, version |-> version]
SetPayload(s, enc, version) == [do |-> "payload", s |-> s, enc |-> enc, version |-> version]
LoadIndex(s, enc, version)  == [do |-> "load", s |-> s, enc |-> enc, version |-> version]
DeleteRow(s)                == [do |-> "deleterow", s |-> s]
Enqueue(op, status)         == [do |-> "enqueue", op |-> op, status |-> status]
RemoveEntry(id)                  == [do |-> "remove", id |-> id]
MarkConflict(id)            == [do |-> "status", id |-> id]
SetSynced(version)          == [do |-> "synced", version |-> version]

CacheCreated(op, dirty) == <<Upsert(op.s, op.enc, op.enc, 1, dirty)>>

CacheFullSecret(s, enc, version, dirty) ==
    <<Upsert(s, enc, enc, version, dirty), SetIndex(s, enc, version),
      SetPayload(s, enc, version)>>

CreateOffline(op) == CacheCreated(op, TRUE) \o <<Enqueue(op, "pending")>>

UpdateOffline(op) ==
    CacheFullSecret(op.s, op.enc, op.base + 1, TRUE) \o <<Enqueue(op, "pending")>>

DeleteOffline(op) == <<Enqueue(op, "pending"), DeleteRow(op.s)>>

----------------------------------------------------------------------------
(* A user's create, update and delete (createTyped, updateTyped and        *)
(* DeleteSecret).                                                          *)

\* The next thing the job does is to send op.  id is the outbox entry a
\* conflict was opened from, 0 for a change made on screen.
Sending(op, id) == [at |-> "send", op |-> op, id |-> id, todo |-> <<>>]

\* The job runs stmts and ends; the write w is then reported as saved.
Finish(w, stmts) == [at |-> "finish", w |-> w, todo |-> stmts]

\* The card of a conflict: my change, and the server's row.
Card(op, id) ==
    [at |-> "card", op |-> op, id |-> id, todo |-> <<>>,
     theirs |-> sec[op.s].enc, version |-> sec[op.s].version]

Submit(d, t, op) ==
    /\ job[d][t] = Idle
    /\ left.writes > 0
    /\ left' = [left EXCEPT !.writes = @ - 1]
    /\ log' = [log EXCEPT !.asked = @ \cup {op.enc.w}, !.created = @ \cup {op.s}]
    /\ Run(d, t, Sending(op, 0))
    /\ UNCHANGED <<serverVars, localVars>>

NextWrite == MaxWrites - left.writes + 1

\* uuid.NewString: an id that no create has used.
FreshId(s) == s \notin log.created

Create(d, t) ==
    \E s \in Secrets :
        FreshId(s) /\ Submit(d, t, Change("create", s, 0, NextWrite, 0, FALSE))

\* The user changes what the cache shows.
UpdateOrDelete(d, t) ==
    \E s \in Secrets, kind \in Kinds :
        LET row == cache[d][s] IN
        /\ Cached(row)
        /\ Submit(d, t, Change(kind, s, row.version, NextWrite, row.row.w, row.dirty))

\* What each answer means for a change that is not tied to an outbox entry.
AfterSend(op, answer) ==
    CASE answer = "ok" ->
            Finish(op.enc.w,
                   CASE op.kind = "create" -> CacheCreated(op, FALSE)
                     [] op.kind = "update" ->
                          CacheFullSecret(op.s, op.enc, op.base + 1, FALSE)
                     [] op.kind = "delete" -> <<DeleteRow(op.s)>>)
      [] answer = "offline" ->
            Finish(op.enc.w,
                   CASE op.kind = "create" -> CreateOffline(op)
                     [] op.kind = "update" -> UpdateOffline(op)
                     [] op.kind = "delete" -> DeleteOffline(op))
      [] answer = "conflict" -> Card(op, 0)
      [] OTHER -> Idle

----------------------------------------------------------------------------
(* Conflicts (ConflictFromOutbox and GenericResolveConflict).              *)

\* Mutant: the entry is dropped instead of created anew.
RetryUpdateDropsEntry(op, id, answer) ==
    CASE answer = "ok" ->
            Finish(op.enc.w,
                   <<RemoveEntry(id)>> \o CacheFullSecret(op.s, op.enc, op.base + 1, FALSE))
      [] answer = "conflict" -> Finish(op.enc.w, <<RemoveEntry(id)>>)
      [] OTHER -> Idle

\* retryOutboxUpdate: my version again, re-encrypted for the new base.
AfterRetryUpdate(op, id, answer) ==
    CASE answer = "ok" ->
            Finish(op.enc.w,
                   <<RemoveEntry(id)>> \o CacheFullSecret(op.s, op.enc, op.base + 1, FALSE))
      [] answer = "conflict" ->
            [at |-> "requeue", op |-> op,
             todo |-> <<MarkConflict(id), RemoveEntry(id), Enqueue(op, "conflict")>>]
      [] OTHER -> Idle

\* The retryMine of conflictFromOutboxDelete: DeleteSecret, then RemoveOutbox.
\* A new conflict is the one of DeleteSecret and has lost the entry's id.
AfterRetryDelete(op, id, answer) ==
    CASE answer = "ok"       -> Finish(op.enc.w, <<DeleteRow(op.s), RemoveEntry(id)>>)
      [] answer = "offline"  -> Finish(op.enc.w, DeleteOffline(op) \o <<RemoveEntry(id)>>)
      [] answer = "conflict" -> Card(op, 0)
      [] OTHER -> Idle

Send(d, t) ==
    LET j == job[d][t] IN
    /\ j.at = "send"
    /\ \E answer \in Answers :
        /\ Call(j.op, answer, IF j.id = 0 /\ answer \in {"notfound", "internal"}
                              THEN {j.op.enc.w} ELSE {})
        /\ Run(d, t, CASE j.id = 0 -> AfterSend(j.op, answer)
                       [] j.id # 0 /\ j.op.kind = "update" ->
                            AfterRetryUpdate(j.op, j.id, answer)
                       [] j.id # 0 /\ j.op.kind = "delete" ->
                            AfterRetryDelete(j.op, j.id, answer))
    /\ UNCHANGED localVars

\* The user opens an entry of the outbox: GetOutbox, which does not ask for
\* the status; creates have no conflicts.
OpenEntry(d, t) ==
    /\ job[d][t] = Idle
    /\ left.resolves > 0
    /\ left' = [left EXCEPT !.resolves = @ - 1]
    /\ \E e \in outbox[d] :
        /\ e.op.kind # "create"
        /\ Run(d, t, [at |-> "open", op |-> e.op, id |-> e.id, todo |-> <<>>])
    /\ UNCHANGED <<serverVars, localVars, log>>

\* ConflictFromOutbox sends the entry's request once more to learn the
\* server's version; the server may accept it.
ConflictFromOutbox(d, t) ==
    LET j == job[d][t]
        applied == IF j.op.kind = "update"
                   THEN CacheFullSecret(j.op.s, j.op.enc, j.op.base + 1, FALSE)
                   ELSE <<DeleteRow(j.op.s)>>
    IN
    /\ j.at = "open"
    /\ \E answer \in Answers :
        /\ Call(j.op, answer, {})
        /\ Run(d, t, CASE answer = "ok" -> Finish(j.op.enc.w, <<RemoveEntry(j.id)>> \o applied)
                       [] answer = "conflict" -> Card(j.op, j.id)
                       [] OTHER -> Idle)
    /\ UNCHANGED localVars

Refused(w) == log' = [log EXCEPT !.refused = @ \cup {w}]

\* ChoiceMine sends my change on top of the server's version, encrypted anew.
ChoiceMine(d, t) ==
    LET j == job[d][t] IN
    /\ j.at = "card"
    /\ Run(d, t, Sending(Change(j.op.kind, j.op.s, j.version, j.op.enc.w, j.theirs.w, FALSE),
                         j.id))
    /\ UNCHANGED <<serverVars, localVars, left, log>>

\* ChoiceServer only writes the cache: the outbox entry stays.
ChoiceServer(d, t) ==
    LET j == job[d][t] IN
    /\ j.at = "card"
    /\ Run(d, t, [at |-> "stmts",
                  todo |-> CacheFullSecret(j.op.s, j.theirs, j.version, FALSE)])
    /\ Refused(j.op.enc.w)
    /\ UNCHANGED <<serverVars, localVars, left>>

\* The user leaves the card; a change that was never queued is given up.
LeaveCard(d, t) ==
    LET j == job[d][t] IN
    /\ j.at = "card"
    /\ Run(d, t, Idle)
    /\ IF j.id = 0 THEN Refused(j.op.enc.w) ELSE UNCHANGED log
    /\ UNCHANGED <<serverVars, localVars, left>>

----------------------------------------------------------------------------
(* ReplayOutbox. *)

\* Mutant: an open conflict holds the whole queue up.
StartReplayUnlessConflict(d, t) ==
    /\ job[d][t] = Idle
    /\ Pending(outbox[d]) # {} /\ Conflicts(outbox[d]) = {}
    /\ Run(d, t, [at |-> "replay", queue |-> Pending(outbox[d]), todo |-> <<>>])
    /\ UNCHANGED <<serverVars, localVars, left, log>>

StartReplay(d, t) ==
    /\ job[d][t] = Idle
    /\ Pending(outbox[d]) # {}
    /\ Run(d, t, [at |-> "replay", queue |-> Pending(outbox[d]), todo |-> <<>>])
    /\ UNCHANGED <<serverVars, localVars, left, log>>

\* The statements that follow the answer to a replayed entry.
Replayed(e) ==
    IF e.op.kind = "delete" THEN <<DeleteRow(e.op.s), RemoveEntry(e.id)>>
    ELSE <<Upsert(e.op.s, e.op.enc, e.op.enc, e.op.base + 1, FALSE), RemoveEntry(e.id)>>

\* Mutant: a conflict removes the entry.
ReplayDropsConflict(d, t) ==
    LET j == job[d][t]
        Go(e, stmts) == [at |-> "replay", queue |-> j.queue \ {e}, todo |-> stmts]
    IN
    /\ j.at = "replay" /\ j.todo = <<>>
    /\ \E e \in j.queue, answer \in Answers :
        /\ IsFirst(e, j.queue)
        /\ Call(e.op, answer, {})
        /\ Run(d, t, CASE answer = "ok" -> Go(e, Replayed(e))
                       [] answer = "conflict" -> Go(e, <<RemoveEntry(e.id)>>)
                       [] OTHER -> Idle)
    /\ UNCHANGED localVars

\* replayEntry on the next entry of the list read at the start: offline and
\* every error but a conflict end the replay.
ReplayEntry(d, t) ==
    LET j == job[d][t]
        Go(e, stmts) == [at |-> "replay", queue |-> j.queue \ {e}, todo |-> stmts]
    IN
    /\ j.at = "replay" /\ j.todo = <<>>
    /\ \E e \in j.queue, answer \in Answers :
        /\ IsFirst(e, j.queue)
        /\ Call(e.op, answer, {})
        /\ Run(d, t, CASE answer = "ok" -> Go(e, Replayed(e))
                       [] answer = "conflict" -> Go(e, <<MarkConflict(e.id)>>)
                       [] OTHER -> Idle)
    /\ UNCHANGED localVars

----------------------------------------------------------------------------
(* Sync, LoadIndexes and payloadCiphertext: the reads of the server.       *)

Live == {s \in Secrets : Exists(sec[s]) /\ ~sec[s].deleted}

\* A read leaves everything but the job alone; any read may fail, and ends
\* the job.
Read(d, t, j) == Run(d, t, j) /\ UNCHANGED <<serverVars, localVars, left, log>>

CheckFreshness(d, t) ==
    /\ job[d][t] = Idle
    /\ Read(d, t, [at |-> "fresh", version |-> vaultVersion[Vault], todo |-> <<>>])

\* vaultMap: the vault is skipped when its version is the one synced last.
ReadSyncedVersion(d, t) ==
    LET j == job[d][t] IN
    /\ j.at = "fresh"
    /\ Read(d, t, IF synced[d] >= j.version THEN Idle ELSE [j EXCEPT !.at = "pull"])

\* pullVaultRows: ListRow, then the pending and the conflict entries.
ListSecretRows(d, t) ==
    LET j == job[d][t] IN
    /\ j.at = "pull"
    /\ Read(d, t, [at |-> "rows", version |-> j.version, todo |-> <<>>,
                   rows |-> {[s |-> s, enc |-> sec[s].enc, version |-> sec[s].version] :
                                s \in Live}])

ReadPending(d, t) ==
    LET j == job[d][t] IN
    /\ j.at = "rows"
    /\ Read(d, t, [at |-> "pending", version |-> j.version, todo |-> <<>>,
                   rows |-> {r \in j.rows :
                                r.s \notin OutstandingSecretIDs(Pending(outbox[d]))}])

\* Mutant: stores the version the vault has once the rows are read.
ReadConflictsLateVersion(d, t) ==
    LET j == job[d][t]
        rows == {r \in j.rows : r.s \notin OutstandingSecretIDs(Conflicts(outbox[d]))}
        upserts == {Upsert(r.s, r.enc, None, r.version, FALSE) : r \in rows}
    IN
    /\ j.at = "pending"
    /\ Read(d, t, [at |-> "stmts",
                   todo |-> SetToSeq(upserts) \o <<SetSynced(vaultVersion[Vault])>>])

ReadConflicts(d, t) ==
    LET j == job[d][t]
        rows == {r \in j.rows : r.s \notin OutstandingSecretIDs(Conflicts(outbox[d]))}
        upserts == {Upsert(r.s, r.enc, None, r.version, FALSE) : r \in rows}
    IN
    /\ j.at = "pending"
    /\ Read(d, t, [at |-> "stmts", todo |-> SetToSeq(upserts) \o <<SetSynced(j.version)>>])

\* LoadIndexes: ListIndex, then GetSecret and SetSecretIndex for each item.
ListSecretIndex(d, t) ==
    /\ job[d][t] = Idle
    /\ Live # {}
    /\ Read(d, t, [at |-> "stmts",
                   todo |-> SetToSeq({LoadIndex(s, sec[s].enc, sec[s].version) : s \in Live})])

\* payloadCiphertext: nothing to do for a loaded payload, else the RPC.
GetPayload(d, t) ==
    /\ job[d][t] = Idle
    /\ \E s \in Secrets :
        /\ Cached(cache[d][s]) /\ cache[d][s].payload = None
        /\ Read(d, t, [at |-> "payload", s |-> s, todo |-> <<>>])

GetSecretPayload(d, t) ==
    LET j == job[d][t] IN
    /\ j.at = "payload"
    /\ j.s \in Live
    /\ Read(d, t, [at |-> "stmts",
                   todo |-> <<SetPayload(j.s, sec[j.s].enc, sec[j.s].version)>>])

\* The call is refused or not answered.
ReadFails(d, t) ==
    /\ job[d][t].at \in {"fresh", "pull", "payload"}
    /\ Read(d, t, Idle)

----------------------------------------------------------------------------
(* One SQL statement of a job. *)

\* A row of the cache after the statement.
RowAfter(row, st) ==
    CASE st.do = "upsert"    -> UpsertSecretRow(row, st.enc, st.tiers, st.version, st.dirty)
      [] st.do = "index"     -> SetSecretIndex(row, st.enc, st.version)
      [] st.do = "payload"   -> SetSecretPayload(row, st.enc, st.version)
      [] st.do = "deleterow" -> NoRow

\* The job once its list of statements is down to rest: a replay goes on to
\* its next entry, a finished job reports.
Resume(j, rest) ==
    IF rest # <<>> THEN [j EXCEPT !.todo = rest]
    ELSE IF j.at = "replay" /\ j.queue # {} THEN [j EXCEPT !.todo = <<>>]
    ELSE Idle

\* Mutant: success is reported at the first statement.
ReportedEarly(j, rest) ==
    IF j.at = "finish"
    THEN log' = [log EXCEPT !.acked = @ \cup {j.w}] ELSE UNCHANGED log

Reported(j, rest) ==
    IF j.at = "finish" /\ rest = <<>>
    THEN log' = [log EXCEPT !.acked = @ \cup {j.w}] ELSE UNCHANGED log

Statement(d, t) ==
    LET j == job[d][t]
        st == Head(j.todo)
        rest == Tail(j.todo)
        Done == Run(d, t, Resume(j, rest)) /\ Reported(j, rest)
    IN
    /\ j.todo # <<>>
    /\ \/ /\ st.do \in {"upsert", "index", "payload", "deleterow"}
          /\ cache' = [cache EXCEPT ![d][st.s] = RowAfter(@, st)]
          /\ Done
          /\ UNCHANGED <<outbox, nextId, synced>>
       \/ /\ st.do = "load"     \* GetSecret: known, not dirty, not loaded yet
          /\ LET row == cache[d][st.s]
                 wanted == Cached(row) /\ ~row.dirty /\ row.index = None
             IN Run(d, t, Resume(j, IF wanted
                                    THEN <<SetIndex(st.s, st.enc, st.version)>> \o rest
                                    ELSE rest))
          /\ UNCHANGED <<localVars, log>>
       \/ /\ st.do = "enqueue"
          /\ outbox' = [outbox EXCEPT ![d] = EnqueueOutbox(@, nextId[d], st.op, st.status)]
          /\ nextId' = [nextId EXCEPT ![d] = @ + 1]
          /\ IF j.at = "requeue"    \* ... and opens the new entry at once
             THEN /\ Run(d, t, [at |-> "open", op |-> st.op, id |-> nextId[d], todo |-> <<>>])
                  /\ UNCHANGED log
             ELSE Done
          /\ UNCHANGED <<cache, synced>>
       \/ /\ st.do = "remove"
          /\ outbox' = [outbox EXCEPT ![d] = RemoveOutbox(@, st.id)]
          /\ Done
          /\ UNCHANGED <<cache, nextId, synced>>
       \/ /\ st.do = "status" /\ HasEntry(outbox[d], st.id)
          /\ outbox' = [outbox EXCEPT ![d] = SetOutboxStatus(@, st.id, "conflict")]
          /\ Done
          /\ UNCHANGED <<cache, nextId, synced>>
       \/ /\ st.do = "status" /\ ~HasEntry(outbox[d], st.id)   \* an error
          /\ Run(d, t, Idle)
          /\ UNCHANGED <<localVars, log>>
       \/ /\ st.do = "synced"
          /\ synced' = [synced EXCEPT ![d] = st.version]
          /\ Done
          /\ UNCHANGED <<cache, outbox, nextId>>
    /\ UNCHANGED <<serverVars, left>>

\* A job of the device holds the write: in a call, on a card, or not yet enqueued.
Holds(d, w) ==
    \E t \in Threads :
        LET j == job[d][t] IN
        \/ j.at \in {"send", "card", "open", "requeue"} /\ j.op.enc.w = w
        \/ \E i \in DOMAIN j.todo : j.todo[i].do = "enqueue" /\ j.todo[i].op.enc.w = w

\* The device's processes are killed, and with them what only they held.
Crash(d) ==
    /\ left.crashes > 0
    /\ \E t \in Threads : job[d][t] # Idle
    /\ left' = [left EXCEPT !.crashes = @ - 1]
    /\ job' = [job EXCEPT ![d] = [t \in Threads |-> Idle]]
    /\ log' = [log EXCEPT !.killed = @ \cup {w \in log.asked : Holds(d, w)}]
    /\ UNCHANGED <<serverVars, localVars>>

----------------------------------------------------------------------------
UserJob(d, t) == Create(d, t) \/ UpdateOrDelete(d, t) \/ OpenEntry(d, t) \/ GetPayload(d, t)

Decide(d, t) == ChoiceMine(d, t) \/ ChoiceServer(d, t) \/ LeaveCard(d, t)

SyncJob(d, t) == StartReplay(d, t) \/ CheckFreshness(d, t) \/ ListSecretIndex(d, t)

\* A step of a job that waits for nobody.
JobStep(d, t) ==
    \/ Send(d, t) \/ ConflictFromOutbox(d, t) \/ ReplayEntry(d, t)
    \/ ReadSyncedVersion(d, t) \/ ListSecretRows(d, t)
    \/ ReadPending(d, t) \/ ReadConflicts(d, t)
    \/ GetSecretPayload(d, t) \/ ReadFails(d, t) \/ Statement(d, t)

Next ==
    \E d \in Devices :
        \/ \E t \in UserThreads : UserJob(d, t)
        \/ \E t \in SyncThreads : SyncJob(d, t)
        \/ \E t \in Threads : JobStep(d, t) \/ Decide(d, t)
        \/ Crash(d)

Spec == Init /\ [][Next]_vars

\* The dashboard replays the outbox at every tick of its background sync, and
\* a job that waits for nobody goes on.  Calls have no deadline: one ends with
\* an answer or with the error of its connection.
Fairness ==
    \A d \in Devices, t \in SyncThreads :
        SF_vars(StartReplay(d, t)) /\ WF_vars(JobStep(d, t))

FairSpec == Spec /\ Fairness

----------------------------------------------------------------------------
(* Properties. *)

Op == [kind : {"create", "update", "delete"}, s : Secrets, base : Nat, enc : Cipher,
       seen : 0 .. MaxWrites, onDirty : BOOLEAN]

TypeOK ==
    /\ StoreTypeOK
    /\ cache \in [Devices -> [Secrets ->
            [version : Nat, row : Cipher \cup {None}, index : Cipher \cup {None},
             payload : Cipher \cup {None}, dirty : BOOLEAN]]]
    /\ \A d \in Devices : outbox[d] \subseteq [id : Nat \ {0}, op : Op,
                                            status : {"pending", "conflict"}]
    /\ nextId \in [Devices -> Nat \ {0}]
    /\ synced \in [Devices -> Nat]
    /\ \A d \in Devices, t \in Threads :
        /\ job[d][t].at \in {"idle", "send", "card", "open", "requeue", "finish", "stmts",
                             "replay", "fresh", "pull", "rows", "pending", "payload"}
        /\ job[d][t].at \in {"send", "card", "open", "requeue"} => job[d][t].op \in Op
        /\ job[d][t].at = "replay" => job[d][t].queue # {} \/ job[d][t].todo # <<>>
    /\ \A b \in DOMAIN left : left[b] \in Nat
    /\ \A f \in {"asked", "acked", "refused", "applied", "killed"} : log[f] \subseteq 1 .. MaxWrites
    /\ log.created \subseteq Secrets /\ log.blind \subseteq Op

\* Nothing runs on the device.
Quiet(d) == \A t \in Threads : job[d][t] = Idle

\* Every ciphertext is stored next to the version its AAD binds it to, in every
\* device's cache and on the server: whatever is read back can be decrypted
\* (tiers.go, aad.go), through offline edits, version resets, re-encryption of
\* resolved conflicts and statements of jobs that overlap.
Decryptable ==
    /\ \A d \in Devices, s \in Secrets :
        LET row == cache[d][s] IN
        \A tier \in {row.row, row.index, row.payload} :
            tier # None => tier.version = row.version
    /\ \A s \in Live : sec[s].enc.version = sec[s].version

\* Where a write is that the server has not executed: in the outbox of a
\* device, or in the hands of a running job.
Queued(w) == \E d \in Devices : \E e \in outbox[d] : e.op.enc.w = w

Carried(w) == \E d \in Devices : Holds(d, w)

\* A change the user asked for is executed by the server, or is in an outbox,
\* or is still being worked on, unless the user was told of an error, gave it
\* up, or the process was killed while only it held the change: no order of
\* replies, replays, conflicts and retries drops it, and a kill takes no other.
NothingLost == \A w \in log.asked \ (log.refused \cup log.killed) :
                    w \in log.applied \/ Queued(w) \/ Carried(w)

\* A change reported as saved is executed by the server or is in an outbox.
\* A kill does not change that, also one in the middle of an offline edit.
SavedIsDurable == \A w \in log.acked \ log.refused :
                    w \in log.applied \/ Queued(w) \/ Carried(w)

\* The base version protects every change made on content the server knew:
\* if such a change replaces something, its author had it on the screen.
NoBlindOverwrite == \A op \in log.blind : op.onDirty

\* A device that stored the vault's current version has, for every live secret
\* without an entry in its outbox, exactly the server's row: what Sync skips
\* because of the version or of the outbox it does not miss.  A kill in the middle
\* of an offline edit is excepted: it leaves the edit in the cache and nowhere else.
PullComplete ==
    \A d \in Devices :
        (Quiet(d) /\ log.killed = {} /\ synced[d] = vaultVersion[Vault]) =>
            \A s \in Live \ OutstandingSecretIDs(outbox[d]) :
                /\ cache[d][s].version = sec[s].version
                /\ cache[d][s].row = sec[s].enc

\* The replay stops at the first entry the server answers with an error that is neither
\* a conflict nor the network's: a create it executed before, a change of a deleted secret.
Blocked(d) ==
    \E e \in Pending(outbox[d]) :
        IsFirst(e, Pending(outbox[d])) /\ Verdict(e.op) \notin {"ok", "conflict"}

\* Every pending entry leaves the queue, executed or shown as a conflict, unless an entry
\* that can never be executed stands before it: the replay starves for no other reason.
Drains ==
    \A d \in Devices : (Pending(outbox[d]) # {}) ~> (Pending(outbox[d]) = {} \/ Blocked(d))

============================================================================
