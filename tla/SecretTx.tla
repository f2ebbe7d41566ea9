------------------------------ MODULE SecretTx ------------------------------
(***************************************************************************)
(* The server's write path as it runs: gRPC handlers execute CreateSecret, *)
(* UpdateSecret, DeleteSecret and AttachBlob concurrently, each inside     *)
(* TxManager.Do, that is a READ COMMITTED transaction on a connection of   *)
(* the pool, retried as a whole on a retryable error.  One action is one   *)
(* SQL statement; a row lock taken by a statement is held to the end of    *)
(* the transaction and its writes become visible at COMMIT.  One reader    *)
(* follows the sync protocol of a client: CheckFreshness, then ListRow.    *)
(***************************************************************************)
EXTENDS SecretStore, FiniteSets

CONSTANTS
    Handlers,       \* goroutines serving RPCs
    Users,          \* user ids the JWT interceptor puts in the context
    OwnerOf,        \* vaults.user_id
    PoolSize,       \* connections of the pgx pool
    MaxAttempts,    \* retryMaxAttempts
    MaxRequests     \* bound: requests received in one behaviour

ASSUME OwnerOfAssumption == OwnerOf \in [Vaults -> Users]
ASSUME LimitsAssumption ==
    /\ PoolSize \in Nat \ {0}
    /\ MaxAttempts \in Nat \ {0}
    /\ MaxRequests \in Nat
ASSUME NoneIsNoHandler == None \notin Handlers

VARIABLES
    rowLock,    \* [Secrets -> Handlers or None]: lock on the row, or on its
                \* primary key while an INSERT is uncommitted
    vaultLock,  \* [Vaults -> Handlers or None]
    pc,         \* where each handler is
    req,        \* the request each handler serves
    cur,        \* the row GetForUpdate returned to the handler
    tries,      \* attempts of withRetry that failed so far
    reply,      \* the handler's answer
    received,   \* requests received so far
    reader      \* a client that polls: CheckFreshness, then ListRow

txVars == <<rowLock, vaultLock, pc, req, cur, tries, reply, received>>
vars == <<storeVars, txVars, reader>>

Ops == {"create", "update", "delete", "attach"}

Request == [op : Ops, user : Users, s : Secrets, base : Nat,
            enc : Ciphers \cup {None}, blob : Blobs \cup {None}]

\* Inside a transaction: a connection of the pool is taken.
InTx == {"open", "locked", "written", "bumped"}

PCs == {"idle", "queued", "done"} \cup InTx

Replies == {"ok", "notfound", "conflict", "invalid", "internal", "none"}

TypeOK ==
    /\ StoreTypeOK
    /\ rowLock \in [Secrets -> Handlers \cup {None}]
    /\ vaultLock \in [Vaults -> Handlers \cup {None}]
    /\ pc \in [Handlers -> PCs]
    /\ req \in [Handlers -> Request \cup {None}]
    /\ cur \in [Handlers -> Row]
    /\ tries \in [Handlers -> 0 .. MaxAttempts]
    /\ reply \in [Handlers -> Replies]
    /\ received \in 0 .. MaxRequests
    /\ reader \in [at : {"idle", "fresh", "listed"}, vault : Vaults, version : Nat,
                   rows : [Secrets -> Row]]

Init ==
    /\ StoreInit
    /\ rowLock = [s \in Secrets |-> None]
    /\ vaultLock = [v \in Vaults |-> None]
    /\ pc = [h \in Handlers |-> "idle"]
    /\ req = [h \in Handlers |-> None]
    /\ cur = [h \in Handlers |-> Absent]
    /\ tries = [h \in Handlers |-> 0]
    /\ reply = [h \in Handlers |-> "none"]
    /\ received = 0
    /\ \E v \in Vaults : reader = [at |-> "idle", vault |-> v, version |-> 0,
                                  rows |-> [s \in Secrets |-> Absent]]

----------------------------------------------------------------------------
(* The life of a request. *)

\* The checks before the transaction: create and update carry ciphertexts,
\* attach a blob reference.
Valid(r) ==
    /\ r.op \in {"create", "update"} => r.enc # None
    /\ r.op = "attach" => r.blob # None

\* What clients send: no client knows a version later than the last write.
Requests ==
    {r \in [op : Ops, user : Users, s : Secrets, base : 0 .. MaxRequests,
            enc : Ciphers \cup {None}, blob : Blobs \cup {None}] :
        /\ r.op = "create" => r.base = 0
        /\ r.op \in {"delete", "attach"} => r.enc = None
        /\ r.op # "attach" => r.blob = None}

Receive(h) ==
    /\ pc[h] = "idle"
    /\ received < MaxRequests
    /\ \E r \in Requests :
        /\ req' = [req EXCEPT ![h] = r]
        /\ pc' = [pc EXCEPT ![h] = IF Valid(r) THEN "queued" ELSE "done"]
        /\ reply' = [reply EXCEPT ![h] =
                        IF Valid(r) THEN "none"
                        ELSE IF r.op = "attach" THEN "internal" ELSE "invalid"]
    /\ received' = received + 1
    /\ UNCHANGED <<storeVars, rowLock, vaultLock, cur, tries, reader>>

\* pool.Begin waits for a free connection.
Begin(h) ==
    /\ pc[h] = "queued"
    /\ Cardinality({k \in Handlers : pc[k] \in InTx}) < PoolSize
    /\ pc' = [pc EXCEPT ![h] = "open"]
    /\ UNCHANGED <<storeVars, rowLock, vaultLock, req, cur, tries, reply, received, reader>>

\* Mutant: the lock on the vault is kept.
ReleaseRowLocks(h) ==
    /\ rowLock' = [s \in Secrets |-> IF rowLock[s] = h THEN None ELSE rowLock[s]]
    /\ UNCHANGED vaultLock

\* COMMIT or ROLLBACK gives up every lock of the transaction.
ReleaseLocks(h) ==
    /\ rowLock' = [s \in Secrets |-> IF rowLock[s] = h THEN None ELSE rowLock[s]]
    /\ vaultLock' = [v \in Vaults |-> IF vaultLock[v] = h THEN None ELSE vaultLock[v]]

\* Do has returned: its locals are gone, the answer is on its way.
Answer(h, what) ==
    /\ pc' = [pc EXCEPT ![h] = "done"]
    /\ reply' = [reply EXCEPT ![h] = what]
    /\ cur' = [cur EXCEPT ![h] = Absent]
    /\ tries' = [tries EXCEPT ![h] = 0]

\* fn returned an error that is not retryable: rollback, then the answer.
Refuse(h, what) ==
    /\ ReleaseLocks(h)
    /\ Answer(h, what)
    /\ UNCHANGED <<storeVars, req, received, reader>>

\* Mutant: the query does not join the vault's owner.
MineAlways(h) == TRUE

Mine(h) == OwnerOf[VaultOf[req[h].s]] = req[h].user

\* CreateSecret: IsOwner, then INSERT.  The INSERT waits for an uncommitted
\* INSERT of the same id and fails on a committed one.
Insert(h) ==
    /\ pc[h] = "open" /\ req[h].op = "create"
    /\ \/ ~Mine(h) /\ Refuse(h, "notfound")
       \/ /\ Mine(h) /\ rowLock[req[h].s] = None /\ Exists(sec[req[h].s])
          /\ Refuse(h, "internal")
       \/ /\ Mine(h) /\ rowLock[req[h].s] = None /\ ~Exists(sec[req[h].s])
          /\ rowLock' = [rowLock EXCEPT ![req[h].s] = h]
          /\ pc' = [pc EXCEPT ![h] = "written"]
          /\ UNCHANGED <<storeVars, vaultLock, req, cur, tries, reply, received, reader>>

\* Mutant: SELECT without FOR UPDATE does not wait.
GetWithoutWaiting(h) ==
    /\ pc[h] = "open" /\ req[h].op # "create"
    /\ \/ (~Exists(sec[req[h].s]) \/ ~Mine(h)) /\ Refuse(h, "notfound")
       \/ /\ Exists(sec[req[h].s]) /\ Mine(h)
          /\ rowLock' = [rowLock EXCEPT ![req[h].s] = h]
          /\ cur' = [cur EXCEPT ![h] = sec[req[h].s]]
          /\ pc' = [pc EXCEPT ![h] = "locked"]
          /\ UNCHANGED <<storeVars, vaultLock, req, tries, reply, received, reader>>

\* SELECT ... FOR UPDATE: no row of this user, or the row as committed once
\* the lock is free.
GetForUpdate(h) ==
    /\ pc[h] = "open" /\ req[h].op # "create"
    /\ \/ (~Exists(sec[req[h].s]) \/ ~Mine(h)) /\ Refuse(h, "notfound")
       \/ /\ Exists(sec[req[h].s]) /\ Mine(h) /\ rowLock[req[h].s] = None
          /\ rowLock' = [rowLock EXCEPT ![req[h].s] = h]
          /\ cur' = [cur EXCEPT ![h] = sec[req[h].s]]
          /\ pc' = [pc EXCEPT ![h] = "locked"]
          /\ UNCHANGED <<storeVars, vaultLock, req, tries, reply, received, reader>>

\* The row the request's statement writes over the row read.
NewRow(r, row) ==
    CASE r.op = "create" -> Inserted(r.enc)
      [] r.op = "update" -> UpdatedFields(row, r.enc)
      [] r.op = "delete" -> SoftDeleted(row)
      [] r.op = "attach" -> BlobAttached(row, r.blob)

\* Mutant: a deleted row is not refused.
WriteDeleted(h) ==
    LET r == req[h] IN
    /\ pc[h] = "locked"
    /\ \/ cur[h].version # r.base /\ Refuse(h, "conflict")
       \/ /\ cur[h].version = r.base
          /\ pc' = [pc EXCEPT ![h] = "written"]
          /\ UNCHANGED <<storeVars, rowLock, vaultLock, req, cur, tries, reply,
                         received, reader>>

\* The checks on the row read, then UPDATE secrets.
Write(h) ==
    LET r == req[h] IN
    /\ pc[h] = "locked"
    /\ \/ cur[h].deleted /\ Refuse(h, "notfound")
       \/ ~cur[h].deleted /\ r.op = "attach" /\ r.s \notin Binary /\ Refuse(h, "internal")
       \/ /\ ~cur[h].deleted /\ (r.op = "attach" => r.s \in Binary)
          /\ cur[h].version # r.base
          /\ Refuse(h, "conflict")
       \/ /\ ~cur[h].deleted /\ (r.op = "attach" => r.s \in Binary)
          /\ cur[h].version = r.base
          /\ pc' = [pc EXCEPT ![h] = "written"]
          /\ UNCHANGED <<storeVars, rowLock, vaultLock, req, cur, tries, reply,
                         received, reader>>

\* BumpVaultVersion: UPDATE vaults waits for the lock on the vault's row.
Bump(h) ==
    /\ pc[h] = "written"
    /\ vaultLock[VaultOf[req[h].s]] = None
    /\ vaultLock' = [vaultLock EXCEPT ![VaultOf[req[h].s]] = h]
    /\ pc' = [pc EXCEPT ![h] = "bumped"]
    /\ UNCHANGED <<storeVars, rowLock, req, cur, tries, reply, received, reader>>

\* COMMIT.  The handler may lose the answer of a COMMIT that took effect: the
\* error is not SafeToRetry and becomes Internal.
Commit(h) ==
    /\ pc[h] = "bumped"
    /\ Put(req[h].s, NewRow(req[h], cur[h]))
    /\ ReleaseLocks(h)
    /\ \E what \in {"ok", "internal"} : Answer(h, what)
    /\ UNCHANGED <<req, received, reader>>

\* Mutant: the attempts are not counted against retryMaxAttempts.
FailForever(h) ==
    /\ pc[h] \in {"queued"} \cup InTx
    /\ ReleaseLocks(h)
    /\ pc' = [pc EXCEPT ![h] = "queued"]
    /\ cur' = [cur EXCEPT ![h] = Absent]
    /\ tries' = [tries EXCEPT ![h] = @ + 1]
    /\ UNCHANGED <<storeVars, req, reply, received, reader>>

\* Mutant: only the failed statement is repeated, after the rollback.
FailRepeatsStatement(h) ==
    /\ pc[h] \in InTx
    /\ tries[h] + 1 < MaxAttempts
    /\ ReleaseLocks(h)
    /\ tries' = [tries EXCEPT ![h] = @ + 1]
    /\ UNCHANGED <<storeVars, pc, req, cur, reply, received, reader>>

\* A statement, BEGIN or COMMIT fails without effect, or the request's context
\* is cancelled: rollback; withRetry runs the transaction again or gives up.
Fail(h) ==
    /\ pc[h] \in {"queued"} \cup InTx
    /\ ReleaseLocks(h)
    /\ \/ /\ tries[h] + 1 < MaxAttempts
          /\ pc' = [pc EXCEPT ![h] = "queued"]
          /\ cur' = [cur EXCEPT ![h] = Absent]
          /\ tries' = [tries EXCEPT ![h] = @ + 1]
          /\ UNCHANGED reply
       \/ Answer(h, "internal")
    /\ UNCHANGED <<storeVars, req, received, reader>>

Return(h) ==
    /\ pc[h] = "done"
    /\ pc' = [pc EXCEPT ![h] = "idle"]
    /\ req' = [req EXCEPT ![h] = None]
    /\ reply' = [reply EXCEPT ![h] = "none"]
    /\ UNCHANGED <<storeVars, rowLock, vaultLock, cur, tries, received, reader>>

\* The server process dies: PostgreSQL rolls the open transactions back.
Crash ==
    /\ \E h \in Handlers : pc[h] # "idle"
    /\ rowLock' = [s \in Secrets |-> None]
    /\ vaultLock' = [v \in Vaults |-> None]
    /\ pc' = [h \in Handlers |-> "idle"]
    /\ req' = [h \in Handlers |-> None]
    /\ cur' = [h \in Handlers |-> Absent]
    /\ tries' = [h \in Handlers |-> 0]
    /\ reply' = [h \in Handlers |-> "none"]
    /\ UNCHANGED <<storeVars, received, reader>>

----------------------------------------------------------------------------
(* The reads of a client that synchronises. *)

\* The rows ListRow returns: the vault's rows that are not deleted.
Listed(v) == [s \in Secrets |-> IF VaultOf[s] = v /\ Exists(sec[s]) /\ ~sec[s].deleted
                                THEN sec[s] ELSE Absent]

CheckFreshness(v) ==
    /\ reader.at = "idle"
    /\ reader' = [at |-> "fresh", vault |-> v, version |-> vaultVersion[v], rows |-> reader.rows]
    /\ UNCHANGED <<storeVars, txVars>>

ListRow ==
    /\ reader.at = "fresh"
    /\ reader' = [at |-> "listed", vault |-> reader.vault, version |-> reader.version,
                rows |-> Listed(reader.vault)]
    /\ UNCHANGED <<storeVars, txVars>>

\* The next poll finds another version and starts over.
PollAgain ==
    /\ reader.at = "listed"
    /\ vaultVersion[reader.vault] > reader.version
    /\ reader' = [at |-> "idle", vault |-> reader.vault, version |-> reader.version,
                rows |-> reader.rows]
    /\ UNCHANGED <<storeVars, txVars>>

----------------------------------------------------------------------------
Step(h) ==
    \/ Begin(h) \/ Insert(h) \/ GetForUpdate(h) \/ Write(h) \/ Bump(h)
    \/ Commit(h) \/ Return(h)

Next ==
    \/ \E h \in Handlers : Receive(h) \/ Step(h) \/ Fail(h)
    \/ Crash
    \/ \E v \in Vaults : CheckFreshness(v)
    \/ ListRow
    \/ PollAgain

Spec == Init /\ [][Next]_vars

\* The runtime schedules every handler; PostgreSQL and the pool serve their
\* waiters in order, so a handler that can move again and again does move.
Fairness == \A h \in Handlers : SF_vars(Step(h))

FairSpec == Spec /\ Fairness

----------------------------------------------------------------------------
(* Properties. *)

\* The row read under FOR UPDATE is still the committed row when the handler
\* writes it back, and a vault's row is updated by one transaction at a time:
\* what makes the check of base_version and the write one step.
LockDiscipline ==
    \A h \in Handlers :
        /\ pc[h] \in {"locked", "written", "bumped"} =>
                /\ rowLock[req[h].s] = h
                /\ cur[h] = sec[req[h].s]
                /\ Mine(h)
        /\ pc[h] = "bumped" => vaultLock[VaultOf[req[h].s]] = h

\* update.go, delete.go, attach_blob.go, create.go: from its check to its COMMIT, whatever
\* the others commit meanwhile and however often attempts are repeated, what a handler
\* has written is admitted by the optimistic lock against the row as committed now: an
\* INSERT of an id nobody has, a write over a live row of the version the request names.
WriteAdmitted ==
    \A h \in Handlers :
        pc[h] \in {"written", "bumped"} =>
            IF req[h].op = "create" THEN ~Exists(sec[req[h].s])
            ELSE Writable(sec[req[h].s], req[h].base)

\* A client that stored the answer of CheckFreshness as its synced version
\* and then the answer of ListRow has, as long as CheckFreshness returns that
\* version again, exactly the vault's live rows: skipping ListRow for an
\* unchanged version (engine.go) loses nothing.
SkipIsSound ==
    (reader.at = "listed" /\ reader.version = vaultVersion[reader.vault])
        => reader.rows = Listed(reader.vault)

\* What the induction for the properties above needs besides them.
AbsentRows == \A s \in Secrets : ~Exists(sec[s]) => sec[s] = Absent
WriteReady ==
    \A h \in Handlers :
        /\ pc[h] \in {"idle", "queued", "open", "done"} => cur[h] = Absent
        /\ pc[h] \in {"queued"} \cup InTx => req[h] \in Request /\ Valid(req[h])
        /\ pc[h] = "locked" => req[h].op # "create" /\ Exists(cur[h])
        /\ pc[h] \in {"written", "bumped"} =>
                IF req[h].op = "create" THEN cur[h] = Absent
                ELSE /\ Writable(cur[h], req[h].base)
                     /\ req[h].op = "attach" => req[h].s \in Binary
ReaderBehind == reader.at # "idle" => reader.version <= vaultVersion[reader.vault]

TxInv == /\ TypeOK /\ LockDiscipline /\ WriteReady /\ AbsentRows
         /\ ReaderBehind /\ SkipIsSound

\* No step changes a secret of a vault that its request's user does not own.
OwnWritesOnly ==
    [][\A s \in Secrets : sec'[s] # sec[s] =>
            \E h \in Handlers : /\ pc[h] # "idle" /\ req[h].s = s
                                /\ OwnerOf[VaultOf[s]] = req[h].user]_vars

\* Handlers never wait for each other in a circle (every transaction locks
\* the secret before the vault and uses one connection), and retries are
\* bounded: a request is answered, unless the server dies.
EveryRequestAnswered ==
    \A h \in Handlers : (pc[h] = "queued") ~> (pc[h] \in {"done", "idle"})
============================================================================
