--------------------------- MODULE SecretTxProofs ---------------------------
(***************************************************************************)
(* For every number of handlers, users, vaults, secrets and requests: the  *)
(* interleaved transactions of SecretTx keep TxInv, and therefore          *)
(* implement the atomic operations of SecretStore.                         *)
(***************************************************************************)
EXTENDS SecretTx, TLAPS

\* The rows the statements write are rows, and a written row exists.
LEMMA NewRowType ==
    ASSUME NEW r \in Request, Valid(r), NEW row \in Row
    PROVE  /\ NewRow(r, row) \in Row
           /\ r.op = "create" \/ Exists(row) => Exists(NewRow(r, row))
<1>1. CASE r.op = "create"
  <2>1. NewRow(r, row) = Inserted(r.enc)
    BY <1>1 DEF NewRow
  <2>2. Inserted(r.enc) \in Row /\ (r.op = "create" \/ Exists(row) => Exists(Inserted(r.enc)))
    BY <1>1 DEF Request, Valid, Inserted, Row, Exists
  <2> QED BY <2>1, <2>2
<1>2. CASE r.op = "update"
  <2>1. NewRow(r, row) = UpdatedFields(row, r.enc)
    BY <1>2 DEF NewRow
  <2>2. UpdatedFields(row, r.enc) \in Row /\ (r.op = "create" \/ Exists(row) => Exists(UpdatedFields(row, r.enc)))
    BY <1>2 DEF Request, Valid, UpdatedFields, Row, Exists
  <2> QED BY <2>1, <2>2
<1>3. CASE r.op = "delete"
  <2>1. NewRow(r, row) = SoftDeleted(row)
    BY <1>3 DEF NewRow
  <2>2. SoftDeleted(row) \in Row /\ (r.op = "create" \/ Exists(row) => Exists(SoftDeleted(row)))
    BY <1>3 DEF Request, Valid, SoftDeleted, Row, Exists
  <2> QED BY <2>1, <2>2
<1>4. CASE r.op = "attach"
  <2>1. NewRow(r, row) = BlobAttached(row, r.blob)
    BY <1>4 DEF NewRow
  <2>2. BlobAttached(row, r.blob) \in Row /\ (r.op = "create" \/ Exists(row) => Exists(BlobAttached(row, r.blob)))
    BY <1>4 DEF Request, Valid, BlobAttached, Row, Exists
  <2> QED BY <2>1, <2>2
<1> QED BY <1>1, <1>2, <1>3, <1>4 DEF Request, Ops

\* The invariant holds initially.
LEMMA InitInv == Init => TxInv
<1> SUFFICES ASSUME Init PROVE TxInv
  OBVIOUS
<1> USE DEF Init, StoreInit, Absent
<1>1. TypeOK
  <2>1. Absent \in Row
    BY DEF Row
  <2>2. StoreTypeOK
    BY <2>1 DEF StoreTypeOK
  <2>3. reader \in [at : {"idle", "fresh", "listed"}, vault : Vaults, version : Nat,
                    rows : [Secrets -> Row]]
    BY <2>1
  <2>4. /\ rowLock \in [Secrets -> Handlers \cup {None}]
        /\ vaultLock \in [Vaults -> Handlers \cup {None}]
        /\ pc \in [Handlers -> PCs]
        /\ req \in [Handlers -> Request \cup {None}]
        /\ cur \in [Handlers -> Row]
        /\ reply \in [Handlers -> Replies]
    BY <2>1 DEF PCs, Replies
  <2>5. tries \in [Handlers -> 0 .. MaxAttempts] /\ received \in 0 .. MaxRequests
    BY LimitsAssumption
  <2> QED BY <2>2, <2>3, <2>4, <2>5 DEF TypeOK
<1>2. LockDiscipline /\ WriteReady
  BY DEF LockDiscipline, WriteReady, InTx
<1>3. AbsentRows /\ ReaderBehind /\ SkipIsSound
  BY DEF AbsentRows, ReaderBehind, SkipIsSound
<1> QED BY <1>1, <1>2, <1>3 DEF TxInv

\* Giving up a handler's locks leaves the other handlers' locks in place.
LEMMA ReleaseType ==
    ASSUME TypeOK, NEW h \in Handlers, ReleaseLocks(h)
    PROVE  /\ rowLock' \in [Secrets -> Handlers \cup {None}]
           /\ vaultLock' \in [Vaults -> Handlers \cup {None}]
           /\ \A k \in Handlers \ {h} :
                /\ \A s \in Secrets : rowLock[s] = k => rowLock'[s] = k
                /\ \A v \in Vaults : vaultLock[v] = k => vaultLock'[v] = k
BY DEF TypeOK, ReleaseLocks

\* Every step of a handler that answers without COMMIT keeps the invariant.
LEMMA RefuseInv ==
    ASSUME TxInv, NEW h \in Handlers, NEW what \in Replies, Refuse(h, what)
    PROVE  TxInv'
<1> USE DEF TxInv
<1>0. Absent \in Row
  BY DEF Row, Absent
<1>1. TypeOK'
  BY <1>0, ReleaseType, LimitsAssumption
     DEF Refuse, Answer, TypeOK, StoreTypeOK, storeVars, PCs
<1>2. LockDiscipline'
  BY ReleaseType, VaultOfAssumption
     DEF Refuse, Answer, LockDiscipline, Mine, TypeOK, storeVars, Request, WriteReady, InTx, PCs
<1>3. WriteReady'
  BY DEF Refuse, Answer, WriteReady, TypeOK, storeVars, InTx, PCs
<1>4. AbsentRows' /\ ReaderBehind' /\ SkipIsSound'
  BY DEF Refuse, AbsentRows, ReaderBehind, SkipIsSound, Listed, storeVars
<1> QED BY <1>1, <1>2, <1>3, <1>4

\* COMMIT writes the row of the optimistic lock's winner: an operation of
\* SecretStore.
LEMMA CommitIsStoreStep ==
    ASSUME TxInv, NEW h \in Handlers, Commit(h)
    PROVE  StoreNext
<1> USE DEF TxInv
<1> DEFINE r == req[h]
<1>1. r \in Request /\ Valid(r) /\ cur[h] = sec[r.s] /\ r.s \in Secrets
  BY DEF Commit, WriteReady, LockDiscipline, InTx, Request
<1>2. Put(r.s, NewRow(r, sec[r.s]))
  BY <1>1 DEF Commit
<1>3. CASE r.op = "create"
  <2>1. NewRow(r, sec[r.s]) = Inserted(r.enc)
    BY <1>3 DEF NewRow
  <2>2. r.enc \in Ciphers
    BY <1>1, <1>3 DEF Request, Valid
  <2>3. ~Exists(sec[r.s])
    BY <1>1, <1>3 DEF Commit, WriteReady, Exists, Absent
  <2>4. CreateSecret(r.s, r.enc)
    BY <1>2, <2>1, <2>3 DEF CreateSecret
  <2> QED BY <1>1, <2>2, <2>4 DEF StoreNext
<1>4. CASE r.op # "create"
  <2>1. Writable(sec[r.s], r.base) /\ (r.op = "attach" => r.s \in Binary)
    BY <1>1, <1>4 DEF Commit, WriteReady
  <2>2. r.base \in 1 .. sec[r.s].version
    BY <1>1, <2>1 DEF Writable, Exists, TypeOK, StoreTypeOK, Row
  <2>3. CASE r.op = "update"
    <3>1. NewRow(r, sec[r.s]) = UpdatedFields(sec[r.s], r.enc)
      BY <2>3 DEF NewRow
    <3>2. r.enc \in Ciphers
      BY <1>1, <2>3 DEF Request, Valid
    <3>3. UpdateSecret(r.s, r.base, r.enc)
      BY <1>2, <2>1, <3>1 DEF UpdateSecret
    <3> QED BY <1>1, <2>2, <3>2, <3>3 DEF StoreNext
  <2>4. CASE r.op = "delete"
    <3>1. NewRow(r, sec[r.s]) = SoftDeleted(sec[r.s])
      BY <2>4 DEF NewRow
    <3>2. DeleteSecret(r.s, r.base)
      BY <1>2, <2>1, <3>1 DEF DeleteSecret
    <3> QED BY <1>1, <2>2, <3>2 DEF StoreNext
  <2>5. CASE r.op = "attach"
    <3>1. NewRow(r, sec[r.s]) = BlobAttached(sec[r.s], r.blob)
      BY <2>5 DEF NewRow
    <3>2. r.blob \in Blobs
      BY <1>1, <2>5 DEF Request, Valid
    <3>3. AttachBlob(r.s, r.base, r.blob)
      BY <1>2, <2>1, <2>5, <3>1 DEF AttachBlob
    <3> QED BY <1>1, <2>2, <3>2, <3>3 DEF StoreNext
  <2> QED BY <1>1, <1>4, <2>3, <2>4, <2>5 DEF Request, Ops
<1> QED BY <1>3, <1>4

\* COMMIT keeps the invariant: it changes one row and one vault version, both
\* under locks no other handler holds, and a listed vault's version grows.
LEMMA CommitInv ==
    ASSUME TxInv, NEW h \in Handlers, Commit(h)
    PROVE  TxInv'
<1> USE DEF TxInv
<1> DEFINE s == req[h].s
           new == NewRow(req[h], cur[h])
<1>1. /\ req[h] \in Request /\ Valid(req[h]) /\ s \in Secrets /\ VaultOf[s] \in Vaults
      /\ cur[h] \in Row /\ cur[h] = sec[s] /\ rowLock[s] = h
  BY VaultOfAssumption DEF Commit, WriteReady, LockDiscipline, InTx, Request, TypeOK
<1>2. new \in Row /\ Exists(new)
  BY <1>1, NewRowType DEF Commit, WriteReady, Writable
<1>3. /\ sec' = [sec EXCEPT ![s] = new]
      /\ vaultVersion' = [vaultVersion EXCEPT ![VaultOf[s]] = @ + 1]
  BY DEF Commit, Put
<1>4. PICK what \in {"ok", "internal"} : Answer(h, what)
  BY DEF Commit
<1>5. TypeOK'
  <2>1. StoreTypeOK'
    BY <1>1, <1>2, <1>3 DEF TypeOK, StoreTypeOK
  <2>2. pc' \in [Handlers -> PCs] /\ reply' \in [Handlers -> Replies]
    BY <1>4 DEF Answer, TypeOK, PCs, Replies
  <2>3. Absent \in Row
    BY DEF Absent, Row
  <2>4. cur' \in [Handlers -> Row] /\ tries' \in [Handlers -> 0 .. MaxAttempts]
    BY <1>4, <2>3, LimitsAssumption DEF Answer, TypeOK
  <2> QED BY <2>1, <2>2, <2>4, ReleaseType DEF Commit, TypeOK
<1>6. LockDiscipline'
  <2> SUFFICES ASSUME NEW k \in Handlers
               PROVE  /\ pc'[k] \in {"locked", "written", "bumped"} =>
                            /\ rowLock'[req'[k].s] = k
                            /\ cur'[k] = sec'[req'[k].s]
                            /\ Mine(k)'
                      /\ pc'[k] = "bumped" => vaultLock'[VaultOf[req'[k].s]] = k
    BY DEF LockDiscipline
  <2>1. CASE k = h
    BY <1>4, <2>1 DEF Answer, TypeOK
  <2>2. CASE k # h /\ pc[k] \in {"locked", "written", "bumped"}
    <3>1. /\ pc'[k] = pc[k] /\ req'[k] = req[k] /\ cur'[k] = cur[k]
      BY <1>4, <2>2 DEF Answer, Commit, TypeOK
    <3>2. rowLock[req[k].s] = k /\ req[k].s \in Secrets /\ cur[k] = sec[req[k].s] /\ Mine(k)
      BY <2>2 DEF LockDiscipline, WriteReady, InTx, Request
    <3>3. req[k].s # s
      BY <1>1, <2>2, <3>2
    <3>4. sec'[req[k].s] = sec[req[k].s]
      BY <1>3, <3>2, <3>3 DEF TypeOK, StoreTypeOK
    <3>5. rowLock'[req[k].s] = k
          /\ (pc[k] = "bumped" => vaultLock'[VaultOf[req[k].s]] = k)
      BY <2>2, <3>2, ReleaseType, VaultOfAssumption DEF Commit, LockDiscipline
    <3> QED BY <3>1, <3>2, <3>4, <3>5 DEF Mine
  <2>3. CASE k # h /\ pc[k] \notin {"locked", "written", "bumped"}
    BY <1>4, <2>3 DEF Answer, TypeOK
  <2> QED BY <2>1, <2>2, <2>3
<1>7. WriteReady'
  BY <1>4 DEF Answer, Commit, WriteReady, TypeOK, InTx, PCs
<1>8. AbsentRows'
  BY <1>1, <1>2, <1>3 DEF AbsentRows, TypeOK, StoreTypeOK
<1>9. ReaderBehind' /\ SkipIsSound'
  <2>1. reader' = reader /\ reader.vault \in Vaults /\ reader.version \in Nat
    BY DEF Commit, TypeOK
  <2>2. CASE reader.vault = VaultOf[s]
    BY <1>1, <1>3, <2>1, <2>2 DEF ReaderBehind, SkipIsSound, TypeOK, StoreTypeOK
  <2>3. CASE reader.vault # VaultOf[s]
    <3>1. vaultVersion'[reader.vault] = vaultVersion[reader.vault]
      BY <1>3, <2>1, <2>3 DEF TypeOK, StoreTypeOK
    <3>2. Listed(reader.vault)' = Listed(reader.vault)
      BY <1>1, <1>3, <2>1, <2>3 DEF Listed, TypeOK, StoreTypeOK
    <3> QED BY <2>1, <3>1, <3>2 DEF ReaderBehind, SkipIsSound
  <2> QED BY <2>2, <2>3
<1> QED BY <1>5, <1>6, <1>7, <1>8, <1>9
\* A request is received: its handler holds no lock yet.
LEMMA ReceiveInv ==
    ASSUME TxInv, NEW h \in Handlers, Receive(h)
    PROVE  TxInv'
<1> USE DEF TxInv
<1>1. PICK r \in Requests :
        /\ req' = [req EXCEPT ![h] = r]
        /\ pc' = [pc EXCEPT ![h] = IF Valid(r) THEN "queued" ELSE "done"]
        /\ reply' = [reply EXCEPT ![h] = IF Valid(r) THEN "none"
                        ELSE IF r.op = "attach" THEN "internal" ELSE "invalid"]
  BY DEF Receive
<1>2. r \in Request
  BY LimitsAssumption DEF Requests, Request
<1>3. TypeOK'
  BY <1>1, <1>2, LimitsAssumption DEF Receive, TypeOK, StoreTypeOK, storeVars, PCs, Replies
<1>4. LockDiscipline'
  BY <1>1 DEF Receive, LockDiscipline, Mine, TypeOK, storeVars
<1>5. WriteReady'
  BY <1>1, <1>2 DEF Receive, WriteReady, TypeOK, InTx
<1>6. AbsentRows' /\ ReaderBehind' /\ SkipIsSound'
  BY DEF Receive, AbsentRows, ReaderBehind, SkipIsSound, Listed, storeVars
<1> QED BY <1>3, <1>4, <1>5, <1>6

\* BEGIN takes a connection, INSERT and SELECT FOR UPDATE the lock on the row,
\* UPDATE secrets runs under it, UPDATE vaults takes the lock on the vault.
LEMMA StatementInv ==
    ASSUME TxInv, NEW h \in Handlers,
           Begin(h) \/ Insert(h) \/ GetForUpdate(h) \/ Write(h) \/ Bump(h)
    PROVE  TxInv'
<1> USE DEF TxInv
<1>1. CASE \E what \in Replies : Refuse(h, what)
  BY <1>1, RefuseInv
<1>2. CASE Begin(h)
  <2>1. TypeOK'
    BY <1>2 DEF Begin, TypeOK, StoreTypeOK, storeVars, PCs, InTx
  <2>2. LockDiscipline' /\ WriteReady'
    BY <1>2 DEF Begin, LockDiscipline, WriteReady, Mine, TypeOK, storeVars, InTx
  <2>3. AbsentRows' /\ ReaderBehind' /\ SkipIsSound'
    BY <1>2 DEF Begin, AbsentRows, ReaderBehind, SkipIsSound, Listed, storeVars
  <2> QED BY <2>1, <2>2, <2>3
<1>3. CASE Insert(h) /\ ~\E what \in Replies : Refuse(h, what)
  <2>1. /\ pc[h] = "open" /\ req[h].op = "create" /\ Mine(h)
        /\ rowLock[req[h].s] = None /\ ~Exists(sec[req[h].s])
        /\ rowLock' = [rowLock EXCEPT ![req[h].s] = h]
        /\ pc' = [pc EXCEPT ![h] = "written"]
        /\ UNCHANGED <<storeVars, vaultLock, req, cur, tries, reply, received, reader>>
    BY <1>3 DEF Insert, Replies
  <2>2. req[h] \in Request /\ req[h].s \in Secrets /\ cur[h] = Absent
        /\ sec[req[h].s] = Absent
    BY <2>1 DEF WriteReady, InTx, Request, AbsentRows
  <2>3. TypeOK'
    BY <2>1, <2>2 DEF TypeOK, StoreTypeOK, storeVars, PCs, InTx
  <2>4. LockDiscipline'
    BY <2>1, <2>2, NoneIsNoHandler DEF LockDiscipline, WriteReady, Mine, TypeOK, storeVars, InTx, Request
  <2>5. WriteReady'
    BY <2>1, <2>2 DEF WriteReady, TypeOK, InTx
  <2>6. AbsentRows' /\ ReaderBehind' /\ SkipIsSound'
    BY <2>1 DEF AbsentRows, ReaderBehind, SkipIsSound, Listed, storeVars
  <2> QED BY <2>3, <2>4, <2>5, <2>6
<1>4. CASE GetForUpdate(h) /\ ~\E what \in Replies : Refuse(h, what)
  <2>1. /\ pc[h] = "open" /\ req[h].op # "create" /\ Mine(h)
        /\ rowLock[req[h].s] = None /\ Exists(sec[req[h].s])
        /\ rowLock' = [rowLock EXCEPT ![req[h].s] = h]
        /\ cur' = [cur EXCEPT ![h] = sec[req[h].s]]
        /\ pc' = [pc EXCEPT ![h] = "locked"]
        /\ UNCHANGED <<storeVars, vaultLock, req, tries, reply, received, reader>>
    BY <1>4 DEF GetForUpdate, Replies
  <2>2. req[h] \in Request /\ req[h].s \in Secrets /\ sec[req[h].s] \in Row
    BY <2>1 DEF WriteReady, InTx, Request, TypeOK, StoreTypeOK
  <2>3. TypeOK'
    BY <2>1, <2>2 DEF TypeOK, StoreTypeOK, storeVars, PCs, InTx
  <2>4. LockDiscipline'
    BY <2>1, <2>2, NoneIsNoHandler DEF LockDiscipline, WriteReady, Mine, TypeOK, storeVars, InTx, Request
  <2>5. WriteReady'
    BY <2>1, <2>2 DEF WriteReady, TypeOK, InTx
  <2>6. AbsentRows' /\ ReaderBehind' /\ SkipIsSound'
    BY <2>1 DEF AbsentRows, ReaderBehind, SkipIsSound, Listed, storeVars
  <2> QED BY <2>3, <2>4, <2>5, <2>6
<1>5. CASE Write(h) /\ ~\E what \in Replies : Refuse(h, what)
  <2>1. /\ pc[h] = "locked" /\ ~cur[h].deleted /\ cur[h].version = req[h].base
        /\ req[h].op = "attach" => req[h].s \in Binary
        /\ pc' = [pc EXCEPT ![h] = "written"]
        /\ UNCHANGED <<storeVars, rowLock, vaultLock, req, cur, tries, reply,
                       received, reader>>
    BY <1>5 DEF Write, Replies
  <2>2. TypeOK'
    BY <2>1 DEF TypeOK, StoreTypeOK, storeVars, PCs, InTx
  <2>3. LockDiscipline'
    BY <2>1 DEF LockDiscipline, Mine, TypeOK, storeVars
  <2>4. WriteReady'
    BY <2>1 DEF WriteReady, Writable, TypeOK, InTx
  <2>5. AbsentRows' /\ ReaderBehind' /\ SkipIsSound'
    BY <2>1 DEF AbsentRows, ReaderBehind, SkipIsSound, Listed, storeVars
  <2> QED BY <2>2, <2>3, <2>4, <2>5
<1>6. CASE Bump(h)
  <2>1. req[h] \in Request /\ VaultOf[req[h].s] \in Vaults
    BY <1>6, VaultOfAssumption DEF Bump, WriteReady, InTx, Request
  <2>2. TypeOK'
    BY <1>6, <2>1 DEF Bump, TypeOK, StoreTypeOK, storeVars, PCs, InTx
  <2>3. LockDiscipline'
    BY <1>6, <2>1, NoneIsNoHandler, VaultOfAssumption
       DEF Bump, LockDiscipline, WriteReady, Mine, TypeOK, storeVars, InTx, Request
  <2>4. WriteReady'
    BY <1>6 DEF Bump, WriteReady, TypeOK, InTx
  <2>5. AbsentRows' /\ ReaderBehind' /\ SkipIsSound'
    BY <1>6 DEF Bump, AbsentRows, ReaderBehind, SkipIsSound, Listed, storeVars
  <2> QED BY <2>2, <2>3, <2>4, <2>5
<1> QED BY <1>1, <1>2, <1>3, <1>4, <1>5, <1>6

\* A failed attempt, an answer that is sent, a crash and the polling client
\* only give things up or read.
LEMMA OtherInv ==
    ASSUME TxInv,
           \/ \E h \in Handlers : Fail(h) \/ Return(h)
           \/ Crash
           \/ \E v \in Vaults : CheckFreshness(v)
           \/ ListRow \/ PollAgain
           \/ UNCHANGED vars
    PROVE  TxInv'
<1> USE DEF TxInv
<1>0. Absent \in Row
  BY DEF Absent, Row
<1>1. ASSUME NEW h \in Handlers, Fail(h) PROVE TxInv'
  <2>1. CASE Answer(h, "internal")
    <3>1. Refuse(h, "internal")
      BY <1>1, <2>1 DEF Fail, Refuse
    <3> QED BY <3>1, RefuseInv DEF Replies
  <2>2. CASE /\ tries[h] + 1 < MaxAttempts
             /\ pc' = [pc EXCEPT ![h] = "queued"]
             /\ cur' = [cur EXCEPT ![h] = Absent]
             /\ tries' = [tries EXCEPT ![h] = @ + 1]
             /\ UNCHANGED reply
    <3>1. ReleaseLocks(h) /\ UNCHANGED <<storeVars, req, received, reader>>
          /\ pc[h] \in {"queued"} \cup InTx
      BY <1>1 DEF Fail
    <3>2. TypeOK'
      BY <1>0, <2>2, <3>1, ReleaseType, LimitsAssumption DEF TypeOK, StoreTypeOK, storeVars, PCs
    <3>3. LockDiscipline'
      BY <2>2, <3>1, ReleaseType, VaultOfAssumption
         DEF LockDiscipline, Mine, TypeOK, storeVars, Request, WriteReady, InTx
    <3>4. WriteReady'
      BY <2>2, <3>1 DEF WriteReady, TypeOK, InTx
    <3>5. AbsentRows' /\ ReaderBehind' /\ SkipIsSound'
      BY <3>1 DEF AbsentRows, ReaderBehind, SkipIsSound, Listed, storeVars
    <3> QED BY <3>2, <3>3, <3>4, <3>5
  <2> QED BY <1>1, <2>1, <2>2 DEF Fail
<1>2. ASSUME NEW h \in Handlers, Return(h) PROVE TxInv'
  <2>1. TypeOK'
    BY <1>2 DEF Return, TypeOK, StoreTypeOK, storeVars, PCs, Replies
  <2>2. LockDiscipline' /\ WriteReady'
    BY <1>2 DEF Return, LockDiscipline, WriteReady, Mine, TypeOK, storeVars, InTx
  <2>3. AbsentRows' /\ ReaderBehind' /\ SkipIsSound'
    BY <1>2 DEF Return, AbsentRows, ReaderBehind, SkipIsSound, Listed, storeVars
  <2> QED BY <2>1, <2>2, <2>3
<1>3. CASE Crash
  <2>1. TypeOK'
    BY <1>0, <1>3, LimitsAssumption DEF Crash, TypeOK, StoreTypeOK, storeVars, PCs, Replies
  <2>2. LockDiscipline' /\ WriteReady'
    BY <1>3 DEF Crash, LockDiscipline, WriteReady, InTx
  <2>3. AbsentRows' /\ ReaderBehind' /\ SkipIsSound'
    BY <1>3 DEF Crash, AbsentRows, ReaderBehind, SkipIsSound, Listed, storeVars
  <2> QED BY <2>1, <2>2, <2>3
<1>4. CASE UNCHANGED <<storeVars, txVars>>
           /\ (\/ \E v \in Vaults : CheckFreshness(v)
               \/ ListRow \/ PollAgain \/ UNCHANGED vars)
  <2>1. LockDiscipline' /\ WriteReady' /\ AbsentRows'
    BY <1>4 DEF LockDiscipline, WriteReady, AbsentRows, Mine, storeVars, txVars
  <2>2. ASSUME reader' \in [at : {"idle", "fresh", "listed"}, vault : Vaults,
                            version : Nat, rows : [Secrets -> Row]]
        PROVE  TypeOK'
    BY <1>4, <2>2 DEF TypeOK, StoreTypeOK, storeVars, txVars
  <2>3. \A v \in Vaults : Listed(v) \in [Secrets -> Row] /\ Listed(v)' = Listed(v)
    BY <1>0, <1>4 DEF Listed, TypeOK, StoreTypeOK, storeVars
  <2>4. ASSUME NEW v \in Vaults, CheckFreshness(v) PROVE TxInv'
    <3>1. reader'.at = "fresh" /\ reader'.vault = v /\ reader'.version = vaultVersion[v]
          /\ vaultVersion[v] \in Nat /\ vaultVersion' = vaultVersion
      BY <2>4 DEF CheckFreshness, TypeOK, StoreTypeOK, storeVars
    <3>2. TypeOK'
      BY <2>2, <2>4, <3>1 DEF CheckFreshness, TypeOK
    <3> QED BY <2>1, <3>1, <3>2 DEF ReaderBehind, SkipIsSound
  <2>5. CASE ListRow
    <3>1. /\ reader'.at = "listed" /\ reader'.vault = reader.vault
          /\ reader'.version = reader.version /\ reader'.rows = Listed(reader.vault)
          /\ reader.at = "fresh" /\ vaultVersion' = vaultVersion /\ reader.vault \in Vaults
      BY <2>5 DEF ListRow, TypeOK, storeVars
    <3>2. TypeOK'
      BY <2>2, <2>3, <2>5 DEF ListRow, TypeOK
    <3> QED BY <2>1, <2>3, <3>1, <3>2 DEF ReaderBehind, SkipIsSound
  <2>6. CASE PollAgain
    <3>1. reader'.at = "idle"
      BY <2>6 DEF PollAgain
    <3>2. TypeOK'
      BY <2>2, <2>6 DEF PollAgain, TypeOK
    <3> QED BY <2>1, <3>1, <3>2 DEF ReaderBehind, SkipIsSound
  <2>7. CASE UNCHANGED vars
    <3>1. reader' = reader /\ vaultVersion' = vaultVersion
      BY <2>7 DEF vars, storeVars
    <3>2. TypeOK' /\ reader.vault \in Vaults
      BY <2>2, <3>1 DEF TypeOK
    <3> QED BY <2>1, <2>3, <3>1, <3>2 DEF ReaderBehind, SkipIsSound
  <2> QED BY <1>4, <2>4, <2>5, <2>6, <2>7
<1> QED BY <1>1, <1>2, <1>3, <1>4 DEF CheckFreshness, ListRow, PollAgain, vars

\* Every step keeps the invariant.
LEMMA NextInv == TxInv /\ [Next]_vars => TxInv'
BY ReceiveInv, StatementInv, CommitInv, OtherInv DEF Next, Step

\* The whole inductive invariant: types, the lock protocol of the
\* transactions (LockDiscipline), and what passed the checks (WriteReady).
THEOREM TxInvariant == Spec => []TxInv
<1>1. Init => TxInv
  BY InitInv
<1>2. TxInv /\ [Next]_vars => TxInv'
  BY NextInv
<1> QED BY <1>1, <1>2, PTL DEF Spec

\* The types of the transaction state.
THEOREM TypeCorrect == Spec => []TypeOK
<1>1. TxInv => TypeOK
  BY DEF TxInv
<1> QED BY <1>1, TxInvariant, PTL

\* FOR UPDATE makes check and write one step (see LockDiscipline).
THEOREM LocksHeld == Spec => []LockDiscipline
<1>1. TxInv => LockDiscipline
  BY DEF TxInv
<1> QED BY <1>1, TxInvariant, PTL

\* The client's rule "same vault version, no ListRow" never misses a change.
THEOREM FreshnessSound == Spec => []SkipIsSound
<1>1. TxInv => SkipIsSound
  BY DEF TxInv
<1> QED BY <1>1, TxInvariant, PTL

\* Between its check and its COMMIT a handler's write stays admitted by the optimistic lock
\* against the row as committed at that moment (see WriteAdmitted): the row it checked is
\* still the committed one, because its lock is held.
THEOREM WritesAdmitted == Spec => []WriteAdmitted
<1>1. ASSUME TxInv, NEW h \in Handlers, pc[h] \in {"written", "bumped"}
      PROVE  IF req[h].op = "create" THEN ~Exists(sec[req[h].s])
             ELSE Writable(sec[req[h].s], req[h].base)
  <2>1. cur[h] = sec[req[h].s]
    BY <1>1 DEF TxInv, LockDiscipline
  <2>2. IF req[h].op = "create" THEN cur[h] = Absent ELSE Writable(cur[h], req[h].base)
    BY <1>1 DEF TxInv, WriteReady
  <2> QED BY <2>1, <2>2 DEF Exists, Absent
<1>2. TxInv => WriteAdmitted
  BY <1>1 DEF WriteAdmitted
<1> QED BY <1>2, TxInvariant, PTL

\* The committed state changes at a COMMIT and nowhere else.
LEMMA OnlyCommitWrites ==
    ASSUME [Next]_vars
    PROVE  UNCHANGED storeVars \/ \E h \in Handlers : Commit(h)
<1>1. ASSUME NEW h \in Handlers,
             Receive(h) \/ Fail(h) \/ Begin(h) \/ Insert(h) \/ GetForUpdate(h)
             \/ Write(h) \/ Bump(h) \/ Return(h)
      PROVE UNCHANGED storeVars
  BY <1>1 DEF Receive, Fail, Begin, Insert, GetForUpdate, Write, Bump, Return,
              Refuse, storeVars
<1>2. CASE Crash \/ (\E v \in Vaults : CheckFreshness(v)) \/ ListRow \/ PollAgain
  BY <1>2 DEF Crash, CheckFreshness, ListRow, PollAgain, storeVars
<1>3. CASE UNCHANGED vars
  BY <1>3 DEF vars
<1> QED BY <1>1, <1>2, <1>3 DEF Next, Step

\* The transactions implement the atomic store: whatever the interleaving,
\* the retries, failed statements, lost answers and crashes, every visible
\* change is one operation admitted by the optimistic lock, with its bump.
THEOREM ImplementsStore == Spec => StoreSpec
<1>1. Init => StoreInit
  BY DEF Init
<1>2. TxInv /\ [Next]_vars => [StoreNext]_storeVars
  BY OnlyCommitWrites, CommitIsStoreStep
<1> QED BY <1>1, <1>2, TxInvariant, PTL DEF Spec, StoreSpec

\* No step changes a secret of a vault its request's user does not own: the
\* ownership checked by IsOwner or by the join of GetForUpdate still covers the
\* row that COMMIT makes visible.
THEOREM OwnersOnly == Spec => OwnWritesOnly
<1> DEFINE Owned == \A s \in Secrets : sec'[s] # sec[s] =>
                        \E h \in Handlers : /\ pc[h] # "idle" /\ req[h].s = s
                                            /\ OwnerOf[VaultOf[s]] = req[h].user
<1>1. TxInv /\ [Next]_vars => [Owned]_vars
  <2> SUFFICES ASSUME TxInv, [Next]_vars PROVE Owned
    OBVIOUS
  <2>1. CASE UNCHANGED storeVars
    BY <2>1 DEF storeVars
  <2>2. ASSUME NEW h \in Handlers, Commit(h) PROVE Owned
    <3>1. /\ pc[h] = "bumped" /\ Mine(h)
          /\ sec' = [sec EXCEPT ![req[h].s] = NewRow(req[h], cur[h])]
      BY <2>2 DEF Commit, Put, TxInv, LockDiscipline
    <3>2. \A s \in Secrets : sec'[s] # sec[s] => s = req[h].s
      BY <3>1 DEF TxInv, TypeOK, StoreTypeOK
    <3> QED BY <3>1, <3>2 DEF Mine
  <2> QED BY <2>1, <2>2, OnlyCommitWrites
<1> QED BY <1>1, TxInvariant, PTL DEF Spec, OwnWritesOnly
============================================================================
