---------------------------- MODULE AccountKeys ----------------------------
(***************************************************************************)
(* The master key of an account: who generates it, who wraps it, who holds *)
(* it.  The server keeps it wrapped by a key derived from the passphrase   *)
(* (users.enc_kdf_salt, users.enc_master_key) and by recovery codes; every *)
(* vault key is wrapped by it; a client process holds it in its session,   *)
(* and wrapped by a PIN.  A device caches salt and wrapped key in SQLite,  *)
(* next to the account's id and its vaults, and keeps the tokens.          *)
(*                                                                         *)
(* A process is the TUI or one CLI command.  Its jobs are the use cases of *)
(* client/usecase/auth and client/usecase/vault, one step per RPC, SQL     *)
(* statement or slow key derivation; the TUI's screens decide which job    *)
(* may start and what its result leads to.                                 *)
(*                                                                         *)
(* A key is a number, Zeroed is the slice Lock has overwritten.  A wrapped *)
(* key opens with the passphrase and the salt it was made with.            *)
(***************************************************************************)
EXTENDS Naturals, FiniteSets

CONSTANTS
    Users, Passwords,
    Devices, Procs, Tui,  \* processes; those that are a TUI
    DeviceOf,             \* the device whose files a process uses
    Slots,                \* jobs a TUI may run side by side
    Commands,             \* commands given on the CLI
    Impatient,            \* are keys pressed while a job is running?
    CodeCount,            \* recovery codes of one set
    MaxUnlockAttempts,
    MaxJobs, MaxFailures, MaxLostReplies, MaxKills,
    None

ASSUME Wiring ==
    /\ Tui \subseteq Procs
    /\ DeviceOf \in [Procs -> Devices]
    /\ Commands \subseteq {"register", "login", "setup", "recover", "vault"}
    /\ Impatient \in BOOLEAN

ASSUME Bounds ==
    /\ CodeCount \in Nat \ {0}
    /\ {MaxUnlockAttempts, MaxJobs, MaxFailures, MaxLostReplies, MaxKills} \subseteq Nat

\* A key wrapped by a passphrase; the row of an account.
Wrapped == [key : Nat, pass : Passwords, salt : Nat]
EncRows == [salt : Nat, enc : Wrapped \cup {None}]

ASSUME NoneApart ==
    /\ None \notin Users /\ None \notin Passwords /\ None \notin Nat
    /\ None \notin Wrapped /\ None \notin EncRows

VARIABLES
    account,  \* users: the row of KDF salt and wrapped key, None: not registered
    codes,    \* recovery_codes
    vaults,   \* vaults.wrapped_vault_key: the master keys that wrap them
    kv,       \* SQLite kv: account id, salt, wrapped key
    cache,    \* SQLite vaults
    tok,      \* token store: whose tokens
    mem,      \* UseCase.encKDFSalt, encMasterKey
    mk, pin,  \* Session: master key, key wrapped by the PIN
    ui,       \* the screen and the state of the lock screen
    job,
    paper,    \* codes shown to the user
    serial,   \* source of fresh keys, salts and codes
    left

server == <<account, codes, vaults>>
disk == <<kv, cache, tok>>
session == <<mk, pin>>
vars == <<server, disk, mem, session, ui, job, paper, serial, left>>

Zeroed == 0
EmptyRow == [salt |-> 0, enc |-> None]
EmptyKV == [user |-> None, salt |-> 0, enc |-> None]

\* EncryptionConfigured, on a row known from the server, memory or the cache.
EncryptionConfigured(row) == row.salt # 0 /\ row.enc # None

\* UnwrapVaultKey with the key derived from pass and salt.
Opens(enc, pass, salt) == enc # None /\ enc.pass = pass /\ enc.salt = salt

Idle == [at |-> "idle", cmd |-> None, op |-> None, user |-> None, row |-> EmptyRow,
         key |-> None, alias |-> FALSE, pass |-> None, code |-> None, list |-> {},
         ok |-> FALSE]

\* newLockModel asks for the PIN if there is one; the other screens as they open.
NewLock(pinned) == [screen |-> "lock", attempts |-> 0,
                       mode |-> IF pinned THEN "PIN" ELSE "password"]
Screen(s) == [screen |-> s, attempts |-> 0, mode |-> "password"]

\* StartScreen: lock if the cache knows the wrapped key, login otherwise.
StartScreen(row) == IF EncryptionConfigured(row) THEN NewLock(FALSE) ELSE Screen("login")

\* LoadCachedEncryption: the three values or nothing.
Cached(d) ==
    LET row == [salt |-> kv[d].salt, enc |-> kv[d].enc]
    IN IF EncryptionConfigured(row) THEN row ELSE EmptyRow

Init ==
    /\ account = [u \in Users |-> None]
    /\ codes = [u \in Users |-> {}]
    /\ vaults = [u \in Users |-> {}]
    /\ kv = [d \in Devices |-> EmptyKV]
    /\ cache = [d \in Devices |-> {}]
    /\ tok = [d \in Devices |-> None]
    /\ mem = [p \in Procs |-> EmptyRow]
    /\ mk = [p \in Procs |-> None]
    /\ pin = [p \in Procs |-> None]
    /\ ui = [p \in Procs |-> Screen("login")]
    /\ job = [p \in Procs |-> [i \in Slots |-> Idle]]
    /\ paper = [u \in Users |-> {}]
    /\ serial = 0
    /\ left = [jobs |-> MaxJobs, failures |-> MaxFailures,
               replies |-> MaxLostReplies, kills |-> MaxKills]

Spend(what) == left[what] > 0 /\ left' = [left EXCEPT ![what] = @ - 1]

---------------------------------------------------------------------------
(* Session: keys are handed out and kept without copying, and overwritten  *)
(* in place, so a job that holds the session's slice sees the zeroes.      *)

\* Lock (pins too) and SoftLock, on the jobs given.
Locked(js) == [i \in Slots |-> IF js[i].alias
                                 THEN [js[i] EXCEPT !.key = Zeroed, !.alias = FALSE]
                                 ELSE js[i]]

SoftLock(p) == mk' = [mk EXCEPT ![p] = None] /\ UNCHANGED pin

Lock(p) == mk' = [mk EXCEPT ![p] = None] /\ pin' = [pin EXCEPT ![p] = None]

\* SetMasterKey by job i: the session's former slice is nobody's but its holders'.
SetMasterKey(p, key) == mk' = [mk EXCEPT ![p] = key] /\ UNCHANGED pin

Detached(js, i) == [k \in Slots |-> IF js[i].alias \/ k = i THEN js[k]
                                     ELSE [js[k] EXCEPT !.alias = FALSE]]

---------------------------------------------------------------------------
(* Moving a job on.                                                        *)

Put(p, i, j) == job' = [job EXCEPT ![p][i] = j]
Goto(p, i, at) == Put(p, i, [job[p][i] EXCEPT !.at = at])

\* The job's function returns: nil or an error.
Return(p, i, ok) == Put(p, i, [job[p][i] EXCEPT !.at = "message", !.ok = ok])

\* One RPC: executed and answered, not executed, or executed and not answered.
Rpc(effect, answered, failed) ==
    \/ effect /\ answered /\ UNCHANGED left
    \/ UNCHANGED server /\ failed /\ Spend("failures")
    \/ effect /\ failed /\ Spend("replies")

At(p, i, at) == job[p][i].at = at

---------------------------------------------------------------------------
(* The server.                                                             *)

\* Register: INSERT INTO users, refused if the login is taken.
CreateUser(u) == account' = [account EXCEPT ![u] = EmptyRow] /\ UNCHANGED <<codes, vaults>>

\* Login and RefreshToken find the user or fail.
Known(u) == u # None /\ account[u] # None

\* UpdateEncKDF replaces the row, whatever it was, in one statement.
UpdateEncKDF(u, row) == account' = [account EXCEPT ![u] = row] /\ UNCHANGED <<codes, vaults>>

\* StoreRecoveryCodes: DELETE, then an INSERT per code, not in a transaction;
\* n of them are done.
StoreCodes(u, set, key, n) ==
    /\ codes' = [codes EXCEPT ![u] = {[set |-> set, nr |-> k, key |-> key, used |-> FALSE] : k \in 1..n}]
    /\ UNCHANGED <<account, vaults>>

IsCode(r, code) == r.set = code.set /\ r.nr = code.nr

\* GetBlob: the row of the code if it is not used.
GetBlob(u, code) == {r \in codes[u] : IsCode(r, code) /\ ~r.used}

MarkUsed(u, code) ==
    /\ codes' = [codes EXCEPT ![u] = {IF IsCode(r, code) THEN [r EXCEPT !.used = TRUE] ELSE r : r \in @}]
    /\ UNCHANGED <<account, vaults>>

InsertVault(u, key) == vaults' = [vaults EXCEPT ![u] = @ \cup {key}] /\ UNCHANGED <<account, codes>>

---------------------------------------------------------------------------
(* Register, Login, Refresh                                                *)

\* Register: ends with the tokens, the set-up is another operation.
Register(p, i) ==
    LET u == job[p][i].user
    IN /\ At(p, i, "register")
       /\ IF account[u] = None
            THEN Rpc(CreateUser(u), Goto(p, i, "reconcile"), Return(p, i, FALSE))
            ELSE Return(p, i, FALSE) /\ UNCHANGED <<server, left>>
       /\ UNCHANGED <<disk, mem, session, ui, paper, serial>>

\* Login and Refresh: the answer carries the account's row.
Login(p, i) ==
    LET u == IF At(p, i, "login") THEN job[p][i].user ELSE tok[DeviceOf[p]]
    IN /\ At(p, i, "login") \/ At(p, i, "refresh")
       /\ IF Known(u)
            THEN Rpc(UNCHANGED server,
                     Put(p, i, [job[p][i] EXCEPT !.at = "reconcile", !.user = u, !.row = account[u]]),
                     Return(p, i, FALSE))
            ELSE Return(p, i, FALSE) /\ UNCHANGED <<server, left>>
       /\ UNCHANGED <<disk, mem, session, ui, paper, serial>>

\* Mutant: the wipe is forgotten.
ReconcileKeepsCache(p, i) ==
    /\ At(p, i, "reconcile")
    /\ Goto(p, i, IF kv[DeviceOf[p]].user \notin {None, job[p][i].user} THEN "forget" ELSE "remember")
    /\ UNCHANGED <<server, disk, mem, session, ui, paper, serial, left>>

\* reconcileAccount: a cache of another account is wiped before anything else.
Reconcile(p, i) ==
    LET d == DeviceOf[p]
    IN /\ At(p, i, "reconcile")
       /\ IF kv[d].user \notin {None, job[p][i].user}
            THEN /\ kv' = [kv EXCEPT ![d] = EmptyKV]
                 /\ cache' = [cache EXCEPT ![d] = {}]
                 /\ Goto(p, i, "forget")
            ELSE Goto(p, i, "remember") /\ UNCHANGED <<kv, cache>>
       /\ UNCHANGED <<server, tok, mem, session, ui, paper, serial, left>>

\* After a wipe the session is locked and the row in memory dropped; then, as
\* without a wipe, the account's id is remembered.
Forget(p, i) ==
    /\ At(p, i, "forget")
    /\ Lock(p)
    /\ mem' = [mem EXCEPT ![p] = EmptyRow]
    /\ job' = [job EXCEPT ![p] = [Locked(@) EXCEPT ![i].at = "remember"]]
    /\ UNCHANGED <<server, disk, ui, paper, serial, left>>

Remember(p, i) ==
    /\ At(p, i, "remember")
    /\ kv' = [kv EXCEPT ![DeviceOf[p]].user = job[p][i].user]
    /\ Goto(p, i, "saveTokens")
    /\ UNCHANGED <<server, cache, tok, mem, session, ui, paper, serial, left>>

\* tokens.Save; Login and Refresh then take the row of the answer.
SaveTokens(p, i) ==
    LET j == job[p][i]
    IN /\ At(p, i, "saveTokens")
       /\ tok' = [tok EXCEPT ![DeviceOf[p]] = j.user]
       /\ IF j.op = "register"
            THEN Return(p, i, TRUE) /\ UNCHANGED mem
            ELSE mem' = [mem EXCEPT ![p] = j.row] /\ Goto(p, i, "cacheSalt")
       /\ UNCHANGED <<server, kv, cache, session, ui, paper, serial, left>>

\* persistEncryption: nothing if not configured, else a statement per value.
AfterPersist == [login |-> "prefetch", setup |-> "genKey", refresh |-> "message"]

CacheSalt(p, i) ==
    LET j == job[p][i]
    IN /\ At(p, i, "cacheSalt")
       /\ IF EncryptionConfigured(mem[p])
            THEN /\ kv' = [kv EXCEPT ![DeviceOf[p]].salt = mem[p].salt]
                 /\ Goto(p, i, "cacheEnc")
            ELSE Put(p, i, [j EXCEPT !.at = AfterPersist[j.op], !.ok = TRUE]) /\ UNCHANGED kv
       /\ UNCHANGED <<server, cache, tok, mem, session, ui, paper, serial, left>>

CacheEnc(p, i) ==
    LET j == job[p][i]
    IN /\ At(p, i, "cacheEnc")
       /\ kv' = [kv EXCEPT ![DeviceOf[p]].enc = mem[p].enc]
       /\ Put(p, i, [j EXCEPT !.at = AfterPersist[j.op], !.ok = TRUE])
       /\ UNCHANGED <<server, cache, tok, mem, session, ui, paper, serial, left>>

VaultsOf(u) == {[user |-> u, key |-> k] : k \in vaults[u]}

\* prefetchVaultMeta: the vaults are listed and cached, an error is ignored.
Prefetch(p, i) ==
    /\ At(p, i, "prefetch")
    /\ \/ /\ Put(p, i, [job[p][i] EXCEPT !.at = "cacheList", !.list = VaultsOf(job[p][i].user)])
          /\ UNCHANGED left
       \/ Return(p, i, TRUE) /\ Spend("failures")
    /\ UNCHANGED <<server, disk, mem, session, ui, paper, serial>>

---------------------------------------------------------------------------
(* SetupEncryption and GenerateRecoveryCodes                               *)

\* Mutant: every set-up generates a key.
ReadKeyFresh(p, i) ==
    /\ At(p, i, "readKey")
    /\ Put(p, i, [job[p][i] EXCEPT !.at = "wrap", !.key = serial + 1])
    /\ serial' = serial + 1
    /\ UNCHANGED <<server, disk, mem, session, ui, paper, left>>

\* The key of the session is used again, without one a key is generated.
ReadKey(p, i) ==
    /\ At(p, i, "readKey")
    /\ Put(p, i, [job[p][i] EXCEPT !.at = "wrap",
                                   !.key = IF mk[p] # None THEN mk[p] ELSE serial + 1,
                                   !.alias = mk[p] # None])
    /\ serial' = serial + 1
    /\ UNCHANGED <<server, disk, mem, session, ui, paper, left>>

\* After Argon2id: the key is wrapped under a new salt, the tokens are loaded.
Wrap(p, i) ==
    LET j == job[p][i]
        u == tok[DeviceOf[p]]
    IN /\ At(p, i, "wrap")
       /\ serial' = serial + 1
       /\ IF u = None
            THEN Return(p, i, FALSE)
            ELSE Put(p, i, [j EXCEPT !.at = "setup", !.user = u,
                                     !.row = [salt |-> serial + 1,
                                              enc |-> [key |-> j.key, pass |-> j.pass, salt |-> serial + 1]]])
       /\ UNCHANGED <<server, disk, mem, session, ui, paper, left>>

\* Mutant: the error of the RPC is ignored.
SetupIgnoresError(p, i) ==
    LET j == job[p][i]
    IN /\ At(p, i, "setup")
       /\ Rpc(UpdateEncKDF(j.user, j.row), TRUE, TRUE)
       /\ SetMasterKey(p, j.key)
       /\ mem' = [mem EXCEPT ![p] = j.row]
       /\ job' = [job EXCEPT ![p] = [Detached(@, i) EXCEPT ![i].at = "cacheSalt", ![i].alias = FALSE]]
       /\ UNCHANGED <<disk, ui, paper, serial>>

\* After the RPC the session and the memory take key and row.
SetupEncryption(p, i) ==
    LET j == job[p][i]
    IN /\ At(p, i, "setup")
       /\ Rpc(UpdateEncKDF(j.user, j.row),
              /\ SetMasterKey(p, j.key)
              /\ mem' = [mem EXCEPT ![p] = j.row]
              /\ job' = [job EXCEPT ![p] = [Detached(@, i) EXCEPT ![i].at = "cacheSalt",
                                                                 ![i].alias = FALSE]],
              Return(p, i, FALSE) /\ UNCHANGED <<session, mem>>)
       /\ UNCHANGED <<disk, ui, paper, serial>>

GenKey(p, i) ==
    /\ At(p, i, "genKey")
    /\ IF mk[p] = None
         THEN Return(p, i, TRUE)
         ELSE Put(p, i, [job[p][i] EXCEPT !.at = "wrapCodes", !.key = mk[p], !.alias = TRUE])
    /\ UNCHANGED <<server, disk, mem, session, ui, paper, serial, left>>

\* tokens.Load, then every code wraps the key.  From here the entries are the
\* request's, no longer the session's slice.
WrapCodes(p, i) ==
    /\ At(p, i, "wrapCodes")
    /\ Put(p, i, [job[p][i] EXCEPT !.at = "storeCodes", !.user = tok[DeviceOf[p]],
                                   !.code = serial + 1, !.alias = FALSE])
    /\ serial' = serial + 1
    /\ UNCHANGED <<server, disk, mem, session, ui, paper, left>>

\* The codes are shown if all is well; else the set-up ends without codes, with
\* none, some or all of them stored.
StoreRecoveryCodes(p, i) ==
    LET j == job[p][i]
        Stored(n) == StoreCodes(j.user, j.code, j.key, n)
    IN /\ At(p, i, "storeCodes")
       /\ \/ Rpc(Stored(CodeCount),
                 /\ paper' = [paper EXCEPT ![j.user] = {[set |-> j.code, nr |-> k] : k \in 1..CodeCount}]
                 /\ Put(p, i, [j EXCEPT !.at = "message", !.op = "codes", !.ok = TRUE]),
                 Return(p, i, TRUE) /\ UNCHANGED paper)
          \/ /\ \E n \in 0..(CodeCount - 1) : Stored(n)
             /\ Return(p, i, TRUE) /\ UNCHANGED paper
             /\ Spend("failures")
       /\ UNCHANGED <<disk, mem, session, ui, serial>>

---------------------------------------------------------------------------
(* RecoverWithCode                                                         *)

\* The blob of the code; the code itself opens it.
GetRecoveryBlob(p, i) ==
    LET j == job[p][i]
        rows == IF j.user = None THEN {} ELSE GetBlob(j.user, j.code)
    IN /\ At(p, i, "getBlob")
       /\ \/ \E r \in rows : Rpc(UNCHANGED server,
                                 Put(p, i, [j EXCEPT !.at = "markUsed", !.key = r.key]),
                                 Return(p, i, FALSE))
          \/ rows = {} /\ Return(p, i, FALSE) /\ UNCHANGED <<server, left>>
       /\ UNCHANGED <<disk, mem, session, ui, paper, serial>>

\* MarkRecoveryCodeUsed, whose error is ignored, and the key goes to the session.
MarkRecoveryCodeUsed(p, i) ==
    LET j == job[p][i]
    IN /\ At(p, i, "markUsed")
       /\ \/ MarkUsed(j.user, j.code) /\ UNCHANGED left
          \/ UNCHANGED server /\ Spend("failures")
       /\ SetMasterKey(p, j.key)
       /\ job' = [job EXCEPT ![p] = [Detached(@, i) EXCEPT ![i].at = "message", ![i].ok = TRUE]]
       /\ UNCHANGED <<disk, mem, ui, paper, serial>>

---------------------------------------------------------------------------
(* Unlock, UnlockWithPIN, SetPIN                                           *)

\* The salt was read before Argon2id, the wrapped key is read after it.
Unlock(p, i) ==
    LET j == job[p][i]
    IN /\ At(p, i, "unlock")
       /\ IF Opens(mem[p].enc, j.pass, j.row.salt)
            THEN /\ SetMasterKey(p, mem[p].enc.key)
                 /\ job' = [job EXCEPT ![p] = [Detached(@, i) EXCEPT ![i].at = "message", ![i].ok = TRUE]]
            ELSE Return(p, i, FALSE) /\ UNCHANGED session
       /\ UNCHANGED <<server, disk, mem, ui, paper, serial, left>>

\* The PIN material was copied before Argon2id; the PIN may be wrong.
UnlockWithPIN(p, i) ==
    /\ At(p, i, "unlockPIN")
    /\ \/ /\ job[p][i].key # None
          /\ SetMasterKey(p, job[p][i].key)
          /\ job' = [job EXCEPT ![p] = [Detached(@, i) EXCEPT ![i].at = "message", ![i].ok = TRUE]]
       \/ Return(p, i, FALSE) /\ UNCHANGED session
    /\ UNCHANGED <<server, disk, mem, ui, paper, serial, left>>

\* The session's slice is wrapped after Argon2id; a PIN too short is refused.
SetPIN(p, i) ==
    /\ At(p, i, "setPIN")
    /\ \/ /\ job[p][i].key # None
          /\ pin' = [pin EXCEPT ![p] = job[p][i].key]
          /\ Return(p, i, TRUE)
       \/ Return(p, i, FALSE) /\ UNCHANGED pin
    /\ UNCHANGED <<server, disk, mem, mk, ui, paper, serial, left>>

---------------------------------------------------------------------------
(* Vaults                                                                  *)

\* Create up to the RPC: nothing blocks between the key and the wrapping.
NewVault(p, i) ==
    LET u == tok[DeviceOf[p]]
    IN /\ At(p, i, "newVault")
       /\ IF mk[p] = None \/ u = None
            THEN Return(p, i, FALSE)
            ELSE Put(p, i, [job[p][i] EXCEPT !.at = "createVault", !.key = mk[p], !.user = u])
       /\ UNCHANGED <<server, disk, mem, session, ui, paper, serial, left>>

CreateVault(p, i) ==
    LET j == job[p][i]
    IN /\ At(p, i, "createVault")
       /\ Rpc(InsertVault(j.user, j.key), Goto(p, i, "cacheVault"), Return(p, i, FALSE))
       /\ UNCHANGED <<disk, mem, session, ui, paper, serial>>

CacheVault(p, i) ==
    LET j == job[p][i]
    IN /\ At(p, i, "cacheVault")
       /\ cache' = [cache EXCEPT ![DeviceOf[p]] = @ \cup {[user |-> j.user, key |-> j.key]}]
       /\ Return(p, i, TRUE)
       /\ UNCHANGED <<server, kv, tok, mem, session, ui, paper, serial, left>>

\* List up to the answer.
ListVaults(p, i) ==
    LET u == tok[DeviceOf[p]]
    IN /\ At(p, i, "listVaults")
       /\ \/ /\ mk[p] # None /\ u # None
             /\ Put(p, i, [job[p][i] EXCEPT !.at = "cacheList", !.key = mk[p], !.alias = TRUE,
                                            !.user = u, !.list = VaultsOf(u)])
             /\ UNCHANGED left
          \/ /\ mk[p] = None \/ u = None
             /\ Return(p, i, FALSE) /\ UNCHANGED left
          \/ Return(p, i, FALSE) /\ Spend("failures")
       /\ UNCHANGED <<server, disk, mem, session, ui, paper, serial>>

\* The upserts of one answer: List skips what its key does not open.
CacheList(p, i) ==
    LET j == job[p][i]
    IN /\ At(p, i, "cacheList")
       /\ cache' = [cache EXCEPT ![DeviceOf[p]] =
                       @ \cup {v \in j.list : j.op = "list" => v.key = j.key}]
       /\ IF j.op = "list" THEN Goto(p, i, "prune") ELSE Return(p, i, TRUE)
       /\ UNCHANGED <<server, kv, tok, mem, session, ui, paper, serial, left>>

\* pruneStaleVaults: what the answer did not list goes.
PruneStaleVaults(p, i) ==
    /\ At(p, i, "prune")
    /\ cache' = [cache EXCEPT ![DeviceOf[p]] = @ \cap job[p][i].list]
    /\ Return(p, i, TRUE)
    /\ UNCHANGED <<server, kv, tok, mem, session, ui, paper, serial, left>>

---------------------------------------------------------------------------
(* The TUI                                                                 *)

\* The job a use case starts with, and what it reads at once.
Begin(p, cmd, op, u, pass, code) ==
    LET d == DeviceOf[p]
        first == [register |-> "register", login |-> "login", refresh |-> "refresh",
                  setup |-> "readKey", recover |-> "getBlob", unlock |-> "unlock",
                  unlockPIN |-> "unlockPIN", setPIN |-> "setPIN",
                  vault |-> "newVault", list |-> "listVaults"]
    IN [Idle EXCEPT !.at = first[op], !.cmd = cmd, !.op = op, !.pass = pass, !.code = code,
                    !.user = IF op = "recover" THEN tok[d] ELSE u,
                    !.row = IF op = "unlock" THEN mem[p] ELSE EmptyRow,
                    !.key = CASE op = "unlockPIN" -> pin[p] [] op = "setPIN" -> mk[p] [] OTHER -> None,
                    !.alias = op = "setPIN" /\ mk[p] # None]

\* maxUnlockAttempts failures freeze the lock screen.
Cold(p) == ui[p].attempts >= MaxUnlockAttempts

\* Which jobs enter starts on the screen shown.
Offered(p) ==
    CASE ui[p].screen = "login" -> {"login", "register"}
      [] ui[p].screen = "setup" -> {"setup"}
      [] ui[p].screen = "dashboard" -> {"vault", "list"}
      [] ui[p].screen = "lock" /\ ~Cold(p) ->
            {[PIN |-> "unlockPIN", setPIN |-> "setPIN",
              recovery |-> "recover", password |-> "unlock"][ui[p].mode]}
      [] OTHER -> {}

Quiet(p) == \A i \in Slots : At(p, i, "idle")
KeyPress(p) == p \in Tui /\ (Impatient \/ Quiet(p))

\* The inputs of an operation: account, passphrase and code typed.
Inputs(op) ==
    [user : IF op \in {"login", "register"} THEN Users ELSE {None},
     pass : IF op \in {"setup", "unlock"} THEN Passwords ELSE {None},
     code : IF op = "recover" THEN UNION {paper[u] : u \in Users} ELSE {None}]

Enter(p) ==
    /\ KeyPress(p)
    /\ Spend("jobs")
    /\ \E i \in Slots, op \in Offered(p) :
          /\ At(p, i, "idle")
          /\ \E in \in Inputs(op) : Put(p, i, Begin(p, "tui", op, in.user, in.pass, in.code))
    /\ UNCHANGED <<server, disk, mem, session, ui, paper, serial>>

Show(p, screen) == ui' = [ui EXCEPT ![p] = screen]

\* The keys of the lock screen: tab changes between PIN and passphrase, ctrl+r
\* asks for a code, esc refuses the PIN or leaves for another account.
LockKey(p) ==
    /\ KeyPress(p)
    /\ ui[p].screen = "lock" /\ ~Cold(p)
    /\ \/ /\ pin[p] # None /\ ui[p].mode # "setPIN"
          /\ ui' = [ui EXCEPT ![p].mode = IF @ = "PIN" THEN "password" ELSE "PIN"]
          /\ UNCHANGED <<session, job>>
       \/ ui' = [ui EXCEPT ![p].mode = "recovery"] /\ UNCHANGED <<session, job>>
       \/ ui[p].mode = "setPIN" /\ Show(p, Screen("dashboard")) /\ UNCHANGED <<session, job>>
       \/ /\ ui[p].mode # "setPIN"
          /\ Show(p, Screen("login"))
          /\ Lock(p) /\ job' = [job EXCEPT ![p] = Locked(@)]
    /\ UNCHANGED <<server, disk, mem, paper, serial, left>>

\* The dashboard: lock, and log out, which leaves the tokens where they are.
DashboardKey(p) ==
    /\ KeyPress(p)
    /\ ui[p].screen = "dashboard"
    /\ job' = [job EXCEPT ![p] = Locked(@)]
    /\ \/ SoftLock(p) /\ Show(p, NewLock(pin[p] # None))
       \/ Lock(p) /\ Show(p, Screen("login"))
    /\ UNCHANGED <<server, disk, mem, paper, serial, left>>

\* The screen of the recovery codes is left for the dashboard.
CodesKey(p) ==
    /\ KeyPress(p)
    /\ ui[p].screen = "codes"
    /\ Show(p, Screen("dashboard"))
    /\ UNCHANGED <<server, disk, mem, session, job, paper, serial, left>>

\* The timer asks no one.
AutoLock(p) ==
    /\ p \in Tui
    /\ ui[p].screen \notin {"login", "lock", "setup"}
    /\ SoftLock(p)
    /\ job' = [job EXCEPT ![p] = Locked(@)]
    /\ Show(p, NewLock(pin[p] # None))
    /\ UNCHANGED <<server, disk, mem, paper, serial, left>>

\* Operations that end in unlockSuccessMsg (a set-up does when it has no codes).
Unlocking == {"setup", "unlock", "unlockPIN"}

LoginUpdate(p, j) ==
    CASE j.ok /\ j.op = "login" ->
            IF EncryptionConfigured(mem[p]) THEN NewLock(pin[p] # None) ELSE Screen("setup")
      [] j.ok /\ j.op = "register" -> Screen("setup")
      [] OTHER -> ui[p]

SetupUpdate(p, j) == IF j.ok /\ j.op \in Unlocking THEN Screen("dashboard") ELSE ui[p]

\* The frozen screen ignores all.  Who unlocks with the passphrase is offered a
\* PIN; every failure of the screen's operations counts.
LockUpdate(p, j) ==
    IF Cold(p) THEN ui[p] ELSE
    CASE j.ok /\ j.op \in Unlocking ->
            IF pin[p] = None /\ ui[p].mode = "password"
              THEN [ui[p] EXCEPT !.attempts = 0, !.mode = "setPIN"]
              ELSE Screen("dashboard")
      [] j.ok /\ j.op = "setPIN" -> Screen("dashboard")
      [] ~j.ok /\ j.op \in {"unlock", "unlockPIN", "setPIN", "recover"} ->
            [ui[p] EXCEPT !.attempts = @ + 1]
      [] OTHER -> ui[p]

\* App.Update: the App itself handles the switch to the set-up and the codes; the
\* other messages go to the screen shown when they arrive.
Update(p, j) ==
    IF j.ok /\ j.op = "recover" THEN Screen("setup")
    ELSE IF j.op = "codes" THEN Screen("codes")
    ELSE CASE ui[p].screen = "login" -> LoginUpdate(p, j)
           [] ui[p].screen = "setup" -> SetupUpdate(p, j)
           [] ui[p].screen = "lock" -> LockUpdate(p, j)
           [] OTHER -> ui[p]

\* The last attempt locks the session as well.
Message(p, i) ==
    LET new == Update(p, job[p][i])
        done == [job[p] EXCEPT ![i] = Idle]
    IN /\ p \in Tui
       /\ At(p, i, "message")
       /\ Show(p, new)
       /\ IF new.attempts >= MaxUnlockAttempts /\ ~Cold(p)
            THEN Lock(p) /\ job' = [job EXCEPT ![p] = Locked(done)]
            ELSE UNCHANGED session /\ job' = [job EXCEPT ![p] = done]
       /\ UNCHANGED <<server, disk, mem, paper, serial, left>>

---------------------------------------------------------------------------
(* The CLI and the end of a process                                        *)

\* What remains of a process: nothing in memory.
Exit(p) ==
    /\ mk' = [mk EXCEPT ![p] = None]
    /\ pin' = [pin EXCEPT ![p] = None]
    /\ job' = [job EXCEPT ![p] = [i \in Slots |-> Idle]]

Command(p, i) ==
    /\ p \notin Tui /\ Quiet(p)
    /\ Spend("jobs")
    /\ \E cmd \in Commands :
          LET op == IF cmd \in {"recover", "vault"} THEN "refresh" ELSE cmd
          IN \E in \in Inputs(op) : Put(p, i, Begin(p, cmd, op, in.user, in.pass, in.code))
    /\ UNCHANGED <<server, disk, mem, session, ui, paper, serial>>

\* What a command does after an operation that succeeded.  A set-up may be
\* declined, except by recover; who never sets up on the CLI declines.
Offer == IF "setup" \in Commands THEN {"setup", None} ELSE {None}

Following(p, j) ==
    CASE j.op = "register" -> Offer
      [] j.op = "login" -> IF EncryptionConfigured(mem[p]) THEN {"unlock"} ELSE Offer
      [] j.op = "refresh" /\ j.cmd = "recover" -> {"recover"}
      [] j.op = "refresh" /\ j.cmd = "vault" -> IF EncryptionConfigured(mem[p]) THEN {"unlock"} ELSE {None}
      [] j.op = "recover" -> {"setup"}
      [] j.op = "unlock" /\ j.cmd = "vault" -> {"vault"}
      [] OTHER -> {None}

\* ensureUnlocked: without the server the cached row will do.
NextOp(p, i) ==
    LET j == job[p][i]
    IN /\ p \notin Tui
       /\ At(p, i, "message")
       /\ \/ /\ j.ok
             /\ \E op \in Following(p, j) \ {None} : \E in \in Inputs(op) :
                   Put(p, i, Begin(p, j.cmd, op, in.user, in.pass, in.code))
             /\ UNCHANGED <<mem, session>>
          \/ /\ ~j.ok \/ None \in Following(p, j)
             /\ Exit(p)
             /\ mem' = [mem EXCEPT ![p] = EmptyRow]
          \/ /\ ~j.ok /\ j.op = "refresh" /\ j.cmd = "vault"
             /\ EncryptionConfigured(Cached(DeviceOf[p]))
             /\ mem' = [mem EXCEPT ![p] = Cached(DeviceOf[p])]
             /\ Put(p, i, [j EXCEPT !.ok = TRUE])
             /\ UNCHANGED session
       /\ UNCHANGED <<server, disk, ui, paper, serial, left>>

\* A process ends (ctrl+c, kill); the TUI is started again.
Kill(p) ==
    /\ Spend("kills")
    /\ Exit(p)
    /\ LET row == IF p \in Tui THEN Cached(DeviceOf[p]) ELSE EmptyRow
       IN mem' = [mem EXCEPT ![p] = row] /\ Show(p, StartScreen(row))
    /\ UNCHANGED <<server, disk, paper, serial>>

---------------------------------------------------------------------------
Accounts(p, i) ==
    \/ Register(p, i) \/ Login(p, i) \/ Reconcile(p, i) \/ Forget(p, i) \/ Remember(p, i)
    \/ SaveTokens(p, i) \/ CacheSalt(p, i) \/ CacheEnc(p, i) \/ Prefetch(p, i)

Keys(p, i) ==
    \/ ReadKey(p, i) \/ Wrap(p, i) \/ SetupEncryption(p, i)
    \/ GenKey(p, i) \/ WrapCodes(p, i) \/ StoreRecoveryCodes(p, i)
    \/ GetRecoveryBlob(p, i) \/ MarkRecoveryCodeUsed(p, i)
    \/ Unlock(p, i) \/ UnlockWithPIN(p, i) \/ SetPIN(p, i)

Vaults(p, i) ==
    \/ NewVault(p, i) \/ CreateVault(p, i) \/ CacheVault(p, i) \/ ListVaults(p, i)
    \/ CacheList(p, i) \/ PruneStaleVaults(p, i)

Next ==
    \E p \in Procs :
        \/ \E i \in Slots :
              Accounts(p, i) \/ Keys(p, i) \/ Vaults(p, i) \/ Message(p, i) \/ Command(p, i) \/ NextOp(p, i)
        \/ Enter(p) \/ LockKey(p) \/ DashboardKey(p) \/ CodesKey(p) \/ AutoLock(p) \/ Kill(p)

Spec == Init /\ [][Next]_vars

---------------------------------------------------------------------------
\* The types of tables, files, sessions and screens.
TypeOK ==
    /\ account \in [Users -> EncRows \cup {None}]
    /\ \A u \in Users : codes[u] \subseteq [set : Nat, nr : 1..CodeCount, key : Nat, used : BOOLEAN]
    /\ \A u \in Users : vaults[u] \subseteq Nat
    /\ kv \in [Devices -> [user : Users \cup {None}, salt : Nat, enc : Wrapped \cup {None}]]
    /\ \A d \in Devices : cache[d] \subseteq [user : Users, key : Nat]
    /\ tok \in [Devices -> Users \cup {None}]
    /\ mem \in [Procs -> EncRows]
    /\ mk \in [Procs -> Nat \cup {None}]
    /\ pin \in [Procs -> Nat \cup {None}]
    /\ ui \in [Procs -> [screen : {"login", "lock", "setup", "dashboard", "codes"},
                         attempts : 0..MaxUnlockAttempts,
                         mode : {"password", "PIN", "setPIN", "recovery"}]]
    /\ serial \in Nat

\* The master key an account's row wraps.
Opened(u, key) == account[u] # None /\ account[u].enc # None /\ account[u].enc.key = key

\* Every vault key on the server is wrapped by the master key the account's row
\* holds: a change of the passphrase replaces the wrapping, never the key
\* (setup_encryption.go), so all vaults stay readable.
VaultKeysValid == \A u \in Users : \A k \in vaults[u] : Opened(u, k)

\* Every recovery code that is not used gives back the master key of its
\* account, through later set-ups, failed ones and codes stored in part.
RecoveryWorks == \A u \in Users : \A r \in codes[u] : r.used \/ Opened(u, r.key)

\* The key in a session, or wrapped by its PIN, is the key of the account whose
\* tokens the process uses: reconcileAccount locks before the tokens change.
SessionOwn ==
    \A p \in Procs : \A k \in {mk[p], pin[p]} \ {None} :
        tok[DeviceOf[p]] # None /\ Opened(tok[DeviceOf[p]], k)

\* The cached vaults belong to the account the cache is marked with: ciphertexts
\* of two master keys are never mixed (usecase.go, reconcileAccount).
NoMixing == \A d \in Devices : \A v \in cache[d] : v.user = kv[d].user
=============================================================================
