# GophKeeper: a verification project

GophKeeper is a password manager: a gRPC server on PostgreSQL (and MinIO for
files) stores ciphertexts, clients keep a SQLite cache and an outbox, work
offline, and synchronise several devices of one user. This directory holds
TLA+ models of the parts that make that hard, the TLC runs that check them on
small instances and TLAPS proofs for all instances.

`PROJECT.json` is the index: components, runs, the source lines behind every
definition, hazards, findings and theorems.

## 1. The system

| Part | State | Operations | What makes it hard |
|---|---|---|---|
| Server, secrets (`server/usecase/secret`, `infra/postgres`) | table `secrets` (version, deleted, three ciphertexts, blob), `vaults.version` | Create, Update, Delete, AttachBlob in a transaction with retries; ListRow, ListIndex, GetPayload, CheckFreshness | concurrent transactions, lock waits, retries, lost COMMIT answers |
| Client cache and outbox (`client/localstore`) | tables `secrets`, `outbox`, `vaults.synced_version` | one SQL statement each, no transactions | several goroutines and processes on one file, a kill between statements |
| Client secret use cases (`client/usecase/secret`) | none of their own | createTyped, updateTyped, DeleteSecret, ConflictFromOutbox, GenericResolveConflict, LoadIndexes, payloadCiphertext | an RPC that may have been executed although it failed, sequences of statements, re-encryption per version |
| Client sync (`client/usecase/sync`) | none of its own | ReplayOutbox, Sync, SyncWithProgress | order of replayed edits, what the pull may overwrite, what it may skip |
| TUI: dashboard (`tui/dashboard*.go`) | folders, tabs, table, popups; `backgroundSyncing`, `progressCh` | keys, commands that answer with messages, a background sync every 30 s | messages in any order, on another screen, after the state they answer to is gone |
| TUI: form and conflict card (`tui/secret_form_view.go`, `conflict_view.go`) | mode, focus, fields, snapshot, `saving`; the version the form was filled from | open, edit, save, toggle a code, delete, resolve | late messages, another device that writes, a lock that comes in between |
| CLI | none | single calls of the use cases | a second process on the same files |
| Files (`usecase/secret/binary.go`, server `usecase/blob`) | objects in MinIO, staged copies, entries of the outbox | CreateBinary, UploadBlob, AttachBlob, DownloadBinary, the queued retry | five goroutines joined by two pipes and a stream, retries that overlap |
| Accounts and keys (`usecase/auth` on both sides, `client/session`) | users with salt and wrapped master key, recovery codes; session with master key and PIN; `kv` cache | Register, Login, Refresh, SetupEncryption, GenerateRecoveryCodes, RecoverWithCode, Unlock, SetPIN, UnlockWithPIN | several steps that may fail half-way, key slices shared with running jobs, a change of accounts |
| Tokens (`client/keyring`, `pkg/jwt`) | keyring and file, a mutex per process | Load with automatic refresh, Save | a mutex held over a call, a store shared by processes |
| Folders (`usecase/vault` on both sides, `usecase/sync`) | `vaults` on both sides, `sync_enabled`, `synced_version`, `sync.scope_chosen` | create, list, prune, switch on and off, choose the scope | lists and flags that are stale when used |
| Server process (`server/app`, `grpcserver`) | hashing slots, running handlers, the phase of the stop | Register, Login, RefreshToken, other calls, streams, shutdown | cancelled waiters, waiting for streams |

How they interact: every screen or command calls a use case, which calls the
server through `grpcclient` (whose `mapErr` turns gRPC codes into errors) and
the SQLite store. The server's handlers run concurrently; each write is
`TxManager.Do` around `GetForUpdate`, the write, and `BumpVaultVersion`. A
client learns of other devices' writes by `CheckFreshness` (the vault versions)
and `ListRow`. What a client cannot send it queues in the outbox;
`ReplayOutbox` sends it later; a version conflict is marked and shown to the
user as a card with the choices "mine" and "server".

What has to hold: the server's optimistic lock is atomic; the vault version
tells of every write; a user's change is executed, queued or reported as
failed; a stored ciphertext is always decryptable under the version stored next
to it; no change silently replaces content its author did not see; the queue
drains; a client whose vault version is current shows what the server has; an
account has one master key for life, under which all its vaults are wrapped and
which its recovery codes give back; no session or cache mixes two accounts; a
download is the whole file or an error and nobody waits for ever at a pipe; a
form never replaces content that was not on it; the background sync never dies
out and never blocks; tokens are renewed one at a time; a hashing slot is given
back exactly once; a folder counts as synchronised only with its rows.

## 2. Modules

| Module | Models | Notes |
|---|---|---|
| `SecretStore` | what the server promises | abstract: each write is one step |
| `SecretTx` | the server's transactions | extends `SecretStore`; refines `StoreSpec` |
| `SecretTxProofs` | theorems about `SecretTx` | |
| `LocalStore` | the SQLite statements on secrets and outbox | pure operators |
| `OfflineSync` | devices, jobs, network | extends `LocalStore`, instantiates `SecretStore` as its server |
| `AccountKeys` | accounts, master keys, sessions, screens of both clients | stands alone: it shares no state with the secrets |
| `VaultScope` | which folders a device knows and pulls | stands alone; the pull inside a folder is `OfflineSync`'s |
| `BlobTransfer` | the file of one binary secret | stands alone; a row is its version and `blob_ref` |
| `ServerProcess` | tokens, the hashing semaphore, handlers, the stop | |
| `TokenStore` | the tokens of one device | extends `ServerProcess`: its calls are that server's handlers |
| `AccountKeysProofs`, `TokenStoreProofs`, `VaultScopeProofs`, `BlobTransferProofs`, `DashboardProofs`, `SecretFormProofs` | theorems about the module of that name | |
| `OfflineSyncProofs` | theorems about `OfflineSync`: what can be decrypted, what is replaced, that no change is lost and no pull misses one | |
| `Positions` | the part of a sequence that a loop keeps | pure operator, of `SecretTable` and `SecretForm` |
| `SecretTable` | `dashboardTableModel` | pure operators |
| `Dashboard` | the dashboard and its background sync | extends `SecretTable` |
| `SecretForm` | the form, the conflict card, the switching of screens | stands alone |
| `MC...` | constants for TLC, one for each module that is run | |

Every module states its type invariant `TypeOK`. Those of `SecretTx`, `OfflineSync`,
`AccountKeys`, `TokenStore`, `VaultScope` and `BlobTransfer` are proved, that of `SecretForm`
without its bounds, and `server_tx` checks its own; in the other runs the properties that could go wrong take its place.

### SecretStore and SecretTx

`sec` is the table `secrets` (version 0: no row), `vaultVersion` the column
`vaults.version`. In `SecretTx` every handler walks through
idle, queued (waiting for a connection), open (BEGIN), locked (the row read
`FOR UPDATE` is in `cur`), written, bumped, done. `Insert`, `GetForUpdate`,
`Write` and `Bump` are one SQL statement each with the checks in front of it.
The transaction's writes become visible at `Commit`, so `sec` and
`vaultVersion` hold the committed state; `rowLock` and `vaultLock` are the row
locks held to the end of the transaction (PostgreSQL, READ COMMITTED; the lock
on an id also stands for the wait on an uncommitted INSERT of the same primary
key). `Fail` is any failure of BEGIN, a statement or COMMIT, or a cancelled
context: `withRetry` runs the whole transaction again, at most `MaxAttempts`
times, or the handler answers Internal. `Commit` may take effect while its
answer is lost. `Crash` is the death of the server. `reader` is a client that
polls: `CheckFreshness`, `ListRow`, and again only when the version moved.

An id belongs to one vault (`VaultOf`), chosen when the client creates it. The
blob of a secret is a reference only; the object store is not modelled here.

### LocalStore and OfflineSync

A ciphertext is `[w, version]`: the write it encrypts and the version in its
AAD (`aad.go`); the three tiers of one write are three copies of it. The model
keeps of AEAD that a ciphertext opens only under its own version. The outbox is a set
of rows; what lists it does so by id (`IsFirst`), ids are given out upwards.

A thread of a device runs one job; a job is where it is (`at`), its data, and
`todo`, the SQL statements it still has to execute. The steps:

- `Create`, `UpdateOrDelete`: the user's change starts (`createTyped`,
  `updateTyped`, `DeleteSecret`; `MarkOTPCodeUsed` is an update whose conflict
  the user cannot take, which is the same as leaving the card). `Send` makes
  the RPC; `AfterSend` is what each answer leads to: success writes the cache,
  `ErrUnavailable` (or an expired token) writes cache and outbox, a conflict
  opens a card, any other error is shown and the change is given up.
- `OpenEntry`, `ConflictFromOutbox`: the user opens an entry, which sends it
  once more. `ChoiceMine` re-encrypts for the server's version and sends
  (`AfterRetryUpdate`, `AfterRetryDelete`), `ChoiceServer` writes the cache,
  `LeaveCard` gives up. After an error on a card the model returns to idle; the
  user may open the entry again.
- `StartReplay`, `ReplayEntry`: `ReplayOutbox` over the list read at its start.
- `CheckFreshness`, `ReadSyncedVersion`, `ListSecretRows`, `ReadPending`,
  `ReadConflicts`: `Sync` up to the list of upserts it will execute, the last
  statement being `SetVaultSyncedVersion`.
- `ListSecretIndex`, `GetPayload`, `GetSecretPayload`: lazy tiers.
- `Statement` executes one SQL statement; `Crash` kills all processes of a
  device between two steps.

`Call` is one writing RPC: the server's verdict, or a failure as offline or
internal, before the effect or after it. Reads may fail at any time.

`left` counts the bounds down; `log` is history: which writes were asked for,
reported as saved, given up or refused with an error, executed, and executed
over content their author had not seen.

### AccountKeys

The server's state is `account` (salt and wrapped key of a user), `codes` (the
recovery codes: the key they wrap, used or not) and `vaults` (the master keys
that wrap the vault keys). A device has `kv` (account id, salt, wrapped key),
`cache` (vaults) and `tok` (whose tokens); a process has `mem` (the fields of
`UseCase`), the session (`mk`, `pin`) and, if it is a TUI, a screen.

A key is a number; a wrapped key is a record of the key, the passphrase and the
salt, and opens with those two. `Zeroed` is the slice after `Lock`: the session
hands out its slice, so a job has a flag `alias` while its key is the session's
own, and `Locked` turns such keys into zeroes. The slow key derivations are the
points where this matters: a job reads the key in one step and uses it in the
next.

A job is one use case, one step per RPC, SQL statement or derivation:
`Register`/`Login` (and `Refresh`), `Reconcile`, `Forget`, `Remember`,
`SaveTokens`, `CacheSalt`, `CacheEnc`, `Prefetch`; `ReadKey`, `Wrap`,
`SetupEncryption`, then `GenKey`, `WrapCodes`, `StoreRecoveryCodes`;
`GetRecoveryBlob`, `MarkRecoveryCodeUsed`; `Unlock`, `UnlockWithPIN`, `SetPIN`;
`NewVault`, `CreateVault`, `CacheVault`; `ListVaults`, `CacheList` (its upserts
are one step), `PruneStaleVaults`. When the function returns, the job waits at
`message`: in a TUI `Message` gives the result to the screen that is shown *then*
(`App.Update`), on the CLI `NextOp` goes on with the command or ends the process.
Keys pressed are `Enter`, `LockKey`, `DashboardKey`; `AutoLock` is the timer;
`Kill` ends a process, and the TUI starts again from its cache.

Left out: the login credential and its hash (a login as u succeeds for whoever
types it), the tokens' life time and automatic refresh (`TokenStore`), failing
SQLite statements, the vault keys opened in the session, `kvAccountLogin`. The KDF
parameters go with the salt.

### VaultScope

`server` and `rows` name the content of a folder by the server's version: on the
server, and in the device's table `secrets`. `cache` is the table `vaults`
(`synced_version`, `sync_enabled`), `chosen` the entry `sync.scope_chosen`,
`screen` what the dashboard and its popups keep. A goroutine runs one command,
one step per call or SQL statement: `ListCall`, `ListUpsert`, the read of the flag
and the pruning (`vault.List`), `ListLocal`, `CreateCall`/`CreateUpsert`, the
engine from `CheckFreshness` over `vaultMap`, `needsVaultMeta` and
`refreshVaultMeta` to the pull of each folder in `ToSync`, `ToggleWrite`
(settings), `ConfirmVault`/`MarkSyncScopeChosen` (popup). Its last step is the
message it answers with. `OtherDevice` creates folders and writes into them.

### BlobTransfer

A job (`CreateBinary`, or one of two `ReplayOutbox`) has an upload `up`: `enc` is the
frame the encrypting goroutine holds out to its pipe, `sent`, `half` and `cut` the
stream, `srv` the server's handler and `rcv` its receiving goroutine, `got` what
`PutObject` has read. Each pipe is a rendezvous: a writer blocks until the reader
takes its frame (`SendChunk`, `ReadPipe`), and a reader sees the end when the writer
has closed (`PipeClosed`). The goroutine goes on when its handler has returned. Streams
break, and the disk, the database, the object store or the encoder fail; `PutChunk` may
fail at any moment, before the data or in the middle of them. The secret is edited or deleted
beside the transfer, the client is killed. An upload that its client and its handler
have both left is forgotten. `staged` and `outbox` are the copy and the entries that
a retry needs; `object` is what the bucket holds under the one key every upload of
the secret uses, and the history `torn` says that a shorter object has replaced a whole
one since. A download fixes the version its chunks must be bound to (`ver`) before the
stream opens, then reads the object and opens its chunks in order: a chunk opens under
its number, the mark of the last one and the version it was sealed with (`frame.go`,
`stream_aead.go`).

### ServerProcess and TokenStore

A handler goes through authentication, the queue for `passwordHashSem`, hashing and
the database, or receives a stream its client feeds (`Fed`) and that may stall.
`Signal`, `Stop` (waits for every handler), `CloseDB`, `Exit` are `Run` and `shutdown`.
A token is the pair it came with; `now` decides what is expired.

A job of the client runs a use case: `Lock` takes the mutex of `AutoRefreshStore`, a
pair that is about to expire is renewed by a call with a deadline and saved, the
mutex is given back, the call is made. `Login`, `Register` and the CLI's refresh
`Save` without the mutex, as in the code. `keyring` and `file` are shared by the
processes; the keyring may answer at one call and not at the next.

### SecretTable, Dashboard and SecretForm

Bubble Tea runs keys and messages one at a time and each command on a goroutine of
its own. A key is therefore one step that may put commands into a bag; a command
reads or writes and becomes a message in the bag; a message is handled, in any
order, by the screen that is shown then, or dropped.

`SecretTable` is `dashboardTableModel` as operators from table to table: setting the
target, loading, the local filter, the cursor, reveal. `Dashboard` adds the folders,
tabs, popups and the background sync: `ticks` are timers, a run of
`launchBackgroundSync` is its goroutine (`held` messages in the channel) and the
command that reads the channel. Runs are alike: a new one takes any free place.

`SecretForm` has the fields as values that differ or not, `seen` (the version the
fields were read from, a history the code does not keep apart from `version`) and
`start` (what they held when editing began). `RunCommand` is the use case against
the server's rows `sec`; `Around` is the other device, the background sync, the lock
and the dashboard.

## 3. Runs

The longest passing run takes about four minutes on two cores.

| Run | Instance | Shows |
|---|---|---|
| `server_tx` | 2 handlers, 1 binary secret, 2 users, pool of 2, 2 attempts, 3 requests | refinement of `StoreSpec`, lock discipline, ownership, soundness of skipping by version |
| `server_live` | 2 handlers, 2 secrets in one vault, pool of 2, 2 requests, fairness | every request is answered |
| `sync_offline` | 2 devices, 3 changes, 2 lost requests, 1 resolution | no change is dropped, no blind overwrite of synchronised content, complete pulls |
| `sync_crash` | 2 devices, 3 changes, 1 kill, 1 lost request, no resolution | saved changes survive, the half-written cache decrypts |
| `sync_threads` | 1 device, a user thread and a background sync, 3 changes, 2 lost requests, 1 lost answer, 1 resolution, fairness | no change is dropped and tiers decrypt under interleaved statements; the queue drains |
| `account_keys` | TUI on a laptop, CLI (login, recover, vault create) on a phone, 2 accounts, 2 passphrases, 6 operations, 1 failed call, 1 kill, 2 attempts | one master key per account, usable codes, no mixing of accounts |
| `blob_transfer` | 1 creator, 2 replays, 1 download, a file of 2 chunks, a stream that holds 1 frame, 2 faults, 1 edit | honest downloads, a reference only over an object that was whole, a failed upload can be repeated unless another has torn the object, nobody stuck but in two places |
| `secret_form` | 2 secrets, 3 types, 1 extra field or code, 2 commands and messages under way, 4 changes | no unseen overwrite, no lost question before leaving, focus, an answer to every save |
| `dashboard` | 3 secrets in 2 folders, 2 tabs, channel of 1, 2 chains of the sync, 2 commands and messages, 3 acts | the sync goes on and is read, cursors and table fit what is shown |
| `tokens` | 3 handlers, 2 slots, 2 goroutines of a TUI and a CLI command, 1 user, life times of 2, threshold 1, clock to 2, 3 acts, flaky keyring | renewals in order, the mutex moves, exact slots, a stop only streams hold up |
| `vault_scope` | 1 folder, 2 goroutines, versions to 2, 1 sync at a time, 3 acts, 1 failure, fairness | synchronised means pulled, only the user moves the flag, folders appear and catch up |
| `scope_ignored` | 2 folders, 2 goroutines, no failure | violation: see below |

Why the bounds are enough for the questions: three changes of one secret give
a create, an offline edit and a concurrent one, or two chained offline edits
against a third; two lost requests let both sides be offline; one kill or one
lost answer can fall on every step. Secrets are independent but for the order
of the queue, so one secret carries the conflicts; two secrets appear where
they share a lock (`server_live`). A file of two chunks has a first and a last
one, and either can be lost; two replays beside the creator give every overlap of retries. Two
commands or messages under way give every reordering of a pair, and the properties
of the screens speak of one answer and what overtook it. Three handlers on two
slots make one wait. In `vault_scope` the folders do not interact but for the popup
(`scope_ignored` has two); versions to 2 separate "pulled", "pulled an older state"
and "not pulled". Symmetry is used for handlers, devices, replays, accounts and
passphrases, in safety runs only.

`account_keys` gives six operations to two processes: set up, lock, change of
account, recovery with a new passphrase and a vault fit in. Its constants name
what it leaves out, because the code does not survive it (see below): keys
pressed while a job runs (`Impatient`), two jobs of one TUI (`Slots`), CLI set-ups
of a configured account (`Commands`), TUI and CLI on one device (`DeviceOf`), lost
answers (`MaxLostReplies`).

`secret_form` and `dashboard` check for deadlock: a screen always takes a key. The
other configurations say `CHECK_DEADLOCK FALSE`: with the bounds used up, or nobody
asking for anything, these systems rest.

Fairness. `server_live` assumes strong fairness of a handler's own steps: the
Go scheduler runs every goroutine, PostgreSQL grants row locks and the pool
its connections to waiters in order. Failures and requests are not fair.
`sync_threads` assumes that the dashboard starts a replay again and again
(`backgroundSyncTick`, every 30 s; strong, because the thread does other jobs
in between) and that a started job goes on. The latter assumes that a call of the outbox
or the pull ends: gRPC ends it when the connection breaks, but the calls carry no
deadline of their own (only the renewal of a token does, `autorefresh.go:76`), so a
server that accepts a call and never answers is outside of `Drains`. Streams of
files are not part of it. Users and the network owe nothing beyond the bound on lost requests. `vault_scope` assumes
that goroutines run and messages are handled (weak), and that a background sync is
started again (weak; that its timer never dies out is `SyncAlive` of `Dashboard`).

### What the runs found

`scope_ignored` checks what the code's own comments say of the popup of the first
start: "по умолчанию всё включено" (`dashboard_syncscope.go:23`) and, for Esc, "всё
включено по умолчанию" (`dashboard.go:647`). TLC finds it violated. Every path that
caches a folder first (login, list, refresh of the metadata) inserts it with
`sync_enabled` false, the popup shows all boxes checked whatever the flags say, and
`confirm` only switches the unchecked ones off: a folder left checked stays off and
is never pulled.

The models show more that no run is spent on. Where a property names an exception,
it is one of these.

Secrets and synchronisation:

- Of two chained offline edits the first conflicts, the second has the base the
  other device just created and is accepted over content its author never saw
  (`outbox_replay.go:28`), although the repository's `README.md:25` speaks of explicit conflict
  resolution. `NoBlindOverwrite` leaves out edits of a dirty row (`onDirty`).
- Nothing removes a cached row the server no longer lists (`engine.go:128`),
  although a soft delete is there to synchronise deletions (`migrations`, add_secrets).
- The outbox is written after the call and only when it failed (`generic.go:86`): a
  kill during the call loses the change, against the repository's `README.md:104`. `NothingLost`
  leaves those out (`log.killed`).
- An entry answered with NotFound or Internal stops every replay behind it
  (`outbox_replay.go:38`), against the repository's `README.md:24`: `Blocked` in `Drains`.
- The entry that `retryOutboxUpdate` replaces is removed before its replacement
  is inserted (`conflict_from_outbox.go:222`): a kill in between loses a change
  that was reported as saved. `sync_crash` therefore sets `MaxResolves = 0`; with
  1, `SavedIsDurable` is violated.
- A kill between the cache row and the outbox entry of an offline edit
  (`update.go:25`) leaves a row marked dirty without an entry: the edit was never
  reported as saved, but the device shows it, and no pull replaces it while the
  vault's version stands still. `PullComplete` is therefore not part of
  `sync_crash`; with lost answers instead of lost requests it holds there.
- A card opened before a background pull and answered with "server" after it
  puts the older row over the newer one, and the vault version then keeps Sync
  away. `PullComplete` is therefore checked with one thread per device.
- A replay upserts only the row tier (`outbox_replay.go:98`): over a cached row of
  the same version it leaves another write's index and payload, and after an
  offline delete it lists the secret again until the delete itself is replayed.
- An update that was executed and whose answer was lost is replayed into a
  conflict with itself, although `conflict_from_outbox.go:13` speaks of a race
  with another client.
- `ChoiceServer` leaves the entry of the outbox in status conflict
  (`generic.go:41`): the conflict is shown again, and Sync keeps skipping the
  secret, although `engine.go:145` speaks of skipping until it is resolved.

Folders:

- Two syncs at a time (Init and Refresh start one without setting
  `backgroundSyncing`) can put the older rows under the newer `synced_version`: with
  `MaxSyncs = 2` `SyncedIsPulled` is violated.
- The first sync may run before the scope is chosen (`dashboard.go:119`, `121`).
- A list between the call and the upsert of `Create` caches the folder with its flag
  off, and the upsert leaves it off (`create.go:54`, whose comment says on).
- Pruning against an older list removes a folder that was just created; it comes back
  with the next list, without its flag (`list.go:82`).
- Two presses of space start two writes that may reach the database in the other
  order (`dashboard_settings.go:106`).

Files:

- When the call fails while the encoder still has data, nobody closes the read end of
  the client's pipe and `uploadBinaryData` waits for ever (`binary.go:116`, `117`): `Hung`.
- When `UploadChunked` fails early (`upload.go:22`, or `PutObject` in `28`), the handler
  returns, nobody closes the read end of the server's pipe, and the receiving goroutine
  waits for ever in `pw.Write` (`blob_service.go:42`, `56`): `Leaked`. These two are the
  exceptions of `NobodyStuck`.
- A failing encoder closes its pipe as a finished one does (`binary.go:140`), the stream is
  closed, and the server stores the short object under the key of the secret
  (server `usecase.go:27`). Two syncs may upload the staged copy at a time: one is attached
  and removes copy and entry, the other's encoder fails, and its short object replaces
  the whole one. Its own call reports an error, and the file is lost, although
  `binary.go:86` keeps the copy so that the outbox can repeat a failed upload. This is `torn`,
  the exception of `FailedUploadIsQueued`; downloads of it fail (`DownloadHonest`).
- `Lock` and the timer overwrite the vault keys in place (`session.go:83`), also the
  slice an upload still encrypts with. Not modelled.
- Marking a code of a binary secret as used raises its version; `AttachBlob` with the
  first version then conflicts for ever and the entry stays in the queue.
- No object is ever deleted: every retry and every deleted secret leaves one.
- A kill between the creation of the secret and the entry leaves a staged file that
  nothing sends.
- `AttachBlob` leaves the version alone (`queries/secrets.sql:63`), although
  `attach_blob.go:18` says it increases it.

The screens:

- The server's side of an old card is put into the cache whatever the cache has by then
  (`generic.go:42`, `secret_repo.go:16`). A dashboard with newer rows then opens the older
  content under the newer version (`secret_form_view.go:1419`), and a save replaces what
  nobody saw: `log.back`, the exception of `NoUnseenOverwrite`. It takes seven changes,
  more than `secret_form` has; it came up in looking for an invariant to prove.
- After "n" at the question before leaving, the discarded fields stay in the form, and
  a later toggle of a code stores them (`secret_form_view.go:699`, `751`); a conflict of
  the toggle is ignored (`750`).
- Ctrl+S pressed twice on a new secret creates two (`996`); a changed binary secret is
  reported as saved and not written (`1094`).
- `rowsLoadedMsg` does not say which folder it is for: a slow reload fills the table of
  another tab until the next one (`dashboard_table.go:237`); `copyCurrent` may copy what
  was revealed of another row (`301`).
- `syncDoneMsg` of a manual sync is dropped on another screen and "syncing" stays
  (`dashboard.go:302`); a late `switchScreenMsg` leaves the lock screen (`app.go:108`).

Accounts, tokens, the server:

- `setup-encryption` in a new process has no key in its session, generates one and
  replaces the account's (`setup_encryption.go:28`, against the repository's `README.md:113`). Nothing
  asks whether the account is configured: two devices that log in before the first
  set-up each generate a key, and so does a retry after a lost answer. `account_keys`
  leaves those commands and lost answers out.
- With `Impatient = TRUE`: Esc during the key derivation of `SetPIN` leads to the
  dashboard, and a lock there (key or timer) zeroes the slice `SetPIN` holds: the
  PIN then wraps zeroes (`SessionOwn`). Two slots: Enter pressed twice on the set-up
  screen runs two first set-ups (`VaultKeysValid`). An unlock that finishes after Esc
  opens the session again (`lock_view.go:98`).
- A CLI login as another user, beside a running TUI on the same device, switches
  the tokens under the session: the next codes wrap the former account's key. `Save`
  takes no lock, so a renewal in flight may also put the former account's pair back
  (`login_view.go:144`).
- The error of `MarkRecoveryCodeUsed` is ignored (`recovery.go:107`): the code can
  be used again.
- Log out locks the session and leaves the tokens, although the comment in
  `dashboard.go:638` says that they are cleared.
- A kill inside `persistEncryption` leaves a salt that does not belong to the
  cached key: no offline unlock until the next login.
- A stream whose client neither sends nor leaves holds the stop up without end, although
  `lifecycle.go:48` speaks of a limit: the exception of `StopNotStuck`.

### Mutants

Every property of a passing run has a mutant: a definition next to the one it
replaces, changed as a plausible bug would change it (its comment starts with
"Mutant:"). TLC finds the property violated in the mutated model.

## 4. Proofs

Every theorem holds for all values of the constants within the named assumptions of
its module. The pattern is the same everywhere: the property is not inductive, so
an invariant says what the states in between hold; one lemma per group of actions
shows that a step keeps it; the theorems about the properties follow from it.

### SecretTxProofs: the server's transactions

- `TxInvariant`: `Spec => []TxInv`. `LockDiscipline` alone is not inductive: a
  handler past its checks needs to know that its row is still the committed
  one, that the request is well formed, that the row it read passed the optimistic
  lock (`WriteReady`), that a missing row is the empty record (`AbsentRows`), and the
  reader's version is not ahead of the vault's (`ReaderBehind`).
- `TypeCorrect`, `LocksHeld`, `WritesAdmitted`, `FreshnessSound`: its parts
  that the run checks. `WriteAdmitted` speaks of the committed row: until its COMMIT,
  what a handler has written is admitted against what the others have committed. It
  needs both halves, the check of the row that was read and the lock that keeps that row
  the committed one.
- `OwnersOnly`: no step changes a secret of another user's vault.
- `ImplementsStore`: `Spec => StoreSpec`. COMMIT is the atomic write; the
  invariant supplies the guard of the abstract operation (the committed row is
  the row checked). Every other step leaves `sec` and `vaultVersion` alone.

### OfflineSyncProofs: what is stored, replaced, kept and pulled

- `SyncTypeInvariance`, `SyncTypeOK`, `StoredIsDecryptable`. A row is written by
  statements that were planned steps earlier, so `SyncType` types not only the
  tables but everything a job still holds: the statements in `todo`, entries being
  replayed, cards, listed rows, each with its ciphertext under the version it will be
  stored with. `Decryptable` is what this says of the tables.
- `SeenInvariance`, `NothingOverwrittenUnseen`. A base version stands for content:
  `SeenInv` says of every change, entry, card, listed row, clean cached row and
  pending statement that whoever holds the version the server has now knows the
  content the server has now. A write admitted by the optimistic lock therefore
  replaces what its author saw. Changes made on a dirty row are left out, as in the
  property.
- `KeptInvariance`, `NoChangeLost`. Each change is settled (executed, refused, or
  its process killed before it was stored), or has a keeper: a job that will not end
  without it, or an entry. The hard part are the statements that remove an entry, which
  were planned before other threads moved on: `JobKept` says of each that the change
  of the entry is kept by somebody else (a younger entry, or the job itself, which
  queues it anew). Ids only grow, so an id never comes to mean another change.
- `SavedStaysDurable`, under `MaxResolves = 0 \/ MaxCrashes = 0`. With an opened
  conflict and a kill `SavedIsDurable` is false of the code (section 3), so the theorem
  says exactly what remains: every kill while no conflict of the outbox is opened, and
  every opened conflict while nothing is killed. The run covers the first half.
- `PulledInvariance`, `PullIsComplete` (`PullComplete`), for one thread per device and
  any number of devices. The pull stores the version it read first; its rows come with a
  later call, and the vault moves meanwhile. `PulledInv` says why the stored
  version is not a promise too much: it never runs ahead of the vault; a pull
  that still carries the vault's version carries exactly its rows, less those an entry
  waits for (`Pulling`), and whoever writes makes it carry an older one; and what a
  device at the vault's version has is `Current` through every later statement of a
  replay, a conflict or an edit. That the version is the last statement of its list
  (`SyncedLast`) and that an entry's id keeps its secret (`Tracked`) are needed for it.
  With two threads it is false of the code (section 3).

### AccountKeysProofs

An account has one master key, from its first set-up on, and everything that is
wrapped stays readable with it. The server does not enforce that: whatever row a
client sends is stored. It holds because of what the clients know, so the invariant
follows what every job of every process knows at each of its stages.

- `TypeCorrect`: each job carries what its stage needs (`Typed`), for any commands,
  processes and bounds and without a hypothesis.
- `CacheOfOneAccount` (`NoMixing`), under `Orderly`: no key is pressed during a job, no
  two processes share a device, and `setup-encryption` is not run by itself. `Settled`
  says that tokens, account id, cached row and cached vaults of a device name one
  account whenever anything but a login runs, and what each stage of a login has
  changed already; `reconcile` and `forget` are where the former account goes.
- `KeyedInvariant`, `VaultsStayReadable` (`VaultKeysValid`), `CodesStayValid`
  (`RecoveryWorks`), `SessionOfAccount` (`SessionOwn`), under `Orderly` and `OneSource`:
  one process may make a first set-up, and no answer is lost. `Keyed` says that every
  key in a session, a job, a cached row, a code or on a vault is the key of the row of
  the account; a key that is not yet anybody's belongs to the one set-up under
  way (`MayGive`). A change of the passphrase, new codes and a recovery wrap the
  key they opened the row with, so they keep it.
- `MasterKeyForLife`, the same without the files: no step of any process takes away the
  row of a registered account that has a key, or lets it open to another key.

Each hypothesis excludes what section 3 shows the code to get wrong: keys pressed
during a derivation (`Impatient`), a CLI login beside a TUI on one device,
`setup-encryption` in a new process, two first set-ups, a retry after a lost answer.
The theorems say that there is nothing else. The run `account_keys` satisfies all of
them; kills, failing calls, locks, changes of accounts, recoveries and any number of
devices, users, slots, commands and steps stay free.

### TokenStoreProofs

- `TokenInvariance`, `TokenTypeOK`, `SemaphoreExact`: `hashing` is the number of handlers that
  hash. The invariant ties the counter to the set itself, so a cancelled waiter, an
  error of Argon2 or a drain cannot drift away from it.
- `RefreshesInOrder`: `LoadsInOrder`. It needs the whole path of a renewal: the mutex is
  held from the read of the pair to the save (`Locked`), the call a goroutine waits
  for is its own (`Waited`), and its answer was issued no earlier than the last save
  (`RenewedInOrder`).

### VaultScopeProofs

- `ScopeInvariance`, `ScopeTypeOK`: versions of folders only grow, and nothing on a device
  is ahead of the server.
- `SyncedMeansPulled`, under `MaxSyncs <= 1`: `PullInv` says of a running pull that the
  rows it holds are no older than what is cached and than what `CheckFreshness`
  promised. With two syncs at a time the property is false (section 3).
- `FlagOnlyByChoice`: the action property `FlagIsTheUsers`, for any `MaxSyncs`.

### BlobTransferProofs

- `BlobInvariance`, `BlobTypeOK`. The invariant follows a frame through the encoder, the
  stream, the receiver and the object (`SendOK`, `RecvOK`), the copy through the
  upload (`StagedOK`) and the download through its chunks (`LoadOK`). The bucket is
  shared by all uploads: what was stored whole stays whole or is marked `torn`, so that
  a reference, which is only set after one, is over such an object for ever after.
- `DownloadsAreWhole`, `OnlyCompleteAttached`, `FailedUploadsRepeatable`: for files of any
  number of chunks, streams of any capacity, any number of retries, downloads, faults
  and edits. The last two say exactly what the code keeps: an attached upload was whole
  when it was attached or had been torn before, and a failed one can be repeated or is
  whole in the bucket, unless torn. `NobodyStuck` speaks of ENABLED and is left to TLC.

### DashboardProofs

- `ChainInvariance`, `SyncNeverDies`, `RunsHaveReaders`. That entering the dashboard a
  second time sets no timer is safe only because the folders were listed, which is
  only handled on a dashboard that was entered (`ChainInv`); and a timer always finds
  room to become a run, which is arithmetic on the number of runs.
- `ScreenInvariance`, `CursorsAlwaysShown`, `TableStaysOnTab`, `LoadingAlwaysAnswered`, for any
  folders, secrets, tabs and messages under way. What is shown depends on messages that
  come in any order or are lost, so `ScreenInv` says which message repairs what: a table
  off its tabs waits for a list of folders, its error or the answer to the scope
  (`Fixers`); one that loads the rows of a folder for a load or its answer (`Loaders`),
  one that loads and has no folder for the folders; and before the first list there is
  no folder to show. The filter, the list of folders and the rows are parts of sequences
  (`Positions`), written without recursion so that it can be proved that they are sequences.

### SecretFormProofs

- `FormInvariance`: three layers. `StateTyped` says what is in the form, the card, the
  bags of commands and messages. `FormInv` says of a form that is shown what its mode
  allows: a new secret is edited, the focus is on a slot that editing has, and data that
  differ from the start are marked, which every key has to show again (`Edited`).
  `SeenInv` follows a version from the row of the dashboard through the command that reads
  the data and the message that fills the form to the save: it is never newer than the
  content beside it, while other devices, pulls and resolved conflicts move both.
- `SlotAlwaysFocused` needs what the list of slots holds at each place (`SlotsAre`), so that
  the slot of an added field exists; `EscAlwaysAsks`, `SavingAlwaysAnswered`.
- `NothingUnseenReplaced`, for any number of changes, so with the old cards as well.

### Assumptions

The typing of `VaultOf`, `Binary` and `OwnerOf`, that the lists of folders and secrets
are sequences, positive pool, attempts, slots and capacities, finitely many secrets (a
table is finite), `None` outside the value sets, bounds in `Nat`, and the hypotheses
named above: no opened conflict or no kill (`SavedStaysDurable`), one thread per device
(`PullIsComplete`), one sync at a time (`SyncedMeansPulled`), `Orderly` and `OneSource`.
The bounds are arbitrary: the theorems hold for each. The locks of PostgreSQL, the
rendezvous of a pipe and AEAD are part of the models, not proved.

### Model-checked only

- Liveness (`EveryRequestAnswered`, `Drains`, `FoldersAppear`, `FoldersCatchUp`), and
  properties that speak of `ENABLED` (`NobodyStuck`, `HolderMoves`, `StopNotStuck`): the
  prover handles neither.

## 5. Not modelled, and the plan

Not modelled: cryptographic primitives, search ranking, TOTP codes, localisation,
rendering, the settings that only change the configuration file, the popup of the
logs, the one-second tick of codes, protocol buffers and mocks, the seed, load and
update tools, the creation of the bucket and MinIO's multipart protocol, pprof,
metrics and migrations. They keep no state the properties speak of, or are
outside what a model checker can say. `PROJECT.json` gives the reason for each.

Next:

1. `AccountKeys` as the refinement of an abstract specification: one master key per
   account, never replaced (`MasterKeyForLife` is its step; the reads are missing).
2. `VaultScope` as the outer loop of `OfflineSync`: the pull of one folder refined
   statement by statement.
