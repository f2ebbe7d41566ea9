----------------------------- MODULE VaultScope -----------------------------
(***************************************************************************)
(* Which folders a device knows, and which of them it synchronises: the    *)
(* vaults table of the cache, the use cases vault.List, ListLocal and      *)
(* Create, the engine's choice of what to pull, the popup that asks for    *)
(* the scope of the sync and the check boxes of the settings.  Every       *)
(* command of the dashboard runs on a goroutine of its own; one step is    *)
(* one call of the server, one SQL statement, or the handling of a message.*)
(*                                                                         *)
(* The content of a folder is named by the version the server gives it.    *)
(* Outbox entries and tiers of secrets are the matter of OfflineSync, the  *)
(* timers and the progress channel that of Dashboard.                      *)
(***************************************************************************)
EXTENDS Naturals, FiniteSets

CONSTANTS
    Vaults,     \* ids of folders
    Threads,    \* goroutines that can run at a time, numbered
    None,       \* no folder
    MaxVersion, \* bound: version of a folder
    MaxSyncs,   \* bound: runs of the engine at a time
    MaxActs,    \* bound: actions of the user
    MaxFails    \* bound: failing calls

ASSUME VaultScopeAssumption ==
    /\ None \notin Vaults /\ Threads \subseteq Nat
    /\ MaxVersion \in Nat \ {0} /\ MaxSyncs \in Nat /\ MaxActs \in Nat /\ MaxFails \in Nat

VARIABLES
    server,     \* [Vaults -> version], 0: no such folder
    cache,      \* the table vaults: [Vaults -> row or NoVault]
    rows,       \* [Vaults -> version of the content in the table secrets], 0: none
    chosen,     \* the kv entry sync.scope_chosen
    screen,     \* what the dashboard keeps of all this
    job,        \* [Threads -> the command a goroutine runs]
    left        \* what is left of MaxActs and MaxFails

vars == <<server, cache, rows, chosen, screen, job, left>>

----------------------------------------------------------------------------
(* The table vaults: one operator per statement. *)

NoVault == [there |-> FALSE, synced |-> 0, enabled |-> FALSE]

\* Mutant: the conflict clause also takes excluded.sync_enabled.
UpsertVaultSetsFlag(old, enabled) ==
    [there |-> TRUE, synced |-> old.synced, enabled |-> enabled]

\* INSERT ... ON CONFLICT(id) DO UPDATE: a row that exists keeps its synced_version
\* and its flag, a new one takes SyncedVersion 0 and the flag of the caller.
UpsertVault(old, enabled) ==
    IF old.there THEN old ELSE [there |-> TRUE, synced |-> 0, enabled |-> enabled]

\* UPDATE ... WHERE id = ?
SetVaultSyncedVersion(old, version) == IF old.there THEN [old EXCEPT !.synced = version] ELSE old

SetVaultSyncEnabled(old, enabled) == IF old.there THEN [old EXCEPT !.enabled = enabled] ELSE old

Cached == {v \in Vaults : cache[v].there}

Upsert(v, enabled) == cache' = [cache EXCEPT ![v] = UpsertVault(@, enabled)]

----------------------------------------------------------------------------
(* Commands. *)

\* A list of DecryptedVault, by folder: "none" when it is not in the list.
NoList == [v \in Vaults |-> "none"]
Flag(enabled) == IF enabled THEN "on" ELSE "off"
Listed(list) == {v \in Vaults : list[v] # "none"}

\* todo: folders the loop has still to visit; cur: the one it is at; fresh: the answer
\* of CheckFreshness; on: the flag a toggle writes, and for a sync that it is the
\* background sync.
Command(kind, at) ==
    [kind |-> kind, at |-> at, todo |-> {}, cur |-> None, on |-> FALSE, got |-> 0,
     list |-> NoList, fresh |-> [v \in Vaults |-> 0]]
Idle == Command("idle", "idle")

At(t, kind, at) == job[t].kind = kind /\ job[t].at = at
Free(t) == job[t] = Idle
Becomes(t, j) == job' = [job EXCEPT ![t] = j]

Spend == left.acts > 0 /\ left' = [left EXCEPT !.acts = @ - 1]
CallFails == left.fails > 0 /\ left' = [left EXCEPT !.fails = @ - 1]

\* The folders the account has: Vault.List of the server.
ListVaults == {v \in Vaults : server[v] > 0}

\* Ids are unique: that of a folder about to be created is nobody else's.
Unused == (Vaults \ ListVaults) \ {job[t].cur : t \in Threads}

loadVaultsFromServer == Command("list", "call")
loadVaults == Command("local", "select")
launchSync(background) == [Command("sync", "fresh") EXCEPT !.on = background]

Syncs == {t \in Threads : job[t].kind = "sync"}

----------------------------------------------------------------------------
(* vault.List *)

\* The server answers.  Offline, loadVaultsFromServer falls back to the cache.
ListCall(t) ==
    /\ At(t, "list", "call")
    /\ \/ Becomes(t, [job[t] EXCEPT !.at = "upsert", !.todo = ListVaults]) /\ UNCHANGED left
       \/ Becomes(t, loadVaults) /\ CallFails
    /\ UNCHANGED <<server, cache, rows, chosen, screen>>

\* The upsert leaves SyncEnabled to its zero value.
ListUpsert(t) ==
    /\ At(t, "list", "upsert")
    /\ \E v \in job[t].todo :
        /\ Upsert(v, FALSE)
        /\ Becomes(t, [job[t] EXCEPT !.at = "flag", !.cur = v])
    /\ UNCHANGED <<server, rows, chosen, screen, left>>

\* GetVault; a row that has gone counts as enabled.
ListFlag(t) ==
    LET v == job[t].cur IN
    /\ At(t, "list", "flag")
    /\ Becomes(t, [job[t] EXCEPT !.at = "upsert", !.cur = None, !.todo = @ \ {v},
                                 !.list[v] = Flag(cache[v].there => cache[v].enabled)])
    /\ UNCHANGED <<server, cache, rows, chosen, screen, left>>

\* pruneStaleVaults: what is cached and was not in the answer goes.
PruneStaleVaults(t) ==
    /\ At(t, "list", "upsert") /\ job[t].todo = {}
    /\ Becomes(t, [job[t] EXCEPT !.at = "prune", !.todo = Cached \ Listed(job[t].list)])
    /\ UNCHANGED <<server, cache, rows, chosen, screen, left>>

DeleteVault(t) ==
    /\ At(t, "list", "prune")
    /\ \E v \in job[t].todo :
        /\ cache' = [cache EXCEPT ![v] = NoVault]
        /\ Becomes(t, [job[t] EXCEPT !.todo = @ \ {v}])
    /\ UNCHANGED <<server, rows, chosen, screen, left>>

\* ListLocal: one SELECT.
ListLocal(t) ==
    /\ At(t, "local", "select")
    /\ Becomes(t, [job[t] EXCEPT !.at = "loaded",
                    !.list = [v \in Vaults |-> IF cache[v].there THEN Flag(cache[v].enabled) ELSE "none"]])
    /\ UNCHANGED <<server, cache, rows, chosen, screen, left>>

\* Both fail without the master key; the error only becomes a line on the screen.
ListLocked(t) ==
    /\ At(t, "list", "call") \/ At(t, "local", "select")
    /\ ~screen.open
    /\ Becomes(t, Idle)
    /\ UNCHANGED <<server, cache, rows, chosen, screen, left>>

ListSteps(t) ==
    \/ ListCall(t) \/ ListUpsert(t) \/ ListFlag(t) \/ PruneStaleVaults(t) \/ DeleteVault(t)
    \/ ListLocal(t) \/ ListLocked(t)

----------------------------------------------------------------------------
(* vault.Create *)

\* CreateVault on the server, version 1.  The call fails, or only its answer is lost.
CreateCall(t) ==
    /\ At(t, "create", "call")
    /\ LET created == [server EXCEPT ![job[t].cur] = 1] IN
        \/ server' = created /\ Becomes(t, [job[t] EXCEPT !.at = "upsert"]) /\ UNCHANGED left
        \/ server' \in {server, created} /\ Becomes(t, Idle) /\ CallFails
    /\ UNCHANGED <<cache, rows, chosen, screen>>

CreateUpsert(t) ==
    /\ At(t, "create", "upsert")
    /\ Upsert(job[t].cur, TRUE)
    /\ Becomes(t, Command("create", "created"))
    /\ UNCHANGED <<server, rows, chosen, screen, left>>

----------------------------------------------------------------------------
(* Sync and SyncWithProgress *)

CheckFreshness(t) ==
    /\ At(t, "sync", "fresh")
    /\ Becomes(t, [job[t] EXCEPT !.at = "map", !.fresh = server])
    /\ UNCHANGED <<server, cache, rows, chosen, screen, left>>

Fresh(t) == {v \in Vaults : job[t].fresh[v] > 0}

\* Mutant: one version behind counts as up to date.
ToSyncOffByOne(t) ==
    {v \in Fresh(t) : ~(cache[v].there /\ (~cache[v].enabled \/ cache[v].synced + 1 >= job[t].fresh[v]))}

\* Skipped are folders switched off and folders whose version is known.
ToSync(t) ==
    {v \in Fresh(t) : ~(cache[v].there /\ (~cache[v].enabled \/ cache[v].synced >= job[t].fresh[v]))}

\* vaultMap, and needsVaultMeta on its result.
VaultMap(t) ==
    /\ At(t, "sync", "map")
    /\ Becomes(t, IF Fresh(t) \subseteq Cached THEN [job[t] EXCEPT !.at = "pull", !.todo = ToSync(t)]
                  ELSE [job[t] EXCEPT !.at = "meta"])
    /\ UNCHANGED <<server, cache, rows, chosen, screen, left>>

\* refreshVaultMeta, and prefetchVaultMeta at a login: ListVaults, then the upserts,
\* which leave SyncEnabled to its zero value.
MetaCall(t) ==
    /\ At(t, "sync", "meta") \/ At(t, "login", "meta")
    /\ Becomes(t, [job[t] EXCEPT !.at = "metaUpsert", !.todo = ListVaults])
    /\ UNCHANGED <<server, cache, rows, chosen, screen, left>>

MetaUpsert(t) ==
    /\ job[t].at = "metaUpsert"
    /\ \E v \in job[t].todo :
        /\ Upsert(v, FALSE)
        /\ Becomes(t, [job[t] EXCEPT !.todo = @ \ {v}])
    /\ UNCHANGED <<server, rows, chosen, screen, left>>

\* The second vaultMap, after the metadata.
VaultMapAgain(t) ==
    /\ At(t, "sync", "metaUpsert") /\ job[t].todo = {}
    /\ Becomes(t, [job[t] EXCEPT !.at = "pull", !.todo = ToSync(t)])
    /\ UNCHANGED <<server, cache, rows, chosen, screen, left>>

\* pullVaultRows: the rows, their upserts, the version CheckFreshness had given.
ListSecretRows(t) ==
    /\ At(t, "sync", "pull")
    /\ \E v \in job[t].todo :
        Becomes(t, [job[t] EXCEPT !.at = "rows", !.cur = v, !.got = server[v]])
    /\ UNCHANGED <<server, cache, rows, chosen, screen, left>>

UpsertSecretRows(t) ==
    /\ At(t, "sync", "rows")
    /\ rows' = [rows EXCEPT ![job[t].cur] = job[t].got]
    /\ Becomes(t, [job[t] EXCEPT !.at = "synced", !.got = 0])
    /\ UNCHANGED <<server, cache, chosen, screen, left>>

\* Mutant: the version the server has by now.
SetSyncedLatest(t) ==
    LET v == job[t].cur IN
    /\ At(t, "sync", "synced")
    /\ cache' = [cache EXCEPT ![v] = SetVaultSyncedVersion(@, server[v])]
    /\ Becomes(t, [job[t] EXCEPT !.at = "pull", !.cur = None, !.todo = @ \ {v}])
    /\ UNCHANGED <<server, rows, chosen, screen, left>>

SetSynced(t) ==
    LET v == job[t].cur IN
    /\ At(t, "sync", "synced")
    /\ cache' = [cache EXCEPT ![v] = SetVaultSyncedVersion(@, job[t].fresh[v])]
    /\ Becomes(t, [job[t] EXCEPT !.at = "pull", !.cur = None, !.todo = @ \ {v}])
    /\ UNCHANGED <<server, rows, chosen, screen, left>>

\* A call fails: the sync is given up, a login goes on without the metadata.
SyncFails(t) ==
    /\ \/ job[t].kind = "sync" /\ job[t].at \in {"fresh", "meta"}
       \/ At(t, "sync", "pull") /\ job[t].todo # {}
       \/ At(t, "login", "meta")
    /\ CallFails
    /\ Becomes(t, Idle)
    /\ UNCHANGED <<server, cache, rows, chosen, screen>>

SyncSteps(t) ==
    \/ CheckFreshness(t) \/ VaultMap(t) \/ MetaCall(t) \/ MetaUpsert(t) \/ VaultMapAgain(t)
    \/ ListSecretRows(t) \/ UpsertSecretRows(t) \/ SetSynced(t)

----------------------------------------------------------------------------
(* The other commands: a check box of the settings, the choice of the scope. *)

ToggleWrite(t) ==
    /\ At(t, "toggle", "write")
    /\ cache' = [cache EXCEPT ![job[t].cur] = SetVaultSyncEnabled(@, job[t].on)]
    /\ Becomes(t, Command("toggle", "toggled"))
    /\ UNCHANGED <<server, rows, chosen, screen, left>>

\* confirm switches off the folders that are unchecked when it comes to them; the map
\* is shared with the popup, which still takes keys.
ConfirmVault(t) ==
    /\ At(t, "confirm", "vaults")
    /\ \E v \in job[t].todo :
        /\ cache' = IF v \in screen.checked THEN cache
                    ELSE [cache EXCEPT ![v] = SetVaultSyncEnabled(@, FALSE)]
        /\ Becomes(t, [job[t] EXCEPT !.todo = @ \ {v}])
    /\ UNCHANGED <<server, rows, chosen, screen, left>>

MarkSyncScopeChosen(t) ==
    /\ At(t, "confirm", "vaults") /\ job[t].todo = {}
    /\ chosen' = TRUE
    /\ Becomes(t, Command("confirm", "confirmed"))
    /\ UNCHANGED <<server, cache, rows, screen, left>>

----------------------------------------------------------------------------
(* The messages.  Only that of the background sync is taken off the dashboard. *)

\* Popups are filled when they open: a closed one is as good as empty, but for the map
\* a confirm still reads.
ToTable ==
    [screen EXCEPT !.focus = "table", !.boxes = NoList, !.asked = {},
                   !.checked = IF \E t \in Threads : At(t, "confirm", "vaults") THEN @ ELSE {}]

Dropped(t) == ~screen.open /\ Becomes(t, Idle) /\ UNCHANGED screen

\* vaultsLoadedMsg: the first list asks for the scope, unless a popup is open.
VaultsLoaded(t) ==
    LET list == job[t].list
        asks == ~screen.loaded /\ Listed(list) # {} /\ screen.focus = "table" /\ ~chosen
    IN
    /\ At(t, "local", "loaded") \/ (At(t, "list", "prune") /\ job[t].todo = {})
    /\ \/ Dropped(t)
       \/ /\ screen.open
          /\ Becomes(t, Idle)
          /\ screen' = [screen EXCEPT !.list = list, !.loaded = TRUE,
                            !.focus = IF asks THEN "scope" ELSE @,
                            !.asked = IF asks THEN Listed(list) ELSE @,
                            !.checked = IF asks THEN Listed(list) ELSE @]
    /\ UNCHANGED <<server, cache, rows, chosen, left>>

\* vaultCreatedMsg, settingsSyncToggledMsg, syncDoneMsg: the list is read again; the
\* first also closes whatever popup is open.
Reloads(t) ==
    /\ \/ At(t, "create", "created") \/ At(t, "toggle", "toggled")
       \/ At(t, "sync", "pull") /\ job[t].todo = {} /\ ~job[t].on
    /\ \/ Dropped(t)
       \/ /\ screen.open
          /\ Becomes(t, loadVaults)
          /\ screen' = IF job[t].kind = "create" THEN ToTable ELSE screen
    /\ UNCHANGED <<server, cache, rows, chosen, left>>

\* Mutant: the list is not read again.
BackgroundSyncDoneNoReload(t) ==
    /\ At(t, "sync", "pull") /\ job[t].todo = {} /\ job[t].on
    /\ Becomes(t, Idle)
    /\ UNCHANGED <<server, cache, rows, chosen, screen, left>>

\* backgroundSyncDoneMsg: the list is read from the server.
BackgroundSyncDone(t) ==
    /\ At(t, "sync", "pull") /\ job[t].todo = {} /\ job[t].on
    /\ Becomes(t, loadVaultsFromServer)
    /\ UNCHANGED <<server, cache, rows, chosen, screen, left>>

\* syncScopeConfirmedMsg: the first sync.
ScopeConfirmed(t) ==
    /\ At(t, "confirm", "confirmed")
    /\ \/ Dropped(t)
       \/ /\ screen.open
          /\ Cardinality(Syncs) < MaxSyncs
          /\ Becomes(t, launchSync(TRUE))
          /\ screen' = ToTable
    /\ UNCHANGED <<server, cache, rows, chosen, left>>

LoginDone(t) ==
    /\ At(t, "login", "metaUpsert") /\ job[t].todo = {}
    /\ Becomes(t, Idle)
    /\ UNCHANGED <<server, cache, rows, chosen, screen, left>>

----------------------------------------------------------------------------
(* What starts a command. *)

\* Goroutines are alike: a command takes the first that is free.
Start(t, j) == Free(t) /\ (\A u \in Threads : u < t => ~Free(u)) /\ Becomes(t, j)

\* A login of the account reads the folders' metadata.
Login(t) ==
    /\ ~screen.open /\ Spend
    /\ Start(t, Command("login", "meta"))
    /\ UNCHANGED <<server, cache, rows, chosen, screen>>

\* Refresh.  The first time the list comes from the server and the timer of the sync
\* starts; a sync started at once is BackgroundSync.
EnterDashboard(t) ==
    /\ ~screen.open /\ Spend
    /\ \A u \in Threads : job[u].kind # "login"
    /\ Start(t, IF screen.loaded THEN loadVaults ELSE loadVaultsFromServer)
    /\ screen' = [screen EXCEPT !.open = TRUE, !.entered = TRUE]
    /\ UNCHANGED <<server, cache, rows, chosen>>

LeaveDashboard ==
    /\ screen.open
    /\ screen' = [screen EXCEPT !.open = FALSE]
    /\ UNCHANGED <<server, cache, rows, chosen, job, left>>

\* The timer, the first Refresh once the scope is chosen.
BackgroundSync(t) ==
    /\ screen.entered /\ Cardinality(Syncs) < MaxSyncs
    /\ Start(t, launchSync(TRUE))
    /\ UNCHANGED <<server, cache, rows, chosen, screen, left>>

\* The commands sync and vault of the command line.
DoSync(t) ==
    /\ screen.open /\ screen.focus = "table" /\ Spend
    /\ Cardinality(Syncs) < MaxSyncs
    /\ Start(t, launchSync(FALSE))
    /\ UNCHANGED <<server, cache, rows, chosen, screen>>

DoCreateVault(t) ==
    /\ screen.open /\ screen.focus = "table" /\ Spend
    /\ \E v \in Unused : Start(t, [Command("create", "call") EXCEPT !.cur = v])
    /\ UNCHANGED <<server, cache, rows, chosen, screen>>

\* The key, or a click on the top bar over whatever is open.
OpenSettings ==
    /\ screen.open /\ Spend
    /\ screen' = [screen EXCEPT !.focus = "settings", !.boxes = screen.list]
    /\ UNCHANGED <<server, cache, rows, chosen, job>>

CloseSettings ==
    /\ screen.open /\ screen.focus = "settings"
    /\ screen' = ToTable
    /\ UNCHANGED <<server, cache, rows, chosen, job, left>>

ToggleVaultRow(t) ==
    /\ screen.open /\ screen.focus = "settings" /\ Spend
    /\ \E v \in Listed(screen.boxes) :
        LET on == screen.boxes[v] = "off" IN
        /\ screen' = [screen EXCEPT !.boxes[v] = Flag(on)]
        /\ Start(t, [Command("toggle", "write") EXCEPT !.cur = v, !.on = on])
    /\ UNCHANGED <<server, cache, rows, chosen>>

ScopeSpace ==
    /\ screen.open /\ screen.focus = "scope" /\ Spend
    /\ \E v \in screen.asked :
        screen' = [screen EXCEPT !.checked = IF v \in @ THEN @ \ {v} ELSE @ \cup {v}]
    /\ UNCHANGED <<server, cache, rows, chosen, job>>

\* Enter and Esc; the popup stays until the answer.
ScopeConfirm(t) ==
    /\ screen.open /\ screen.focus = "scope" /\ Spend
    /\ Start(t, [Command("confirm", "vaults") EXCEPT !.todo = screen.asked])
    /\ UNCHANGED <<server, cache, rows, chosen, screen>>

----------------------------------------------------------------------------
(* Another device creates folders and writes into them. *)
OtherDevice ==
    /\ \E v \in ListVaults \cup Unused : server[v] < MaxVersion /\ server' = [server EXCEPT ![v] = @ + 1]
    /\ UNCHANGED <<cache, rows, chosen, screen, job, left>>

----------------------------------------------------------------------------
Init ==
    /\ server = [v \in Vaults |-> 0]
    /\ cache = [v \in Vaults |-> NoVault]
    /\ rows = [v \in Vaults |-> 0]
    /\ chosen = FALSE
    /\ screen = [open |-> FALSE, entered |-> FALSE, loaded |-> FALSE, focus |-> "table",
                 list |-> NoList, boxes |-> NoList, asked |-> {}, checked |-> {}]
    /\ job = [t \in Threads |-> Idle]
    /\ left = [acts |-> MaxActs, fails |-> MaxFails]

\* What a goroutine does by itself.
Goes(t) ==
    \/ ListSteps(t) \/ CreateCall(t) \/ CreateUpsert(t) \/ SyncSteps(t) \/ SyncFails(t)
    \/ ToggleWrite(t) \/ ConfirmVault(t) \/ MarkSyncScopeChosen(t)
    \/ VaultsLoaded(t) \/ Reloads(t) \/ BackgroundSyncDone(t) \/ ScopeConfirmed(t) \/ LoginDone(t)

User(t) ==
    \/ Login(t) \/ EnterDashboard(t) \/ DoSync(t) \/ DoCreateVault(t)
    \/ ToggleVaultRow(t) \/ ScopeConfirm(t)

Next ==
    \/ \E t \in Threads : Goes(t) \/ User(t) \/ BackgroundSync(t)
    \/ LeaveDashboard \/ OpenSettings \/ CloseSettings \/ ScopeSpace \/ OtherDevice

Spec == Init /\ [][Next]_vars

\* Goroutines run, calls return, messages are handled, and the timer of the background
\* sync is set again after every run (SyncAlive of Dashboard).  Nothing is assumed of
\* the user or of the other device.
FairSpec ==
    /\ Spec
    /\ \A t \in Threads : WF_vars(Goes(t))
    /\ WF_vars(\E t \in Threads : BackgroundSync(t))

----------------------------------------------------------------------------
Lists == [Vaults -> {"none", "on", "off"}]
Versions == 0 .. MaxVersion

\* Types; at most MaxSyncs runs of the engine; a step on a folder has its folder.
TypeOK ==
    /\ server \in [Vaults -> Versions] /\ rows \in [Vaults -> Versions]
    /\ cache \in [Vaults -> [there : BOOLEAN, synced : Versions, enabled : BOOLEAN]]
    /\ chosen \in BOOLEAN
    /\ screen \in [open : BOOLEAN, entered : BOOLEAN, loaded : BOOLEAN,
                   focus : {"table", "scope", "settings"}, list : Lists, boxes : Lists,
                   asked : SUBSET Vaults, checked : SUBSET Vaults]
    /\ \A t \in Threads :
        /\ job[t].todo \subseteq Vaults /\ job[t].cur \in Vaults \cup {None}
        /\ job[t].list \in Lists /\ job[t].fresh \in [Vaults -> Versions]
        /\ job[t].at \in {"flag", "rows", "synced", "write"} => job[t].cur # None
    /\ Cardinality(Syncs) <= MaxSyncs

(***************************************************************************)
(* What synced_version says was pulled is in the cache: a folder skipped   *)
(* by its version hides nothing, also when the list was pruned, the row    *)
(* came back or the flag changed while a sync was under way.               *)
(***************************************************************************)
SyncedIsPulled == \A v \in Vaults : rows[v] >= cache[v].synced

(***************************************************************************)
(* The flag of a cached folder changes only by a choice of the user: never *)
(* by a list, a login or a sync that writes the row again.                 *)
(***************************************************************************)
FlagIsTheUsers ==
    [][\A v \in Vaults :
         cache[v].there /\ cache'[v].there /\ cache[v].enabled # cache'[v].enabled
            => \E t \in Threads : ToggleWrite(t) \/ ConfirmVault(t)]_vars

(***************************************************************************)
(* A folder of the account, created on whatever device, appears on the     *)
(* dashboard, unless the user leaves it.                                   *)
(***************************************************************************)
FoldersAppear ==
    \A v \in Vaults :
        server[v] > 0 /\ screen.open ~> screen.list[v] # "none" \/ ~screen.open

(***************************************************************************)
(* A folder that is switched on catches up with the server or is switched  *)
(* off (or pruned).                                                        *)
(***************************************************************************)
FoldersCatchUp ==
    \A v \in Vaults :
        cache[v].enabled ~> (rows[v] = server[v] \/ ~cache[v].enabled)

(***************************************************************************)
(* dashboard_syncscope.go and dashboard.go say of the popup that everything*)
(* is on by default: once the choice is made, the folders left checked are *)
(* synchronised.                                                           *)
(***************************************************************************)
ScopeHonoured ==
    [][chosen' /\ ~chosen => \A v \in screen.checked : cache[v].there => cache[v].enabled]_vars
=============================================================================
