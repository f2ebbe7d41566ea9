----------------------------- MODULE Dashboard -----------------------------
(***************************************************************************)
(* The dashboard of the TUI: the list of folders, the table of secrets,    *)
(* the popups and the command line, and the background sync with its timer *)
(* and its progress channel.  Keys are handled at once by the dashboard    *)
(* while it is shown.  What they start runs beside it and answers with a   *)
(* message; App.Update hands the messages of the sync to the dashboard     *)
(* whatever is shown, all others only while it is.                         *)
(***************************************************************************)
EXTENDS SecretTable, Bags

CONSTANTS
    VaultOrder,     \* all folders, as List sorts them
    TypeTabs,       \* the tabs of the types, a sequence that starts with AllTypes
    ProgressCap,    \* capacity of progressCh
    MaxChains,      \* bound: timers and runs of the background sync together
    MaxInFlight,    \* bound: other commands and messages under way
    MaxActs         \* bound: keys, changes of the data and failures in one behaviour

Vaults == {VaultOrder[i] : i \in DOMAIN VaultOrder}

ASSUME DashboardAssumption ==
    /\ VaultOrder \in Seq(Vaults)
    /\ TypeTabs # <<>> /\ TypeTabs[1] = AllTypes
    /\ ProgressCap \in Nat \ {0}
    /\ MaxChains \in Nat /\ MaxInFlight \in Nat /\ MaxActs \in Nat

VARIABLES
    screen,     \* "dashboard" or "other": login, lock, form, conflict
    dash,       \* dashboardModel without its table
    table,      \* dashboardTableModel
    chosen,     \* the cache says that the scope of the sync was chosen
    ticks,      \* timers and ticks of the background sync under way
    syncs,      \* [1 .. MaxChains -> a run of launchBackgroundSync]
    flight,     \* bag of the other commands and messages under way
    left,       \* what is left of MaxActs
    entered     \* history: the dashboard was entered, and the timer of the sync set

vars == <<screen, dash, table, chosen, ticks, syncs, flight, left, entered>>

Spend == left > 0 /\ left' = left - 1

\* Vault.List over the folders of the cache.
List(folders) == AtPositions(VaultOrder, {i \in DOMAIN VaultOrder : VaultOrder[i] \in folders})

\* One run of launchBackgroundSync: the goroutine, how much progressCh holds, and
\* where the command or message is that reads it.
NoSync == [at |-> "none", held |-> 0, reader |-> "none", ok |-> FALSE]
LaunchBackgroundSync ==
    [at |-> "replay", held |-> 0, reader |-> "cmd", ok |-> FALSE]

Running(k) == syncs[k] # NoSync

\* A timer becomes a run and a run a timer; only entering the dashboard and the
\* choice of the scope start new ones.
Room(n) == ticks + Cardinality({k \in DOMAIN syncs : Running(k)}) + n <= MaxChains

\* Runs are alike: any free one is taken.
Launched(ss) ==
    LET k == CHOOSE k \in DOMAIN ss : ss[k] = NoSync
    IN [ss EXCEPT ![k] = LaunchBackgroundSync]

CurrentVaultID(d) == IF d.cursor \in DOMAIN d.vaults THEN d.vaults[d.cursor] ELSE NoId
CurrentTypeTab(d) == IF d.tab \in DOMAIN TypeTabs THEN TypeTabs[d.tab] ELSE TypeTabs[1]

SelectVaultByID(d, v) ==
    IF \E i \in DOMAIN d.vaults : d.vaults[i] = v
    THEN [d EXCEPT !.cursor = CHOOSE i \in DOMAIN d.vaults : d.vaults[i] = v]
    ELSE d

Init ==
    /\ screen = "other"
    /\ dash = [vaults |-> <<>>, cursor |-> 1, tab |-> 1, focus |-> "table",
               initialLoadDone |-> FALSE, syncing |-> FALSE, vaultsErr |-> FALSE]
    /\ table = NewTable
    /\ chosen \in BOOLEAN
    /\ ticks = 0
    /\ syncs = [k \in 1 .. MaxChains |-> NoSync]
    /\ flight = EmptyBag
    /\ left = MaxActs
    /\ entered = FALSE

----------------------------------------------------------------------------
(* What is under way: commands of one kind, or their messages. *)

LoadVaults == [it |-> "loadVaults", vaults |-> <<>>]
VaultsLoaded(folders) == [it |-> "vaults", vaults |-> List(folders)]
VaultsErr == [it |-> "vaultsErr"]
Reload(t) == [it |-> "reload", vault |-> t.vault, type |-> t.type]
RowsMsg(c, present) == [it |-> "rows", rows |-> ListRows(present, c.vault, c.type)]
RowsError == [it |-> "rowsErr"]
Debounce(s) == [it |-> "debounce", s |-> s]
Reveal(s) == [it |-> "payload", s |-> s]
RevealCard(s) == [it |-> "card", s |-> s]
CreateVault == [it |-> "createVault"]
DoSync == [it |-> "doSync"]
Confirm == [it |-> "confirm"]
Confirmed == [it |-> "confirmed"]

\* setVaultAndType of what the cursors point at, with its reload.
Retarget(d) == SetVaultAndType(table, CurrentVaultID(d), CurrentTypeTab(d))

\* Mutant: only a new folder is loaded, not a new type.
RetargetCmdsByVault(d) ==
    IF CurrentVaultID(d) \notin {NoId, table.vault} THEN {Reload(Retarget(d))} ELSE {}

RetargetCmds(d) ==
    IF Changes(table, CurrentVaultID(d), CurrentTypeTab(d)) THEN {Reload(Retarget(d))} ELSE {}

\* scheduleReveal for the row under the cursor.
ScheduleReveal(t) == IF CurrentSecretID(t) = NoId THEN {} ELSE {Debounce(CurrentSecretID(t))}

\* One entry of a kind stands for all equal ones: they do the same twice.
Add(bag, new) == bag (+) SetToBag(new \ BagToSet(bag))
Issue(new) ==
    /\ flight' = Add(flight, new)
    /\ BagCardinality(flight') <= MaxInFlight

Take(c, new) == flight' = Add(flight (-) SetToBag({c}), new)

----------------------------------------------------------------------------
(* Coming and going. *)

\* switchScreenMsg: Refresh, and before the first list of folders also the start of
\* the timer and of a sync.  Init does the same for an unlocked session.
EnterDashboard ==
    /\ screen = "other"
    /\ Spend
    /\ screen' = "dashboard"
    /\ entered' = TRUE
    /\ \E v \in Vaults \cup {NoId} : dash' = SelectVaultByID(dash, v)
    /\ IF dash.initialLoadDone
       THEN /\ Issue({LoadVaults} \cup IF table.vault = NoId THEN {} ELSE {Reload(table)})
            /\ UNCHANGED <<ticks, syncs>>
       ELSE /\ Issue({LoadVaults})
            /\ Room(IF chosen THEN 2 ELSE 1)
            /\ ticks' = ticks + 1
            /\ syncs' = IF chosen THEN Launched(syncs) ELSE syncs
    /\ UNCHANGED <<table, chosen>>

\* A form, a conflict, the lock screen or the autolock takes the screen, or the user
\* menu logs out.
LeaveDashboard ==
    /\ screen = "dashboard"
    /\ screen' = "other"
    /\ \/ UNCHANGED dash
       \/ dash.focus = "popup" /\ dash' = [dash EXCEPT !.focus = "table"]
    /\ UNCHANGED <<table, chosen, ticks, syncs, flight, left, entered>>

----------------------------------------------------------------------------
(* The background sync. *)

\* backgroundSyncTickMsg: while a sync runs the timer is only set again.
BackgroundSyncTick ==
    /\ ticks > 0 /\ ~dash.syncing
    /\ ticks' = ticks - 1
    /\ dash' = [dash EXCEPT !.syncing = TRUE]
    /\ syncs' = Launched(syncs)
    /\ UNCHANGED <<screen, table, chosen, flight, left, entered>>

SyncStep(k, s) ==
    /\ syncs' = [syncs EXCEPT ![k] = s]
    /\ UNCHANGED <<screen, dash, table, chosen, ticks, flight, entered>>

\* The goroutine: ReplayOutbox, then SyncWithProgress.  Every exit closes the channel.
ReplayOutbox(k) ==
    /\ syncs[k].at = "replay"
    /\ \/ SyncStep(k, [syncs[k] EXCEPT !.at = "pull"]) /\ UNCHANGED left
       \/ SyncStep(k, [syncs[k] EXCEPT !.at = "closed"]) /\ Spend

SyncWithProgress(k) ==
    LET s == syncs[k] IN
    /\ s.at = "pull"
    /\ \/ /\ s.held < ProgressCap
          /\ SyncStep(k, [s EXCEPT !.held = @ + 1])
          /\ UNCHANGED left
       \/ SyncStep(k, [s EXCEPT !.at = "closed", !.ok = TRUE]) /\ UNCHANGED left
       \/ SyncStep(k, [s EXCEPT !.at = "closed"]) /\ Spend

\* The command takes one element, or finds the channel empty and closed.
WaitForSyncProgress(k) ==
    LET s == syncs[k] IN
    /\ s.reader = "cmd"
    /\ \/ s.held > 0 /\ SyncStep(k, [s EXCEPT !.held = @ - 1, !.reader = "progress"])
       \/ s.held = 0 /\ s.at = "closed" /\ SyncStep(k, [s EXCEPT !.reader = "done"])
    /\ UNCHANGED left

\* Mutant: the message is lost on another screen.
SyncProgressDropped(k) ==
    /\ syncs[k].reader = "progress"
    /\ SyncStep(k, [syncs[k] EXCEPT !.reader = IF screen = "dashboard" THEN "cmd" ELSE "none"])
    /\ UNCHANGED left

\* syncProgressWithNext: the next read is planned.
SyncProgress(k) ==
    /\ syncs[k].reader = "progress"
    /\ SyncStep(k, [syncs[k] EXCEPT !.reader = "cmd"])
    /\ UNCHANGED left

\* Mutant: no new timer after an error.
BackgroundSyncDoneNoRetry(k) ==
    /\ syncs[k].reader = "done"
    /\ syncs' = [syncs EXCEPT ![k] = NoSync]
    /\ dash' = [dash EXCEPT !.syncing = FALSE]
    /\ ticks' = IF syncs[k].ok THEN ticks + 1 ELSE ticks
    /\ Issue(IF syncs[k].ok
             THEN {LoadVaults} \cup IF table.vault = NoId THEN {} ELSE {Reload(table)}
             ELSE {})
    /\ UNCHANGED <<screen, table, chosen, left, entered>>

\* backgroundSyncDoneMsg: the mark is cleared and the timer set, whoever else runs.
BackgroundSyncDone(k) ==
    /\ syncs[k].reader = "done"
    /\ syncs' = [syncs EXCEPT ![k] = NoSync]
    /\ dash' = [dash EXCEPT !.syncing = FALSE]
    /\ ticks' = ticks + 1
    /\ Issue(IF syncs[k].ok
             THEN {LoadVaults} \cup IF table.vault = NoId THEN {} ELSE {Reload(table)}
             ELSE {})
    /\ UNCHANGED <<screen, table, chosen, left, entered>>

----------------------------------------------------------------------------
(* The other commands, and their messages. *)

\* Between two loads a sync, a form or another device may have changed the cache:
\* a load finds all folders or secrets, or only some.
RunLoadVaults ==
    /\ LoadVaults \in BagToSet(flight)
    /\ \/ Take(LoadVaults, {VaultsLoaded(Vaults)}) /\ UNCHANGED left
       \/ Spend /\ \E fs \in SUBSET Vaults : Take(LoadVaults, {VaultsLoaded(fs)})
       \/ Spend /\ Take(LoadVaults, {VaultsErr})
    /\ UNCHANGED <<screen, dash, table, chosen, ticks, syncs, entered>>

RunReload(c) ==
    /\ c.it = "reload"
    /\ \/ Take(c, {RowsMsg(c, Secrets)}) /\ UNCHANGED left
       \/ Spend /\ \E s \in Secrets : Take(c, {RowsMsg(c, Secrets \ {s})})
       \/ Spend /\ Take(c, {RowsError})
    /\ UNCHANGED <<screen, dash, table, chosen, ticks, syncs, entered>>

\* Vault.Create; its error is shown like one of the list.
RunCreateVault ==
    /\ CreateVault \in BagToSet(flight)
    /\ \/ Take(CreateVault, {[it |-> "created"]})
          /\ UNCHANGED left
       \/ Take(CreateVault, {VaultsErr}) /\ Spend
    /\ UNCHANGED <<screen, dash, table, chosen, ticks, syncs, entered>>

\* Sync.Sync; only its success loads the folders again.
RunDoSync ==
    /\ DoSync \in BagToSet(flight)
    /\ \/ Take(DoSync, {[it |-> "syncDone"]}) /\ UNCHANGED left
       \/ Take(DoSync, {}) /\ Spend
    /\ UNCHANGED <<screen, dash, table, chosen, ticks, syncs, entered>>

\* confirm of the popup writes the flags and marks the scope as chosen; an error on
\* the way leaves the popup open.
RunConfirm ==
    /\ Confirm \in BagToSet(flight)
    /\ \/ Take(Confirm, {Confirmed}) /\ chosen' = TRUE /\ UNCHANGED left
       \/ Take(Confirm, {}) /\ UNCHANGED chosen /\ Spend
    /\ UNCHANGED <<screen, dash, table, ticks, syncs, entered>>

\* A message that arrives while another screen is shown is lost.
Lost(c) ==
    /\ screen = "other"
    /\ c.it \notin {"loadVaults", "reload", "createVault", "doSync", "confirm"}
    /\ Take(c, {})
    /\ UNCHANGED <<screen, dash, table, chosen, ticks, syncs, left, entered>>

OnDashboard == screen = "dashboard" /\ UNCHANGED screen

\* vaultsLoadedMsg: the cursor follows its folder, and stays in the list.
Reselected(vaults) ==
    LET d == SelectVaultByID([dash EXCEPT !.vaults = vaults], CurrentVaultID(dash)) IN
    [d EXCEPT !.initialLoadDone = TRUE, !.vaultsErr = FALSE,
              !.cursor = IF vaults # <<>> /\ @ > Len(vaults) THEN Len(vaults) ELSE @]

\* The first list of a session opens the choice of what to sync.
AsksScope(d) ==
    ~dash.initialLoadDone /\ d.vaults # <<>> /\ d.focus = "table" /\ ~chosen

\* Mutant: the table is not told about the new list.
HandleVaultsKeepsTable(c) ==
    LET d == Reselected(c.vaults) IN
    /\ OnDashboard /\ c.it = "vaults"
    /\ dash' = IF AsksScope(d) THEN [d EXCEPT !.focus = "scope"] ELSE d
    /\ Take(c, {}) /\ UNCHANGED table
    /\ UNCHANGED <<chosen, ticks, syncs, left, entered>>

HandleVaultsLoaded(c) ==
    LET d == Reselected(c.vaults) IN
    /\ OnDashboard /\ c.it = "vaults"
    /\ IF AsksScope(d)
       THEN /\ dash' = [d EXCEPT !.focus = "scope"]
            /\ Take(c, {}) /\ UNCHANGED table
       ELSE /\ dash' = d
            /\ table' = Retarget(d)
            /\ Take(c, RetargetCmds(d))
    /\ UNCHANGED <<chosen, ticks, syncs, left, entered>>

\* The error takes the place of the table.
HandleVaultsErr(c) ==
    /\ OnDashboard /\ c = VaultsErr
    /\ dash' = [dash EXCEPT !.vaultsErr = TRUE]
    /\ Take(c, {})
    /\ UNCHANGED <<table, chosen, ticks, syncs, left, entered>>

HandleRowsErr(c) ==
    /\ OnDashboard /\ c = RowsError
    /\ table' = RowsErr(table)
    /\ Take(c, {})
    /\ UNCHANGED <<dash, chosen, ticks, syncs, left, entered>>

HandleRowsLoaded(c) ==
    /\ OnDashboard /\ c.it = "rows"
    /\ table' = RowsLoaded(table, c.rows)
    /\ Take(c, ScheduleReveal(RowsLoaded(table, c.rows)))
    /\ UNCHANGED <<dash, chosen, ticks, syncs, left, entered>>

\* debounceTickMsg, payloadRevealedMsg and cardRevealedMsg reach the table only
\* while it has the focus.
HandleReveal(c) ==
    /\ OnDashboard /\ c.it \in {"debounce", "payload", "card"}
    /\ Take(c, IF dash.focus = "table" /\ c.it = "debounce"
                  /\ c.s = CurrentSecretID(table) /\ CanReveal(table, c.s)
               THEN {Reveal(c.s)} ELSE {})
    /\ table' = IF dash.focus # "table" THEN table
                ELSE CASE c.it = "debounce" -> table
                       [] c.it = "payload" -> PayloadRevealed(table, c.s)
                       [] c.it = "card" -> CardRevealed(table, c.s)
    /\ UNCHANGED <<dash, chosen, ticks, syncs, left, entered>>

\* vaultCreatedMsg: whatever has the focus loses it.
HandleVaultCreated(c) ==
    /\ OnDashboard /\ c.it = "created"
    /\ dash' = [dash EXCEPT !.focus = "table"]
    /\ Take(c, {LoadVaults})
    /\ UNCHANGED <<table, chosen, ticks, syncs, left, entered>>

HandleSyncDone(c) ==
    /\ OnDashboard /\ c.it = "syncDone"
    /\ Take(c, {LoadVaults})
    /\ UNCHANGED <<dash, table, chosen, ticks, syncs, left, entered>>

HandleScopeConfirmed(c) ==
    /\ OnDashboard /\ c.it = "confirmed" /\ Room(1)
    /\ dash' = [dash EXCEPT !.focus = "table", !.syncing = TRUE]
    /\ table' = Retarget(dash)
    /\ Take(c, RetargetCmds(dash))
    /\ syncs' = Launched(syncs)
    /\ UNCHANGED <<chosen, ticks, left, entered>>

----------------------------------------------------------------------------
(* Keys and clicks. *)

Key(focus) == screen = "dashboard" /\ dash.focus = focus /\ Spend
KeyOnly == UNCHANGED <<screen, chosen, ticks, syncs>>

IncWrap(i, n) == IF n = 0 THEN 1 ELSE (i % n) + 1
DecWrap(i, n) == IF n = 0 THEN 1 ELSE ((i + n - 2) % n) + 1

Switch(tab, cursor) ==
    /\ dash' = [dash EXCEPT !.tab = tab, !.cursor = cursor]
    /\ dash' # dash
    /\ table' = Retarget(dash')
    /\ Issue(RetargetCmds(dash'))
    /\ KeyOnly /\ UNCHANGED entered

\* Tab and Shift+Tab, [ and ], the digits.
SwitchTab ==
    /\ Key("table")
    /\ \/ \E i \in {IncWrap(dash.tab, Len(TypeTabs)), DecWrap(dash.tab, Len(TypeTabs))} :
            Switch(i, dash.cursor)
       \/ \E j \in {IncWrap(dash.cursor, Len(dash.vaults)), DecWrap(dash.cursor, Len(dash.vaults))}
                   \cup DOMAIN dash.vaults : Switch(dash.tab, j)

\* A click on a tab is taken whatever has the focus, an open popup too.
HandleTabClick ==
    /\ screen = "dashboard" /\ Spend
    /\ \/ \E i \in DOMAIN TypeTabs : Switch(i, dash.cursor)
       \/ \E j \in DOMAIN dash.vaults : Switch(dash.tab, j)

\* Up and Down; the search line hands them on.
MoveCursor ==
    /\ screen = "dashboard" /\ Spend
    /\ dash.focus = "command" \/ (dash.focus = "table" /\ dash.vaults # <<>>)
    /\ \E d \in {-1, 1} :
        /\ CursorBy(table, d) # table
        /\ table' = CursorBy(table, d)
        /\ Issue(ScheduleReveal(CursorBy(table, d)))
    /\ KeyOnly /\ UNCHANGED <<dash, entered>>

\* [R] on a card, and the click on "show".
ShowCard ==
    /\ Key("table")
    /\ \E i \in DOMAIN table.rows :
        /\ TypeOf[table.rows[i]] = "card"
        /\ table' = ClickRow(table, i)
        /\ Issue(IF CanReveal(table, table.rows[i]) THEN {RevealCard(table.rows[i])} ELSE {})
    /\ KeyOnly /\ UNCHANGED <<dash, entered>>

\* A click on a masked cell: revealAndCopy takes the value of the row clicked.
ClickCell ==
    /\ Key("table")
    /\ \E i \in DOMAIN table.rows :
        /\ ~(i = table.cursor /\ table.revealed = table.rows[i])
        /\ table' = ClickRow(table, i)
        /\ Issue(ScheduleReveal(ClickRow(table, i)))
    /\ KeyOnly /\ UNCHANGED <<dash, entered>>

\* "/", and the popups: settings, user menu, logs, new folder, download.  The buttons
\* of the top bar open theirs over any other.
OpenFocus ==
    /\ screen = "dashboard" /\ Spend
    /\ \/ /\ dash.focus \in {"table", "command"}
          /\ \E f \in {"command", "create"} \ {dash.focus} : dash' = [dash EXCEPT !.focus = f]
       \/ dash.focus # "popup" /\ dash' = [dash EXCEPT !.focus = "popup"]
    /\ KeyOnly /\ UNCHANGED <<table, flight, entered>>

CloseFocus ==
    /\ screen = "dashboard" /\ dash.focus \in {"popup", "create"}
    /\ dash' = [dash EXCEPT !.focus = "table"]
    /\ KeyOnly /\ UNCHANGED <<table, flight, left, entered>>

\* The search line: typing filters at once, Enter keeps the filter, Esc drops it.
SearchKey ==
    /\ screen = "dashboard" /\ dash.focus = "command"
    /\ \/ /\ \E s \in Secrets \cup {NoId} : table' = SetSearchQuery(table, s)
          /\ Spend /\ UNCHANGED dash
       \/ dash' = [dash EXCEPT !.focus = "table"] /\ UNCHANGED <<table, left>>
       \/ /\ dash' = [dash EXCEPT !.focus = "table"] /\ table' = ClearSearch(table)
          /\ UNCHANGED left
    /\ KeyOnly /\ UNCHANGED <<flight, entered>>

\* "/sync"
RunCommandSync ==
    /\ Key("command")
    /\ dash' = [dash EXCEPT !.focus = "table"]
    /\ Issue({DoSync})
    /\ KeyOnly /\ UNCHANGED <<table, entered>>

VaultCreateKey ==
    /\ screen = "dashboard" /\ dash.focus = "create"
    /\ dash' = [dash EXCEPT !.focus = "table"]
    /\ Issue({CreateVault})
    /\ KeyOnly /\ UNCHANGED <<table, left, entered>>

\* Enter and Esc confirm the choice; the popup closes with the answer.
SyncScopeKey ==
    /\ Key("scope")
    /\ Issue({Confirm})
    /\ KeyOnly /\ UNCHANGED <<dash, table, entered>>

----------------------------------------------------------------------------
SyncNext ==
    \/ BackgroundSyncTick
    \/ \E k \in DOMAIN syncs :
        \/ ReplayOutbox(k) \/ SyncWithProgress(k)
        \/ WaitForSyncProgress(k) \/ SyncProgress(k) \/ BackgroundSyncDone(k)

MessageNext ==
    \/ RunLoadVaults \/ RunCreateVault \/ RunDoSync \/ RunConfirm
    \/ \E c \in BagToSet(flight) :
        \/ RunReload(c) \/ Lost(c) \/ HandleVaultsLoaded(c) \/ HandleRowsLoaded(c)
        \/ HandleReveal(c) \/ HandleVaultCreated(c) \/ HandleScopeConfirmed(c)
        \/ HandleVaultsErr(c) \/ HandleRowsErr(c) \/ HandleSyncDone(c)

KeyNext ==
    \/ SwitchTab \/ HandleTabClick \/ MoveCursor \/ ShowCard \/ ClickCell \/ OpenFocus \/ CloseFocus
    \/ SearchKey \/ RunCommandSync \/ VaultCreateKey \/ SyncScopeKey

Next == EnterDashboard \/ LeaveDashboard \/ SyncNext \/ MessageNext \/ KeyNext

Spec == Init /\ [][Next]_vars

----------------------------------------------------------------------------
(* Properties *)

TypeOK ==
    /\ screen \in {"dashboard", "other"}
    /\ dash \in [vaults : Seq(Vaults), cursor : 1 .. Cardinality(Vaults), tab : DOMAIN TypeTabs,
                 focus : {"table", "command", "popup", "create", "scope"},
                 initialLoadDone : BOOLEAN, syncing : BOOLEAN, vaultsErr : BOOLEAN]
    /\ table \in [vault : Vaults \cup {NoId}, type : {TypeTabs[i] : i \in DOMAIN TypeTabs},
                  allRows : Seq(Secrets), rows : Seq(Secrets),
                  cursor : 1 .. (1 + Cardinality(Secrets)), loading : BOOLEAN,
                  search : Secrets \cup {NoId}, revealed : Secrets \cup {NoId},
                  card : Secrets \cup {NoId}]
    /\ ticks \in 0 .. MaxChains
    /\ \A k \in DOMAIN syncs :
        syncs[k] \in [at : {"none", "replay", "pull", "closed"}, held : 0 .. ProgressCap,
                      reader : {"none", "cmd", "progress", "done"},
                      ok : BOOLEAN]

\* app.go: once the dashboard was entered, the background sync never dies out: a
\* timer is set, or a run is under way whose end sets one, on whatever screen the
\* messages arrive and however the runs fail; and ticks are only skipped as long as
\* a run is under way.
SyncAlive ==
    /\ entered => ticks > 0 \/ \E k \in DOMAIN syncs : Running(k)
    /\ dash.syncing => \E k \in DOMAIN syncs : Running(k)

\* dashboard.go, progress.go: every run has its reader, so that a full progress
\* channel does not hold the goroutine for ever.
EveryRunIsRead == \A k \in DOMAIN syncs : Running(k) => syncs[k].reader # "none"

\* dashboard_table.go, dashboard.go: while there are rows the cursor is on one of them,
\* and while there are folders one of them is selected, whatever search, late load,
\* click or shorter list came before: the keys act on what the user sees.
CursorsShown ==
    /\ table.rows # <<>> => table.cursor \in DOMAIN table.rows
    /\ dash.vaults # <<>> => dash.cursor \in DOMAIN dash.vaults

\* What brings the table to the tabs, and what ends its loading.
Fixers == {"loadVaults", "vaults", "vaultsErr", "confirmed"}
Loaders == {"reload", "rows", "rowsErr"}

\* dashboard.go: when no list of folders and no confirmed choice of the sync scope is
\* under way, the table shows the folder and the type the tabs show, or that choice is
\* still open.
TableOnTab ==
    screen = "dashboard" /\ chosen /\ ~dash.vaultsErr
    /\ ~(\E c \in BagToSet(flight) : c.it \in Fixers)
        => table.vault = CurrentVaultID(dash)
           /\ (table.vault # NoId => table.type = CurrentTypeTab(dash))

\* dashboard_table.go: the table does not show "loading" for ever: what loads it is
\* under way.
LoadingAnswered ==
    screen = "dashboard" /\ chosen /\ table.loading /\ ~dash.vaultsErr
        => \E c \in BagToSet(flight) : c.it \in Fixers \cup Loaders
=============================================================================
