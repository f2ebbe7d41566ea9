--------------------------- MODULE DashboardProofs ---------------------------
(***************************************************************************)
(* For any folders, rows, capacity of the progress channel and bounds: the *)
(* background sync of the dashboard never dies out, and every run of it is *)
(* read; the cursors are on what is shown, the table is on its tabs or on  *)
(* its way there, and what it waits for is under way.                      *)
(***************************************************************************)
EXTENDS Dashboard, SequenceTheorems, FiniteSetTheorems, TLAPS

RunStates == [at : {"none", "replay", "pull", "closed"}, held : Nat,
              reader : {"none", "cmd", "progress", "done"}, ok : BOOLEAN]
Runs == [1 .. MaxChains -> RunStates]
UnderWay(ss) == {k \in DOMAIN ss : ss[k] # NoSync}

\* d has the fields of dash; what the lists and cursors hold does not matter here.
Shape(d) ==
    d \in [vaults : {d.vaults}, cursor : {d.cursor}, tab : {d.tab}, focus : {d.focus},
           initialLoadDone : {d.initialLoadDone}, syncing : {d.syncing},
           vaultsErr : {d.vaultsErr}]

\* Every run has its reader, in any array of runs.
AllRead(ss) == \A k \in DOMAIN ss : ss[k] # NoSync => ss[k].reader # "none"

\* The inductive invariant: SyncAlive and EveryRunIsRead, that a list of folders only
\* arrives once the dashboard was entered, and that there is room for every timer to
\* become a run.
ChainInv ==
    /\ ticks \in Nat /\ syncs \in Runs /\ Shape(dash)
    /\ Room(0)
    /\ AllRead(syncs)
    /\ SyncAlive
    /\ screen = "dashboard" \/ dash.initialLoadDone => entered

\* What most steps do to the chain of timers and runs: nothing.
Keeps ==
    /\ UNCHANGED <<ticks, syncs, entered>>
    /\ Shape(dash') /\ dash'.syncing = dash.syncing
    /\ dash'.initialLoadDone => dash.initialLoadDone \/ screen = "dashboard"
    /\ screen' = "dashboard" => screen = "dashboard"

----------------------------------------------------------------------------
(* Counting runs. *)

LEMMA UnderWayFinite ==
  ASSUME NEW ss \in Runs
  PROVE  /\ IsFiniteSet(UnderWay(ss)) /\ Cardinality(UnderWay(ss)) \in Nat
         /\ UnderWay(ss) \subseteq 1 .. MaxChains
<1>1. MaxChains \in Nat
  BY DashboardAssumption
<1>2. IsFiniteSet(1 .. MaxChains)
  BY <1>1, FS_Interval
<1>3. UnderWay(ss) \subseteq 1 .. MaxChains
  BY DEF UnderWay, Runs
<1> QED
  BY <1>2, <1>3, FS_Subset, FS_CardinalityType

\* While fewer than MaxChains runs are under way a new one finds a place.
LEMMA LaunchedAdds ==
  ASSUME NEW ss \in Runs, AllRead(ss), Cardinality(UnderWay(ss)) < MaxChains
  PROVE  /\ Launched(ss) \in Runs /\ AllRead(Launched(ss))
         /\ \E k \in DOMAIN Launched(ss) : Launched(ss)[k] # NoSync
         /\ Cardinality(UnderWay(Launched(ss))) = Cardinality(UnderWay(ss)) + 1
<1>1. MaxChains \in Nat
  BY DashboardAssumption
<1>2. PICK k \in DOMAIN ss : ss[k] = NoSync
  <2>1. SUFFICES ASSUME \A k \in DOMAIN ss : ss[k] # NoSync
                 PROVE  FALSE
    OBVIOUS
  <2>2. UnderWay(ss) = 1 .. MaxChains
    BY <2>1 DEF UnderWay, Runs
  <2>3. Cardinality(1 .. MaxChains) = MaxChains
    BY <1>1, FS_Interval
  <2> QED
    BY <1>1, <2>2, <2>3
<1> DEFINE f == CHOOSE i \in DOMAIN ss : ss[i] = NoSync
           new == [ss EXCEPT ![f] = LaunchBackgroundSync]
<1>3. f \in DOMAIN ss /\ ss[f] = NoSync
  BY <1>2
<1>4. Launched(ss) = new
  BY DEF Launched
<1>5. LaunchBackgroundSync \in RunStates /\ LaunchBackgroundSync # NoSync
      /\ LaunchBackgroundSync.reader = "cmd"
  BY DEF LaunchBackgroundSync, RunStates, NoSync
<1> HIDE DEF f
<1>6. new \in Runs /\ AllRead(new) /\ f \in DOMAIN new /\ new[f] = LaunchBackgroundSync
  BY <1>3, <1>5 DEF Runs, AllRead
<1>7. UnderWay(new) = UnderWay(ss) \cup {f} /\ f \notin UnderWay(ss)
  BY <1>3, <1>5 DEF UnderWay
<1>8. Cardinality(UnderWay(new)) = Cardinality(UnderWay(ss)) + 1
  BY <1>7, UnderWayFinite, FS_AddElement
<1> QED
  BY <1>4, <1>5, <1>6, <1>8

\* A run goes on: as many are under way as before.
LEMMA RunGoesOn ==
  ASSUME NEW ss \in Runs, NEW k \in DOMAIN ss, ss[k] # NoSync, NEW s, s # NoSync
  PROVE  UnderWay([ss EXCEPT ![k] = s]) = UnderWay(ss)
BY DEF UnderWay, Runs

LEMMA RunEnds ==
  ASSUME NEW ss \in Runs, NEW k \in DOMAIN ss, ss[k] # NoSync
  PROVE  Cardinality(UnderWay([ss EXCEPT ![k] = NoSync])) = Cardinality(UnderWay(ss)) - 1
<1>1. UnderWay([ss EXCEPT ![k] = NoSync]) = UnderWay(ss) \ {k} /\ k \in UnderWay(ss)
  BY DEF UnderWay, Runs
<1> QED
  BY <1>1, UnderWayFinite, FS_RemoveElement

LEMMA RoomCounts ==
  ASSUME NEW n
  PROVE  Room(n) <=> ticks + Cardinality(UnderWay(syncs)) + n <= MaxChains
BY DEF Room, UnderWay, Running

\* The limit as arithmetic.
LEMMA RoomLeft ==
  ASSUME ChainInv
  PROVE  /\ Cardinality(UnderWay(syncs)) \in Nat
         /\ ticks + Cardinality(UnderWay(syncs)) <= MaxChains
<1>1. syncs \in Runs /\ ticks \in Nat /\ Room(0) /\ MaxChains \in Nat
  BY DashboardAssumption DEF ChainInv
<1>2. Cardinality(UnderWay(syncs)) \in Nat
  BY <1>1, UnderWayFinite
<1>3. ticks + Cardinality(UnderWay(syncs)) + 0 <= MaxChains
  BY <1>1, RoomCounts
<1> QED
  BY <1>1, <1>2, <1>3

----------------------------------------------------------------------------
(* Steps that leave the chain alone. *)

LEMMA KeepsChain ==
  ASSUME ChainInv, Keeps
  PROVE  ChainInv'
<1>1. Room(0)'
  BY DEF ChainInv, Keeps, Room, Running
<1>2. SyncAlive'
  BY DEF ChainInv, Keeps, SyncAlive, Running
<1> QED
  BY <1>1, <1>2 DEF ChainInv, Keeps

LEMMA SelectKeeps ==
  ASSUME NEW d, NEW v, Shape(d)
  PROVE  /\ Shape(SelectVaultByID(d, v))
         /\ SelectVaultByID(d, v).syncing = d.syncing
         /\ SelectVaultByID(d, v).initialLoadDone = d.initialLoadDone
<1>1. CASE \E i \in DOMAIN d.vaults : d.vaults[i] = v
  <2> DEFINE c == CHOOSE i \in DOMAIN d.vaults : d.vaults[i] = v
  <2>1. SelectVaultByID(d, v) = [d EXCEPT !.cursor = c]
    BY <1>1 DEF SelectVaultByID
  <2> HIDE DEF c
  <2> QED
    BY <2>1 DEF Shape
<1>2. CASE ~\E i \in DOMAIN d.vaults : d.vaults[i] = v
  BY <1>2 DEF SelectVaultByID
<1> QED
  BY <1>1, <1>2

LEMMA MessageKeeps ==
  ASSUME ChainInv, MessageNext, ~\E c \in BagToSet(flight) : HandleScopeConfirmed(c)
  PROVE  Keeps
<1>s. Shape(dash)
  BY DEF ChainInv
<1>1. CASE RunLoadVaults \/ RunCreateVault \/ RunDoSync \/ RunConfirm
  BY <1>1, <1>s DEF Keeps, RunLoadVaults, RunCreateVault, RunDoSync, RunConfirm
<1>2. ASSUME NEW c \in BagToSet(flight),
             RunReload(c) \/ Lost(c) \/ HandleRowsLoaded(c) \/ HandleReveal(c)
             \/ HandleRowsErr(c) \/ HandleSyncDone(c)
      PROVE  Keeps
  BY <1>2, <1>s DEF Keeps, RunReload, Lost, HandleRowsLoaded, HandleReveal, HandleRowsErr,
     HandleSyncDone, OnDashboard
<1>3. ASSUME NEW c \in BagToSet(flight), HandleVaultCreated(c) \/ HandleVaultsErr(c)
      PROVE  Keeps
  BY <1>3, <1>s DEF Keeps, HandleVaultCreated, HandleVaultsErr, OnDashboard, Shape
<1>4. ASSUME NEW c \in BagToSet(flight), HandleVaultsLoaded(c)
      PROVE  Keeps
  <2> DEFINE v == CurrentVaultID(dash)
             listed == [dash EXCEPT !.vaults = c.vaults]
             sel == SelectVaultByID(listed, v)
             d == Reselected(c.vaults)
  <2>1. Shape(listed) /\ listed.syncing = dash.syncing
    BY <1>s DEF Shape
  <2>2. Shape(sel) /\ sel.syncing = dash.syncing
    BY <2>1, SelectKeeps
  <2>3. PICK n : d = [sel EXCEPT !.initialLoadDone = TRUE, !.vaultsErr = FALSE, !.cursor = n]
    BY DEF Reselected
  <2> HIDE DEF sel, d
  <2>4. Shape(d) /\ d.syncing = dash.syncing
    BY <2>2, <2>3 DEF Shape
  <2>5. Shape([d EXCEPT !.focus = "scope"]) /\ [d EXCEPT !.focus = "scope"].syncing = dash.syncing
    BY <2>4 DEF Shape
  <2>6. dash' = [d EXCEPT !.focus = "scope"] \/ dash' = d
    BY <1>4 DEF HandleVaultsLoaded, d
  <2>7. UNCHANGED <<ticks, syncs, entered, screen>> /\ screen = "dashboard"
    BY <1>4 DEF HandleVaultsLoaded, OnDashboard
  <2> QED
    BY <2>4, <2>5, <2>6, <2>7 DEF Keeps
<1> QED
  BY <1>1, <1>2, <1>3, <1>4 DEF MessageNext

LEMMA KeyKeeps ==
  ASSUME ChainInv, KeyNext \/ LeaveDashboard
  PROVE  Keeps
<1>s. Shape(dash)
  BY DEF ChainInv
<1>1. CASE MoveCursor \/ ShowCard \/ ClickCell \/ SyncScopeKey
  BY <1>1, <1>s DEF Keeps, MoveCursor, ShowCard, ClickCell, SyncScopeKey, KeyOnly
<1>2. CASE OpenFocus
  BY <1>2, <1>s DEF Keeps, OpenFocus, KeyOnly, Shape
<1>3. CASE CloseFocus \/ SearchKey \/ RunCommandSync \/ VaultCreateKey
  BY <1>3, <1>s DEF Keeps, CloseFocus, SearchKey, RunCommandSync, VaultCreateKey, KeyOnly, Shape
<1>4. ASSUME NEW i, NEW j, Switch(i, j)
      PROVE  Keeps
  BY <1>4, <1>s DEF Keeps, Switch, KeyOnly, Shape
<1>5. CASE SwitchTab \/ HandleTabClick
  BY <1>4, <1>5 DEF SwitchTab, HandleTabClick
<1>6. CASE LeaveDashboard
  BY <1>6, <1>s DEF Keeps, LeaveDashboard, Shape
<1> QED
  BY <1>1, <1>2, <1>3, <1>5, <1>6 DEF KeyNext

----------------------------------------------------------------------------
(* Steps of the chain. *)

LEMMA EnterKeepsChain ==
  ASSUME ChainInv, EnterDashboard
  PROVE  ChainInv'
<1>s. Shape(dash) /\ syncs \in Runs /\ ticks \in Nat /\ AllRead(syncs) /\ MaxChains \in Nat
  BY DashboardAssumption DEF ChainInv
<1>1. Shape(dash') /\ dash'.syncing = dash.syncing
  BY <1>s, SelectKeeps DEF EnterDashboard
<1>2. entered'
  BY DEF EnterDashboard
<1>3. CASE dash.initialLoadDone
  <2>1. UNCHANGED <<ticks, syncs>>
    BY <1>3 DEF EnterDashboard
  <2>2. SyncAlive'
    BY <1>1, <1>3, <2>1 DEF ChainInv, SyncAlive, Running
  <2>3. Room(0)'
    BY <2>1 DEF ChainInv, Room, Running
  <2> QED
    BY <1>s, <1>1, <1>2, <2>1, <2>2, <2>3 DEF ChainInv
<1>4. CASE ~dash.initialLoadDone
  <2>1. ticks' = ticks + 1
    BY <1>4 DEF EnterDashboard
  <2>2. CASE chosen
    <3>1. syncs' = Launched(syncs)
      BY <1>4, <2>2 DEF EnterDashboard
    <3>2. ticks + Cardinality(UnderWay(syncs)) + 2 <= MaxChains
      BY <1>4, <2>2 DEF EnterDashboard, Room, UnderWay, Running
    <3>3. Cardinality(UnderWay(syncs)) < MaxChains
      BY <1>s, <3>2, UnderWayFinite
    <3>4. /\ syncs' \in Runs /\ AllRead(syncs') /\ \E k \in DOMAIN syncs' : syncs'[k] # NoSync
          /\ Cardinality(UnderWay(syncs')) = Cardinality(UnderWay(syncs)) + 1
      BY <1>s, <3>1, <3>3, LaunchedAdds
    <3>5. Room(0)'
      <4>1. ticks' + Cardinality(UnderWay(syncs')) + 0 <= MaxChains
        BY <1>s, <2>1, <3>2, <3>4, UnderWayFinite
      <4> QED
        BY <4>1 DEF Room, UnderWay, Running
    <3>6. SyncAlive'
      BY <3>4 DEF SyncAlive, Running
    <3> QED
      BY <1>s, <1>1, <1>2, <2>1, <3>4, <3>5, <3>6 DEF ChainInv
  <2>3. CASE ~chosen
    <3>1. UNCHANGED syncs
      BY <1>4, <2>3 DEF EnterDashboard
    <3>2. ticks + Cardinality(UnderWay(syncs)) + 1 <= MaxChains
      BY <1>4, <2>3 DEF EnterDashboard, Room, UnderWay, Running
    <3>3. Room(0)'
      <4>1. ticks' + Cardinality(UnderWay(syncs')) + 0 <= MaxChains
        BY <1>s, <2>1, <3>1, <3>2, UnderWayFinite
      <4> QED
        BY <4>1 DEF Room, UnderWay, Running
    <3>4. SyncAlive'
      BY <1>s, <1>1, <2>1, <3>1 DEF ChainInv, SyncAlive, Running
    <3> QED
      BY <1>s, <1>1, <1>2, <2>1, <3>1, <3>3, <3>4 DEF ChainInv
  <2> QED
    BY <2>2, <2>3
<1> QED
  BY <1>3, <1>4

\* A timer that becomes a run, or a choice of the scope that starts one.
LEMMA StartKeepsChain ==
  ASSUME ChainInv, Shape(dash'), dash'.initialLoadDone = dash.initialLoadDone,
         syncs' = Launched(syncs), UNCHANGED <<screen, entered>>,
         \/ ticks > 0 /\ ticks' = ticks - 1
         \/ Room(1) /\ ticks' = ticks
  PROVE  ChainInv'
<1>s. syncs \in Runs /\ ticks \in Nat /\ AllRead(syncs) /\ MaxChains \in Nat
  BY DashboardAssumption DEF ChainInv
<1>1. ticks' \in Nat /\ ticks' + Cardinality(UnderWay(syncs)) + 1 <= MaxChains
  <2>1. CASE ticks > 0 /\ ticks' = ticks - 1
    BY <1>s, <2>1, RoomLeft
  <2>2. CASE Room(1) /\ ticks' = ticks
    BY <1>s, <2>2, RoomCounts
  <2> QED
    BY <2>1, <2>2
<1>2. Cardinality(UnderWay(syncs)) < MaxChains
  BY <1>s, <1>1, UnderWayFinite
<1>3. /\ syncs' \in Runs /\ AllRead(syncs') /\ \E k \in DOMAIN syncs' : syncs'[k] # NoSync
      /\ Cardinality(UnderWay(syncs')) = Cardinality(UnderWay(syncs)) + 1
  BY <1>s, <1>2, LaunchedAdds
<1>4. Room(0)'
  <2>1. ticks' + Cardinality(UnderWay(syncs')) + 0 <= MaxChains
    BY <1>s, <1>1, <1>3, UnderWayFinite
  <2> QED
    BY <2>1 DEF Room, UnderWay, Running
<1>5. SyncAlive'
  BY <1>3 DEF SyncAlive, Running
<1> QED
  BY <1>1, <1>3, <1>4, <1>5 DEF ChainInv

\* The goroutine, the command that reads its channel, and the handler of what it read.
LEMMA RunKeepsChain ==
  ASSUME ChainInv, NEW k \in DOMAIN syncs,
         ReplayOutbox(k) \/ SyncWithProgress(k) \/ WaitForSyncProgress(k) \/ SyncProgress(k)
  PROVE  ChainInv'
<1>s. syncs \in Runs /\ syncs[k] \in RunStates
  BY DEF ChainInv, Runs
<1>1. PICK s \in RunStates : SyncStep(k, s) /\ s.reader # "none" /\ syncs[k] # NoSync
  <2>1. CASE ReplayOutbox(k)
    BY <1>s, <2>1 DEF ReplayOutbox, RunStates, NoSync, ChainInv, AllRead
  <2>2. CASE SyncWithProgress(k)
    <3>1. syncs[k] # NoSync /\ syncs[k].reader # "none"
      BY <2>2 DEF SyncWithProgress, NoSync, ChainInv, AllRead
    <3>2. PICK h \in Nat, at \in {"pull", "closed"}, ok \in BOOLEAN :
            SyncStep(k, [syncs[k] EXCEPT !.at = at, !.held = h, !.ok = ok])
      <4> DEFINE n == syncs[k]
      <4>1. CASE n.held < ProgressCap /\ SyncStep(k, [n EXCEPT !.held = @ + 1])
        <5>1. [n EXCEPT !.held = @ + 1] = [n EXCEPT !.at = "pull", !.held = n.held + 1, !.ok = n.ok]
          BY <1>s, <2>2 DEF SyncWithProgress, RunStates
        <5>2. n.held + 1 \in Nat /\ n.ok \in BOOLEAN
          BY <1>s DEF RunStates
        <5> QED
          BY <4>1, <5>1, <5>2
      <4>2. CASE SyncStep(k, [n EXCEPT !.at = "closed", !.ok = TRUE])
        <5>1. [n EXCEPT !.at = "closed", !.ok = TRUE] = [n EXCEPT !.at = "closed", !.held = n.held, !.ok = TRUE]
          BY <1>s DEF RunStates
        <5>2. n.held \in Nat
          BY <1>s DEF RunStates
        <5> QED
          BY <4>2, <5>1, <5>2
      <4>3. CASE SyncStep(k, [n EXCEPT !.at = "closed"])
        <5>1. [n EXCEPT !.at = "closed"] = [n EXCEPT !.at = "closed", !.held = n.held, !.ok = n.ok]
          BY <1>s DEF RunStates
        <5>2. n.held \in Nat /\ n.ok \in BOOLEAN
          BY <1>s DEF RunStates
        <5> QED
          BY <4>3, <5>1, <5>2
      <4> QED
        BY <2>2, <4>1, <4>2, <4>3 DEF SyncWithProgress
    <3>3. [syncs[k] EXCEPT !.at = at, !.held = h, !.ok = ok] \in RunStates
      BY <1>s DEF RunStates
    <3>4. [syncs[k] EXCEPT !.at = at, !.held = h, !.ok = ok].reader = syncs[k].reader
      BY <1>s DEF RunStates
    <3> QED
      BY <3>1, <3>2, <3>3, <3>4
  <2>3. CASE WaitForSyncProgress(k)
    <3>1. syncs[k] # NoSync
      BY <2>3 DEF WaitForSyncProgress, NoSync
    <3>2. CASE /\ syncs[k].held > 0
               /\ SyncStep(k, [syncs[k] EXCEPT !.held = @ - 1, !.reader = "progress"])
      <4> DEFINE n == [syncs[k] EXCEPT !.held = @ - 1, !.reader = "progress"]
      <4>1. syncs[k].held - 1 \in Nat
        BY <1>s, <3>2 DEF RunStates
      <4>2. n \in RunStates /\ n.reader = "progress"
        BY <1>s, <4>1 DEF RunStates
      <4> QED
        BY <3>1, <3>2, <4>2
    <3>3. CASE SyncStep(k, [syncs[k] EXCEPT !.reader = "done"])
      <4>1. [syncs[k] EXCEPT !.reader = "done"] \in RunStates
            /\ [syncs[k] EXCEPT !.reader = "done"].reader = "done"
        BY <1>s DEF RunStates
      <4> QED
        BY <3>1, <3>3, <4>1
    <3> QED
      BY <2>3, <3>2, <3>3 DEF WaitForSyncProgress
  <2>4. CASE SyncProgress(k)
    BY <1>s, <2>4 DEF SyncProgress, RunStates, NoSync
  <2> QED
    BY <2>1, <2>2, <2>3, <2>4
<1>2. syncs' = [syncs EXCEPT ![k] = s] /\ UNCHANGED <<screen, dash, ticks, entered>>
  BY <1>1 DEF SyncStep
<1>3. s # NoSync
  BY <1>1 DEF NoSync
<1>4. syncs' \in Runs /\ AllRead(syncs') /\ k \in DOMAIN syncs' /\ syncs'[k] # NoSync
  BY <1>s, <1>1, <1>2, <1>3 DEF ChainInv, Runs, AllRead
<1>5. Room(0)'
  <2>1. UnderWay(syncs') = UnderWay(syncs)
    BY <1>s, <1>1, <1>2, <1>3, RunGoesOn
  <2> QED
    BY <1>2, <2>1 DEF ChainInv, Room, UnderWay, Running
<1>6. SyncAlive'
  BY <1>4 DEF SyncAlive, Running
<1> QED
  BY <1>2, <1>4, <1>5, <1>6 DEF ChainInv

LEMMA DoneKeepsChain ==
  ASSUME ChainInv, NEW k \in DOMAIN syncs, BackgroundSyncDone(k)
  PROVE  ChainInv'
<1>s. syncs \in Runs /\ ticks \in Nat /\ MaxChains \in Nat /\ Shape(dash)
  BY DashboardAssumption DEF ChainInv
<1>1. syncs[k] # NoSync
  BY DEF BackgroundSyncDone, NoSync
<1>2. /\ syncs' = [syncs EXCEPT ![k] = NoSync] /\ dash' = [dash EXCEPT !.syncing = FALSE]
      /\ ticks' = ticks + 1 /\ UNCHANGED <<screen, entered>>
  BY DEF BackgroundSyncDone
<1>3. syncs' \in Runs /\ AllRead(syncs')
  BY <1>s, <1>2 DEF ChainInv, Runs, AllRead, NoSync, RunStates
<1>4. Room(0)'
  <2>1. Cardinality(UnderWay(syncs')) = Cardinality(UnderWay(syncs)) - 1
    BY <1>s, <1>1, <1>2, RunEnds
  <2>2. ticks + Cardinality(UnderWay(syncs)) <= MaxChains
    BY RoomLeft
  <2>3. ticks' + Cardinality(UnderWay(syncs')) + 0 <= MaxChains
    BY <1>s, <1>2, <2>1, <2>2, UnderWayFinite
  <2> QED
    BY <2>3 DEF Room, UnderWay, Running
<1>5. Shape(dash') /\ dash'.syncing = FALSE /\ dash'.initialLoadDone = dash.initialLoadDone
  BY <1>s, <1>2 DEF Shape
<1>6. SyncAlive'
  BY <1>s, <1>2, <1>5 DEF SyncAlive
<1> QED
  BY <1>s, <1>2, <1>3, <1>4, <1>5, <1>6 DEF ChainInv

----------------------------------------------------------------------------
(* The theorems. *)

LEMMA ChainInit == Init => ChainInv
<1> SUFFICES ASSUME Init
             PROVE  ChainInv
  OBVIOUS
<1>1. MaxChains \in Nat
  BY DashboardAssumption
<1>2. syncs \in Runs /\ AllRead(syncs) /\ UnderWay(syncs) = {}
  BY DEF Init, Runs, RunStates, NoSync, AllRead, UnderWay
<1>3. Room(0)
  <2>1. ticks + Cardinality(UnderWay(syncs)) + 0 <= MaxChains
    <3>1. ticks = 0
      BY DEF Init
    <3>2. Cardinality(UnderWay(syncs)) = 0
      BY <1>2, FS_EmptySet
    <3> QED
      BY <1>1, <3>1, <3>2
  <2> QED
    BY <2>1 DEF Room, UnderWay, Running
<1>4. Shape(dash) /\ ~dash.syncing /\ ~dash.initialLoadDone
  BY DEF Init, Shape
<1> QED
  BY <1>2, <1>3, <1>4 DEF Init, ChainInv, SyncAlive

LEMMA ChainStep == ChainInv /\ [Next]_vars => ChainInv'
<1> SUFFICES ASSUME ChainInv, [Next]_vars
             PROVE  ChainInv'
  OBVIOUS
<1>1. CASE EnterDashboard
  BY <1>1, EnterKeepsChain
<1>2. CASE KeyNext \/ LeaveDashboard
  BY <1>2, KeyKeeps, KeepsChain
<1>3. CASE BackgroundSyncTick
  <2>1. Shape(dash') /\ dash'.initialLoadDone = dash.initialLoadDone
    BY <1>3 DEF BackgroundSyncTick, ChainInv, Shape
  <2>2. /\ syncs' = Launched(syncs) /\ UNCHANGED <<screen, entered>>
        /\ ticks > 0 /\ ticks' = ticks - 1
    BY <1>3 DEF BackgroundSyncTick
  <2> QED
    BY <2>1, <2>2, StartKeepsChain
<1>4. ASSUME NEW k \in DOMAIN syncs,
             ReplayOutbox(k) \/ SyncWithProgress(k)
             \/ WaitForSyncProgress(k) \/ SyncProgress(k) \/ BackgroundSyncDone(k)
      PROVE  ChainInv'
  BY <1>4, RunKeepsChain, DoneKeepsChain
<1>5. ASSUME NEW c \in BagToSet(flight), HandleScopeConfirmed(c)
      PROVE  ChainInv'
  <2>1. Shape(dash') /\ dash'.initialLoadDone = dash.initialLoadDone
    BY <1>5 DEF HandleScopeConfirmed, ChainInv, Shape
  <2>2. /\ syncs' = Launched(syncs) /\ UNCHANGED <<screen, entered>>
        /\ Room(1) /\ ticks' = ticks
    BY <1>5 DEF HandleScopeConfirmed, OnDashboard
  <2> QED
    BY <2>1, <2>2, StartKeepsChain
<1>6. CASE MessageNext
  BY <1>5, <1>6, MessageKeeps, KeepsChain
<1>7. CASE UNCHANGED vars
  <2>1. Keeps
    BY <1>7 DEF vars, Keeps, ChainInv
  <2> QED
    BY <2>1, KeepsChain
<1> QED
  BY <1>1, <1>2, <1>3, <1>4, <1>6, <1>7 DEF Next, SyncNext

\* dashboard.go, app.go: there is always room for a timer to become a run, the folders
\* are only listed after the timer was set, and no run loses its reader.
THEOREM ChainInvariance == Spec => []ChainInv
BY ChainInit, ChainStep, PTL DEF Spec

\* app.go: for any number of timers, runs and failures, and on whatever screen the
\* messages arrive, the background sync never dies out.
THEOREM SyncNeverDies == Spec => []SyncAlive
<1>1. ChainInv => SyncAlive
  BY DEF ChainInv
<1> QED
  BY <1>1, ChainInvariance, PTL

\* dashboard.go, progress.go: for any capacity of progressCh every run of the background
\* sync has the command that reads it or the message that plans the next read.
THEOREM RunsHaveReaders == Spec => []EveryRunIsRead
<1>1. ChainInv => EveryRunIsRead
  BY DEF ChainInv, AllRead, EveryRunIsRead, Running
<1> QED
  BY <1>1, ChainInvariance, PTL

----------------------------------------------------------------------------
(* Sequences, and what is under way. *)

\* Of whatever: the rows and folders that are shown need not be known further.
Listing(s) == s \in Seq({s[i] : i \in DOMAIN s})

LEMMA PartListing ==
  ASSUME NEW seq, NEW at, Listing(seq), at \subseteq DOMAIN seq
  PROVE  Listing(AtPositions(seq, at))
<1>1. Len(seq) \in Nat /\ DOMAIN seq = 1 .. Len(seq)
  BY DEF Listing
<1>2. IsFiniteSet(1 .. Len(seq))
  BY <1>1, FS_Interval
<1>3. IsFiniteSet(at)
  BY <1>1, <1>2, FS_Subset
<1>4. PICK n : n = Cardinality(at)
  OBVIOUS
<1>5. n \in Nat
  BY <1>3, <1>4, FS_CardinalityType
<1> DEFINE p == AtPositions(seq, at)
<1>6. p = [i \in 1 .. n |-> p[i]] /\ DOMAIN p = 1 .. n
  BY <1>4 DEF AtPositions
<1> HIDE DEF p
<1>7. p \in [1 .. n -> {p[i] : i \in 1 .. n}]
  BY <1>6
<1>8. p \in Seq({p[i] : i \in 1 .. n})
  BY <1>5, <1>7
<1> QED
  BY <1>6, <1>8 DEF Listing, p

LEMMA EmptyListing == Listing(<<>>)
BY DEF Listing

LEMMA FirstShown ==
  ASSUME NEW s, Listing(s), s # <<>>
  PROVE  Len(s) \in Nat \ {0} /\ DOMAIN s = 1 .. Len(s) /\ 1 \in DOMAIN s /\ Len(s) \in DOMAIN s
BY DEF Listing

Flying == BagToSet(flight)
Coming(kinds) == \E c \in Flying : c.it \in kinds

\* Bags with elements more, and with one copy less.
LEMMA BagGrows ==
  ASSUME NEW B, IsABag(B), NEW S
  PROVE  IsABag(B (+) SetToBag(S)) /\ BagToSet(B (+) SetToBag(S)) = BagToSet(B) \cup S
<1>1. \A e \in DOMAIN B : B[e] \in Nat /\ B[e] > 0
  BY DEF IsABag
<1> QED
  BY <1>1 DEF IsABag, SetToBag, BagToSet, (+)

LEMMA BagShrinks ==
  ASSUME NEW B, IsABag(B), NEW x
  PROVE  /\ IsABag(B (-) SetToBag({x})) /\ BagToSet(B (-) SetToBag({x})) \subseteq BagToSet(B)
         /\ BagToSet(B) \ {x} \subseteq BagToSet(B (-) SetToBag({x}))
<1>1. \A e \in DOMAIN B : B[e] \in Nat /\ B[e] > 0
  BY DEF IsABag
<1> QED
  BY <1>1 DEF IsABag, SetToBag, BagToSet, (-)

LEMMA AddIs ==
  ASSUME NEW B, IsABag(B), NEW S
  PROVE  IsABag(Add(B, S)) /\ BagToSet(Add(B, S)) = BagToSet(B) \cup S
BY BagGrows DEF Add

LEMMA IssueIs ==
  ASSUME IsABag(flight), NEW S, Issue(S)
  PROVE  IsABag(flight') /\ Flying' = Flying \cup S
BY AddIs DEF Issue, Flying

\* What is left when c was taken and S came.
Left(c, S) ==
  /\ IsABag(flight') /\ Flying' \subseteq Flying \cup S
  /\ Flying \ {c} \subseteq Flying' /\ S \subseteq Flying'

LEMMA TakeIs ==
  ASSUME IsABag(flight), NEW c, NEW S, Take(c, S)
  PROVE  Left(c, S)
<1>1. PICK B : B = flight (-) SetToBag({c})
  OBVIOUS
<1>2. IsABag(B) /\ BagToSet(B) \subseteq Flying /\ Flying \ {c} \subseteq BagToSet(B)
  BY <1>1, BagShrinks DEF Flying
<1>3. IsABag(flight') /\ Flying' = BagToSet(B) \cup S
  BY <1>1, <1>2, AddIs DEF Take, Flying
<1> QED
  BY <1>2, <1>3 DEF Left

LEMMA SetOfOne ==
  ASSUME NEW S, NEW x, x \in S, NEW kinds, x.it \in kinds
  PROVE  \E c \in S : c.it \in kinds
OBVIOUS

----------------------------------------------------------------------------
(* The table. *)

TableShape(t) ==
  t \in [vault : {t.vault}, type : {t.type}, allRows : {t.allRows}, rows : {t.rows},
         cursor : {t.cursor}, loading : {t.loading}, search : {t.search},
         revealed : {t.revealed}, card : {t.card}]

\* All but the cursor.
TableListed(t) == TableShape(t) /\ Listing(t.allRows) /\ Listing(t.rows) /\ t.cursor \in Nat \ {0}

TableGood(t) == TableListed(t) /\ (t.rows # <<>> => t.cursor \in DOMAIN t.rows)

\* u shows the folder and the type of t, and waits for no more.
SameTarget(t, u) == u.vault = t.vault /\ u.type = t.type /\ (u.loading => t.loading)

LEMMA NewTableGood == TableGood(NewTable)
<1>1. NewTable.rows = <<>> /\ NewTable.allRows = <<>> /\ NewTable.cursor = 1
  BY DEF NewTable
<1>2. TableShape(NewTable)
  BY DEF TableShape, NewTable
<1> QED
  BY <1>1, <1>2, EmptyListing DEF TableGood, TableListed

LEMMA FilterGood ==
  ASSUME NEW t, TableListed(t), NEW u, u = ApplyLocalFilter(t)
  PROVE  TableGood(u) /\ u.vault = t.vault /\ u.type = t.type /\ u.loading = t.loading
<1>s. TableShape(t) /\ Listing(t.allRows) /\ t.cursor \in Nat \ {0}
  BY DEF TableListed
<1>1. CASE t.search = NoId
  <2>1. PICK all : all = t.allRows
    OBVIOUS
  <2>2. PICK cursor : cursor = IF t.cursor > Len(all) THEN (IF all = <<>> THEN 1 ELSE Len(all))
                               ELSE t.cursor
    OBVIOUS
  <2>3. u = [t EXCEPT !.rows = all, !.cursor = cursor]
    BY <1>1, <2>1, <2>2 DEF ApplyLocalFilter
  <2>4. cursor \in Nat \ {0} /\ (all # <<>> => cursor \in DOMAIN all)
    <3>1. CASE all = <<>>
      BY <1>s, <2>2, <3>1
    <3>2. CASE all # <<>>
      <4>1. Len(all) \in Nat \ {0} /\ DOMAIN all = 1 .. Len(all)
        BY <1>s, <2>1, <3>2, FirstShown
      <4>2. cursor = IF t.cursor > Len(all) THEN Len(all) ELSE t.cursor
        BY <2>2, <3>2
      <4>3. cursor \in 1 .. Len(all)
        BY <1>s, <4>1, <4>2
      <4> QED
        BY <4>1, <4>3
    <3> QED
      BY <3>1, <3>2
  <2>5. Listing(all)
    BY <1>s, <2>1
  <2>6. /\ TableShape(u) /\ u.vault = t.vault /\ u.type = t.type /\ u.loading = t.loading
        /\ u.allRows = t.allRows /\ u.rows = all /\ u.cursor = cursor
    BY <1>s, <2>3 DEF TableShape
  <2> QED
    BY <1>s, <2>4, <2>5, <2>6 DEF TableGood, TableListed
<1>2. CASE t.search # NoId
  <2>1. PICK rows : rows = Matches(t.allRows, t.search)
    OBVIOUS
  <2>2. Listing(rows)
    BY <1>s, <2>1, PartListing DEF Matches
  <2>3. u = [t EXCEPT !.rows = rows, !.cursor = 1]
    BY <1>2, <2>1 DEF ApplyLocalFilter
  <2>4. 1 \in Nat \ {0} /\ (rows # <<>> => 1 \in DOMAIN rows)
    BY <2>2, FirstShown
  <2>5. /\ TableShape(u) /\ u.vault = t.vault /\ u.type = t.type /\ u.loading = t.loading
        /\ u.allRows = t.allRows /\ u.rows = rows /\ u.cursor = 1
    BY <1>s, <2>3 DEF TableShape
  <2> QED
    BY <1>s, <2>2, <2>4, <2>5 DEF TableGood, TableListed
<1> QED
  BY <1>1, <1>2

LEMMA SearchGood ==
  ASSUME NEW t, TableGood(t), NEW u, (\E term : u = SetSearchQuery(t, term)) \/ u = ClearSearch(t)
  PROVE  TableGood(u) /\ SameTarget(t, u)
<1>1. PICK term : u = ApplyLocalFilter([t EXCEPT !.search = term])
  BY DEF SetSearchQuery, ClearSearch
<1> DEFINE f == [t EXCEPT !.search = term]
<1>2. TableListed(f) /\ f.vault = t.vault /\ f.type = t.type /\ f.loading = t.loading
  BY DEF TableGood, TableListed, TableShape
<1> HIDE DEF f
<1>3. u = ApplyLocalFilter(f)
  BY <1>1 DEF f
<1> QED
  BY <1>2, <1>3, FilterGood DEF SameTarget

LEMMA LoadedGood ==
  ASSUME NEW t, TableGood(t), NEW rows, Listing(rows), NEW u, u = RowsLoaded(t, rows)
  PROVE  TableGood(u) /\ SameTarget(t, u) /\ ~u.loading
<1> DEFINE f == [t EXCEPT !.loading = FALSE, !.allRows = rows]
<1>1. TableListed(f) /\ f.vault = t.vault /\ f.type = t.type /\ f.loading = FALSE
  BY DEF TableGood, TableListed, TableShape
<1> HIDE DEF f
<1>2. u = ApplyLocalFilter(f)
  BY DEF RowsLoaded, f
<1> QED
  BY <1>1, <1>2, FilterGood DEF SameTarget

LEMMA ErrGood ==
  ASSUME NEW t, TableGood(t), NEW u, u = RowsErr(t)
  PROVE  TableGood(u) /\ SameTarget(t, u) /\ ~u.loading
BY DEF TableGood, TableListed, TableShape, SameTarget, RowsErr

LEMMA RevealGood ==
  ASSUME NEW t, TableGood(t), NEW s, NEW u, u = PayloadRevealed(t, s) \/ u = CardRevealed(t, s)
  PROVE  TableGood(u) /\ SameTarget(t, u)
BY DEF TableGood, TableListed, TableShape, SameTarget, PayloadRevealed, CardRevealed

LEMMA ClickGood ==
  ASSUME NEW t, TableGood(t), NEW i \in DOMAIN t.rows, NEW u, u = ClickRow(t, i)
  PROVE  TableGood(u) /\ SameTarget(t, u)
<1>1. i \in Nat \ {0}
  BY DEF TableGood, TableListed, Listing
<1>2. /\ TableShape(u) /\ u.vault = t.vault /\ u.type = t.type /\ u.loading = t.loading
      /\ u.allRows = t.allRows /\ u.rows = t.rows /\ u.cursor = i
  BY DEF TableGood, TableListed, TableShape, ClickRow
<1> QED
  BY <1>1, <1>2 DEF TableGood, TableListed, SameTarget

LEMMA CursorGood ==
  ASSUME NEW t, TableGood(t), NEW d \in {-1, 1}, NEW u, u = CursorBy(t, d)
  PROVE  TableGood(u) /\ SameTarget(t, u)
<1>1. CASE t.cursor + d \in DOMAIN t.rows
  <2>1. PICK i : i = t.cursor + d
    OBVIOUS
  <2>2. i \in Nat \ {0} /\ i \in DOMAIN t.rows
    BY <1>1, <2>1 DEF TableGood, TableListed, Listing
  <2>3. u = ClearReveal([t EXCEPT !.cursor = i])
    BY <1>1, <2>1 DEF CursorBy
  <2>4. /\ TableShape(u) /\ u.vault = t.vault /\ u.type = t.type /\ u.loading = t.loading
        /\ u.allRows = t.allRows /\ u.rows = t.rows /\ u.cursor = i
    BY <2>3 DEF TableGood, TableListed, TableShape, ClearReveal
  <2> QED
    BY <2>2, <2>4 DEF TableGood, TableListed, SameTarget
<1>2. CASE t.cursor + d \notin DOMAIN t.rows
  BY <1>2 DEF CursorBy, SameTarget
<1> QED
  BY <1>1, <1>2

\* The folder v and the type ty are shown, from nothing when they are new.
LEMMA TargetGood ==
  ASSUME NEW t, TableGood(t), NEW v, NEW ty, NEW u, u = SetVaultAndType(t, v, ty)
  PROVE  /\ TableGood(u) /\ u.vault = v /\ (v # NoId => u.type = ty)
         /\ v = NoId => ~u.loading
         /\ ~Changes(t, v, ty) /\ v # NoId => u = t
<1>1. CASE v = NoId
  <2>1. u = [NewTable EXCEPT !.type = ty, !.loading = FALSE]
    BY <1>1 DEF SetVaultAndType
  <2>2. /\ TableShape(u) /\ u.vault = NoId /\ ~u.loading
        /\ u.rows = <<>> /\ u.allRows = <<>> /\ u.cursor = 1
    BY <2>1 DEF NewTable, TableShape
  <2> QED
    BY <1>1, <2>2, EmptyListing DEF TableGood, TableListed
<1>2. CASE v # NoId /\ Changes(t, v, ty)
  <2>1. u = [ClearReveal(t) EXCEPT !.vault = v, !.type = ty, !.cursor = 1, !.search = NoId,
                                   !.loading = TRUE]
    BY <1>2 DEF SetVaultAndType
  <2>2. /\ TableShape(u) /\ u.vault = v /\ u.type = ty
        /\ u.rows = t.rows /\ u.allRows = t.allRows /\ u.cursor = 1
    BY <2>1 DEF TableShape, TableGood, TableListed, ClearReveal
  <2>3. u.rows # <<>> => 1 \in DOMAIN u.rows
    BY <2>2, FirstShown DEF TableGood, TableListed
  <2> QED
    BY <1>2, <2>2, <2>3 DEF TableGood, TableListed
<1>3. CASE v # NoId /\ ~Changes(t, v, ty)
  BY <1>3 DEF SetVaultAndType, Changes
<1> QED
  BY <1>1, <1>2, <1>3

----------------------------------------------------------------------------
(* The table and the tabs. *)

DashGood(d) ==
    /\ Shape(d) /\ Listing(d.vaults) /\ d.cursor \in Nat \ {0}
    /\ d.vaults # <<>> => d.cursor \in DOMAIN d.vaults

\* A message brings folders and rows as sequences.
Carried(c) == (c.it = "vaults" => Listing(c.vaults)) /\ (c.it = "rows" => Listing(c.rows))
FlightGood == IsABag(flight) /\ \A c \in Flying : Carried(c)

OnTab == table.vault = CurrentVaultID(dash) /\ (table.vault # NoId => table.type = CurrentTypeTab(dash))

\* The inductive invariant.  Only a list of folders, its error or the answer to the
\* scope brings a table to its tabs that is not there; a table that loads rows has a
\* load under way, one that loads and has no folder yet waits for the folders; and
\* before the first list there is no folder to show.
ScreenInv ==
    /\ TableGood(table) /\ DashGood(dash) /\ FlightGood
    /\ screen = "dashboard" /\ chosen /\ ~dash.vaultsErr /\ ~Coming(Fixers) => OnTab
    /\ screen = "dashboard" /\ table.loading /\ table.vault # NoId => Coming(Loaders)
    /\ screen = "dashboard" /\ chosen /\ table.loading /\ table.vault = NoId /\ ~dash.vaultsErr
            => Coming(Fixers)
    /\ ~dash.initialLoadDone => dash.vaults = <<>> /\ table.vault = NoId

\* The lists, cursors and marks that the table hangs on stay.
SameLists ==
    /\ Shape(dash')
    /\ dash'.vaults = dash.vaults /\ dash'.cursor = dash.cursor /\ dash'.tab = dash.tab
    /\ dash'.vaultsErr = dash.vaultsErr /\ dash'.initialLoadDone = dash.initialLoadDone

\* A step that neither leaves the tabs nor loads.
Calm ==
    /\ screen' = "dashboard" => screen = "dashboard"
    /\ chosen' = chosen
    /\ SameLists
    /\ TableGood(table') /\ SameTarget(table, table')

\* What Retarget shows, and that it shows it for any dashboard with the same cursors.
LEMMA SameListsShow ==
  ASSUME NEW d, NEW e, e.vaults = d.vaults, e.cursor = d.cursor, e.tab = d.tab
  PROVE  CurrentVaultID(e) = CurrentVaultID(d) /\ CurrentTypeTab(e) = CurrentTypeTab(d)
BY DEF CurrentVaultID, CurrentTypeTab

LEMMA CalmKeeps ==
  ASSUME ScreenInv, Calm, FlightGood',
         Coming(Fixers) => Coming(Fixers)',
         Coming(Loaders) => Coming(Loaders)' \/ ~table'.loading
  PROVE  ScreenInv'
<1>1. DashGood(dash')
  BY DEF ScreenInv, Calm, SameLists, DashGood
<1>2. CurrentVaultID(dash') = CurrentVaultID(dash) /\ CurrentTypeTab(dash') = CurrentTypeTab(dash)
  BY SameListsShow DEF Calm, SameLists
<1>3. OnTab => OnTab'
  BY <1>2 DEF OnTab, Calm, SameTarget
<1>4. table'.vault = table.vault /\ (table'.loading => table.loading) /\ TableGood(table')
  BY DEF Calm, SameTarget
<1>5. /\ screen' = "dashboard" => screen = "dashboard"
      /\ chosen' = chosen /\ dash'.vaultsErr = dash.vaultsErr
      /\ dash'.vaults = dash.vaults /\ dash'.initialLoadDone = dash.initialLoadDone
  BY DEF Calm, SameLists
<1> QED
  BY <1>1, <1>3, <1>4, <1>5 DEF ScreenInv

\* What happens to the messages under way.
LEMMA IssueKeeps ==
  ASSUME FlightGood, NEW S, \A c \in S : Carried(c), Issue(S)
  PROVE  /\ FlightGood' /\ Flying' = Flying \cup S
         /\ \A kinds : Coming(kinds) => \E c \in Flying' : c.it \in kinds
<1>1. IsABag(flight') /\ Flying' = Flying \cup S
  BY IssueIs DEF FlightGood
<1>2. \A c \in Flying' : Carried(c)
  BY <1>1 DEF FlightGood
<1>3. FlightGood'
  BY <1>1, <1>2 DEF FlightGood
<1> QED
  BY <1>1, <1>3 DEF Coming

LEMMA TakeKeeps ==
  ASSUME FlightGood, NEW c, NEW S, \A x \in S : Carried(x), Take(c, S)
  PROVE  /\ FlightGood' /\ S \subseteq Flying'
         /\ \A kinds : Coming(kinds) /\ (c.it \notin kinds \/ \E x \in S : x.it \in kinds)
                        => \E x \in Flying' : x.it \in kinds
<1>1. Left(c, S)
  BY TakeIs DEF FlightGood
<1>2. \A x \in Flying' : Carried(x)
  BY <1>1 DEF FlightGood, Left
<1>3. FlightGood'
  BY <1>1, <1>2 DEF FlightGood, Left
<1>4. ASSUME NEW kinds, Coming(kinds), c.it \notin kinds \/ \E x \in S : x.it \in kinds
      PROVE  \E x \in Flying' : x.it \in kinds
  BY <1>1, <1>4 DEF Left, Coming
<1> QED
  BY <1>1, <1>3, <1>4 DEF Left

LEMMA UntouchedCalm ==
  ASSUME ScreenInv, Calm, UNCHANGED flight
  PROVE  ScreenInv'
<1>1. FlightGood' /\ (Coming(Fixers) => Coming(Fixers)') /\ (Coming(Loaders) => Coming(Loaders)')
  BY DEF ScreenInv, FlightGood, Flying, Coming
<1> QED
  BY <1>1, CalmKeeps

LEMMA IssuedCalm ==
  ASSUME ScreenInv, Calm, NEW S, \A c \in S : Carried(c), Issue(S)
  PROVE  ScreenInv'
<1>1. FlightGood
  BY DEF ScreenInv
<1>2. FlightGood' /\ \A kinds : Coming(kinds) => \E c \in Flying' : c.it \in kinds
  BY <1>1, IssueKeeps
<1>3. (Coming(Fixers) => Coming(Fixers)') /\ (Coming(Loaders) => Coming(Loaders)')
  BY <1>2 DEF Coming
<1> QED
  BY <1>2, <1>3, CalmKeeps

LEMMA TakenCalm ==
  ASSUME ScreenInv, Calm, NEW c, NEW S, \A x \in S : Carried(x), Take(c, S),
         c.it \notin Fixers \/ \E x \in S : x.it \in Fixers,
         c.it \notin Loaders \/ (\E x \in S : x.it \in Loaders) \/ ~table'.loading
  PROVE  ScreenInv'
<1>1. FlightGood
  BY DEF ScreenInv
<1>2. /\ FlightGood'
      /\ \A kinds : Coming(kinds) /\ (c.it \notin kinds \/ \E x \in S : x.it \in kinds)
                     => \E x \in Flying' : x.it \in kinds
  BY <1>1, TakeKeeps
<1>3. Coming(Fixers) => Coming(Fixers)'
  BY <1>2 DEF Coming
<1>4. Coming(Loaders) => Coming(Loaders)' \/ ~table'.loading
  BY <1>2 DEF Coming
<1> QED
  BY <1>2, <1>3, <1>4, CalmKeeps

LEMMA UnchangedCalm ==
  ASSUME ScreenInv, UNCHANGED <<screen, chosen, table>>, SameLists
  PROVE  Calm
BY DEF Calm, ScreenInv, SameTarget

LEMMA DashUnchanged ==
  ASSUME ScreenInv, UNCHANGED dash
  PROVE  SameLists
BY DEF SameLists, ScreenInv, DashGood

LEMMA FocusMoves ==
  ASSUME ScreenInv,
         \/ \E f : dash' = [dash EXCEPT !.focus = f]
         \/ \E b : dash' = [dash EXCEPT !.syncing = b]
         \/ \E f, b : dash' = [dash EXCEPT !.focus = f, !.syncing = b]
  PROVE  SameLists
<1>1. Shape(dash)
  BY DEF ScreenInv, DashGood
<1> QED
  BY <1>1 DEF SameLists, Shape

----------------------------------------------------------------------------
(* The table follows the tabs. *)

LEMMA Retargeted ==
  ASSUME ScreenInv, screen = "dashboard", NEW d, dash' = d, DashGood(d), table' = Retarget(d),
         FlightGood', RetargetCmds(d) \subseteq Flying',
         Coming(Loaders) => Coming(Loaders)',
         ~d.initialLoadDone => d.vaults = <<>>
  PROVE  ScreenInv'
<1> DEFINE v == CurrentVaultID(d)
           ty == CurrentTypeTab(d)
<1>1. /\ TableGood(table') /\ table'.vault = v /\ (v # NoId => table'.type = ty)
      /\ v = NoId => ~table'.loading
      /\ ~Changes(table, v, ty) /\ v # NoId => table' = table
  <2>1. TableGood(table) /\ table' = SetVaultAndType(table, v, ty)
    BY DEF ScreenInv, Retarget
  <2> QED
    BY <2>1, TargetGood
<1>2. OnTab'
  BY <1>1 DEF OnTab
<1>3. ASSUME table'.loading, table'.vault # NoId
      PROVE  Coming(Loaders)'
  <2>1. CASE Changes(table, v, ty)
    <3>1. Reload(Retarget(d)) \in Flying' /\ Reload(Retarget(d)).it \in Loaders
      BY <2>1 DEF RetargetCmds, Reload, Loaders
    <3> QED
      BY <3>1 DEF Coming
  <2>2. CASE ~Changes(table, v, ty)
    <3>1. table' = table
      BY <1>1, <1>3, <2>2
    <3> QED
      BY <1>3, <3>1 DEF ScreenInv
  <2> QED
    BY <2>1, <2>2
<1>4. ~(table'.loading /\ table'.vault = NoId)
  BY <1>1
<1>5. d.vaults = <<>> => table'.vault = NoId
  BY <1>1 DEF CurrentVaultID
<1> QED
  BY <1>1, <1>2, <1>3, <1>4, <1>5 DEF ScreenInv

LEMMA RetargetCarries ==
  ASSUME NEW d
  PROVE  \A c \in RetargetCmds(d) : Carried(c)
BY DEF RetargetCmds, Reload, Carried

LEMMA WrapStays ==
  ASSUME NEW n \in Nat \ {0}, NEW i \in 1 .. n
  PROVE  IncWrap(i, n) \in 1 .. n /\ DecWrap(i, n) \in 1 .. n
<1>1. i % n \in 0 .. n - 1
  OBVIOUS
<1>2. (i + n - 2) % n \in 0 .. n - 1
  <2>1. i + n - 2 \in Int
    OBVIOUS
  <2> QED
    BY <2>1
<1> QED
  BY <1>1, <1>2 DEF IncWrap, DecWrap

LEMMA SelectGood ==
  ASSUME NEW d, NEW v, Shape(d), Listing(d.vaults), d.cursor \in Nat \ {0}, NEW u,
         u = SelectVaultByID(d, v)
  PROVE  /\ Shape(u) /\ u.vaults = d.vaults /\ u.cursor \in Nat \ {0}
         /\ u.cursor \in DOMAIN u.vaults \/ u.cursor = d.cursor
         /\ u.tab = d.tab /\ u.vaultsErr = d.vaultsErr /\ u.initialLoadDone = d.initialLoadDone
<1>1. CASE \E i \in DOMAIN d.vaults : d.vaults[i] = v
  <2>1. PICK c : c = CHOOSE i \in DOMAIN d.vaults : d.vaults[i] = v
    OBVIOUS
  <2>2. c \in DOMAIN d.vaults
    BY <1>1, <2>1
  <2>3. c \in Nat \ {0}
    BY <2>2 DEF Listing
  <2>4. u = [d EXCEPT !.cursor = c]
    BY <1>1, <2>1 DEF SelectVaultByID
  <2> QED
    BY <2>2, <2>3, <2>4 DEF Shape
<1>2. CASE ~\E i \in DOMAIN d.vaults : d.vaults[i] = v
  BY <1>2 DEF SelectVaultByID
<1> QED
  BY <1>1, <1>2

\* The list that arrives: the cursor is kept within it.
LEMMA ReselectedGood ==
  ASSUME ScreenInv, NEW vaults, Listing(vaults), NEW u, u = Reselected(vaults)
  PROVE  DashGood(u) /\ u.initialLoadDone = TRUE
<1>s. Shape(dash) /\ dash.cursor \in Nat \ {0}
  BY DEF ScreenInv, DashGood
<1> DEFINE listed == [dash EXCEPT !.vaults = vaults]
           sel == SelectVaultByID(listed, CurrentVaultID(dash))
<1>1. Shape(listed) /\ listed.vaults = vaults /\ listed.cursor = dash.cursor
  BY <1>s DEF Shape
<1> HIDE DEF listed
<1>2. Shape(sel) /\ sel.vaults = vaults /\ sel.cursor \in Nat \ {0}
  BY <1>s, <1>1, SelectGood
<1>3. PICK n : n = IF vaults # <<>> /\ sel.cursor > Len(vaults) THEN Len(vaults) ELSE sel.cursor
  OBVIOUS
<1>4. u = [sel EXCEPT !.initialLoadDone = TRUE, !.vaultsErr = FALSE, !.cursor = n]
  BY <1>3 DEF Reselected, listed
<1> HIDE DEF sel
<1>5. Shape(u) /\ u.vaults = vaults /\ u.cursor = n /\ u.initialLoadDone = TRUE
  BY <1>2, <1>4 DEF Shape
<1>6. CASE vaults = <<>>
  <2>1. n \in Nat \ {0}
    BY <1>2, <1>3, <1>6
  <2> QED
    BY <1>5, <1>6, <2>1 DEF DashGood
<1>7. CASE vaults # <<>>
  <2>1. Len(vaults) \in Nat \ {0} /\ DOMAIN vaults = 1 .. Len(vaults)
    BY <1>7, FirstShown
  <2>2. n = IF sel.cursor > Len(vaults) THEN Len(vaults) ELSE sel.cursor
    BY <1>3, <1>7
  <2>3. n \in 1 .. Len(vaults) /\ n \in Nat \ {0}
    BY <1>2, <2>1, <2>2
  <2> QED
    BY <1>5, <2>1, <2>3 DEF DashGood
<1> QED
  BY <1>6, <1>7

\* Another tab, another folder.
LEMMA SwitchKeeps ==
  ASSUME ScreenInv, screen = "dashboard", NEW tab, NEW cursor \in Nat \ {0},
         dash.vaults # <<>> => cursor \in DOMAIN dash.vaults,
         Switch(tab, cursor)
  PROVE  ScreenInv'
<1>1. PICK d : d = [dash EXCEPT !.tab = tab, !.cursor = cursor]
  OBVIOUS
<1>2. Shape(d) /\ d.vaults = dash.vaults /\ d.cursor = cursor /\ d.initialLoadDone = dash.initialLoadDone
  BY <1>1 DEF ScreenInv, DashGood, Shape
<1>3. DashGood(d) /\ (~d.initialLoadDone => d.vaults = <<>>)
  BY <1>2 DEF ScreenInv, DashGood
<1>4. dash' = d /\ table' = Retarget(d) /\ Issue(RetargetCmds(d))
  BY <1>1 DEF Switch
<1>5. FlightGood
  BY DEF ScreenInv
<1>6. /\ FlightGood' /\ RetargetCmds(d) \subseteq Flying'
      /\ \A kinds : Coming(kinds) => \E c \in Flying' : c.it \in kinds
  BY <1>4, <1>5, IssueKeeps, RetargetCarries
<1>7. Coming(Loaders) => Coming(Loaders)'
  BY <1>6 DEF Coming
<1> QED
  BY <1>3, <1>4, <1>6, <1>7, Retargeted

LEMMA TabsKeep ==
  ASSUME ScreenInv, SwitchTab \/ HandleTabClick
  PROVE  ScreenInv'
<1>s. screen = "dashboard"
  BY DEF SwitchTab, HandleTabClick, Key
<1>g. Listing(dash.vaults) /\ dash.cursor \in Nat \ {0} /\ (dash.vaults # <<>> => dash.cursor \in DOMAIN dash.vaults)
  BY DEF ScreenInv, DashGood
<1>1. ASSUME NEW i, Switch(i, dash.cursor)
      PROVE  ScreenInv'
  BY <1>s, <1>g, <1>1, SwitchKeeps
<1>2. ASSUME NEW j \in DOMAIN dash.vaults, Switch(dash.tab, j)
      PROVE  ScreenInv'
  <2>1. j \in Nat \ {0}
    BY <1>g DEF Listing
  <2> QED
    BY <1>s, <1>2, <2>1, SwitchKeeps
<1>3. ASSUME NEW j \in {IncWrap(dash.cursor, Len(dash.vaults)), DecWrap(dash.cursor, Len(dash.vaults))},
             Switch(dash.tab, j)
      PROVE  ScreenInv'
  <2>1. CASE dash.vaults = <<>>
    <3>1. Len(dash.vaults) = 0
      BY <2>1
    <3>2. j = 1
      BY <1>3, <3>1 DEF IncWrap, DecWrap
    <3>3. j \in Nat \ {0}
      BY <3>2
    <3> QED
      BY <1>s, <1>3, <2>1, <3>3, SwitchKeeps
  <2>2. CASE dash.vaults # <<>>
    <3>1. Len(dash.vaults) \in Nat \ {0} /\ DOMAIN dash.vaults = 1 .. Len(dash.vaults)
      BY <1>g, <2>2, FirstShown
    <3>2. j \in 1 .. Len(dash.vaults)
      BY <1>g, <1>3, <2>2, <3>1, WrapStays
    <3> QED
      BY <1>2, <1>3, <3>1, <3>2
  <2> QED
    BY <2>1, <2>2
<1>4. CASE SwitchTab
  BY <1>1, <1>2, <1>3, <1>4 DEF SwitchTab
<1>5. CASE HandleTabClick
  BY <1>1, <1>2, <1>5 DEF HandleTabClick
<1> QED
  BY <1>4, <1>5

LEMMA VaultsKeep ==
  ASSUME ScreenInv, NEW c \in Flying, HandleVaultsLoaded(c)
  PROVE  ScreenInv'
<1>1. PICK d : d = Reselected(c.vaults)
  OBVIOUS
<1>2. c.it = "vaults" /\ Listing(c.vaults) /\ FlightGood /\ screen = "dashboard" /\ screen' = screen
      /\ chosen' = chosen
  BY DEF HandleVaultsLoaded, OnDashboard, ScreenInv, FlightGood, Carried
<1>3. DashGood(d) /\ d.initialLoadDone = TRUE
  BY <1>1, <1>2, ReselectedGood
<1>4. CASE AsksScope(d)
  <2>1. dash' = [d EXCEPT !.focus = "scope"] /\ Take(c, {}) /\ UNCHANGED table /\ ~chosen
    BY <1>1, <1>4 DEF HandleVaultsLoaded, AsksScope
  <2>2. DashGood(dash') /\ dash'.initialLoadDone = TRUE
    <3>1. Shape(dash') /\ dash'.vaults = d.vaults /\ dash'.cursor = d.cursor /\ dash'.initialLoadDone = TRUE
      BY <1>3, <2>1 DEF DashGood, Shape
    <3> QED
      BY <1>3, <3>1 DEF DashGood
  <2>3. /\ FlightGood'
        /\ \A kinds : Coming(kinds) /\ c.it \notin kinds => \E x \in Flying' : x.it \in kinds
    BY <1>2, <2>1, TakeKeeps
  <2>4. Coming(Loaders) => Coming(Loaders)'
    BY <1>2, <2>3 DEF Coming, Loaders
  <2>5. ~chosen'
    BY <1>2, <2>1
  <2>6. screen = "dashboard" /\ table.loading /\ table.vault # NoId => Coming(Loaders)
    BY DEF ScreenInv
  <2>7. TableGood(table)
    BY DEF ScreenInv
  <2> QED
    BY <1>2, <2>1, <2>2, <2>3, <2>4, <2>5, <2>6, <2>7 DEF ScreenInv
<1>5. CASE ~AsksScope(d)
  <2>1. dash' = d /\ table' = Retarget(d) /\ Take(c, RetargetCmds(d))
    BY <1>1, <1>5 DEF HandleVaultsLoaded
  <2>2. /\ FlightGood' /\ RetargetCmds(d) \subseteq Flying'
        /\ \A kinds : Coming(kinds) /\ c.it \notin kinds => \E x \in Flying' : x.it \in kinds
    BY <1>2, <2>1, TakeKeeps, RetargetCarries
  <2>3. Coming(Loaders) => Coming(Loaders)'
    BY <1>2, <2>2 DEF Coming, Loaders
  <2> QED
    BY <1>2, <1>3, <2>1, <2>2, <2>3, Retargeted
<1> QED
  BY <1>4, <1>5

LEMMA ConfirmedKeeps ==
  ASSUME ScreenInv, NEW c \in Flying, HandleScopeConfirmed(c)
  PROVE  ScreenInv'
<1>1. PICK d : d = [dash EXCEPT !.focus = "table", !.syncing = TRUE]
  OBVIOUS
<1>2. /\ Shape(d) /\ d.vaults = dash.vaults /\ d.cursor = dash.cursor /\ d.tab = dash.tab
      /\ d.initialLoadDone = dash.initialLoadDone
  BY <1>1 DEF ScreenInv, DashGood, Shape
<1>3. DashGood(d) /\ (~d.initialLoadDone => d.vaults = <<>>)
  BY <1>2 DEF ScreenInv, DashGood
<1>4. Retarget(dash) = Retarget(d) /\ RetargetCmds(dash) = RetargetCmds(d)
  BY <1>2, SameListsShow DEF Retarget, RetargetCmds
<1>5. /\ dash' = d /\ table' = Retarget(d) /\ Take(c, RetargetCmds(d)) /\ c.it = "confirmed"
      /\ screen = "dashboard" /\ FlightGood
  BY <1>1, <1>4 DEF HandleScopeConfirmed, OnDashboard, ScreenInv
<1>6. /\ FlightGood' /\ RetargetCmds(d) \subseteq Flying'
      /\ \A kinds : Coming(kinds) /\ c.it \notin kinds => \E x \in Flying' : x.it \in kinds
  BY <1>5, TakeKeeps, RetargetCarries
<1>7. Coming(Loaders) => Coming(Loaders)'
  BY <1>5, <1>6 DEF Coming, Loaders
<1> QED
  BY <1>3, <1>5, <1>6, <1>7, Retargeted

----------------------------------------------------------------------------
(* The other steps. *)

LEMMA EnterKeeps ==
  ASSUME ScreenInv, EnterDashboard
  PROVE  ScreenInv'
<1>1. PICK v : dash' = SelectVaultByID(dash, v)
  BY DEF EnterDashboard
<1>g. /\ Shape(dash) /\ Listing(dash.vaults) /\ dash.cursor \in Nat \ {0}
      /\ dash.vaults # <<>> => dash.cursor \in DOMAIN dash.vaults
      /\ FlightGood /\ TableGood(table)
  BY DEF ScreenInv, DashGood
<1>2. /\ Shape(dash') /\ dash'.vaults = dash.vaults /\ dash'.cursor \in Nat \ {0}
      /\ dash'.cursor \in DOMAIN dash'.vaults \/ dash'.cursor = dash.cursor
      /\ dash'.initialLoadDone = dash.initialLoadDone
  BY <1>1, <1>g, SelectGood
<1>3. DashGood(dash')
  BY <1>g, <1>2 DEF DashGood
<1>4. UNCHANGED <<table, chosen>>
  BY DEF EnterDashboard
<1>5. PICK S : /\ Issue(S) /\ LoadVaults \in S /\ \A c \in S : Carried(c)
               /\ dash.initialLoadDone /\ table.vault # NoId => Reload(table) \in S
  <2>1. Carried(LoadVaults) /\ Carried(Reload(table))
    BY DEF Carried, LoadVaults, Reload
  <2>2. CASE dash.initialLoadDone
    <3>1. Issue({LoadVaults} \cup IF table.vault = NoId THEN {} ELSE {Reload(table)})
      BY <2>2 DEF EnterDashboard
    <3> QED
      BY <2>1, <3>1
  <2>3. CASE ~dash.initialLoadDone
    <3>1. Issue({LoadVaults})
      BY <2>3 DEF EnterDashboard
    <3> QED
      BY <2>1, <2>3, <3>1
  <2> QED
    BY <2>2, <2>3
<1>6. FlightGood' /\ S \subseteq Flying'
  BY <1>g, <1>5, IssueKeeps
<1>7. Coming(Fixers)'
  BY <1>5, <1>6 DEF Coming, Fixers, LoadVaults
<1>8. table.vault # NoId => Coming(Loaders)'
  <2>1. table.vault # NoId => dash.initialLoadDone
    BY DEF ScreenInv
  <2> QED
    BY <1>5, <1>6, <2>1 DEF Coming, Loaders, Reload
<1>9. ~dash'.initialLoadDone => dash'.vaults = <<>> /\ table'.vault = NoId
  BY <1>2, <1>4 DEF ScreenInv
<1> QED
  BY <1>3, <1>4, <1>6, <1>7, <1>8, <1>9, <1>g DEF ScreenInv

LEMMA LeaveKeeps ==
  ASSUME ScreenInv, LeaveDashboard
  PROVE  ScreenInv'
<1>1. UNCHANGED <<chosen, table, flight>> /\ screen' = "other"
  BY DEF LeaveDashboard
<1>2. SameLists
  BY DashUnchanged, FocusMoves DEF LeaveDashboard
<1>3. Calm
  BY <1>1, <1>2 DEF Calm, ScreenInv, SameTarget
<1> QED
  BY <1>1, <1>3, UntouchedCalm

LEMMA SyncKeeps ==
  ASSUME ScreenInv, SyncNext
  PROVE  ScreenInv'
<1>1. CASE BackgroundSyncTick
  <2>1. UNCHANGED <<screen, chosen, table, flight>>
    BY <1>1 DEF BackgroundSyncTick
  <2>2. SameLists
    BY <1>1, FocusMoves DEF BackgroundSyncTick
  <2> QED
    BY <2>1, <2>2, UnchangedCalm, UntouchedCalm
<1>2. ASSUME NEW k, ReplayOutbox(k) \/ SyncWithProgress(k) \/ WaitForSyncProgress(k) \/ SyncProgress(k)
      PROVE  ScreenInv'
  <2>1. UNCHANGED <<screen, chosen, table, flight>> /\ UNCHANGED dash
    BY <1>2 DEF ReplayOutbox, SyncWithProgress, WaitForSyncProgress, SyncProgress, SyncStep
  <2> QED
    BY <2>1, DashUnchanged, UnchangedCalm, UntouchedCalm
<1>3. ASSUME NEW k, BackgroundSyncDone(k)
      PROVE  ScreenInv'
  <2>1. UNCHANGED <<screen, chosen, table>>
    BY <1>3 DEF BackgroundSyncDone
  <2>2. SameLists
    BY <1>3, FocusMoves DEF BackgroundSyncDone
  <2>3. PICK S : Issue(S) /\ S \subseteq {LoadVaults, Reload(table)}
    BY <1>3 DEF BackgroundSyncDone
  <2>4. \A c \in S : Carried(c)
    BY <2>3 DEF Carried, LoadVaults, Reload
  <2> QED
    BY <2>1, <2>2, <2>3, <2>4, UnchangedCalm, IssuedCalm
<1> QED
  BY <1>1, <1>2, <1>3 DEF SyncNext

\* What a list holds is a sequence.
LEMMA ListsCarry ==
  /\ \A fs : Carried(VaultsLoaded(fs)) /\ VaultsLoaded(fs).it = "vaults"
  /\ \A c, present : Carried(RowsMsg(c, present)) /\ RowsMsg(c, present).it = "rows"
<1>1. ASSUME NEW fs
      PROVE  Carried(VaultsLoaded(fs)) /\ VaultsLoaded(fs).it = "vaults"
  <2>1. Listing(VaultOrder)
    BY DashboardAssumption DEF Listing, Vaults
  <2>2. Listing(List(fs))
    BY <2>1, PartListing DEF List
  <2> QED
    BY <2>2 DEF Carried, VaultsLoaded
<1>2. ASSUME NEW c, NEW present
      PROVE  Carried(RowsMsg(c, present)) /\ RowsMsg(c, present).it = "rows"
  <2>1. Listing(SecretOrder)
    BY TableAssumption DEF Listing, Secrets
  <2>2. PICK at : at \subseteq DOMAIN SecretOrder /\ ListRows(present, c.vault, c.type) = AtPositions(SecretOrder, at)
    BY DEF ListRows
  <2>3. Listing(ListRows(present, c.vault, c.type))
    BY <2>1, <2>2, PartListing
  <2> QED
    BY <2>3 DEF Carried, RowsMsg
<1> QED
  BY <1>1, <1>2

\* A command that ends and leaves the screen as it was.
LEMMA CommandKeeps ==
  ASSUME ScreenInv, UNCHANGED <<screen, chosen, table>>, UNCHANGED dash, NEW c, NEW S, \A x \in S : Carried(x),
         Take(c, S), c.it \notin Fixers \/ \E x \in S : x.it \in Fixers,
         c.it \notin Loaders \/ \E x \in S : x.it \in Loaders
  PROVE  ScreenInv'
<1>1. Calm
  BY DashUnchanged, UnchangedCalm
<1> QED
  BY <1>1, TakenCalm

LEMMA RunsKeep ==
  ASSUME ScreenInv,
         \/ RunLoadVaults \/ RunCreateVault \/ RunDoSync
         \/ \E c \in Flying : RunReload(c)
  PROVE  ScreenInv'
<1>1. CASE RunLoadVaults
  <2>1. PICK x : Take(LoadVaults, {x}) /\ (x = VaultsErr \/ \E fs : x = VaultsLoaded(fs))
    BY <1>1 DEF RunLoadVaults
  <2>2. Carried(x) /\ x.it \in Fixers
    BY <2>1, ListsCarry DEF VaultsErr, Carried, Fixers
  <2>3. UNCHANGED <<screen, chosen, table>> /\ UNCHANGED dash
    BY <1>1 DEF RunLoadVaults
  <2>4. LoadVaults.it \notin Loaders
    BY DEF LoadVaults, Loaders
  <2>5. (\A y \in {x} : Carried(y)) /\ \E y \in {x} : y.it \in Fixers
    BY <2>2
  <2> QED
    BY <2>1, <2>3, <2>4, <2>5, CommandKeeps
<1>2. CASE RunCreateVault
  <2>1. PICK x : Take(CreateVault, {x}) /\ (x = VaultsErr \/ x = [it |-> "created"])
    BY <1>2 DEF RunCreateVault
  <2>2. \A y \in {x} : Carried(y)
    BY <2>1 DEF VaultsErr, Carried
  <2>3. UNCHANGED <<screen, chosen, table>> /\ UNCHANGED dash
    BY <1>2 DEF RunCreateVault
  <2>4. CreateVault.it \notin Loaders /\ CreateVault.it \notin Fixers
    BY DEF CreateVault, Loaders, Fixers
  <2> QED
    BY <2>1, <2>2, <2>3, <2>4, CommandKeeps
<1>3. CASE RunDoSync
  <2>1. PICK S : Take(DoSync, S) /\ S \subseteq {[it |-> "syncDone"]}
    BY <1>3 DEF RunDoSync
  <2>2. \A y \in S : Carried(y)
    BY <2>1 DEF Carried
  <2>3. UNCHANGED <<screen, chosen, table>> /\ UNCHANGED dash
    BY <1>3 DEF RunDoSync
  <2>4. DoSync.it \notin Loaders /\ DoSync.it \notin Fixers
    BY DEF DoSync, Loaders, Fixers
  <2> QED
    BY <2>1, <2>2, <2>3, <2>4, CommandKeeps
<1>4. ASSUME NEW c \in Flying, RunReload(c)
      PROVE  ScreenInv'
  <2>1. PICK x : Take(c, {x}) /\ (x = RowsError \/ \E present : x = RowsMsg(c, present))
    BY <1>4 DEF RunReload
  <2>2. Carried(x) /\ x.it \in Loaders
    BY <2>1, ListsCarry DEF RowsError, Carried, Loaders
  <2>3. UNCHANGED <<screen, chosen, table>> /\ UNCHANGED dash
    BY <1>4 DEF RunReload
  <2>4. c.it \notin Fixers
    BY <1>4 DEF RunReload, Fixers
  <2>5. (\A y \in {x} : Carried(y)) /\ \E y \in {x} : y.it \in Loaders
    BY <2>2
  <2> QED
    BY <2>1, <2>3, <2>4, <2>5, CommandKeeps
<1> QED
  BY <1>1, <1>2, <1>3, <1>4

\* Only here is the scope chosen, and its answer is under way.
LEMMA ConfirmKeeps ==
  ASSUME ScreenInv, RunConfirm
  PROVE  ScreenInv'
<1>1. UNCHANGED <<screen, table>> /\ UNCHANGED dash
  BY DEF RunConfirm
<1>2. Confirm.it \notin Loaders /\ Confirm.it \notin Fixers
  BY DEF Confirm, Loaders, Fixers
<1>3. CASE Take(Confirm, {}) /\ UNCHANGED chosen
  BY <1>1, <1>2, <1>3, CommandKeeps
<1>4. CASE Take(Confirm, {Confirmed})
  <2>1. \A x \in {Confirmed} : Carried(x)
    BY DEF Carried, Confirmed
  <2>2. FlightGood
    BY DEF ScreenInv
  <2>3. /\ FlightGood' /\ Confirmed \in Flying'
        /\ \A kinds : Coming(kinds) /\ Confirm.it \notin kinds => \E x \in Flying' : x.it \in kinds
    BY <1>4, <2>1, <2>2, TakeKeeps
  <2>4. Coming(Fixers)'
    BY <2>3 DEF Coming, Fixers, Confirmed
  <2>5. Coming(Loaders) => Coming(Loaders)'
    BY <1>2, <2>3 DEF Coming
  <2>6. TableGood(table') /\ DashGood(dash')
    BY <1>1 DEF ScreenInv
  <2>7. /\ screen = "dashboard" /\ table.loading /\ table.vault # NoId => Coming(Loaders)
        /\ ~dash.initialLoadDone => dash.vaults = <<>> /\ table.vault = NoId
    BY DEF ScreenInv
  <2> QED
    BY <1>1, <2>3, <2>4, <2>5, <2>6, <2>7 DEF ScreenInv
<1> QED
  BY <1>3, <1>4 DEF RunConfirm

LEMMA LostKeeps ==
  ASSUME ScreenInv, NEW c \in Flying, Lost(c)
  PROVE  ScreenInv'
<1>1. UNCHANGED <<screen, chosen, table>> /\ UNCHANGED dash /\ Take(c, {}) /\ screen = "other"
  BY DEF Lost
<1>2. FlightGood /\ \A x \in {} : Carried(x)
  BY DEF ScreenInv
<1>3. FlightGood'
  BY <1>1, <1>2, TakeKeeps
<1>4. TableGood(table') /\ DashGood(dash')
  BY <1>1 DEF ScreenInv
<1>5. ~dash'.initialLoadDone => dash'.vaults = <<>> /\ table'.vault = NoId
  BY <1>1 DEF ScreenInv
<1> QED
  BY <1>1, <1>3, <1>4, <1>5 DEF ScreenInv

LEMMA VaultsErrKeeps ==
  ASSUME ScreenInv, NEW c \in Flying, HandleVaultsErr(c)
  PROVE  ScreenInv'
<1>1. /\ UNCHANGED <<screen, chosen, table>> /\ Take(c, {}) /\ c = VaultsErr
      /\ dash' = [dash EXCEPT !.vaultsErr = TRUE]
  BY DEF HandleVaultsErr, OnDashboard
<1>2. /\ Shape(dash') /\ dash'.vaults = dash.vaults /\ dash'.cursor = dash.cursor
      /\ dash'.vaultsErr = TRUE /\ dash'.initialLoadDone = dash.initialLoadDone
  BY <1>1 DEF ScreenInv, DashGood, Shape
<1>3. FlightGood /\ \A x \in {} : Carried(x)
  BY DEF ScreenInv
<1>4. /\ FlightGood'
      /\ \A kinds : Coming(kinds) /\ c.it \notin kinds => \E x \in Flying' : x.it \in kinds
  BY <1>1, <1>3, TakeKeeps
<1>5. Coming(Loaders) => Coming(Loaders)'
  BY <1>1, <1>4 DEF Coming, Loaders, VaultsErr
<1>6. TableGood(table') /\ DashGood(dash')
  BY <1>1, <1>2 DEF ScreenInv, DashGood
<1>7. /\ screen = "dashboard" /\ table.loading /\ table.vault # NoId => Coming(Loaders)
      /\ ~dash.initialLoadDone => dash.vaults = <<>> /\ table.vault = NoId
  BY DEF ScreenInv
<1> QED
  BY <1>1, <1>2, <1>4, <1>5, <1>6, <1>7 DEF ScreenInv

LEMMA RowsKeep ==
  ASSUME ScreenInv, NEW c \in Flying, HandleRowsErr(c) \/ HandleRowsLoaded(c)
  PROVE  ScreenInv'
<1>1. /\ UNCHANGED <<screen, chosen>> /\ UNCHANGED dash /\ c.it \in {"rows", "rowsErr"}
  BY DEF HandleRowsErr, HandleRowsLoaded, OnDashboard, RowsError
<1>2. TableGood(table) /\ (c.it = "rows" => Listing(c.rows))
  BY DEF ScreenInv, FlightGood, Carried
<1>3. PICK S : Take(c, S) /\ \A x \in S : Carried(x)
  BY DEF HandleRowsErr, HandleRowsLoaded, ScheduleReveal, Debounce, Carried
<1>4. TableGood(table') /\ SameTarget(table, table') /\ ~table'.loading
  <2>1. CASE HandleRowsErr(c)
    BY <1>2, <2>1, ErrGood DEF HandleRowsErr
  <2>2. CASE HandleRowsLoaded(c)
    <3>1. c.it = "rows" /\ table' = RowsLoaded(table, c.rows)
      BY <2>2 DEF HandleRowsLoaded
    <3> QED
      BY <1>2, <3>1, LoadedGood
  <2> QED
    BY <2>1, <2>2
<1>5. Calm
  BY <1>1, <1>4, DashUnchanged DEF Calm
<1>6. c.it \notin Fixers
  BY <1>1 DEF Fixers
<1> QED
  BY <1>3, <1>4, <1>5, <1>6, TakenCalm

LEMMA RevealKeeps ==
  ASSUME ScreenInv, NEW c \in Flying, HandleReveal(c)
  PROVE  ScreenInv'
<1>1. /\ UNCHANGED <<screen, chosen>> /\ UNCHANGED dash /\ c.it \in {"debounce", "payload", "card"}
  BY DEF HandleReveal, OnDashboard
<1>2. TableGood(table)
  BY DEF ScreenInv
<1>3. PICK S : Take(c, S) /\ \A x \in S : Carried(x)
  BY DEF HandleReveal, Reveal, Carried
<1>4. table' = table \/ table' = PayloadRevealed(table, c.s) \/ table' = CardRevealed(table, c.s)
  BY <1>1 DEF HandleReveal
<1>5. TableGood(table') /\ SameTarget(table, table')
  <2>1. CASE table' = table
    BY <1>2, <2>1 DEF SameTarget
  <2>2. CASE table' = PayloadRevealed(table, c.s) \/ table' = CardRevealed(table, c.s)
    BY <1>2, <2>2, RevealGood
  <2> QED
    BY <1>4, <2>1, <2>2
<1>6. Calm
  BY <1>1, <1>5, DashUnchanged DEF Calm
<1>7. c.it \notin Fixers /\ c.it \notin Loaders
  BY <1>1 DEF Fixers, Loaders
<1> QED
  BY <1>3, <1>6, <1>7, TakenCalm

LEMMA LoadAgainKeeps ==
  ASSUME ScreenInv, NEW c \in Flying, HandleVaultCreated(c) \/ HandleSyncDone(c)
  PROVE  ScreenInv'
<1>1. /\ UNCHANGED <<screen, chosen, table>> /\ c.it \in {"created", "syncDone"}
      /\ Take(c, {LoadVaults})
  BY DEF HandleVaultCreated, HandleSyncDone, OnDashboard
<1>2. SameLists
  BY FocusMoves, DashUnchanged DEF HandleVaultCreated, HandleSyncDone
<1>3. \A x \in {LoadVaults} : Carried(x)
  BY DEF Carried, LoadVaults
<1>4. c.it \notin Fixers /\ c.it \notin Loaders
  BY <1>1 DEF Fixers, Loaders
<1> QED
  BY <1>1, <1>2, <1>3, <1>4, UnchangedCalm, TakenCalm

LEMMA KeysKeep ==
  ASSUME ScreenInv, KeyNext
  PROVE  ScreenInv'
<1>s. TableGood(table)
  BY DEF ScreenInv
<1>1. CASE SwitchTab \/ HandleTabClick
  BY <1>1, TabsKeep
<1>2. CASE MoveCursor \/ ShowCard \/ ClickCell
  <2>1. UNCHANGED <<screen, chosen>> /\ UNCHANGED dash
    BY <1>2 DEF MoveCursor, ShowCard, ClickCell, KeyOnly
  <2>2. PICK S : Issue(S) /\ \A x \in S : Carried(x)
    <3>1. \A u : \A x \in ScheduleReveal(u) : Carried(x)
      BY DEF ScheduleReveal, Debounce, Carried
    <3>2. CASE MoveCursor
      BY <3>1, <3>2 DEF MoveCursor
    <3>3. CASE ShowCard
      BY <3>3 DEF ShowCard, RevealCard, Carried
    <3>4. CASE ClickCell
      BY <3>1, <3>4 DEF ClickCell
    <3> QED
      BY <1>2, <3>2, <3>3, <3>4
  <2>3. \/ \E d \in {-1, 1} : table' = CursorBy(table, d)
        \/ \E i \in DOMAIN table.rows : table' = ClickRow(table, i)
    BY <1>2 DEF MoveCursor, ShowCard, ClickCell
  <2>4. TableGood(table') /\ SameTarget(table, table')
    BY <1>s, <2>3, CursorGood, ClickGood
  <2>5. Calm
    BY <2>1, <2>4, DashUnchanged DEF Calm
  <2> QED
    BY <2>2, <2>5, IssuedCalm
<1>3. CASE OpenFocus \/ CloseFocus
  <2>1. UNCHANGED <<screen, chosen, table>> /\ UNCHANGED flight
    BY <1>3 DEF OpenFocus, CloseFocus, KeyOnly
  <2>2. SameLists
    BY <1>3, FocusMoves DEF OpenFocus, CloseFocus
  <2> QED
    BY <2>1, <2>2, UnchangedCalm, UntouchedCalm
<1>4. CASE SearchKey
  <2>1. UNCHANGED <<screen, chosen>> /\ UNCHANGED flight
    BY <1>4 DEF SearchKey, KeyOnly
  <2>2. SameLists
    BY <1>4, FocusMoves, DashUnchanged DEF SearchKey
  <2>3. table' = table \/ (\E s : table' = SetSearchQuery(table, s)) \/ table' = ClearSearch(table)
    BY <1>4 DEF SearchKey
  <2>4. TableGood(table') /\ SameTarget(table, table')
    <3>1. CASE table' = table
      BY <1>s, <3>1 DEF SameTarget
    <3>2. CASE (\E s : table' = SetSearchQuery(table, s)) \/ table' = ClearSearch(table)
      BY <1>s, <3>2, SearchGood
    <3> QED
      BY <2>3, <3>1, <3>2
  <2>5. Calm
    BY <2>1, <2>2, <2>4 DEF Calm
  <2> QED
    BY <2>1, <2>5, UntouchedCalm
<1>5. CASE RunCommandSync \/ VaultCreateKey \/ SyncScopeKey
  <2>1. UNCHANGED <<screen, chosen, table>>
    BY <1>5 DEF RunCommandSync, VaultCreateKey, SyncScopeKey, KeyOnly
  <2>2. SameLists
    BY <1>5, FocusMoves, DashUnchanged DEF RunCommandSync, VaultCreateKey, SyncScopeKey
  <2>3. PICK S : Issue(S) /\ \A x \in S : Carried(x)
    BY <1>5 DEF RunCommandSync, VaultCreateKey, SyncScopeKey, DoSync, CreateVault, Confirm, Carried
  <2> QED
    BY <2>1, <2>2, <2>3, UnchangedCalm, IssuedCalm
<1> QED
  BY <1>1, <1>2, <1>3, <1>4, <1>5 DEF KeyNext

LEMMA ScreenInit == Init => ScreenInv
<1> SUFFICES ASSUME Init
             PROVE  ScreenInv
  OBVIOUS
<1>1. table = NewTable /\ screen = "other" /\ flight = EmptyBag /\ ~dash.initialLoadDone
      /\ dash.vaults = <<>> /\ dash.cursor = 1
  BY DEF Init
<1>2. Shape(dash)
  BY DEF Init, Shape
<1>3. DashGood(dash)
  BY <1>1, <1>2, EmptyListing DEF DashGood
<1>4. FlightGood
  BY <1>1 DEF FlightGood, Flying, EmptyBag, SetToBag, IsABag, BagToSet
<1>5. table.vault = NoId
  BY <1>1 DEF NewTable
<1> QED
  BY <1>1, <1>3, <1>4, <1>5, NewTableGood DEF ScreenInv

LEMMA ScreenStep == ScreenInv /\ [Next]_vars => ScreenInv'
<1> SUFFICES ASSUME ScreenInv, [Next]_vars
             PROVE  ScreenInv'
  OBVIOUS
<1>1. CASE EnterDashboard
  BY <1>1, EnterKeeps
<1>2. CASE LeaveDashboard
  BY <1>2, LeaveKeeps
<1>3. CASE SyncNext
  BY <1>3, SyncKeeps
<1>4. CASE MessageNext
  <2>1. CASE RunLoadVaults \/ RunCreateVault \/ RunDoSync
    BY <2>1, RunsKeep
  <2>2. CASE RunConfirm
    BY <2>2, ConfirmKeeps
  <2>3. ASSUME NEW c \in Flying,
               \/ RunReload(c) \/ Lost(c) \/ HandleVaultsLoaded(c) \/ HandleRowsLoaded(c)
               \/ HandleReveal(c) \/ HandleVaultCreated(c) \/ HandleScopeConfirmed(c)
               \/ HandleVaultsErr(c) \/ HandleRowsErr(c) \/ HandleSyncDone(c)
        PROVE  ScreenInv'
    BY <2>3, RunsKeep, LostKeeps, VaultsKeep, RowsKeep, RevealKeeps, LoadAgainKeeps,
       ConfirmedKeeps, VaultsErrKeeps
  <2> QED
    BY <1>4, <2>1, <2>2, <2>3 DEF MessageNext, Flying
<1>5. CASE KeyNext
  BY <1>5, KeysKeep
<1>6. CASE UNCHANGED vars
  <2>1. UNCHANGED <<screen, chosen, table>> /\ UNCHANGED dash /\ UNCHANGED flight
    BY <1>6 DEF vars
  <2> QED
    BY <2>1, DashUnchanged, UnchangedCalm, UntouchedCalm
<1> QED
  BY <1>1, <1>2, <1>3, <1>4, <1>5, <1>6 DEF Next

\* dashboard.go, dashboard_table.go: a table that is not on its tabs or that loads has
\* what ends that under way, and the lists that are shown and under way are sequences
\* with the cursors on them.
THEOREM ScreenInvariance == Spec => []ScreenInv
BY ScreenInit, ScreenStep, PTL DEF Spec

\* dashboard.go, dashboard_table.go: for any folders and secrets, and whatever search,
\* late load, click or shorter list came before, the cursors are on what is shown.
THEOREM CursorsAlwaysShown == Spec => []CursorsShown
<1>1. ScreenInv => CursorsShown
  BY DEF ScreenInv, CursorsShown, TableGood, DashGood
<1> QED
  BY <1>1, ScreenInvariance, PTL

\* dashboard.go: when no list of folders is under way, the table shows the folder and the
\* type of the tabs, for any number of folders, types and messages under way.
THEOREM TableStaysOnTab == Spec => []TableOnTab
<1>1. ScreenInv => TableOnTab
  BY DEF ScreenInv, TableOnTab, Coming, Fixers, Flying, OnTab
<1> QED
  BY <1>1, ScreenInvariance, PTL

\* dashboard_table.go: a table that shows "loading" has under way what ends it, however
\* many loads, errors and screens came between.
THEOREM LoadingAlwaysAnswered == Spec => []LoadingAnswered
<1>1. ScreenInv => LoadingAnswered
  <2> SUFFICES ASSUME ScreenInv, screen = "dashboard", chosen, table.loading, ~dash.vaultsErr
               PROVE  \E c \in Flying : c.it \in Fixers \cup Loaders
    BY DEF LoadingAnswered, Flying
  <2>1. Coming(Fixers) \/ Coming(Loaders)
    BY DEF ScreenInv
  <2> QED
    BY <2>1 DEF Coming
<1> QED
  BY <1>1, ScreenInvariance, PTL
=============================================================================
