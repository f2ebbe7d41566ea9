--------------------------- MODULE VaultScopeProofs ---------------------------
(***************************************************************************)
(* For every number of folders, goroutines, versions, user actions and     *)
(* failures: only the user moves the flag of a folder, and while the       *)
(* engine runs at most once at a time, what counts as synchronised is in   *)
(* the cache.                                                              *)
(***************************************************************************)
EXTENDS VaultScope, FiniteSetTheorems, TLAPS

Kinds == {"idle", "list", "local", "create", "sync", "login", "toggle", "confirm"}
Places == {"idle", "call", "upsert", "flag", "prune", "select", "loaded", "created", "fresh",
           "map", "meta", "metaUpsert", "pull", "rows", "synced", "write", "toggled",
           "vaults", "confirmed"}
JobStates == [kind : Kinds, at : Places, todo : SUBSET Vaults, cur : Vaults \cup {None},
              on : BOOLEAN, got : Versions, list : Lists, fresh : [Vaults -> Versions]]
ScreenStates == [open : BOOLEAN, entered : BOOLEAN, loaded : BOOLEAN,
                 focus : {"table", "scope", "settings"}, list : Lists, boxes : Lists,
                 asked : SUBSET Vaults, checked : SUBSET Vaults]
VaultRows == [there : BOOLEAN, synced : Versions, enabled : BOOLEAN]

Creating(n) == n.kind = "create" /\ n.at = "call"
Pulling(n) == n.kind = "sync" /\ n.at \in {"rows", "synced"}

\* A command that works on one folder has it.
HasFolder(n) ==
    n.at \in {"flag", "rows", "synced", "write"} \/ (n.kind = "create" /\ n.at \in {"call", "upsert"})
        => n.cur \in Vaults

\* The id of a folder to be created is new, and nobody else's.
NewFolder(t) ==
    Creating(job[t]) =>
        /\ server[job[t].cur] = 0
        /\ \A u \in Threads : u # t /\ Creating(job[u]) => job[u].cur # job[t].cur

\* Versions of folders only grow: nothing on the device is ahead of the server.
Behind ==
    /\ \A v \in Vaults : rows[v] <= server[v]
    /\ \A t \in Threads, v \in Vaults : job[t].fresh[v] <= server[v]
    /\ \A t \in Threads : job[t].at = "rows" => job[t].got <= server[job[t].cur]

\* The first part of the inductive invariant: shapes, the limit on syncs, versions.
ScopeInv ==
    /\ TypeOK
    /\ job \in [Threads -> JobStates] /\ \A t \in Threads : HasFolder(job[t])
    /\ IsFiniteSet(Syncs)
    /\ \A t \in Threads : NewFolder(t)
    /\ Behind

\* The second part: what pullVaultRows holds is at least what is in the cache, and at
\* least what CheckFreshness promised.
PullOK(n) ==
    /\ n.kind = "sync" /\ n.at = "rows" =>
          n.fresh[n.cur] <= n.got /\ rows[n.cur] <= n.got
    /\ n.kind = "sync" /\ n.at = "synced" => n.fresh[n.cur] <= rows[n.cur]
PullInv == SyncedIsPulled /\ \A t \in Threads : PullOK(job[t])

\* What a step of goroutine t, whose command becomes n, may do.
Moves(t, n) ==
    LET old == job[t] IN
    /\ job' = [job EXCEPT ![t] = n] /\ n \in JobStates /\ HasFolder(n)
    /\ n.kind = "sync" => old.kind = "sync" \/ Cardinality(Syncs) < MaxSyncs
    /\ Creating(n) => n.cur \in Unused
    /\ \/ UNCHANGED server
       \/ Creating(old) /\ ~Creating(n) /\ server' = [server EXCEPT ![old.cur] = 1]
    /\ \A v \in Vaults : n.fresh[v] <= server[v]
    /\ \/ UNCHANGED rows /\ ~(n.kind = "sync" /\ n.at = "synced")
       \/ /\ old.kind = "sync" /\ old.at = "rows" /\ n.cur = old.cur /\ n.fresh = old.fresh
          /\ n.at = "synced" /\ rows' = [rows EXCEPT ![old.cur] = old.got]
    /\ n.at = "rows" => n.got = server[n.cur]
    /\ cache' \in [Vaults -> VaultRows]
    /\ \A v \in Vaults :
          \/ cache'[v].synced <= cache[v].synced
          \/ /\ old.kind = "sync" /\ old.at = "synced" /\ v = old.cur
             /\ cache'[v].synced = old.fresh[v]
    /\ \A v \in Vaults :
          cache[v].there /\ cache'[v].there /\ cache[v].enabled # cache'[v].enabled
             => ToggleWrite(t) \/ ConfirmVault(t)
    /\ screen' \in ScreenStates /\ chosen' \in BOOLEAN

----------------------------------------------------------------------------
\* The limit on the engine's runs holds when one goroutine changes its command.
LEMMA CountSyncs ==
    ASSUME ScopeInv, NEW t \in Threads, NEW n, Moves(t, n)
    PROVE  IsFiniteSet(Syncs)' /\ Cardinality(Syncs)' <= MaxSyncs
<1>1. /\ job \in [Threads -> JobStates] /\ IsFiniteSet(Syncs) /\ Cardinality(Syncs) <= MaxSyncs
      /\ MaxSyncs \in Nat
  BY VaultScopeAssumption DEF ScopeInv, TypeOK
<1>2. Cardinality(Syncs) \in Nat
  BY <1>1, FS_CardinalityType
<1>3. CASE n.kind = "sync"
  <2>1. Syncs' = Syncs \cup {t}
    BY <1>1, <1>3 DEF Syncs, Moves
  <2>2. t \in Syncs \/ Cardinality(Syncs) < MaxSyncs
    BY <1>3 DEF Moves, Syncs
  <2>3. /\ IsFiniteSet(Syncs \cup {t})
        /\ Cardinality(Syncs \cup {t}) = IF t \in Syncs THEN Cardinality(Syncs) ELSE Cardinality(Syncs) + 1
    BY <1>1, FS_AddElement
  <2>4. Cardinality(Syncs \cup {t}) <= MaxSyncs
    BY <1>1, <1>2, <2>2, <2>3
  <2> QED BY <2>1, <2>3, <2>4
<1>4. CASE n.kind # "sync"
  <2>1. Syncs' = Syncs \ {t}
    BY <1>1, <1>4 DEF Syncs, Moves
  <2>2. IsFiniteSet(Syncs \ {t}) /\ Cardinality(Syncs \ {t}) <= Cardinality(Syncs)
    BY <1>1, FS_Subset
  <2>3. Cardinality(Syncs \ {t}) \in Nat
    BY <2>2, FS_CardinalityType
  <2> QED BY <1>1, <1>2, <2>1, <2>2, <2>3
<1> QED BY <1>3, <1>4

\* The versions of the server grow.
LEMMA ServerGrows ==
    ASSUME ScopeInv, NEW t \in Threads, NEW n, Moves(t, n)
    PROVE  server' \in [Vaults -> Versions] /\ \A v \in Vaults : server[v] <= server'[v]
<1>1. /\ server \in [Vaults -> Versions] /\ NewFolder(t) /\ HasFolder(job[t])
      /\ MaxVersion \in Nat \ {0}
  BY VaultScopeAssumption DEF ScopeInv, TypeOK
<1>2. CASE UNCHANGED server
  BY <1>1, <1>2 DEF Versions
<1>3. CASE Creating(job[t]) /\ server' = [server EXCEPT ![job[t].cur] = 1]
  BY <1>1, <1>3 DEF Versions, NewFolder, HasFolder, Creating
<1> QED BY <1>2, <1>3 DEF Moves

\* A step of a goroutine keeps the first part of the invariant.
LEMMA MovesScopeInv ==
    ASSUME ScopeInv, NEW t \in Threads, NEW n, Moves(t, n)
    PROVE  ScopeInv'
<1>0. /\ job \in [Threads -> JobStates] /\ \A u \in Threads : HasFolder(job[u]) /\ NewFolder(u)
      /\ server \in [Vaults -> Versions] /\ rows \in [Vaults -> Versions] /\ Behind
      /\ MaxVersion \in Nat /\ None \notin Vaults
  BY VaultScopeAssumption DEF ScopeInv, TypeOK
<1>1. job' = [job EXCEPT ![t] = n] /\ n \in JobStates /\ HasFolder(n)
  BY DEF Moves
<1>2. job' \in [Threads -> JobStates] /\ job'[t] = n /\ \A u \in Threads : u # t => job'[u] = job[u]
  BY <1>0, <1>1
<1>3. \A u \in Threads : HasFolder(job[u])'
  BY <1>0, <1>1, <1>2 DEF HasFolder
<1>4. IsFiniteSet(Syncs)' /\ Cardinality(Syncs)' <= MaxSyncs
  BY CountSyncs
<1>5. server' \in [Vaults -> Versions] /\ \A v \in Vaults : server[v] <= server'[v]
  BY ServerGrows
<1>6. rows' \in [Vaults -> Versions]
  BY <1>0 DEF Moves, JobStates, HasFolder
<1>7. TypeOK'
  <2>1. ASSUME NEW u \in Threads
        PROVE  /\ job'[u].todo \subseteq Vaults /\ job'[u].cur \in Vaults \cup {None}
               /\ job'[u].list \in Lists /\ job'[u].fresh \in [Vaults -> Versions]
               /\ job'[u].at \in {"flag", "rows", "synced", "write"} => job'[u].cur # None
    <3>1. job'[u] \in JobStates /\ HasFolder(job'[u])
      BY <1>0, <1>1, <1>2
    <3> QED BY <1>0, <3>1 DEF JobStates, HasFolder
  <2> QED BY <1>4, <1>5, <1>6, <2>1 DEF TypeOK, Moves, VaultRows, ScreenStates
<1>8. ASSUME NEW u \in Threads PROVE NewFolder(u)'
  <2> SUFFICES ASSUME Creating(job'[u])
               PROVE  /\ server'[job'[u].cur] = 0
                      /\ \A w \in Threads : w # u /\ Creating(job'[w]) => job'[w].cur # job'[u].cur
    BY DEF NewFolder, Creating
  <2>1. CASE u = t
    <3>1. n.cur \in Unused /\ UNCHANGED server
      BY <1>2, <2>1 DEF Moves
    <3>2. n.cur \in Vaults /\ server[n.cur] = 0 /\ \A w \in Threads : job[w].cur # n.cur
      BY <1>0, <3>1 DEF Unused, ListVaults, Versions
    <3> QED BY <1>2, <2>1, <3>1, <3>2
  <2>2. CASE u # t
    <3>1. job'[u] = job[u] /\ Creating(job[u]) /\ job[u].cur \in Vaults /\ server[job[u].cur] = 0
      BY <1>0, <1>2, <2>2 DEF NewFolder, HasFolder, Creating
    <3>2. server'[job[u].cur] = 0
      <4>1. CASE UNCHANGED server
        BY <3>1, <4>1
      <4>2. CASE Creating(job[t]) /\ server' = [server EXCEPT ![job[t].cur] = 1]
        <5>1. job[t].cur # job[u].cur
          BY <1>0, <2>2, <3>1, <4>2 DEF NewFolder
        <5> QED BY <1>0, <3>1, <4>2, <5>1
      <4> QED BY <4>1, <4>2 DEF Moves
    <3>3. ASSUME NEW w \in Threads, w # u, Creating(job'[w]) PROVE job'[w].cur # job'[u].cur
      <4>1. CASE w = t
        <5>1. n.cur \in Unused
          BY <1>2, <3>3, <4>1 DEF Moves
        <5> QED BY <1>2, <3>1, <4>1, <5>1 DEF Unused
      <4>2. CASE w # t
        BY <1>0, <1>2, <3>1, <3>3, <4>2 DEF NewFolder
      <4> QED BY <4>1, <4>2
    <3> QED BY <3>1, <3>2, <3>3
  <2> QED BY <2>1, <2>2
<1>9. Behind'
  <2>1. ASSUME NEW u \in Threads, NEW v \in Vaults PROVE job'[u].fresh[v] <= server'[v]
    <3>1. job'[u].fresh[v] <= server[v]
      BY <1>0, <1>2 DEF Moves, Behind
    <3>2. job'[u].fresh[v] \in Nat /\ server[v] \in Nat /\ server'[v] \in Nat
      BY <1>0, <1>2, <1>5 DEF JobStates, Versions
    <3> QED BY <1>5, <3>1, <3>2
  <2>2. ASSUME NEW v \in Vaults PROVE rows'[v] <= server'[v]
    <3>1. rows'[v] <= server[v]
      BY <1>0 DEF Moves, Behind, HasFolder
    <3>2. rows'[v] \in Nat /\ server[v] \in Nat /\ server'[v] \in Nat
      BY <1>0, <1>5, <1>6 DEF Versions
    <3> QED BY <1>5, <3>1, <3>2
  <2>3. ASSUME NEW u \in Threads, job'[u].at = "rows" PROVE job'[u].got <= server'[job'[u].cur]
    <3>1. job'[u] \in JobStates /\ HasFolder(job'[u])
      BY <1>0, <1>1, <1>2
    <3>2. job'[u].cur \in Vaults /\ job'[u].got \in Nat
      BY <2>3, <3>1 DEF JobStates, HasFolder, Versions
    <3>3. job'[u].got <= server[job'[u].cur]
      <4>1. CASE u = t
        BY <1>0, <1>2, <2>3, <3>2, <4>1 DEF Moves, Versions
      <4>2. CASE u # t
        BY <1>0, <1>2, <2>3, <4>2 DEF Behind
      <4> QED BY <4>1, <4>2
    <3> QED BY <1>0, <1>5, <3>2, <3>3 DEF Versions
  <2> QED BY <2>1, <2>2, <2>3 DEF Behind
<1> QED BY <1>2, <1>3, <1>4, <1>7, <1>8, <1>9 DEF ScopeInv

\* With at most one run of the engine, two goroutines that synchronise are one.
LEMMA OneSync ==
    ASSUME ScopeInv, MaxSyncs <= 1, NEW t \in Syncs, NEW u \in Syncs
    PROVE  t = u
<1>1. IsFiniteSet(Syncs) /\ Cardinality(Syncs) <= 1
  <2>1. IsFiniteSet(Syncs) /\ Cardinality(Syncs) <= MaxSyncs
    BY DEF ScopeInv, TypeOK
  <2>2. Cardinality(Syncs) \in Nat
    BY <2>1, FS_CardinalityType
  <2> QED BY <2>1, <2>2, VaultScopeAssumption
<1>2. Cardinality(Syncs) \in Nat /\ Cardinality(Syncs) # 0
  BY <1>1, FS_CardinalityType, FS_EmptySet
<1>3. Cardinality(Syncs) = 1
  BY <1>1, <1>2
<1>4. PICK x : Syncs = {x}
  BY <1>1, <1>3, FS_Singleton
<1> QED BY <1>4

\* A step of a goroutine keeps the second part.
LEMMA MovesPullInv ==
    ASSUME ScopeInv, PullInv, MaxSyncs <= 1, NEW t \in Threads, NEW n, Moves(t, n)
    PROVE  PullInv'
<1>0. /\ job \in [Threads -> JobStates] /\ HasFolder(job[t]) /\ HasFolder(n) /\ n \in JobStates
      /\ server \in [Vaults -> Versions] /\ rows \in [Vaults -> Versions] /\ Behind
      /\ cache \in [Vaults -> VaultRows] /\ cache' \in [Vaults -> VaultRows]
      /\ \A u \in Threads : PullOK(job[u])
      /\ \A v \in Vaults : cache[v].synced <= rows[v]
      /\ job'[t] = n /\ \A u \in Threads : u # t => job'[u] = job[u]
  BY DEF ScopeInv, TypeOK, VaultRows, Moves, PullInv, SyncedIsPulled
<1>1. rows' \in [Vaults -> Versions] /\ \A v \in Vaults : rows[v] <= rows'[v]
  <2>1. CASE UNCHANGED rows
    BY <1>0, <2>1 DEF Versions
  <2>2. CASE /\ job[t].kind = "sync" /\ job[t].at = "rows"
             /\ rows' = [rows EXCEPT ![job[t].cur] = job[t].got]
    <3>1. job[t].cur \in Vaults /\ job[t].got \in Versions /\ rows[job[t].cur] <= job[t].got
      BY <1>0, <2>2 DEF HasFolder, JobStates, PullOK
    <3> QED BY <1>0, <2>2, <3>1 DEF Versions
  <2> QED BY <2>1, <2>2 DEF Moves
<1>2. ASSUME NEW v \in Vaults PROVE cache'[v].synced <= rows'[v]
  <2>0. /\ cache'[v].synced \in Nat /\ cache[v].synced \in Nat /\ rows[v] \in Nat /\ rows'[v] \in Nat
        /\ cache[v].synced <= rows[v] /\ rows[v] <= rows'[v]
    BY <1>0, <1>1 DEF VaultRows, Versions
  <2>1. CASE cache'[v].synced <= cache[v].synced
    BY <2>0, <2>1
  <2>2. CASE /\ job[t].kind = "sync" /\ job[t].at = "synced" /\ v = job[t].cur
             /\ cache'[v].synced = job[t].fresh[v]
    <3>1. job[t].fresh[v] <= rows[v]
      BY <1>0, <2>2 DEF PullOK
    <3> QED BY <2>0, <2>2, <3>1
  <2> QED BY <2>1, <2>2 DEF Moves
<1>3. ASSUME NEW u \in Threads, u # t PROVE PullOK(job[u])'
  <2>1. CASE UNCHANGED rows
    BY <1>0, <1>3, <2>1 DEF PullOK
  <2>2. CASE job[t].kind = "sync"
    <3>1. job[u].kind # "sync"
      BY <1>3, <2>2, OneSync DEF Syncs
    <3> QED BY <1>0, <1>3, <3>1 DEF PullOK
  <2> QED BY <2>1, <2>2 DEF Moves
<1>4. PullOK(job[t])'
  <2>1. ASSUME n.kind = "sync", n.at = "rows"
        PROVE  n.fresh[n.cur] <= n.got /\ rows'[n.cur] <= n.got
    <3>1. n.cur \in Vaults /\ n.got = server[n.cur] /\ UNCHANGED rows /\ n.fresh[n.cur] <= server[n.cur]
      BY <1>0, <2>1 DEF Moves, HasFolder
    <3> QED BY <1>0, <3>1 DEF Behind
  <2>2. ASSUME n.kind = "sync", n.at = "synced"
        PROVE  n.fresh[n.cur] <= rows'[n.cur]
    <3>1. /\ job[t].kind = "sync" /\ job[t].at = "rows" /\ n.cur = job[t].cur /\ n.fresh = job[t].fresh
          /\ rows' = [rows EXCEPT ![n.cur] = job[t].got] /\ n.cur \in Vaults
      BY <1>0, <2>2 DEF Moves, HasFolder
    <3>2. rows'[n.cur] = job[t].got /\ n.fresh[n.cur] <= job[t].got
      BY <1>0, <3>1 DEF PullOK
    <3> QED BY <3>2
  <2> QED BY <1>0, <2>1, <2>2 DEF PullOK
<1>5. SyncedIsPulled'
  BY <1>0, <1>1, <1>2 DEF SyncedIsPulled, VaultRows, Versions
<1> QED BY <1>3, <1>4, <1>5 DEF PullInv

----------------------------------------------------------------------------
\* A new command.
LEMMA CommandFacts ==
    ASSUME NEW kind \in Kinds, NEW at \in Places
    PROVE  LET n == Command(kind, at) IN
           /\ n \in JobStates /\ n.kind = kind /\ n.at = at /\ n.cur = None
           /\ n.fresh = [v \in Vaults |-> 0]
BY VaultScopeAssumption DEF Command, JobStates, NoList, Lists, Versions

\* A write of one row of the table vaults that sets no version.
RowWritten(t) ==
    \E v \in Vaults, row \in VaultRows :
        /\ cache' = [cache EXCEPT ![v] = row]
        /\ row.synced <= cache[v].synced
        /\ cache[v].there /\ row.there /\ row.enabled # cache[v].enabled
              => ToggleWrite(t) \/ ConfirmVault(t)

\* A step that writes at most a row of the table vaults and the screen.
PlainStep(t, n) ==
    /\ job' = [job EXCEPT ![t] = n] /\ n \in JobStates
    /\ n.kind = "sync" => job[t].kind = "sync" \/ Cardinality(Syncs) < MaxSyncs
    /\ n.at \notin {"rows", "synced"} /\ HasFolder(n)
    /\ Creating(n) => n.cur \in Unused
    /\ n.fresh = job[t].fresh \/ n.fresh = server \/ n.fresh = [v \in Vaults |-> 0]
    /\ UNCHANGED <<server, rows>>
    /\ UNCHANGED cache \/ RowWritten(t)
    /\ screen' \in ScreenStates /\ chosen' \in BOOLEAN

LEMMA PlainMoves ==
    ASSUME ScopeInv, NEW t \in Threads, NEW n, PlainStep(t, n)
    PROVE  Moves(t, n)
<1>0. /\ server \in [Vaults -> Versions] /\ cache \in [Vaults -> VaultRows] /\ Behind
      /\ MaxVersion \in Nat
  BY VaultScopeAssumption DEF ScopeInv, TypeOK, VaultRows
<1>1. \A v \in Vaults : n.fresh[v] <= server[v]
  <2>1. CASE n.fresh = job[t].fresh
    BY <1>0, <2>1 DEF Behind
  <2>2. CASE n.fresh = server \/ n.fresh = [v \in Vaults |-> 0]
    BY <1>0, <2>2 DEF Versions
  <2> QED BY <2>1, <2>2 DEF PlainStep
<1>2. /\ cache' \in [Vaults -> VaultRows]
      /\ \A v \in Vaults :
            /\ cache'[v].synced <= cache[v].synced
            /\ cache[v].there /\ cache'[v].there /\ cache[v].enabled # cache'[v].enabled
                  => ToggleWrite(t) \/ ConfirmVault(t)
  <2>1. \A v \in Vaults : cache[v].synced \in Nat
    BY <1>0 DEF VaultRows, Versions
  <2>2. CASE UNCHANGED cache
    BY <1>0, <2>1, <2>2
  <2>3. CASE RowWritten(t)
    <3>1. PICK w \in Vaults, row \in VaultRows :
        /\ cache' = [cache EXCEPT ![w] = row]
        /\ row.synced <= cache[w].synced
        /\ cache[w].there /\ row.there /\ row.enabled # cache[w].enabled
              => ToggleWrite(t) \/ ConfirmVault(t)
      BY <2>3 DEF RowWritten
    <3>2. cache'[w] = row /\ \A v \in Vaults : v # w => cache'[v] = cache[v]
      BY <1>0, <3>1
    <3> QED BY <1>0, <2>1, <3>1, <3>2
  <2> QED BY <2>2, <2>3 DEF PlainStep
<1> QED BY <1>1, <1>2 DEF PlainStep, Moves

\* The statements on a row.
LEMMA RowFacts ==
    ASSUME NEW row \in VaultRows, NEW on \in BOOLEAN
    PROVE  /\ NoVault \in VaultRows /\ NoVault.synced = 0 /\ NoVault.there = FALSE
           /\ UpsertVault(row, on) \in VaultRows
           /\ UpsertVault(row, on).synced <= row.synced
           /\ row.there => UpsertVault(row, on) = row
           /\ SetVaultSyncEnabled(row, on) \in VaultRows
           /\ SetVaultSyncEnabled(row, on).synced <= row.synced
<1>0. row.synced \in Nat /\ 0 \in Versions
  BY VaultScopeAssumption DEF VaultRows, Versions
<1>1. NoVault \in VaultRows /\ NoVault.synced = 0 /\ NoVault.there = FALSE
  BY <1>0 DEF NoVault, VaultRows
<1>2. CASE row.there
  BY <1>0, <1>1, <1>2 DEF VaultRows, UpsertVault, SetVaultSyncEnabled
<1>3. CASE ~row.there
  BY <1>0, <1>1, <1>3 DEF VaultRows, UpsertVault, SetVaultSyncEnabled
<1> QED BY <1>2, <1>3

\* An upsert leaves the flag of a row that is there.
LEMMA UpsertWrites ==
    ASSUME ScopeInv, NEW t \in Threads, NEW v \in Vaults, NEW on \in BOOLEAN, Upsert(v, on)
    PROVE  RowWritten(t)
<1>1. cache \in [Vaults -> VaultRows]
  BY DEF ScopeInv, TypeOK, VaultRows
<1>2. cache' = [cache EXCEPT ![v] = UpsertVault(cache[v], on)]
  BY DEF Upsert
<1> QED BY <1>1, <1>2, RowFacts DEF RowWritten

\* The common state of the steps below.
LEMMA JobFacts ==
    ASSUME ScopeInv, NEW t \in Threads
    PROVE  /\ job \in [Threads -> JobStates] /\ job[t] \in JobStates /\ HasFolder(job[t])
           /\ cache \in [Vaults -> VaultRows] /\ server \in [Vaults -> Versions]
           /\ rows \in [Vaults -> Versions]
           /\ screen \in ScreenStates /\ chosen \in BOOLEAN
           /\ Idle \in JobStates /\ Idle.kind = "idle" /\ Idle.at = "idle" /\ HasFolder(Idle)
           /\ ~Creating(Idle) /\ Idle.fresh = [v \in Vaults |-> 0]
           /\ loadVaults \in JobStates /\ loadVaults.kind = "local" /\ loadVaults.at = "select"
           /\ HasFolder(loadVaults) /\ ~Creating(loadVaults)
           /\ loadVaults.fresh = [v \in Vaults |-> 0]
<1>1. /\ job \in [Threads -> JobStates] /\ job[t] \in JobStates /\ HasFolder(job[t])
      /\ cache \in [Vaults -> VaultRows] /\ server \in [Vaults -> Versions]
      /\ rows \in [Vaults -> Versions]
      /\ screen \in ScreenStates /\ chosen \in BOOLEAN
  BY DEF ScopeInv, TypeOK, VaultRows, ScreenStates
<1>2. /\ Idle \in JobStates /\ Idle.kind = "idle" /\ Idle.at = "idle"
      /\ Idle.fresh = [v \in Vaults |-> 0]
  BY CommandFacts DEF Idle, Kinds, Places
<1>3. /\ loadVaults \in JobStates /\ loadVaults.kind = "local" /\ loadVaults.at = "select"
      /\ loadVaults.fresh = [v \in Vaults |-> 0]
  BY CommandFacts DEF loadVaults, Kinds, Places
<1> QED BY <1>1, <1>2, <1>3 DEF HasFolder, Creating

\* vault.List and ListLocal.
LEMMA ListMoves ==
    ASSUME ScopeInv, NEW t \in Threads, ListSteps(t)
    PROVE  \E n : Moves(t, n)
<1> DEFINE j == job[t]
<1> USE JobFacts
<1>0. UNCHANGED <<server, rows, chosen, screen>>
  BY DEF ListSteps, ListCall, ListUpsert, ListFlag, PruneStaleVaults, DeleteVault, ListLocal, ListLocked
<1>1. CASE ListCall(t)
  <2>1. CASE Becomes(t, [j EXCEPT !.at = "upsert", !.todo = ListVaults])
    <3> DEFINE n == [j EXCEPT !.at = "upsert", !.todo = ListVaults]
    <3>1. n \in JobStates /\ n.kind = "list" /\ n.at = "upsert" /\ n.fresh = j.fresh
      <4>1. j \in JobStates
        OBVIOUS
      <4> HIDE JobFacts
      <4> QED BY <1>1, <4>1 DEF ListCall, At, JobStates, ListVaults, Places
    <3>2. PlainStep(t, n)
      BY <1>0, <1>1, <2>1, <3>1 DEF PlainStep, HasFolder, Creating, ListCall, Becomes
    <3> QED BY <3>2, PlainMoves
  <2>2. CASE Becomes(t, loadVaults)
    <3>1. PlainStep(t, loadVaults)
      BY <1>0, <1>1, <2>2 DEF PlainStep, ListCall, Becomes
    <3> QED BY <3>1, PlainMoves
  <2> QED BY <1>1, <2>1, <2>2 DEF ListCall
<1>2. CASE ListUpsert(t)
  <2>1. PICK v \in j.todo : Upsert(v, FALSE) /\ Becomes(t, [j EXCEPT !.at = "flag", !.cur = v])
    BY <1>2 DEF ListUpsert
  <2> DEFINE n == [j EXCEPT !.at = "flag", !.cur = v]
  <2>2. v \in Vaults
    BY <2>1 DEF JobStates
  <2>3. n \in JobStates /\ n.kind = "list" /\ n.at = "flag" /\ n.cur = v /\ n.fresh = j.fresh
    <3>1. j \in JobStates
      OBVIOUS
    <3> HIDE JobFacts
    <3> QED BY <1>2, <2>2, <3>1 DEF ListUpsert, At, JobStates, Places
  <2>4. RowWritten(t)
    BY <2>1, <2>2, UpsertWrites
  <2>5. PlainStep(t, n)
    BY <1>0, <2>1, <2>2, <2>3, <2>4 DEF PlainStep, HasFolder, Creating, Becomes
  <2> QED BY <2>5, PlainMoves
<1>3. CASE ListFlag(t)
  <2> DEFINE v == j.cur
             flag == Flag(cache[v].there => cache[v].enabled)
             n == [j EXCEPT !.at = "upsert", !.cur = None, !.todo = @ \ {v}, !.list[v] = flag]
  <2>1. Becomes(t, n) /\ j.kind = "list" /\ j.at = "flag" /\ v \in Vaults /\ UNCHANGED cache
    BY <1>3 DEF ListFlag, At, HasFolder
  <2>2. flag \in {"none", "on", "off"}
    BY DEF Flag
  <2>3. n \in JobStates /\ n.kind = "list" /\ n.at = "upsert" /\ n.fresh = j.fresh
    <3> DEFINE list == [j.list EXCEPT ![v] = flag]
    <3>1. list \in Lists
      BY <2>1, <2>2 DEF JobStates, Lists
    <3>2. n = [j EXCEPT !.at = "upsert", !.cur = None, !.todo = j.todo \ {v}, !.list = list]
      BY <2>1 DEF JobStates
    <3> HIDE DEF list, n, flag
    <3>9. j \in JobStates
      OBVIOUS
    <3> HIDE JobFacts
    <3> QED BY <2>1, <3>1, <3>2, <3>9 DEF JobStates, Places
  <2>4. PlainStep(t, n)
    <3> HIDE DEF n
    <3> QED BY <1>0, <2>1, <2>3 DEF PlainStep, HasFolder, Creating, Becomes
  <2> QED BY <2>4, PlainMoves
<1>4. CASE PruneStaleVaults(t)
  <2> DEFINE n == [j EXCEPT !.at = "prune", !.todo = Cached \ Listed(j.list)]
  <2>1. Becomes(t, n) /\ j.kind = "list" /\ UNCHANGED cache
    BY <1>4 DEF PruneStaleVaults, At
  <2>2. n \in JobStates /\ n.kind = "list" /\ n.at = "prune" /\ n.fresh = j.fresh
    <3>1. j \in JobStates
      OBVIOUS
    <3> HIDE JobFacts
    <3> QED BY <2>1, <3>1 DEF JobStates, Places, Cached
  <2>3. PlainStep(t, n)
    BY <1>0, <2>1, <2>2 DEF PlainStep, HasFolder, Creating, Becomes
  <2> QED BY <2>3, PlainMoves
<1>5. CASE DeleteVault(t)
  <2>1. PICK v \in j.todo : cache' = [cache EXCEPT ![v] = NoVault] /\ Becomes(t, [j EXCEPT !.todo = @ \ {v}])
    BY <1>5 DEF DeleteVault
  <2> DEFINE n == [j EXCEPT !.todo = @ \ {v}]
  <2>2. v \in Vaults
    BY <2>1 DEF JobStates
  <2>3. n \in JobStates /\ n.kind = "list" /\ n.at = "prune" /\ n.fresh = j.fresh
    <3>1. j \in JobStates
      OBVIOUS
    <3> HIDE JobFacts
    <3> QED BY <1>5, <3>1 DEF DeleteVault, At, JobStates
  <2>4. RowWritten(t)
    <3>1. cache[v].synced \in Nat /\ cache[v] \in VaultRows
      BY <2>2 DEF VaultRows, Versions
    <3>2. NoVault \in VaultRows /\ NoVault.synced = 0 /\ NoVault.there = FALSE
      BY <3>1, RowFacts, TRUE \in BOOLEAN
    <3>3. NoVault.synced <= cache[v].synced
      BY <3>1, <3>2
    <3> HIDE JobFacts
    <3> QED BY <2>1, <2>2, <3>2, <3>3 DEF RowWritten
  <2>5. PlainStep(t, n)
    BY <1>0, <2>1, <2>2, <2>3, <2>4 DEF PlainStep, HasFolder, Creating, Becomes
  <2> QED BY <2>5, PlainMoves
<1>6. CASE ListLocal(t)
  <2> DEFINE list == [v \in Vaults |-> IF cache[v].there THEN Flag(cache[v].enabled) ELSE "none"]
             n == [j EXCEPT !.at = "loaded", !.list = list]
  <2>1. Becomes(t, n) /\ j.kind = "local" /\ UNCHANGED cache
    BY <1>6 DEF ListLocal, At
  <2>2. list \in Lists
    BY DEF Lists, Flag
  <2>3. n \in JobStates /\ n.kind = "local" /\ n.at = "loaded" /\ n.fresh = j.fresh
    <3> HIDE DEF list
    <3>9. j \in JobStates
      OBVIOUS
    <3> HIDE JobFacts
    <3> QED BY <2>1, <2>2, <3>9 DEF JobStates, Places
  <2>4. PlainStep(t, n)
    <3> HIDE DEF n
    <3> QED BY <1>0, <2>1, <2>3 DEF PlainStep, HasFolder, Creating, Becomes
  <2> QED BY <2>4, PlainMoves
<1>7. CASE ListLocked(t)
  <2>1. PlainStep(t, Idle)
    BY <1>0, <1>7 DEF PlainStep, ListLocked, Becomes
  <2> QED BY <2>1, PlainMoves
<1> QED BY <1>1, <1>2, <1>3, <1>4, <1>5, <1>6, <1>7 DEF ListSteps

\* vault.Create.
LEMMA CreateMoves ==
    ASSUME ScopeInv, NEW t \in Threads, CreateCall(t) \/ CreateUpsert(t)
    PROVE  \E n : Moves(t, n)
<1> DEFINE j == job[t]
<1> USE JobFacts
<1>1. CASE CreateCall(t)
  <2>1. Creating(j) /\ j.cur \in Vaults /\ UNCHANGED <<cache, rows, chosen, screen>>
    BY <1>1 DEF CreateCall, At, Creating, HasFolder
  <2>2. UNCHANGED server \/ server' = [server EXCEPT ![j.cur] = 1]
    BY <1>1 DEF CreateCall
  <2>3. ASSUME NEW n \in JobStates, Becomes(t, n), n.kind # "sync", HasFolder(n), ~Creating(n),
               n.at # "rows", n.fresh = j.fresh \/ n.fresh = [v \in Vaults |-> 0]
        PROVE  Moves(t, n)
    <3>1. \A v \in Vaults : n.fresh[v] <= server[v]
      BY <2>3 DEF ScopeInv, Behind, Versions
    <3>2. \A v \in Vaults : cache'[v].synced <= cache[v].synced
      BY <2>1 DEF VaultRows, Versions
    <3> QED BY <2>1, <2>2, <2>3, <3>1, <3>2 DEF Moves, Becomes
  <2>4. CASE Becomes(t, [j EXCEPT !.at = "upsert"])
    <3> DEFINE n == [j EXCEPT !.at = "upsert"]
    <3>1. /\ n \in JobStates /\ n.kind = "create" /\ n.at = "upsert" /\ n.cur = j.cur
          /\ n.fresh = j.fresh
      <4>1. j \in JobStates
        OBVIOUS
      <4> HIDE JobFacts
      <4> QED BY <2>1, <4>1 DEF JobStates, Places, Creating
    <3>2. HasFolder(n) /\ ~Creating(n)
      BY <2>1, <3>1 DEF HasFolder, Creating
    <3>3. Moves(t, n)
      BY <2>3, <2>4, <3>1, <3>2
    <3> QED BY <3>3
  <2>5. CASE Becomes(t, Idle)
    <3>1. Moves(t, Idle)
      BY <2>3, <2>5
    <3> QED BY <3>1
  <2> QED BY <1>1, <2>4, <2>5 DEF CreateCall
<1>2. CASE CreateUpsert(t)
  <2> DEFINE n == Command("create", "created")
  <2>1. /\ n \in JobStates /\ n.kind = "create" /\ n.at = "created"
        /\ n.fresh = [v \in Vaults |-> 0]
    BY CommandFacts DEF Kinds, Places
  <2>2. j.cur \in Vaults /\ Upsert(j.cur, TRUE) /\ Becomes(t, n)
        /\ UNCHANGED <<server, rows, chosen, screen>>
    BY <1>2 DEF CreateUpsert, At, HasFolder
  <2>3. RowWritten(t)
    BY <2>2, UpsertWrites
  <2>4. PlainStep(t, n)
    BY <2>1, <2>2, <2>3 DEF PlainStep, HasFolder, Creating, Becomes
  <2> QED BY <2>4, PlainMoves
<1> QED BY <1>1, <1>2

\* Sync, and the metadata a login reads.
LEMMA SyncMoves ==
    ASSUME ScopeInv, NEW t \in Threads, SyncSteps(t) \/ SyncFails(t)
    PROVE  \E n : Moves(t, n)
<1> DEFINE j == job[t]
<1> USE JobFacts
<1>0. UNCHANGED <<server, chosen, screen>>
  BY DEF SyncSteps, SyncFails, CheckFreshness, VaultMap, MetaCall, MetaUpsert, VaultMapAgain,
         ListSecretRows, UpsertSecretRows, SetSynced
<1>1. CASE CheckFreshness(t)
  <2> DEFINE n == [j EXCEPT !.at = "map", !.fresh = server]
  <2>1. Becomes(t, n) /\ j.kind = "sync" /\ UNCHANGED <<cache, rows>>
    BY <1>1 DEF CheckFreshness, At
  <2>2. n \in JobStates /\ n.kind = "sync" /\ n.at = "map" /\ n.fresh = server
    <3>1. j \in JobStates /\ server \in [Vaults -> Versions]
      OBVIOUS
    <3> HIDE JobFacts
    <3> QED BY <2>1, <3>1 DEF JobStates, Places
  <2>3. PlainStep(t, n)
    BY <1>0, <2>1, <2>2 DEF PlainStep, HasFolder, Creating, Becomes
  <2> QED BY <2>3, PlainMoves
<1>2. ASSUME NEW at \in {"pull", "meta", "metaUpsert"}, NEW todo \in SUBSET Vaults,
             Becomes(t, [j EXCEPT !.at = at, !.todo = todo]), UNCHANGED rows,
             UNCHANGED cache \/ RowWritten(t)
      PROVE  \E n : Moves(t, n)
  <2> DEFINE n == [j EXCEPT !.at = at, !.todo = todo]
  <2>1. n \in JobStates /\ n.kind = j.kind /\ n.at = at /\ n.fresh = j.fresh
    <3>1. j \in JobStates
      OBVIOUS
    <3> HIDE JobFacts
    <3> QED BY <3>1 DEF JobStates, Places
  <2>2. PlainStep(t, n)
    BY <1>0, <1>2, <2>1 DEF PlainStep, HasFolder, Creating, Becomes
  <2> QED BY <2>2, PlainMoves
<1>s. ToSync(t) \in SUBSET Vaults
  BY DEF ToSync, Fresh
<1>3. CASE VaultMap(t)
  <2>1. CASE Becomes(t, [j EXCEPT !.at = "pull", !.todo = ToSync(t)])
    BY <1>2, <1>3, <1>s, <2>1 DEF VaultMap
  <2>2. CASE Becomes(t, [j EXCEPT !.at = "meta"])
    <3>1. [j EXCEPT !.at = "meta"] = [j EXCEPT !.at = "meta", !.todo = j.todo] /\ j.todo \in SUBSET Vaults
      BY DEF JobStates
    <3> QED BY <1>2, <1>3, <2>2, <3>1 DEF VaultMap
  <2> QED BY <1>3, <2>1, <2>2 DEF VaultMap
<1>4. CASE MetaCall(t)
  <2>1. Becomes(t, [j EXCEPT !.at = "metaUpsert", !.todo = ListVaults]) /\ UNCHANGED <<cache, rows>>
    BY <1>4 DEF MetaCall
  <2>2. ListVaults \in SUBSET Vaults
    BY DEF ListVaults
  <2> QED BY <1>2, <2>1, <2>2
<1>5. CASE MetaUpsert(t)
  <2>1. PICK v \in j.todo : Upsert(v, FALSE) /\ Becomes(t, [j EXCEPT !.todo = @ \ {v}])
    BY <1>5 DEF MetaUpsert
  <2>2. v \in Vaults /\ j.todo \ {v} \in SUBSET Vaults /\ j.at = "metaUpsert" /\ UNCHANGED rows
    BY <1>5, <2>1 DEF JobStates, MetaUpsert
  <2>3. [j EXCEPT !.todo = @ \ {v}] = [j EXCEPT !.at = "metaUpsert", !.todo = j.todo \ {v}]
    BY <2>2 DEF JobStates
  <2>4. RowWritten(t)
    BY <2>1, <2>2, UpsertWrites
  <2> QED BY <1>2, <2>1, <2>2, <2>3, <2>4
<1>6. CASE VaultMapAgain(t)
  BY <1>2, <1>6, <1>s DEF VaultMapAgain
<1>7. CASE ListSecretRows(t)
  <2>1. PICK v \in j.todo : Becomes(t, [j EXCEPT !.at = "rows", !.cur = v, !.got = server[v]])
    BY <1>7 DEF ListSecretRows
  <2> DEFINE n == [j EXCEPT !.at = "rows", !.cur = v, !.got = server[v]]
  <2>2. v \in Vaults /\ j.kind = "sync" /\ UNCHANGED <<cache, rows>>
    BY <1>7, <2>1 DEF JobStates, ListSecretRows, At
  <2>3. /\ n \in JobStates /\ n.kind = "sync" /\ n.at = "rows" /\ n.cur = v /\ n.got = server[v]
        /\ n.fresh = j.fresh
    <3>1. j \in JobStates /\ server[v] \in Versions
      BY <2>2
    <3> HIDE JobFacts
    <3> QED BY <2>2, <3>1 DEF JobStates, Places
  <2>4. \A w \in Vaults : n.fresh[w] <= server[w] /\ cache'[w].synced <= cache[w].synced
    BY <2>2, <2>3 DEF ScopeInv, Behind, VaultRows, Versions
  <2>5. Moves(t, n)
    <3> HIDE DEF n
    <3> QED BY <1>0, <2>1, <2>2, <2>3, <2>4 DEF n, Moves, Becomes, HasFolder, Creating
  <2> QED BY <2>5
<1>8. CASE UpsertSecretRows(t)
  <2> DEFINE n == [j EXCEPT !.at = "synced", !.got = 0]
  <2>1. /\ Becomes(t, n) /\ j.kind = "sync" /\ j.at = "rows" /\ UNCHANGED cache
        /\ rows' = [rows EXCEPT ![j.cur] = j.got] /\ j.cur \in Vaults
    BY <1>8 DEF UpsertSecretRows, At, HasFolder
  <2>2. /\ n \in JobStates /\ n.kind = "sync" /\ n.at = "synced" /\ n.cur = j.cur
        /\ n.fresh = j.fresh
    <3>1. 0 \in Versions
      BY VaultScopeAssumption DEF Versions
    <3>9. j \in JobStates
      OBVIOUS
    <3> HIDE JobFacts
    <3> QED BY <2>1, <3>1, <3>9 DEF JobStates, Places
  <2>3. \A w \in Vaults : n.fresh[w] <= server[w] /\ cache'[w].synced <= cache[w].synced
    BY <2>1, <2>2 DEF ScopeInv, Behind, VaultRows, Versions
  <2>4. Moves(t, n)
    <3> HIDE DEF n
    <3> QED BY <1>0, <2>1, <2>2, <2>3 DEF Moves, Becomes, HasFolder, Creating
  <2> QED BY <2>4
<1>9. CASE SetSynced(t)
  <2> DEFINE v == j.cur
             row == SetVaultSyncedVersion(cache[v], j.fresh[v])
             n == [j EXCEPT !.at = "pull", !.cur = None, !.todo = @ \ {v}]
  <2>1. /\ Becomes(t, n) /\ j.kind = "sync" /\ j.at = "synced" /\ v \in Vaults /\ UNCHANGED rows
        /\ cache' = [cache EXCEPT ![v] = row]
    BY <1>9 DEF SetSynced, At, HasFolder
  <2>2. n \in JobStates /\ n.kind = "sync" /\ n.at = "pull" /\ n.fresh = j.fresh
    <3>1. j \in JobStates
      OBVIOUS
    <3> HIDE JobFacts
    <3> QED BY <2>1, <3>1 DEF JobStates, Places
  <2>3. cache[v] \in VaultRows /\ j.fresh[v] \in Versions
    BY <2>1 DEF JobStates
  <2>4. /\ row \in VaultRows /\ row.there = cache[v].there /\ row.enabled = cache[v].enabled
        /\ row.synced = j.fresh[v] \/ row.synced = cache[v].synced
    BY <2>3 DEF SetVaultSyncedVersion, VaultRows
  <2>5. cache' \in [Vaults -> VaultRows] /\ cache'[v] = row /\ \A w \in Vaults : w # v => cache'[w] = cache[w]
    <3> HIDE DEF row
    <3> QED BY <2>1, <2>4
  <2>6. \A w \in Vaults : cache[w].synced \in Nat
    BY DEF VaultRows, Versions
  <2>7. \A w \in Vaults : n.fresh[w] <= server[w]
    BY <2>2 DEF ScopeInv, Behind
  <2>8. Moves(t, n)
    <3> HIDE DEF n, row
    <3> QED BY <1>0, <2>1, <2>2, <2>4, <2>5, <2>6, <2>7 DEF Moves, Becomes, HasFolder, Creating
  <2> QED BY <2>8
<1>10. CASE SyncFails(t)
  <2>1. PlainStep(t, Idle)
    BY <1>0, <1>10 DEF PlainStep, SyncFails, Becomes
  <2> QED BY <2>1, PlainMoves
<1> QED BY <1>1, <1>3, <1>4, <1>5, <1>6, <1>7, <1>8, <1>9, <1>10 DEF SyncSteps

\* The check box, and the confirmation of the scope.
LEMMA ChoiceMoves ==
    ASSUME ScopeInv, NEW t \in Threads, ToggleWrite(t) \/ ConfirmVault(t) \/ MarkSyncScopeChosen(t)
    PROVE  \E n : Moves(t, n)
<1> DEFINE j == job[t]
<1> USE JobFacts
<1>0. UNCHANGED <<server, rows, screen>> /\ chosen' \in BOOLEAN
  BY DEF ToggleWrite, ConfirmVault, MarkSyncScopeChosen
<1>1. ASSUME NEW v \in Vaults, NEW on \in BOOLEAN, ToggleWrite(t) \/ ConfirmVault(t),
             cache' = [cache EXCEPT ![v] = SetVaultSyncEnabled(@, on)]
      PROVE  RowWritten(t)
  <2> DEFINE row == SetVaultSyncEnabled(cache[v], on)
  <2>1. cache' = [cache EXCEPT ![v] = row]
    BY <1>1
  <2>2. row \in VaultRows /\ row.synced <= cache[v].synced
    BY RowFacts
  <2> HIDE DEF row
  <2> QED BY <1>1, <2>1, <2>2 DEF RowWritten
<1>2. CASE ToggleWrite(t)
  <2> DEFINE n == Command("toggle", "toggled")
  <2>1. n \in JobStates /\ n.kind = "toggle" /\ n.at = "toggled" /\ n.fresh = [v \in Vaults |-> 0]
    BY CommandFacts DEF Kinds, Places
  <2>2. /\ Becomes(t, n) /\ j.cur \in Vaults /\ j.on \in BOOLEAN
        /\ cache' = [cache EXCEPT ![j.cur] = SetVaultSyncEnabled(@, j.on)]
    BY <1>2 DEF ToggleWrite, At, HasFolder, JobStates
  <2>3. RowWritten(t)
    BY <1>1, <1>2, <2>2
  <2>4. PlainStep(t, n)
    BY <1>0, <2>1, <2>2, <2>3 DEF PlainStep, HasFolder, Creating, Becomes
  <2> QED BY <2>4, PlainMoves
<1>3. CASE ConfirmVault(t)
  <2>1. PICK v \in j.todo :
            /\ cache' = IF v \in screen.checked THEN cache
                        ELSE [cache EXCEPT ![v] = SetVaultSyncEnabled(@, FALSE)]
            /\ Becomes(t, [j EXCEPT !.todo = @ \ {v}])
    BY <1>3 DEF ConfirmVault
  <2> DEFINE n == [j EXCEPT !.todo = @ \ {v}]
  <2>2. v \in Vaults
    BY <2>1 DEF JobStates
  <2>3. n \in JobStates /\ n.kind = "confirm" /\ n.at = "vaults" /\ n.fresh = j.fresh
    <3>1. j \in JobStates
      OBVIOUS
    <3> HIDE JobFacts
    <3> QED BY <1>3, <3>1 DEF ConfirmVault, At, JobStates
  <2>4. UNCHANGED cache \/ RowWritten(t)
    BY <1>1, <1>3, <2>1, <2>2
  <2>5. PlainStep(t, n)
    BY <1>0, <2>1, <2>3, <2>4 DEF PlainStep, HasFolder, Creating, Becomes
  <2> QED BY <2>5, PlainMoves
<1>4. CASE MarkSyncScopeChosen(t)
  <2> DEFINE n == Command("confirm", "confirmed")
  <2>1. n \in JobStates /\ n.kind = "confirm" /\ n.at = "confirmed" /\ n.fresh = [v \in Vaults |-> 0]
    BY CommandFacts DEF Kinds, Places
  <2>2. PlainStep(t, n)
    BY <1>0, <1>4, <2>1 DEF PlainStep, HasFolder, Creating, Becomes, MarkSyncScopeChosen
  <2> QED BY <2>2, PlainMoves
<1> QED BY <1>2, <1>3, <1>4

\* A screen that goes back to the table.
LEMMA ToTableType == ASSUME ScopeInv PROVE ToTable \in ScreenStates
<1>1. screen \in ScreenStates /\ NoList \in Lists
  BY DEF ScopeInv, TypeOK, ScreenStates, NoList, Lists
<1>2. (IF \E t \in Threads : At(t, "confirm", "vaults") THEN screen.checked ELSE {}) \in SUBSET Vaults
  BY <1>1 DEF ScreenStates
<1> QED BY <1>1, <1>2 DEF ScreenStates, ToTable

\* launchSync is a run of the engine at its beginning.
LEMMA LaunchFacts ==
    ASSUME NEW on \in BOOLEAN
    PROVE  LET n == launchSync(on) IN
           /\ n \in JobStates /\ n.kind = "sync" /\ n.at = "fresh"
           /\ n.fresh = [v \in Vaults |-> 0]
<1> DEFINE c == Command("sync", "fresh")
<1>1. /\ c \in JobStates /\ c.kind = "sync" /\ c.at = "fresh"
      /\ c.fresh = [v \in Vaults |-> 0]
  BY CommandFacts DEF Kinds, Places
<1>2. launchSync(on) = [c EXCEPT !.on = on]
  BY DEF launchSync
<1> HIDE DEF c
<1> QED BY <1>1, <1>2 DEF JobStates

\* The messages that end a command.
LEMMA MessageMoves ==
    ASSUME ScopeInv, NEW t \in Threads,
           VaultsLoaded(t) \/ Reloads(t) \/ BackgroundSyncDone(t) \/ ScopeConfirmed(t) \/ LoginDone(t)
    PROVE  \E n : Moves(t, n)
<1> DEFINE j == job[t]
<1> USE JobFacts
<1>0. UNCHANGED <<server, cache, rows, chosen>>
  BY DEF VaultsLoaded, Reloads, BackgroundSyncDone, ScopeConfirmed, LoginDone
<1>1. ASSUME NEW n \in {Idle, loadVaults, loadVaultsFromServer}, Becomes(t, n), screen' \in ScreenStates
      PROVE  \E m : Moves(t, m)
  <2>1. /\ loadVaultsFromServer \in JobStates /\ loadVaultsFromServer.kind = "list"
        /\ loadVaultsFromServer.at = "call" /\ loadVaultsFromServer.fresh = [v \in Vaults |-> 0]
    BY CommandFacts DEF Kinds, Places, loadVaultsFromServer
  <2>2. /\ n \in JobStates /\ n.kind \notin {"sync", "create"}
        /\ n.at \notin {"flag", "rows", "synced", "write"} /\ n.fresh = [v \in Vaults |-> 0]
    BY <1>1, <2>1
  <2>3. PlainStep(t, n)
    BY <1>0, <1>1, <2>2 DEF PlainStep, Becomes, HasFolder, Creating
  <2> QED BY <2>3, PlainMoves
<1>2. CASE VaultsLoaded(t)
  <2>1. CASE Dropped(t)
    BY <1>1, <2>1 DEF Dropped
  <2>2. CASE ~Dropped(t)
    <3> DEFINE list == j.list
               asks == ~screen.loaded /\ Listed(list) # {} /\ screen.focus = "table" /\ ~chosen
    <3>1. /\ Becomes(t, Idle)
          /\ screen' = [screen EXCEPT !.list = list, !.loaded = TRUE,
                            !.focus = IF asks THEN "scope" ELSE @,
                            !.asked = IF asks THEN Listed(list) ELSE @,
                            !.checked = IF asks THEN Listed(list) ELSE @]
      BY <1>2, <2>2 DEF VaultsLoaded
    <3>2. list \in Lists /\ Listed(list) \in SUBSET Vaults
      BY DEF JobStates, Listed
    <3>3. screen' \in ScreenStates
      <4> HIDE DEF list, asks
      <4>1. CASE asks
        BY <3>1, <3>2, <4>1 DEF ScreenStates
      <4>2. CASE ~asks
        BY <3>1, <3>2, <4>2 DEF ScreenStates
      <4> QED BY <4>1, <4>2
    <3> QED BY <1>1, <3>1, <3>3
  <2> QED BY <2>1, <2>2
<1>3. CASE Reloads(t)
  <2>1. CASE Dropped(t)
    BY <1>1, <2>1 DEF Dropped
  <2>2. CASE ~Dropped(t)
    BY <1>1, <1>3, <2>2, ToTableType DEF Reloads
  <2> QED BY <2>1, <2>2
<1>4. CASE BackgroundSyncDone(t)
  BY <1>1, <1>4 DEF BackgroundSyncDone
<1>5. CASE ScopeConfirmed(t)
  <2>1. CASE Dropped(t)
    BY <1>1, <2>1 DEF Dropped
  <2>2. CASE ~Dropped(t)
    <3> DEFINE n == launchSync(TRUE)
    <3>1. Becomes(t, n) /\ Cardinality(Syncs) < MaxSyncs /\ screen' = ToTable
      BY <1>5, <2>2 DEF ScopeConfirmed
    <3>2. n \in JobStates /\ n.kind = "sync" /\ n.at = "fresh" /\ n.fresh = [v \in Vaults |-> 0]
      BY LaunchFacts
    <3>3. PlainStep(t, n)
      BY <1>0, <3>1, <3>2, ToTableType DEF PlainStep, Becomes, HasFolder, Creating
    <3> QED BY <3>3, PlainMoves
  <2> QED BY <2>1, <2>2
<1>6. CASE LoginDone(t)
  BY <1>1, <1>6 DEF LoginDone
<1> QED BY <1>2, <1>3, <1>4, <1>5, <1>6

\* What starts a command.
LEMMA StartMoves ==
    ASSUME ScopeInv, NEW t \in Threads, User(t) \/ BackgroundSync(t)
    PROVE  \E n : Moves(t, n)
<1> DEFINE j == job[t]
<1> USE JobFacts
<1>0. UNCHANGED <<server, cache, rows, chosen>>
  BY DEF User, BackgroundSync, Login, EnterDashboard, DoSync, DoCreateVault, ToggleVaultRow, ScopeConfirm
<1>1. ASSUME NEW n \in JobStates, Start(t, n), screen' \in ScreenStates,
             n.kind = "sync" => Cardinality(Syncs) < MaxSyncs,
             n.at \notin {"rows", "synced"}, HasFolder(n), Creating(n) => n.cur \in Unused,
             n.fresh = [v \in Vaults |-> 0]
      PROVE  \E m : Moves(t, m)
  <2>1. PlainStep(t, n)
    BY <1>0, <1>1 DEF PlainStep, Start, Becomes
  <2> QED BY <2>1, PlainMoves
<1>2. CASE Login(t)
  <2> DEFINE n == Command("login", "meta")
  <2>1. n \in JobStates /\ n.kind = "login" /\ n.at = "meta" /\ n.fresh = [v \in Vaults |-> 0]
    BY CommandFacts DEF Kinds, Places
  <2> HIDE DEF n
  <2> QED BY <1>1, <1>2, <2>1 DEF n, Login, HasFolder, Creating
<1>3. CASE EnterDashboard(t)
  <2> DEFINE n == IF screen.loaded THEN loadVaults ELSE loadVaultsFromServer
  <2>1. /\ loadVaultsFromServer \in JobStates /\ loadVaultsFromServer.kind = "list"
        /\ loadVaultsFromServer.at = "call" /\ loadVaultsFromServer.fresh = [v \in Vaults |-> 0]
    BY CommandFacts DEF Kinds, Places, loadVaultsFromServer
  <2>2. /\ n \in JobStates /\ n.kind \in {"list", "local"} /\ n.at \in {"call", "select"}
        /\ n.fresh = [v \in Vaults |-> 0]
    BY <2>1
  <2>3. Start(t, n) /\ screen' = [screen EXCEPT !.open = TRUE, !.entered = TRUE]
    BY <1>3 DEF EnterDashboard
  <2>4. screen' \in ScreenStates
    BY <2>3 DEF ScreenStates
  <2>5. HasFolder(n) /\ ~Creating(n)
    BY <2>2 DEF HasFolder, Creating
  <2> HIDE DEF n
  <2> QED BY <1>1, <2>2, <2>3, <2>4, <2>5
<1>4. CASE DoSync(t) \/ BackgroundSync(t)
  <2>1. PICK on \in BOOLEAN : Start(t, launchSync(on))
    BY <1>4 DEF DoSync, BackgroundSync
  <2>2. Cardinality(Syncs) < MaxSyncs /\ UNCHANGED screen
    BY <1>4 DEF DoSync, BackgroundSync
  <2> DEFINE n == launchSync(on)
  <2>3. n \in JobStates /\ n.kind = "sync" /\ n.at = "fresh" /\ n.fresh = [v \in Vaults |-> 0]
    BY LaunchFacts
  <2>4. HasFolder(n) /\ ~Creating(n)
    BY <2>3 DEF HasFolder, Creating
  <2> HIDE DEF n
  <2> QED BY <1>1, <2>1, <2>2, <2>3, <2>4 DEF n
<1>5. CASE DoCreateVault(t)
  <2>1. PICK v \in Unused : Start(t, [Command("create", "call") EXCEPT !.cur = v])
    BY <1>5 DEF DoCreateVault
  <2> DEFINE c == Command("create", "call")
             n == [c EXCEPT !.cur = v]
  <2>2. c \in JobStates /\ c.kind = "create" /\ c.at = "call" /\ c.fresh = [w \in Vaults |-> 0]
    BY CommandFacts DEF Kinds, Places
  <2>3. v \in Vaults
    BY <2>1 DEF Unused
  <2>4. /\ n \in JobStates /\ n.kind = "create" /\ n.at = "call" /\ n.cur = v
        /\ n.fresh = [w \in Vaults |-> 0]
    <3> HIDE DEF c
    <3> QED BY <2>2, <2>3 DEF JobStates
  <2>5. HasFolder(n)
    BY <2>3, <2>4 DEF HasFolder
  <2>6. Start(t, n) /\ UNCHANGED screen
    BY <1>5, <2>1 DEF DoCreateVault
  <2> HIDE DEF n
  <2> QED BY <1>1, <2>1, <2>4, <2>5, <2>6
<1>6. CASE ToggleVaultRow(t)
  <2>1. PICK v \in Listed(screen.boxes) :
        LET on == screen.boxes[v] = "off" IN
        /\ screen' = [screen EXCEPT !.boxes[v] = Flag(on)]
        /\ Start(t, [Command("toggle", "write") EXCEPT !.cur = v, !.on = on])
    BY <1>6 DEF ToggleVaultRow
  <2> DEFINE on == screen.boxes[v] = "off"
             c == Command("toggle", "write")
             n == [c EXCEPT !.cur = v, !.on = on]
             boxes == [screen.boxes EXCEPT ![v] = Flag(on)]
  <2>2. v \in Vaults /\ on \in BOOLEAN
    BY <2>1 DEF Listed
  <2>3. c \in JobStates /\ c.kind = "toggle" /\ c.at = "write" /\ c.fresh = [w \in Vaults |-> 0]
    BY CommandFacts DEF Kinds, Places
  <2>4. /\ n \in JobStates /\ n.kind = "toggle" /\ n.at = "write" /\ n.cur = v
        /\ n.fresh = [w \in Vaults |-> 0]
    <3> HIDE DEF c, on
    <3> QED BY <2>2, <2>3 DEF JobStates
  <2>5. boxes \in Lists
    BY <2>2 DEF ScreenStates, Lists, Flag
  <2>6. screen' = [screen EXCEPT !.boxes = boxes]
    BY <2>1
  <2>7. screen' \in ScreenStates
    <3> HIDE DEF boxes
    <3> QED BY <2>5, <2>6 DEF ScreenStates
  <2>8. HasFolder(n) /\ ~Creating(n)
    BY <2>2, <2>4 DEF HasFolder, Creating
  <2>9. Start(t, n)
    BY <2>1
  <2> HIDE DEF n
  <2> QED BY <1>1, <2>4, <2>7, <2>8, <2>9
<1>7. CASE ScopeConfirm(t)
  <2> DEFINE c == Command("confirm", "vaults")
             n == [c EXCEPT !.todo = screen.asked]
  <2>1. c \in JobStates /\ c.kind = "confirm" /\ c.at = "vaults" /\ c.fresh = [v \in Vaults |-> 0]
    BY CommandFacts DEF Kinds, Places
  <2>2. n \in JobStates /\ n.kind = "confirm" /\ n.at = "vaults" /\ n.fresh = [v \in Vaults |-> 0]
    <3> HIDE DEF c
    <3> QED BY <2>1 DEF JobStates, ScreenStates
  <2>3. HasFolder(n) /\ ~Creating(n)
    BY <2>2 DEF HasFolder, Creating
  <2>4. Start(t, n) /\ UNCHANGED screen
    BY <1>7 DEF ScopeConfirm
  <2> HIDE DEF n
  <2> QED BY <1>1, <2>2, <2>3, <2>4
<1> QED BY <1>2, <1>3, <1>4, <1>5, <1>6, <1>7 DEF User

----------------------------------------------------------------------------
\* A step beside the goroutines: the screen alone, or a write of another device.
Beside ==
    /\ UNCHANGED <<cache, rows, chosen, job>> /\ screen' \in ScreenStates
    /\ UNCHANGED server \/ OtherDevice

LEMMA BesideInv == ASSUME ScopeInv, Beside PROVE ScopeInv' /\ (PullInv => PullInv')
<1>0. /\ job \in [Threads -> JobStates] /\ server \in [Vaults -> Versions]
      /\ rows \in [Vaults -> Versions] /\ Behind /\ MaxVersion \in Nat
      /\ \A t \in Threads : NewFolder(t) /\ HasFolder(job[t])
      /\ UNCHANGED <<cache, rows, chosen, job>>
  BY VaultScopeAssumption DEF ScopeInv, TypeOK, Beside
<1>1. server' \in [Vaults -> Versions] /\ \A v \in Vaults : server[v] <= server'[v]
  BY <1>0 DEF Beside, OtherDevice, Versions, ListVaults, Unused
<1>2. Syncs' = Syncs
  BY <1>0 DEF Syncs
<1>3. TypeOK'
  BY <1>0, <1>1, <1>2 DEF ScopeInv, TypeOK, Beside, ScreenStates
<1>4. ASSUME NEW t \in Threads PROVE NewFolder(t)'
  <2>1. CASE UNCHANGED server
    BY <1>0, <2>1 DEF NewFolder, Creating
  <2>2. CASE OtherDevice
    <3>1. PICK v \in ListVaults \cup Unused : server' = [server EXCEPT ![v] = @ + 1]
      BY <2>2 DEF OtherDevice
    <3>2. Creating(job[t]) => job[t].cur \in Vaults /\ job[t].cur # v
      <4>1. Creating(job[t]) => job[t].cur \in Vaults /\ server[job[t].cur] = 0
        BY <1>0 DEF NewFolder, HasFolder, Creating
      <4> QED BY <1>0, <3>1, <4>1 DEF ListVaults, Unused
    <3>3. v \in Vaults
      BY <3>1 DEF ListVaults, Unused
    <3> QED BY <1>0, <3>1, <3>2, <3>3 DEF NewFolder, Creating
  <2> QED BY <2>1, <2>2 DEF Beside
<1>5. Behind'
  <2>1. \A v \in Vaults : rows[v] \in Nat /\ server[v] \in Nat /\ server'[v] \in Nat
    BY <1>0, <1>1 DEF Versions
  <2>2. \A t \in Threads, v \in Vaults : job[t].fresh[v] \in Nat
    BY <1>0 DEF JobStates, Versions
  <2>3. \A t \in Threads : job[t].got \in Nat /\ (job[t].at = "rows" => job[t].cur \in Vaults)
    BY <1>0 DEF JobStates, Versions, HasFolder
  <2> QED BY <1>0, <1>1, <2>1, <2>2, <2>3 DEF Behind
<1>6. \A t \in Threads : HasFolder(job[t])'
  BY <1>0 DEF HasFolder
<1>7. ScopeInv'
  BY <1>0, <1>2, <1>3, <1>4, <1>5, <1>6 DEF ScopeInv
<1>8. PullInv => PullInv'
  BY <1>0 DEF PullInv, SyncedIsPulled, PullOK
<1> QED BY <1>7, <1>8

\* Every step is one of a goroutine or one beside them.
LEMMA NextMoves ==
    ASSUME ScopeInv, Next
    PROVE  Beside \/ \E t \in Threads : \E n : Moves(t, n)
<1>0. screen \in ScreenStates
  BY DEF ScopeInv, TypeOK, ScreenStates
<1>1. ASSUME NEW t \in Threads, Goes(t) \/ User(t) \/ BackgroundSync(t)
      PROVE  \E n : Moves(t, n)
  BY <1>1, ListMoves, CreateMoves, SyncMoves, ChoiceMoves, MessageMoves, StartMoves DEF Goes
<1>2. CASE LeaveDashboard
  BY <1>0, <1>2 DEF LeaveDashboard, Beside, ScreenStates
<1>3. CASE OpenSettings
  BY <1>0, <1>3 DEF OpenSettings, Beside, ScreenStates
<1>4. CASE CloseSettings
  BY <1>4, ToTableType DEF CloseSettings, Beside
<1>5. CASE ScopeSpace
  <2>1. PICK v \in screen.asked :
           screen' = [screen EXCEPT !.checked = IF v \in @ THEN @ \ {v} ELSE @ \cup {v}]
    BY <1>5 DEF ScopeSpace
  <2>2. screen' \in ScreenStates
    BY <1>0, <2>1 DEF ScreenStates
  <2> QED BY <1>5, <2>2 DEF ScopeSpace, Beside
<1>6. CASE OtherDevice
  BY <1>0, <1>6 DEF OtherDevice, Beside
<1> QED BY <1>1, <1>2, <1>3, <1>4, <1>5, <1>6 DEF Next

\* The invariant holds initially.
LEMMA InitInv == Init => ScopeInv /\ PullInv
<1> SUFFICES ASSUME Init PROVE ScopeInv /\ PullInv
  OBVIOUS
<1>0. 0 \in Versions /\ MaxSyncs \in Nat
  BY VaultScopeAssumption DEF Versions
<1>1. Idle \in JobStates /\ Idle.kind = "idle" /\ Idle.at = "idle" /\ Idle.fresh = [v \in Vaults |-> 0]
  BY CommandFacts DEF Idle, Kinds, Places
<1>2. /\ job = [t \in Threads |-> Idle] /\ job \in [Threads -> JobStates]
      /\ server = [v \in Vaults |-> 0] /\ rows = [v \in Vaults |-> 0]
      /\ cache = [v \in Vaults |-> NoVault]
  BY <1>1 DEF Init
<1>3. Syncs = {} /\ IsFiniteSet(Syncs) /\ Cardinality(Syncs) = 0
  BY <1>1, <1>2, FS_EmptySet DEF Syncs
<1>4. \A t \in Threads : HasFolder(job[t]) /\ NewFolder(t) /\ PullOK(job[t])
  BY <1>1, <1>2 DEF HasFolder, NewFolder, Creating, PullOK
<1>5. Behind
  BY <1>1, <1>2 DEF Behind
<1>6. SyncedIsPulled
  BY <1>2 DEF SyncedIsPulled, NoVault
<1>7. TypeOK
  <2>1. screen \in ScreenStates /\ chosen \in BOOLEAN
    BY DEF Init, ScreenStates, NoList, Lists
  <2>2. cache \in [Vaults -> VaultRows]
    BY <1>0, <1>2 DEF NoVault, VaultRows
  <2>3. \A t \in Threads :
          /\ job[t].todo \subseteq Vaults /\ job[t].cur \in Vaults \cup {None}
          /\ job[t].list \in Lists /\ job[t].fresh \in [Vaults -> Versions]
          /\ job[t].at \in {"flag", "rows", "synced", "write"} => job[t].cur # None
    BY <1>1, <1>2 DEF JobStates
  <2> QED BY <1>0, <1>2, <1>3, <2>1, <2>2, <2>3 DEF TypeOK, ScreenStates, VaultRows
<1> QED BY <1>2, <1>3, <1>4, <1>5, <1>6, <1>7 DEF ScopeInv, PullInv

\* Every step keeps the first part of the invariant.
LEMMA NextScopeInv == ScopeInv /\ [Next]_vars => ScopeInv'
<1> SUFFICES ASSUME ScopeInv, [Next]_vars PROVE ScopeInv'
  OBVIOUS
<1>1. CASE Next
  BY <1>1, NextMoves, MovesScopeInv, BesideInv
<1>2. CASE UNCHANGED vars
  <2>1. Beside
    BY <1>2 DEF vars, Beside, ScopeInv, TypeOK, ScreenStates
  <2> QED BY <2>1, BesideInv
<1> QED BY <1>1, <1>2

\* Whatever the user, the goroutines and other devices do, ScopeInv holds.
THEOREM ScopeInvariance == Spec => []ScopeInv
BY InitInv, NextScopeInv, PTL DEF Spec

\* engine.go, list.go, dashboard.go: the state keeps its shape, and a command that works on
\* a folder has one, whatever lists, runs of the engine and keys come together.
THEOREM ScopeTypeOK == Spec => []TypeOK
<1>1. ScopeInv => TypeOK
  BY DEF ScopeInv
<1> QED BY <1>1, ScopeInvariance, PTL

\* engine.go: with one run of the engine at a time, what synced_version says was pulled is
\* in the cache, for any number of folders, lists, logins and toggles beside it.
THEOREM SyncedMeansPulled ==
    ASSUME MaxSyncs <= 1
    PROVE  Spec => []SyncedIsPulled
<1>1. ScopeInv /\ PullInv /\ [Next]_vars => PullInv'
  <2> SUFFICES ASSUME ScopeInv, PullInv, [Next]_vars PROVE PullInv'
    OBVIOUS
  <2>1. CASE Next
    BY <2>1, NextMoves, MovesPullInv, BesideInv
  <2>2. CASE UNCHANGED vars
    BY <2>2 DEF vars, PullInv, SyncedIsPulled, PullOK
  <2> QED BY <2>1, <2>2
<1>2. PullInv => SyncedIsPulled
  BY DEF PullInv
<1> QED BY <1>1, <1>2, InitInv, ScopeInvariance, PTL DEF Spec

\* vault_repo.go, list.go: the flag of a cached folder is moved by ToggleWrite and
\* ConfirmVault alone, not by the upserts of lists, logins and syncs, whatever MaxSyncs is.
THEOREM FlagOnlyByChoice == Spec => FlagIsTheUsers
<1> DEFINE A == \A v \in Vaults :
                  cache[v].there /\ cache'[v].there /\ cache[v].enabled # cache'[v].enabled
                     => \E t \in Threads : ToggleWrite(t) \/ ConfirmVault(t)
<1>1. ScopeInv /\ [Next]_vars => [A]_vars
  <2> SUFFICES ASSUME ScopeInv, Next PROVE A
    OBVIOUS
  <2>1. CASE Beside
    BY <2>1 DEF Beside
  <2>2. ASSUME NEW t \in Threads, NEW n, Moves(t, n) PROVE A
    BY <2>2 DEF Moves
  <2> QED BY <2>1, <2>2, NextMoves
<1>2. Spec => [][A]_vars
  BY <1>1, ScopeInvariance, PTL DEF Spec
<1> QED BY <1>2 DEF FlagIsTheUsers
=============================================================================
