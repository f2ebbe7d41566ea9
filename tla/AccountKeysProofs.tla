------------------------- MODULE AccountKeysProofs -------------------------
(***************************************************************************)
(* Theorems about AccountKeys.  The types hold for every value of the      *)
(* constants.  Which account a process works for, and which master key,    *)
(* is only clear when its jobs do not race: the hypotheses Orderly and     *)
(* OneSource say what the code relies on without enforcing it.             *)
(*                                                                         *)
(* Three layers, each inductive on top of the one before:                  *)
(*   Typed    every variable, and every job at its stage, has its type;    *)
(*   Settled  what a job at a given stage knows of the account of the      *)
(*            device: the files agree whenever anything but a login runs;  *)
(*   Keyed    every key anywhere is the key of the account's row.          *)
(***************************************************************************)
EXTENDS AccountKeys, TLAPS

CodeRows == [set : Nat, nr : 1..CodeCount, key : Nat, used : BOOLEAN]
CodeIds == [set : Nat, nr : 1..CodeCount]
CachedVaults == [user : Users, key : Nat]

Ops == {"register", "login", "refresh", "setup", "codes", "recover", "unlock",
        "unlockPIN", "setPIN", "vault", "list"}

Stages == {"idle", "register", "login", "refresh", "reconcile", "forget", "remember", "saveTokens",
           "cacheSalt", "cacheEnc", "prefetch", "readKey", "wrap", "setup", "genKey", "wrapCodes",
           "storeCodes", "getBlob", "markUsed", "unlock", "unlockPIN", "setPIN", "newVault",
           "createVault", "cacheVault", "listVaults", "cacheList", "prune", "message"}

\* Between the answer of the server and the tokens on disk.
Taking == {"reconcile", "forget", "remember", "saveTokens"}

JobRecs ==
    [at : Stages, cmd : {None, "tui"} \cup Commands, op : Ops \cup {None}, user : Users \cup {None},
     row : EncRows, key : Nat \cup {None}, alias : BOOLEAN, pass : Passwords \cup {None},
     code : Nat \cup CodeIds \cup {None}, list : SUBSET CachedVaults, ok : BOOLEAN]

\* The operations of which a step is a stage.
StageOf(j) ==
    /\ j.at = "idle" \/ j.op \in Ops
    /\ j.op = "codes" => j.at \in {"idle", "message"}
    /\ j.at = "register" => j.op = "register"
    /\ j.at = "login" => j.op = "login"
    /\ j.at = "refresh" => j.op = "refresh"
    /\ j.at \in Taking => j.op \in {"register", "login", "refresh"}
    /\ j.at \in {"cacheSalt", "cacheEnc"} => j.op \in {"login", "refresh", "setup"}
    /\ j.at = "prefetch" => j.op = "login"
    /\ j.at \in {"readKey", "wrap", "setup", "genKey", "wrapCodes", "storeCodes"} => j.op = "setup"
    /\ j.at \in {"getBlob", "markUsed"} => j.op = "recover"
    /\ j.at = "unlock" => j.op = "unlock"
    /\ j.at = "unlockPIN" => j.op = "unlockPIN"
    /\ j.at = "setPIN" => j.op = "setPIN"
    /\ j.at \in {"newVault", "createVault", "cacheVault"} => j.op = "vault"
    /\ j.at \in {"listVaults", "prune"} => j.op = "list"
    /\ j.at = "cacheList" => j.op \in {"login", "list"}

\* The types of what a job carries at a stage.
CarriesOf(j) ==
    /\ j.at \in {"register", "login", "prefetch", "createVault", "cacheVault"} \cup Taking => j.user \in Users
    /\ j.at \in {"wrap", "setup", "wrapCodes", "storeCodes", "markUsed", "createVault", "cacheVault"} => j.key \in Nat
    /\ j.at \in {"cacheSalt", "cacheEnc"} /\ j.op # "setup" => j.user \in Users
    /\ j.at \in {"readKey", "wrap"} => j.pass \in Passwords
    /\ j.at = "storeCodes" => j.code \in Nat

JobOK(j) == j \in JobRecs /\ StageOf(j) /\ CarriesOf(j)

JobsTyped ==
    /\ job \in [Procs -> [Slots -> JobRecs]]
    /\ \A p \in Procs, i \in Slots : StageOf(job[p][i]) /\ CarriesOf(job[p][i])

StateTyped ==
    /\ TypeOK
    /\ codes \in [Users -> SUBSET CodeRows]
    /\ vaults \in [Users -> SUBSET Nat]
    /\ cache \in [Devices -> SUBSET CachedVaults]
    /\ paper \in [Users -> SUBSET CodeIds]
    /\ left \in [{"jobs", "failures", "replies", "kills"} -> Nat]

Typed == StateTyped /\ JobsTyped

---------------------------------------------------------------------------
(* Moving a job on: the fields of the record after each kind of EXCEPT.    *)

Fields(e, at, op, user, row, key, alias, pass, code, list, ok) ==
    /\ e \in JobRecs
    /\ e.at = at /\ e.op = op /\ e.user = user /\ e.row = row /\ e.key = key
    /\ e.alias = alias /\ e.pass = pass /\ e.code = code /\ e.list = list /\ e.ok = ok

LEMMA MoveAt ==
    ASSUME NEW j \in JobRecs, NEW at \in Stages
    PROVE  Fields([j EXCEPT !.at = at], at, j.op, j.user, j.row, j.key, j.alias, j.pass, j.code, j.list, j.ok)
  BY DEF Fields, JobRecs

LEMMA MoveOk ==
    ASSUME NEW j \in JobRecs, NEW at \in Stages, NEW ok \in BOOLEAN
    PROVE  Fields([j EXCEPT !.at = at, !.ok = ok], at, j.op, j.user, j.row, j.key, j.alias, j.pass, j.code, j.list, ok)
  BY DEF Fields, JobRecs

LEMMA MoveOnlyOk ==
    ASSUME NEW j \in JobRecs, NEW ok \in BOOLEAN
    PROVE  Fields([j EXCEPT !.ok = ok], j.at, j.op, j.user, j.row, j.key, j.alias, j.pass, j.code, j.list, ok)
  BY DEF Fields, JobRecs

LEMMA MoveOpOk ==
    ASSUME NEW j \in JobRecs, NEW at \in Stages, NEW op \in Ops, NEW ok \in BOOLEAN
    PROVE  Fields([j EXCEPT !.at = at, !.op = op, !.ok = ok],
                  at, op, j.user, j.row, j.key, j.alias, j.pass, j.code, j.list, ok)
  BY DEF Fields, JobRecs

LEMMA MoveRow ==
    ASSUME NEW j \in JobRecs, NEW at \in Stages, NEW user \in Users, NEW row \in EncRows
    PROVE  Fields([j EXCEPT !.at = at, !.user = user, !.row = row],
                  at, j.op, user, row, j.key, j.alias, j.pass, j.code, j.list, j.ok)
  BY DEF Fields, JobRecs

LEMMA MoveList ==
    ASSUME NEW j \in JobRecs, NEW at \in Stages, NEW list \in SUBSET CachedVaults
    PROVE  Fields([j EXCEPT !.at = at, !.list = list],
                  at, j.op, j.user, j.row, j.key, j.alias, j.pass, j.code, list, j.ok)
  BY DEF Fields, JobRecs

LEMMA MoveKey ==
    ASSUME NEW j \in JobRecs, NEW at \in Stages, NEW key \in Nat
    PROVE  Fields([j EXCEPT !.at = at, !.key = key],
                  at, j.op, j.user, j.row, key, j.alias, j.pass, j.code, j.list, j.ok)
  BY DEF Fields, JobRecs

LEMMA MoveKeyAlias ==
    ASSUME NEW j \in JobRecs, NEW at \in Stages, NEW key \in Nat, NEW alias \in BOOLEAN
    PROVE  Fields([j EXCEPT !.at = at, !.key = key, !.alias = alias],
                  at, j.op, j.user, j.row, key, alias, j.pass, j.code, j.list, j.ok)
  BY DEF Fields, JobRecs

LEMMA MoveAlias ==
    ASSUME NEW j \in JobRecs, NEW at \in Stages, NEW alias \in BOOLEAN
    PROVE  Fields([j EXCEPT !.at = at, !.alias = alias],
                  at, j.op, j.user, j.row, j.key, alias, j.pass, j.code, j.list, j.ok)
  BY DEF Fields, JobRecs

LEMMA MoveCode ==
    ASSUME NEW j \in JobRecs, NEW at \in Stages, NEW user \in Users \cup {None}, NEW code \in Nat, NEW alias \in BOOLEAN
    PROVE  Fields([j EXCEPT !.at = at, !.user = user, !.code = code, !.alias = alias],
                  at, j.op, user, j.row, j.key, alias, j.pass, code, j.list, j.ok)
  <1>. DEFINE e == [j EXCEPT !.at = at, !.user = user, !.code = code, !.alias = alias]
  <1>1. /\ e.at = at /\ e.op = j.op /\ e.user = user /\ e.row = j.row /\ e.key = j.key
        /\ e.alias = alias /\ e.pass = j.pass /\ e.code = code /\ e.list = j.list /\ e.ok = j.ok
    BY DEF JobRecs
  <1>2. e \in JobRecs
    BY DEF JobRecs
  <1>3. Fields(e, at, j.op, user, j.row, j.key, alias, j.pass, code, j.list, j.ok)
    <2>. HIDE DEF e
    <2>. QED BY <1>1, <1>2 DEF Fields
  <1>. QED BY <1>3

LEMMA MoveKeyUser ==
    ASSUME NEW j \in JobRecs, NEW at \in Stages, NEW key \in Nat, NEW user \in Users
    PROVE  Fields([j EXCEPT !.at = at, !.key = key, !.user = user],
                  at, j.op, user, j.row, key, j.alias, j.pass, j.code, j.list, j.ok)
  BY DEF Fields, JobRecs

LEMMA MoveKeyList ==
    ASSUME NEW j \in JobRecs, NEW at \in Stages, NEW key \in Nat, NEW alias \in BOOLEAN, NEW user \in Users,
           NEW list \in SUBSET CachedVaults
    PROVE  Fields([j EXCEPT !.at = at, !.key = key, !.alias = alias, !.user = user, !.list = list],
                  at, j.op, user, j.row, key, alias, j.pass, j.code, list, j.ok)
  BY DEF Fields, JobRecs

LEMMA Overwritten ==
    ASSUME NEW j \in JobRecs, NEW key \in Nat, NEW alias \in BOOLEAN
    PROVE  Fields([j EXCEPT !.key = key, !.alias = alias],
                  j.at, j.op, j.user, j.row, key, alias, j.pass, j.code, j.list, j.ok)
  BY DEF Fields, JobRecs

LEMMA Copied ==
    ASSUME NEW j \in JobRecs, NEW alias \in BOOLEAN
    PROVE  Fields([j EXCEPT !.alias = alias],
                  j.at, j.op, j.user, j.row, j.key, alias, j.pass, j.code, j.list, j.ok)
  BY DEF Fields, JobRecs

---------------------------------------------------------------------------
(* Layer 1: types.  Moving a job keeps the types of all jobs.              *)

LEMMA ProcTyped ==
    ASSUME JobsTyped, NEW p \in Procs, NEW js \in [Slots -> JobRecs],
           \A i \in Slots : JobOK(js[i]), job' = [job EXCEPT ![p] = js]
    PROVE  JobsTyped'
  <1>1. job' \in [Procs -> [Slots -> JobRecs]]
    BY DEF JobsTyped
  <1>2. ASSUME NEW q \in Procs, NEW k \in Slots
        PROVE  StageOf(job[q][k])' /\ CarriesOf(job[q][k])'
    <2>1. job[q][k]' = job[q][k] \/ job[q][k]' = js[k]
      BY DEF JobsTyped
    <2>. QED BY <2>1 DEF JobsTyped, JobOK
  <1>. QED BY <1>1, <1>2 DEF JobsTyped

LEMMA PutTyped ==
    ASSUME JobsTyped, NEW p \in Procs, NEW i \in Slots, NEW j, JobOK(j), Put(p, i, j)
    PROVE  JobsTyped'
  <1>1. job' \in [Procs -> [Slots -> JobRecs]]
    BY DEF JobsTyped, JobOK, Put
  <1>2. ASSUME NEW q \in Procs, NEW k \in Slots
        PROVE  StageOf(job[q][k])' /\ CarriesOf(job[q][k])'
    <2>1. job[q][k]' = job[q][k] \/ job[q][k]' = j
      BY DEF JobsTyped, Put
    <2>. QED BY <2>1 DEF JobsTyped, JobOK
  <1>. QED BY <1>1, <1>2 DEF JobsTyped

LEMMA JobTyped ==
    ASSUME JobsTyped, NEW p \in Procs, NEW i \in Slots
    PROVE  JobOK(job[p][i])
  BY DEF JobsTyped, JobOK

LEMMA IdleOK == JobOK(Idle) /\ Idle.at = "idle"
  <1>1. EmptyRow \in EncRows
    BY DEF EmptyRow, EncRows
  <1>2. Idle \in JobRecs /\ Idle.at = "idle" /\ Idle.op = None
    BY <1>1 DEF Idle, JobRecs, Stages
  <1>3. ASSUME NEW j, j.at = "idle", j.op = None
        PROVE  StageOf(j) /\ CarriesOf(j)
    BY <1>3 DEF StageOf, CarriesOf, Taking
  <1>. QED BY <1>2, <1>3 DEF JobOK

\* The jobs of a process after Lock: their keys may be overwritten, no more.
LEMMA LockedSame ==
    ASSUME NEW js \in [Slots -> JobRecs]
    PROVE  /\ Locked(js) \in [Slots -> JobRecs]
           /\ \A k \in Slots :
                  /\ Locked(js)[k].at = js[k].at /\ Locked(js)[k].op = js[k].op
                  /\ Locked(js)[k].user = js[k].user /\ Locked(js)[k].row = js[k].row
                  /\ Locked(js)[k].pass = js[k].pass /\ Locked(js)[k].code = js[k].code
                  /\ Locked(js)[k].list = js[k].list /\ Locked(js)[k].ok = js[k].ok
                  /\ IF js[k].alias THEN Locked(js)[k].key = 0 /\ ~Locked(js)[k].alias
                                    ELSE Locked(js)[k] = js[k]
  <1>1. ASSUME NEW k \in Slots
        PROVE  LET z == Locked(js)[k]
               IN  /\ z \in JobRecs
                   /\ z.at = js[k].at /\ z.op = js[k].op /\ z.user = js[k].user /\ z.row = js[k].row
                   /\ z.pass = js[k].pass /\ z.code = js[k].code /\ z.list = js[k].list /\ z.ok = js[k].ok
                   /\ IF js[k].alias THEN z.key = 0 /\ ~z.alias ELSE z = js[k]
    <2>. DEFINE j == js[k]
                e == [j EXCEPT !.key = Zeroed, !.alias = FALSE]
    <2>1. j \in JobRecs
      OBVIOUS
    <2>2. Fields(e, j.at, j.op, j.user, j.row, 0, FALSE, j.pass, j.code, j.list, j.ok)
      BY <2>1, Overwritten DEF Zeroed
    <2>3. Locked(js)[k] = IF j.alias THEN e ELSE j
      BY DEF Locked
    <2>. HIDE DEF e
    <2>. QED BY <2>1, <2>2, <2>3 DEF Fields
  <1>. QED BY <1>1 DEF Locked

\* The jobs of a process after job i gave its key to the session.
LEMMA DetachedSame ==
    ASSUME NEW js \in [Slots -> JobRecs], NEW i \in Slots
    PROVE  /\ Detached(js, i) \in [Slots -> JobRecs]
           /\ Detached(js, i)[i] = js[i]
           /\ \A k \in Slots : \/ Detached(js, i)[k] = js[k]
                               \/ LET j == js[k] IN Fields(Detached(js, i)[k], j.at, j.op, j.user, j.row, j.key, FALSE,
                                                          j.pass, j.code, j.list, j.ok)
  <1>1. ASSUME NEW k \in Slots
        PROVE  /\ Detached(js, i)[k] \in JobRecs
               /\ k = i => Detached(js, i)[k] = js[k]
               /\ \/ Detached(js, i)[k] = js[k]
                  \/ LET j == js[k] IN Fields(Detached(js, i)[k], j.at, j.op, j.user, j.row, j.key, FALSE,
                                             j.pass, j.code, j.list, j.ok)
    <2>. DEFINE j == js[k]
                e == [j EXCEPT !.alias = FALSE]
    <2>1. j \in JobRecs
      OBVIOUS
    <2>2. Fields(e, j.at, j.op, j.user, j.row, j.key, FALSE, j.pass, j.code, j.list, j.ok)
      BY <2>1, Copied
    <2>3. Detached(js, i)[k] = (IF js[i].alias \/ k = i THEN j ELSE e)
      BY DEF Detached
    <2>. HIDE DEF e
    <2>. QED BY <2>1, <2>2, <2>3 DEF Fields
  <1>. QED BY <1>1 DEF Detached

LEMMA DetachedKeeps ==
    ASSUME NEW js \in [Slots -> JobRecs], NEW i \in Slots
    PROVE  /\ Detached(js, i) \in [Slots -> JobRecs]
           /\ Detached(js, i)[i] = js[i]
           /\ \A k \in Slots : Detached(js, i)[k].at = js[k].at
  <1>. DEFINE ks == Detached(js, i)
  <1>1. /\ ks \in [Slots -> JobRecs]
        /\ ks[i] = js[i]
        /\ \A k \in Slots : \/ ks[k] = js[k]
                            \/ LET j == js[k] IN Fields(ks[k], j.at, j.op, j.user, j.row, j.key, FALSE,
                                                       j.pass, j.code, j.list, j.ok)
    BY DetachedSame
  <1>. HIDE DEF ks
  <1>2. \A k \in Slots : ks[k].at = js[k].at
    BY <1>1 DEF Fields
  <1>. QED BY <1>1, <1>2 DEF ks

\* One job of a process moves on, the others are as js says.
LEMMA OneMoves ==
    ASSUME NEW js \in [Slots -> JobRecs], NEW i \in Slots, NEW at \in Stages
    PROVE  LET ks == [js EXCEPT ![i].at = at]
               j == js[i]
           IN  /\ ks \in [Slots -> JobRecs]
               /\ \A k \in Slots \ {i} : ks[k] = js[k]
               /\ Fields(ks[i], at, j.op, j.user, j.row, j.key, j.alias, j.pass, j.code, j.list, j.ok)
  <1>. DEFINE e == [js[i] EXCEPT !.at = at]
              ks == [js EXCEPT ![i].at = at]
              j == js[i]
  <1>1. Fields(e, at, j.op, j.user, j.row, j.key, j.alias, j.pass, j.code, j.list, j.ok)
    BY MoveAt
  <1>2. ks = [js EXCEPT ![i] = e]
    OBVIOUS
  <1>3. ks \in [Slots -> JobRecs] /\ ks[i] = e /\ \A k \in Slots \ {i} : ks[k] = js[k]
    <2>. HIDE DEF e
    <2>. QED BY <1>1, <1>2 DEF Fields
  <1>. QED BY <1>1, <1>3

LEMMA OneDone ==
    ASSUME NEW js \in [Slots -> JobRecs], NEW i \in Slots, NEW at \in Stages, NEW ok \in BOOLEAN
    PROVE  LET ks == [js EXCEPT ![i].at = at, ![i].ok = ok]
               j == js[i]
           IN  /\ ks \in [Slots -> JobRecs]
               /\ \A k \in Slots \ {i} : ks[k] = js[k]
               /\ Fields(ks[i], at, j.op, j.user, j.row, j.key, j.alias, j.pass, j.code, j.list, ok)
  <1>. DEFINE e == [js[i] EXCEPT !.at = at, !.ok = ok]
              ks == [js EXCEPT ![i].at = at, ![i].ok = ok]
              j == js[i]
  <1>1. Fields(e, at, j.op, j.user, j.row, j.key, j.alias, j.pass, j.code, j.list, ok)
    BY MoveOk
  <1>2. ks = [js EXCEPT ![i] = e]
    OBVIOUS
  <1>3. ks \in [Slots -> JobRecs] /\ ks[i] = e /\ \A k \in Slots \ {i} : ks[k] = js[k]
    <2>. HIDE DEF e
    <2>. QED BY <1>1, <1>2 DEF Fields
  <1>. QED BY <1>1, <1>3

LEMMA OneHanded ==
    ASSUME NEW js \in [Slots -> JobRecs], NEW i \in Slots, NEW at \in Stages, NEW alias \in BOOLEAN
    PROVE  LET ks == [js EXCEPT ![i].at = at, ![i].alias = alias]
               j == js[i]
           IN  /\ ks \in [Slots -> JobRecs]
               /\ \A k \in Slots \ {i} : ks[k] = js[k]
               /\ Fields(ks[i], at, j.op, j.user, j.row, j.key, alias, j.pass, j.code, j.list, j.ok)
  <1>. DEFINE e == [js[i] EXCEPT !.at = at, !.alias = alias]
              ks == [js EXCEPT ![i].at = at, ![i].alias = alias]
              j == js[i]
  <1>1. Fields(e, at, j.op, j.user, j.row, j.key, alias, j.pass, j.code, j.list, j.ok)
    BY MoveAlias
  <1>2. ks = [js EXCEPT ![i] = e]
    OBVIOUS
  <1>3. ks \in [Slots -> JobRecs] /\ ks[i] = e /\ \A k \in Slots \ {i} : ks[k] = js[k]
    <2>. HIDE DEF e
    <2>. QED BY <1>1, <1>2 DEF Fields
  <1>. QED BY <1>1, <1>3

LEMMA LockedOK ==
    ASSUME NEW js \in [Slots -> JobRecs], \A k \in Slots : JobOK(js[k])
    PROVE  Locked(js) \in [Slots -> JobRecs] /\ \A k \in Slots : JobOK(Locked(js)[k])
  <1>1. ASSUME NEW k \in Slots
        PROVE  JobOK(Locked(js)[k])
    <2>. DEFINE j == js[k]
                z == Locked(js)[k]
    <2>1. JobOK(j)
      OBVIOUS
    <2>2. /\ z \in JobRecs /\ z.at = j.at /\ z.op = j.op /\ z.user = j.user /\ z.row = j.row
          /\ z.pass = j.pass /\ z.code = j.code /\ z.list = j.list /\ z.ok = j.ok
          /\ z.key = 0 \/ z.key = j.key
      <3>. HIDE DEF z, j
      <3>1. Locked(js) \in [Slots -> JobRecs]
        BY LockedSame
      <3>. QED BY <3>1, LockedSame DEF z, j
    <2>3. JobOK(z)
      <3>. HIDE DEF j, z
      <3>. QED BY <2>1, <2>2 DEF JobOK, StageOf, CarriesOf
    <2>. QED BY <2>3
  <1>. QED BY <1>1, LockedSame

LEMMA DetachedOK ==
    ASSUME NEW js \in [Slots -> JobRecs], \A k \in Slots : JobOK(js[k]), NEW i \in Slots
    PROVE  Detached(js, i) \in [Slots -> JobRecs] /\ \A k \in Slots : JobOK(Detached(js, i)[k])
  <1>1. ASSUME NEW k \in Slots
        PROVE  JobOK(Detached(js, i)[k])
    <2>. DEFINE j == js[k]
                z == Detached(js, i)[k]
    <2>1. JobOK(j)
      OBVIOUS
    <2>2. z = j \/ Fields(z, j.at, j.op, j.user, j.row, j.key, FALSE, j.pass, j.code, j.list, j.ok)
      BY DetachedSame
    <2>3. JobOK(z)
      <3>. HIDE DEF j, z
      <3>. QED BY <2>1, <2>2 DEF Fields, JobOK, StageOf, CarriesOf
    <2>. QED BY <2>3
  <1>. QED BY <1>1, DetachedSame

\* The ways of a job through the stages.
LEMMA Ends ==
    ASSUME NEW j, JobOK(j), j.at # "idle", NEW ok \in BOOLEAN
    PROVE  JobOK([j EXCEPT !.at = "message", !.ok = ok])
  <1>. DEFINE e == [j EXCEPT !.at = "message", !.ok = ok]
  <1>1. Fields(e, "message", j.op, j.user, j.row, j.key, j.alias, j.pass, j.code, j.list, ok)
    BY MoveOk DEF JobOK, Stages
  <1>2. JobOK(e)
    <2>. HIDE DEF e
    <2>. QED BY <1>1 DEF Fields, JobOK, StageOf, CarriesOf, Taking
  <1>. QED BY <1>2

\* Goto, where nothing else is asked of the job.
LEMMA Goes ==
    ASSUME NEW j, JobOK(j), NEW at \in Stages,
           \/ j.at = "register" /\ at = "reconcile"
           \/ j.at = "reconcile" /\ at \in {"forget", "remember"}
           \/ j.at = "forget" /\ at = "remember"
           \/ j.at = "remember" /\ at = "saveTokens"
           \/ j.at = "saveTokens" /\ j.op # "register" /\ at = "cacheSalt"
           \/ j.at = "cacheSalt" /\ at = "cacheEnc"
           \/ j.at = "createVault" /\ at = "cacheVault"
           \/ j.at = "cacheList" /\ j.op = "list" /\ at = "prune"
    PROVE  JobOK([j EXCEPT !.at = at])
  <1>. DEFINE e == [j EXCEPT !.at = at]
  <1>1. Fields(e, at, j.op, j.user, j.row, j.key, j.alias, j.pass, j.code, j.list, j.ok)
    BY MoveAt DEF JobOK
  <1>2. JobOK(e)
    <2>. HIDE DEF e
    <2>. QED BY <1>1 DEF Fields, JobOK, StageOf, CarriesOf, Taking
  <1>. QED BY <1>2

LEMMA Persisted ==
    ASSUME NEW j, JobOK(j), j.at \in {"cacheSalt", "cacheEnc"}
    PROVE  /\ AfterPersist[j.op] = IF j.op = "login" THEN "prefetch" ELSE IF j.op = "setup" THEN "genKey" ELSE "message"
           /\ JobOK([j EXCEPT !.at = AfterPersist[j.op], !.ok = TRUE])
  <1>. DEFINE at == AfterPersist[j.op]
              e == [j EXCEPT !.at = at, !.ok = TRUE]
  <1>1. at = IF j.op = "login" THEN "prefetch" ELSE IF j.op = "setup" THEN "genKey" ELSE "message"
    BY DEF JobOK, StageOf, AfterPersist
  <1>2. at \in {"prefetch", "genKey", "message"}
    <2>. HIDE DEF at
    <2>. QED BY <1>1
  <1>3. Fields(e, at, j.op, j.user, j.row, j.key, j.alias, j.pass, j.code, j.list, TRUE)
    <2>. HIDE DEF at
    <2>. QED BY <1>2, MoveOk DEF JobOK, Stages
  <1>4. JobOK(e)
    <2>. HIDE DEF at, e
    <2>. QED BY <1>1, <1>2, <1>3 DEF Fields, JobOK, StageOf, CarriesOf, Taking
  <1>5. at = AfterPersist[j.op] /\ e = [j EXCEPT !.at = AfterPersist[j.op], !.ok = TRUE]
    OBVIOUS
  <1>. HIDE DEF at, e
  <1>. QED BY <1>1, <1>4, <1>5
---------------------------------------------------------------------------
(* Layer 1: a step of each action.                                         *)

LEMMA SpendTyped ==
    ASSUME left \in [{"jobs", "failures", "replies", "kills"} -> Nat],
           NEW what \in {"jobs", "failures", "replies", "kills"}, Spend(what)
    PROVE  left' \in [{"jobs", "failures", "replies", "kills"} -> Nat]
  BY DEF Spend

LEMMA DeviceTyped == \A p \in Procs : DeviceOf[p] \in Devices
  BY Wiring

LEMMA RegisterTyped ==
    ASSUME Typed, NEW p \in Procs, NEW i \in Slots, Register(p, i)
    PROVE  Typed'
  <1>. DEFINE j == job[p][i]
  <1>1. JobOK(j) /\ j.at = "register"
    BY JobTyped DEF Typed, Register, At
  <1>2. JobOK([j EXCEPT !.at = "reconcile"]) /\ JobOK([j EXCEPT !.at = "message", !.ok = FALSE])
    BY <1>1, Goes, Ends DEF Stages
  <1>3. Put(p, i, [j EXCEPT !.at = "reconcile"]) \/ Put(p, i, [j EXCEPT !.at = "message", !.ok = FALSE])
    BY DEF Register, Rpc, Goto, Return
  <1>4. JobsTyped'
    BY <1>2, <1>3, PutTyped DEF Typed
  <1>5. j.user \in Users
    BY <1>1 DEF JobOK, CarriesOf
  <1>6. EmptyRow \in EncRows
    BY DEF EmptyRow, EncRows
  <1>7. StateTyped'
    BY <1>5, <1>6, SpendTyped DEF Typed, StateTyped, TypeOK, Register, Rpc, CreateUser, server, disk, session
  <1>. QED BY <1>4, <1>7 DEF Typed

LEMMA LoginTyped ==
    ASSUME Typed, NEW p \in Procs, NEW i \in Slots, Login(p, i)
    PROVE  Typed'
  <1>. DEFINE j == job[p][i]
              u == IF At(p, i, "login") THEN j.user ELSE tok[DeviceOf[p]]
              e == [j EXCEPT !.at = "reconcile", !.user = u, !.row = account[u]]
              f == [j EXCEPT !.at = "message", !.ok = FALSE]
  <1>1. JobOK(j) /\ j.at \in {"login", "refresh"}
    BY JobTyped DEF Typed, Login, At
  <1>2. JobOK(f)
    BY <1>1, Ends
  <1>3. Put(p, i, f) \/ (Known(u) /\ Put(p, i, e))
    BY DEF Login, Rpc, Return
  <1>4. ASSUME Known(u)
        PROVE  JobOK(e)
    <2>1. u \in Users /\ account[u] \in EncRows
      BY <1>1, <1>4, DeviceTyped DEF Known, JobOK, CarriesOf, At, Typed, StateTyped, TypeOK
    <2>2. Fields(e, "reconcile", j.op, u, account[u], j.key, j.alias, j.pass, j.code, j.list, j.ok)
      <3>. HIDE DEF u
      <3>. QED BY <1>1, <2>1, MoveRow DEF JobOK, Stages
    <2>. HIDE DEF u, e
    <2>. QED BY <1>1, <2>1, <2>2 DEF Fields, JobOK, StageOf, CarriesOf, Taking
  <1>5. JobsTyped'
    <2>. HIDE DEF e, f, u
    <2>. QED BY <1>2, <1>3, <1>4, PutTyped DEF Typed
  <1>6. StateTyped'
    BY SpendTyped DEF Typed, StateTyped, TypeOK, Login, Rpc, server, disk, session
  <1>. QED BY <1>5, <1>6 DEF Typed

LEMMA ReconcileTyped ==
    ASSUME Typed, NEW p \in Procs, NEW i \in Slots, Reconcile(p, i)
    PROVE  Typed'
  <1>. DEFINE j == job[p][i]
  <1>1. JobOK(j) /\ j.at = "reconcile"
    BY JobTyped DEF Typed, Reconcile, At
  <1>2. JobOK([j EXCEPT !.at = "forget"]) /\ JobOK([j EXCEPT !.at = "remember"])
    BY <1>1, Goes DEF Stages
  <1>3. Put(p, i, [j EXCEPT !.at = "forget"]) \/ Put(p, i, [j EXCEPT !.at = "remember"])
    BY DEF Reconcile, Goto
  <1>4. JobsTyped'
    BY <1>2, <1>3, PutTyped DEF Typed
  <1>5. EmptyKV \in [user : Users \cup {None}, salt : Nat, enc : Wrapped \cup {None}]
    BY DEF EmptyKV
  <1>6. /\ kv' \in [Devices -> [user : Users \cup {None}, salt : Nat, enc : Wrapped \cup {None}]]
        /\ cache' \in [Devices -> SUBSET CachedVaults]
    BY <1>5 DEF Typed, StateTyped, TypeOK, Reconcile
  <1>7. \A d \in Devices : cache'[d] \subseteq [user : Users, key : Nat]
    BY <1>6 DEF CachedVaults
  <1>8. UNCHANGED <<server, tok, mem, session, ui, paper, serial, left>>
    BY DEF Reconcile
  <1>9. StateTyped'
    BY <1>6, <1>7, <1>8 DEF Typed, StateTyped, TypeOK, server, session
  <1>. QED BY <1>4, <1>9 DEF Typed

LEMMA ForgetTyped ==
    ASSUME Typed, NEW p \in Procs, NEW i \in Slots, Forget(p, i)
    PROVE  Typed'
  <1>. DEFINE j == job[p][i]
              js == Locked(job[p])
              ks == [js EXCEPT ![i].at = "remember"]
              z == js[i]
  <1>1. job[p] \in [Slots -> JobRecs] /\ (\A k \in Slots : JobOK(job[p][k])) /\ j.at = "forget"
    BY JobTyped DEF Typed, JobsTyped, Forget, At
  <1>2. js \in [Slots -> JobRecs] /\ (\A k \in Slots : JobOK(js[k])) /\ z.at = "forget"
    BY <1>1, LockedOK, LockedSame
  <1>3. /\ ks \in [Slots -> JobRecs]
        /\ \A k \in Slots \ {i} : ks[k] = js[k]
        /\ Fields(ks[i], "remember", z.op, z.user, z.row, z.key, z.alias, z.pass, z.code, z.list, z.ok)
    <2>. HIDE DEF js
    <2>. QED BY <1>2, OneMoves DEF Stages
  <1>4. JobOK(ks[i])
    <2>. HIDE DEF ks, js
    <2>. QED BY <1>2, <1>3 DEF Fields, JobOK, StageOf, CarriesOf, Taking
  <1>5. \A k \in Slots : JobOK(ks[k])
    <2>. HIDE DEF ks, js
    <2>. QED BY <1>2, <1>3, <1>4
  <1>6. job' = [job EXCEPT ![p] = ks]
    BY DEF Forget
  <1>7. JobsTyped'
    <2>. HIDE DEF ks
    <2>. QED BY <1>3, <1>5, <1>6, ProcTyped DEF Typed
  <1>8. EmptyRow \in EncRows
    BY DEF EmptyRow, EncRows
  <1>9. StateTyped'
    BY <1>8 DEF Typed, StateTyped, TypeOK, Forget, Lock, server, disk
  <1>. QED BY <1>7, <1>9 DEF Typed

LEMMA RememberTyped ==
    ASSUME Typed, NEW p \in Procs, NEW i \in Slots, Remember(p, i)
    PROVE  Typed'
  <1>. DEFINE j == job[p][i]
              d == DeviceOf[p]
              r == [kv[d] EXCEPT !.user = j.user]
  <1>1. JobOK(j) /\ j.at = "remember"
    BY JobTyped DEF Typed, Remember, At
  <1>2. JobOK([j EXCEPT !.at = "saveTokens"])
    BY <1>1, Goes DEF Stages
  <1>3. Put(p, i, [j EXCEPT !.at = "saveTokens"])
    BY DEF Remember, Goto
  <1>4. JobsTyped'
    BY <1>2, <1>3, PutTyped DEF Typed
  <1>5. j.user \in Users
    BY <1>1 DEF JobOK, CarriesOf, Taking
  <1>6. r \in [user : Users \cup {None}, salt : Nat, enc : Wrapped \cup {None}]
    <2>1. kv[d] \in [user : Users \cup {None}, salt : Nat, enc : Wrapped \cup {None}]
      BY DeviceTyped DEF Typed, StateTyped, TypeOK
    <2>. HIDE DEF d
    <2>. QED BY <1>5, <2>1
  <1>7. kv' = [kv EXCEPT ![d] = r] /\ UNCHANGED <<server, cache, tok, mem, session, ui, paper, serial, left>>
    BY DEF Remember
  <1>8. StateTyped'
    <2>. HIDE DEF r, d
    <2>. QED BY <1>6, <1>7 DEF Typed, StateTyped, TypeOK, server, session
  <1>. QED BY <1>4, <1>8 DEF Typed

LEMMA SaveTokensTyped ==
    ASSUME Typed, NEW p \in Procs, NEW i \in Slots, SaveTokens(p, i)
    PROVE  Typed'
  <1>. DEFINE j == job[p][i]
  <1>1. JobOK(j) /\ j.at = "saveTokens"
    BY JobTyped DEF Typed, SaveTokens, At
  <1>2. /\ JobOK([j EXCEPT !.at = "message", !.ok = TRUE])
        /\ j.op # "register" => JobOK([j EXCEPT !.at = "cacheSalt"])
    BY <1>1, Goes, Ends DEF Stages
  <1>3. Put(p, i, [j EXCEPT !.at = "message", !.ok = TRUE]) \/ (j.op # "register" /\ Put(p, i, [j EXCEPT !.at = "cacheSalt"]))
    BY DEF SaveTokens, Goto, Return
  <1>4. JobsTyped'
    BY <1>2, <1>3, PutTyped DEF Typed
  <1>5. j.user \in Users /\ j.row \in EncRows
    BY <1>1 DEF JobOK, CarriesOf, Taking, JobRecs
  <1>6. StateTyped'
    BY <1>5, DeviceTyped DEF Typed, StateTyped, TypeOK, SaveTokens, server, session
  <1>. QED BY <1>4, <1>6 DEF Typed

LEMMA CacheSaltTyped ==
    ASSUME Typed, NEW p \in Procs, NEW i \in Slots, CacheSalt(p, i)
    PROVE  Typed'
  <1>. DEFINE j == job[p][i]
              d == DeviceOf[p]
              r == [kv[d] EXCEPT !.salt = mem[p].salt]
              e == [j EXCEPT !.at = AfterPersist[j.op], !.ok = TRUE]
              f == [j EXCEPT !.at = "cacheEnc"]
  <1>1. JobOK(j) /\ j.at = "cacheSalt"
    BY JobTyped DEF Typed, CacheSalt, At
  <1>2. JobOK(e) /\ JobOK(f)
    BY <1>1, Goes, Persisted DEF Stages
  <1>3. \/ Put(p, i, e) /\ UNCHANGED kv
        \/ Put(p, i, f) /\ kv' = [kv EXCEPT ![d] = r]
    BY DEF CacheSalt, Goto
  <1>4. JobsTyped'
    <2>. HIDE DEF e, f
    <2>. QED BY <1>2, <1>3, PutTyped DEF Typed
  <1>5. r \in [user : Users \cup {None}, salt : Nat, enc : Wrapped \cup {None}]
    <2>1. kv[d] \in [user : Users \cup {None}, salt : Nat, enc : Wrapped \cup {None}] /\ mem[p].salt \in Nat
      BY DeviceTyped DEF Typed, StateTyped, TypeOK, EncRows
    <2>. HIDE DEF d
    <2>. QED BY <2>1
  <1>6. UNCHANGED <<server, cache, tok, mem, session, ui, paper, serial, left>>
    BY DEF CacheSalt
  <1>7. kv' \in [Devices -> [user : Users \cup {None}, salt : Nat, enc : Wrapped \cup {None}]]
    <2>. HIDE DEF r, d, e, f
    <2>. QED BY <1>3, <1>5 DEF Typed, StateTyped, TypeOK
  <1>8. StateTyped'
    BY <1>6, <1>7 DEF Typed, StateTyped, TypeOK, server, session
  <1>. QED BY <1>4, <1>8 DEF Typed

LEMMA CacheEncTyped ==
    ASSUME Typed, NEW p \in Procs, NEW i \in Slots, CacheEnc(p, i)
    PROVE  Typed'
  <1>. DEFINE j == job[p][i]
              d == DeviceOf[p]
              r == [kv[d] EXCEPT !.enc = mem[p].enc]
              e == [j EXCEPT !.at = AfterPersist[j.op], !.ok = TRUE]
  <1>1. JobOK(j) /\ j.at = "cacheEnc"
    BY JobTyped DEF Typed, CacheEnc, At
  <1>2. JobOK(e)
    BY <1>1, Persisted DEF Stages
  <1>3. Put(p, i, e) /\ kv' = [kv EXCEPT ![d] = r]
    BY DEF CacheEnc
  <1>4. JobsTyped'
    <2>. HIDE DEF e
    <2>. QED BY <1>2, <1>3, PutTyped DEF Typed
  <1>5. r \in [user : Users \cup {None}, salt : Nat, enc : Wrapped \cup {None}]
    <2>1. kv[d] \in [user : Users \cup {None}, salt : Nat, enc : Wrapped \cup {None}] /\ mem[p].enc \in Wrapped \cup {None}
      BY DeviceTyped DEF Typed, StateTyped, TypeOK, EncRows
    <2>. HIDE DEF d
    <2>. QED BY <2>1
  <1>6. UNCHANGED <<server, cache, tok, mem, session, ui, paper, serial, left>>
    BY DEF CacheEnc
  <1>7. StateTyped'
    <2>. HIDE DEF r, d, e
    <2>. QED BY <1>3, <1>5, <1>6 DEF Typed, StateTyped, TypeOK, server, session
  <1>. QED BY <1>4, <1>7 DEF Typed

LEMMA VaultsTyped ==
    ASSUME Typed, NEW u \in Users
    PROVE  VaultsOf(u) \in SUBSET CachedVaults
  BY DEF VaultsOf, CachedVaults, Typed, StateTyped

LEMMA PrefetchTyped ==
    ASSUME Typed, NEW p \in Procs, NEW i \in Slots, Prefetch(p, i)
    PROVE  Typed'
  <1>. DEFINE j == job[p][i]
              list == VaultsOf(j.user)
              e == [j EXCEPT !.at = "cacheList", !.list = list]
              f == [j EXCEPT !.at = "message", !.ok = TRUE]
  <1>1. JobOK(j) /\ j.at = "prefetch"
    BY JobTyped DEF Typed, Prefetch, At
  <1>2. JobOK(f)
    BY <1>1, Ends
  <1>3. JobOK(e)
    <2>1. j.user \in Users
      BY <1>1 DEF JobOK, CarriesOf
    <2>2. list \in SUBSET CachedVaults
      BY <2>1, VaultsTyped
    <2>3. Fields(e, "cacheList", j.op, j.user, j.row, j.key, j.alias, j.pass, j.code, list, j.ok)
      <3>. HIDE DEF list
      <3>. QED BY <1>1, <2>2, MoveList DEF JobOK, Stages
    <2>. HIDE DEF e
    <2>. QED BY <1>1, <2>3 DEF Fields, JobOK, StageOf, CarriesOf, Taking
  <1>4. Put(p, i, f) \/ Put(p, i, e)
    BY DEF Prefetch, Return
  <1>5. JobsTyped'
    <2>. HIDE DEF e, f
    <2>. QED BY <1>2, <1>3, <1>4, PutTyped DEF Typed
  <1>6. StateTyped'
    BY SpendTyped DEF Typed, StateTyped, TypeOK, Prefetch, server, disk, session
  <1>. QED BY <1>5, <1>6 DEF Typed

LEMMA ReadKeyTyped ==
    ASSUME Typed, NEW p \in Procs, NEW i \in Slots, ReadKey(p, i)
    PROVE  Typed'
  <1>. DEFINE j == job[p][i]
              key == IF mk[p] # None THEN mk[p] ELSE serial + 1
              alias == mk[p] # None
              e == [j EXCEPT !.at = "wrap", !.key = key, !.alias = alias]
  <1>1. JobOK(j) /\ j.at = "readKey"
    BY JobTyped DEF Typed, ReadKey, At
  <1>2. JobOK(e)
    <2>1. key \in Nat /\ alias \in BOOLEAN
      <3>1. mk[p] \in Nat \cup {None} /\ serial \in Nat
        BY DEF Typed, StateTyped, TypeOK
      <3>. QED BY <3>1
    <2>2. Fields(e, "wrap", j.op, j.user, j.row, key, alias, j.pass, j.code, j.list, j.ok)
      <3>. HIDE DEF key, alias
      <3>. QED BY <1>1, <2>1, MoveKeyAlias DEF JobOK, Stages
    <2>. HIDE DEF e, key, alias
    <2>. QED BY <1>1, <2>1, <2>2 DEF Fields, JobOK, StageOf, CarriesOf, Taking
  <1>3. Put(p, i, e)
    BY DEF ReadKey
  <1>4. JobsTyped'
    <2>. HIDE DEF e
    <2>. QED BY <1>2, <1>3, PutTyped DEF Typed
  <1>5. StateTyped'
    BY DEF Typed, StateTyped, TypeOK, ReadKey, server, disk, session
  <1>. QED BY <1>4, <1>5 DEF Typed

LEMMA WrapTyped ==
    ASSUME Typed, NEW p \in Procs, NEW i \in Slots, Wrap(p, i)
    PROVE  Typed'
  <1>. DEFINE j == job[p][i]
              u == tok[DeviceOf[p]]
              row == [salt |-> serial + 1, enc |-> [key |-> j.key, pass |-> j.pass, salt |-> serial + 1]]
              e == [j EXCEPT !.at = "setup", !.user = u, !.row = row]
              f == [j EXCEPT !.at = "message", !.ok = FALSE]
  <1>1. JobOK(j) /\ j.at = "wrap"
    BY JobTyped DEF Typed, Wrap, At
  <1>2. JobOK(f)
    BY <1>1, Ends
  <1>3. ASSUME u # None
        PROVE  JobOK(e)
    <2>1. u \in Users /\ serial + 1 \in Nat
      BY <1>3, DeviceTyped DEF Typed, StateTyped, TypeOK
    <2>2. row \in EncRows
      <3>1. j.key \in Nat /\ j.pass \in Passwords
        BY <1>1 DEF JobOK, CarriesOf
      <3>. HIDE DEF j
      <3>. QED BY <2>1, <3>1 DEF EncRows, Wrapped
    <2>3. Fields(e, "setup", j.op, u, row, j.key, j.alias, j.pass, j.code, j.list, j.ok)
      <3>. HIDE DEF row, u
      <3>. QED BY <1>1, <2>1, <2>2, MoveRow DEF JobOK, Stages
    <2>. HIDE DEF e, row, u
    <2>. QED BY <1>1, <2>1, <2>3 DEF Fields, JobOK, StageOf, CarriesOf, Taking
  <1>4. Put(p, i, f) \/ (u # None /\ Put(p, i, e))
    BY DEF Wrap, Return
  <1>5. JobsTyped'
    <2>. HIDE DEF e, f
    <2>. QED BY <1>2, <1>3, <1>4, PutTyped DEF Typed
  <1>6. StateTyped'
    BY DEF Typed, StateTyped, TypeOK, Wrap, server, disk, session
  <1>. QED BY <1>5, <1>6 DEF Typed

\* The key goes to the session, and the job on to the files.
LEMMA HandedTyped ==
    ASSUME JobsTyped, NEW p \in Procs, NEW i \in Slots, At(p, i, "setup"),
           job' = [job EXCEPT ![p] = [Detached(@, i) EXCEPT ![i].at = "cacheSalt", ![i].alias = FALSE]]
    PROVE  JobsTyped'
  <1>. DEFINE js == Detached(job[p], i)
              ks == [js EXCEPT ![i].at = "cacheSalt", ![i].alias = FALSE]
              z == js[i]
  <1>1. job[p] \in [Slots -> JobRecs] /\ (\A k \in Slots : JobOK(job[p][k])) /\ job[p][i].at = "setup"
    BY JobTyped DEF JobsTyped, At
  <1>2. js \in [Slots -> JobRecs] /\ (\A k \in Slots : JobOK(js[k])) /\ z.at = "setup"
    BY <1>1, DetachedOK, DetachedSame
  <1>3. /\ ks \in [Slots -> JobRecs]
        /\ \A k \in Slots \ {i} : ks[k] = js[k]
        /\ Fields(ks[i], "cacheSalt", z.op, z.user, z.row, z.key, FALSE, z.pass, z.code, z.list, z.ok)
    <2>. HIDE DEF js
    <2>. QED BY <1>2, OneHanded DEF Stages
  <1>4. JobOK(ks[i])
    <2>. HIDE DEF ks, js
    <2>. QED BY <1>2, <1>3 DEF Fields, JobOK, StageOf, CarriesOf, Taking
  <1>5. \A k \in Slots : JobOK(ks[k])
    <2>. HIDE DEF ks, js
    <2>. QED BY <1>2, <1>3, <1>4
  <1>6. job' = [job EXCEPT ![p] = ks]
    OBVIOUS
  <1>. HIDE DEF ks
  <1>. QED BY <1>3, <1>5, <1>6, ProcTyped

\* The key goes to the session, and the job ends.
LEMMA UnlockedTyped ==
    ASSUME JobsTyped, NEW p \in Procs, NEW i \in Slots, ~At(p, i, "idle"),
           job' = [job EXCEPT ![p] = [Detached(@, i) EXCEPT ![i].at = "message", ![i].ok = TRUE]]
    PROVE  JobsTyped'
  <1>. DEFINE js == Detached(job[p], i)
              ks == [js EXCEPT ![i].at = "message", ![i].ok = TRUE]
              z == js[i]
  <1>1. job[p] \in [Slots -> JobRecs] /\ (\A k \in Slots : JobOK(job[p][k])) /\ job[p][i].at # "idle"
    BY JobTyped DEF JobsTyped, At
  <1>2. js \in [Slots -> JobRecs] /\ (\A k \in Slots : JobOK(js[k])) /\ z.at # "idle"
    BY <1>1, DetachedOK, DetachedSame
  <1>3. /\ ks \in [Slots -> JobRecs]
        /\ \A k \in Slots \ {i} : ks[k] = js[k]
        /\ Fields(ks[i], "message", z.op, z.user, z.row, z.key, z.alias, z.pass, z.code, z.list, TRUE)
    <2>. HIDE DEF js
    <2>. QED BY <1>2, OneDone DEF Stages
  <1>4. JobOK(ks[i])
    <2>. HIDE DEF ks, js
    <2>. QED BY <1>2, <1>3 DEF Fields, JobOK, StageOf, CarriesOf, Taking
  <1>5. \A k \in Slots : JobOK(ks[k])
    <2>. HIDE DEF ks, js
    <2>. QED BY <1>2, <1>3, <1>4
  <1>6. job' = [job EXCEPT ![p] = ks]
    OBVIOUS
  <1>. HIDE DEF ks
  <1>. QED BY <1>3, <1>5, <1>6, ProcTyped

LEMMA SetupEncryptionTyped ==
    ASSUME Typed, NEW p \in Procs, NEW i \in Slots, SetupEncryption(p, i)
    PROVE  Typed'
  <1>. DEFINE j == job[p][i]
              f == [j EXCEPT !.at = "message", !.ok = FALSE]
              given == job' = [job EXCEPT ![p] = [Detached(@, i) EXCEPT ![i].at = "cacheSalt", ![i].alias = FALSE]]
  <1>1. JobOK(j) /\ j.at = "setup" /\ At(p, i, "setup")
    BY JobTyped DEF Typed, SetupEncryption, At
  <1>2. JobOK(f)
    BY <1>1, Ends
  <1>3. Put(p, i, f) \/ given
    BY DEF SetupEncryption, Rpc, Return
  <1>4. JobsTyped'
    <2>1. CASE Put(p, i, f)
      <3>. HIDE DEF f
      <3>. QED BY <1>2, <2>1, PutTyped DEF Typed
    <2>2. CASE given
      BY <1>1, <2>2, HandedTyped DEF Typed
    <2>. QED BY <1>3, <2>1, <2>2
  <1>5. j.key \in Nat /\ j.row \in EncRows
    BY <1>1 DEF JobOK, CarriesOf, JobRecs
  <1>6. StateTyped'
    BY <1>5, SpendTyped DEF Typed, StateTyped, TypeOK, SetupEncryption, SetMasterKey, UpdateEncKDF, Rpc, server, disk, session
  <1>. QED BY <1>4, <1>6 DEF Typed

LEMMA GenKeyTyped ==
    ASSUME Typed, NEW p \in Procs, NEW i \in Slots, GenKey(p, i)
    PROVE  Typed'
  <1>. DEFINE j == job[p][i]
              e == [j EXCEPT !.at = "wrapCodes", !.key = mk[p], !.alias = TRUE]
              f == [j EXCEPT !.at = "message", !.ok = TRUE]
  <1>1. JobOK(j) /\ j.at = "genKey"
    BY JobTyped DEF Typed, GenKey, At
  <1>2. JobOK(f)
    BY <1>1, Ends
  <1>3. ASSUME mk[p] # None
        PROVE  JobOK(e)
    <2>1. mk[p] \in Nat
      BY <1>3 DEF Typed, StateTyped, TypeOK
    <2>2. Fields(e, "wrapCodes", j.op, j.user, j.row, mk[p], TRUE, j.pass, j.code, j.list, j.ok)
      BY <1>1, <2>1, MoveKeyAlias DEF JobOK, Stages
    <2>. HIDE DEF e
    <2>. QED BY <1>1, <2>1, <2>2 DEF Fields, JobOK, StageOf, CarriesOf, Taking
  <1>4. Put(p, i, f) \/ (mk[p] # None /\ Put(p, i, e))
    BY DEF GenKey, Return
  <1>5. JobsTyped'
    <2>. HIDE DEF e, f
    <2>. QED BY <1>2, <1>3, <1>4, PutTyped DEF Typed
  <1>6. StateTyped'
    BY DEF Typed, StateTyped, TypeOK, GenKey, server, disk, session
  <1>. QED BY <1>5, <1>6 DEF Typed

LEMMA WrapCodesTyped ==
    ASSUME Typed, NEW p \in Procs, NEW i \in Slots, WrapCodes(p, i)
    PROVE  Typed'
  <1>. DEFINE j == job[p][i]
              u == tok[DeviceOf[p]]
              code == serial + 1
              e == [j EXCEPT !.at = "storeCodes", !.user = u, !.code = code, !.alias = FALSE]
  <1>1. JobOK(j) /\ j.at = "wrapCodes"
    BY JobTyped DEF Typed, WrapCodes, At
  <1>2. u \in Users \cup {None} /\ code \in Nat
    BY DeviceTyped DEF Typed, StateTyped, TypeOK
  <1>3. JobOK(e)
    <2>1. Fields(e, "storeCodes", j.op, u, j.row, j.key, FALSE, j.pass, code, j.list, j.ok)
      <3>. HIDE DEF u, code
      <3>. QED BY <1>1, <1>2, MoveCode DEF JobOK, Stages
    <2>. HIDE DEF e, code
    <2>. QED BY <1>1, <1>2, <2>1 DEF Fields, JobOK, StageOf, CarriesOf, Taking
  <1>4. Put(p, i, e)
    BY DEF WrapCodes
  <1>5. JobsTyped'
    <2>. HIDE DEF e
    <2>. QED BY <1>3, <1>4, PutTyped DEF Typed
  <1>6. StateTyped'
    BY DEF Typed, StateTyped, TypeOK, WrapCodes, server, disk, session
  <1>. QED BY <1>5, <1>6 DEF Typed

LEMMA StoreCodesTyped ==
    ASSUME Typed, NEW u, NEW set \in Nat, NEW key \in Nat, NEW n \in 0..CodeCount, StoreCodes(u, set, key, n)
    PROVE  codes' \in [Users -> SUBSET CodeRows] /\ UNCHANGED <<account, vaults>>
  <1>1. \A k \in 1..n : [set |-> set, nr |-> k, key |-> key, used |-> FALSE] \in CodeRows
    BY Bounds DEF CodeRows
  <1>. QED BY <1>1 DEF Typed, StateTyped, StoreCodes

LEMMA StoreRecoveryCodesTyped ==
    ASSUME Typed, NEW p \in Procs, NEW i \in Slots, StoreRecoveryCodes(p, i)
    PROVE  Typed'
  <1>. DEFINE j == job[p][i]
              shown == {[set |-> j.code, nr |-> k] : k \in 1..CodeCount}
              e == [j EXCEPT !.at = "message", !.op = "codes", !.ok = TRUE]
              f == [j EXCEPT !.at = "message", !.ok = TRUE]
  <1>1. JobOK(j) /\ j.at = "storeCodes"
    BY JobTyped DEF Typed, StoreRecoveryCodes, At
  <1>2. JobOK(f)
    BY <1>1, Ends
  <1>3. JobOK(e)
    <2>1. Fields(e, "message", "codes", j.user, j.row, j.key, j.alias, j.pass, j.code, j.list, TRUE)
      BY <1>1, MoveOpOk DEF JobOK, Stages, Ops
    <2>. HIDE DEF e
    <2>. QED BY <1>1, <2>1 DEF Fields, JobOK, StageOf, CarriesOf, Taking, Ops
  <1>4. Put(p, i, f) \/ Put(p, i, e)
    BY DEF StoreRecoveryCodes, Rpc, Return
  <1>5. JobsTyped'
    <2>. HIDE DEF e, f
    <2>. QED BY <1>2, <1>3, <1>4, PutTyped DEF Typed
  <1>6. j.code \in Nat /\ j.key \in Nat
    BY <1>1 DEF JobOK, CarriesOf
  <1>7. shown \in SUBSET CodeIds
    <2>. HIDE DEF j
    <2>. QED BY <1>6 DEF CodeIds
  <1>8. paper' \in [Users -> SUBSET CodeIds]
    <2>1. UNCHANGED paper \/ paper' = [paper EXCEPT ![j.user] = shown]
      BY DEF StoreRecoveryCodes, Rpc
    <2>. HIDE DEF shown
    <2>. QED BY <1>7, <2>1 DEF Typed, StateTyped
  <1>9. codes' \in [Users -> SUBSET CodeRows] /\ UNCHANGED <<account, vaults>>
    <2>1. UNCHANGED server \/ \E n \in 0..CodeCount : StoreCodes(j.user, j.code, j.key, n)
      <3>1. CodeCount \in 0..CodeCount /\ 0..(CodeCount - 1) \subseteq 0..CodeCount
        BY Bounds
      <3>. HIDE DEF e, f, shown
      <3>. QED BY <3>1 DEF StoreRecoveryCodes, Rpc
    <2>2. CASE UNCHANGED server
      BY <2>2 DEF server, Typed, StateTyped
    <2>3. CASE \E n \in 0..CodeCount : StoreCodes(j.user, j.code, j.key, n)
      <3>. HIDE DEF j
      <3>. QED BY <1>6, <2>3, StoreCodesTyped
    <2>. QED BY <2>1, <2>2, <2>3
  <1>10. UNCHANGED <<disk, mem, session, ui, serial>> /\ (UNCHANGED left \/ Spend("failures") \/ Spend("replies"))
    BY DEF StoreRecoveryCodes, Rpc
  <1>11. StateTyped'
    BY <1>8, <1>9, <1>10, SpendTyped DEF Typed, StateTyped, TypeOK, CodeRows, disk, session
  <1>. QED BY <1>5, <1>11 DEF Typed

LEMMA GetRecoveryBlobTyped ==
    ASSUME Typed, NEW p \in Procs, NEW i \in Slots, GetRecoveryBlob(p, i)
    PROVE  Typed'
  <1>. DEFINE j == job[p][i]
              e(r) == [j EXCEPT !.at = "markUsed", !.key = r.key]
              f == [j EXCEPT !.at = "message", !.ok = FALSE]
              rows == IF j.user = None THEN {} ELSE GetBlob(j.user, j.code)
  <1>1. JobOK(j) /\ j.at = "getBlob"
    BY JobTyped DEF Typed, GetRecoveryBlob, At
  <1>2. JobOK(f)
    BY <1>1, Ends
  <1>3. ASSUME NEW r \in rows
        PROVE  JobOK(e(r))
    <2>1. r.key \in Nat
      <3>1. j.user \in Users
        BY <1>1, <1>3 DEF JobOK, JobRecs
      <3>. QED BY <1>3, <3>1 DEF GetBlob, Typed, StateTyped, CodeRows
    <2>2. Fields(e(r), "markUsed", j.op, j.user, j.row, r.key, j.alias, j.pass, j.code, j.list, j.ok)
      BY <1>1, <2>1, MoveKey DEF JobOK, Stages
    <2>. HIDE DEF e
    <2>. QED BY <1>1, <2>1, <2>2 DEF Fields, JobOK, StageOf, CarriesOf, Taking
  <1>4. Put(p, i, f) \/ \E r \in rows : Put(p, i, e(r))
    BY DEF GetRecoveryBlob, Rpc, Return
  <1>5. JobsTyped'
    <2>. HIDE DEF e, f, rows
    <2>. QED BY <1>2, <1>3, <1>4, PutTyped DEF Typed
  <1>6. UNCHANGED <<server, disk, mem, session, ui, paper, serial>>
        /\ (UNCHANGED left \/ Spend("failures") \/ Spend("replies"))
    <2>. HIDE DEF e, f
    <2>. QED BY DEF GetRecoveryBlob, Rpc
  <1>7. StateTyped'
    BY <1>6, SpendTyped DEF Typed, StateTyped, TypeOK, server, disk, session
  <1>. QED BY <1>5, <1>7 DEF Typed

LEMMA MarkRecoveryCodeUsedTyped ==
    ASSUME Typed, NEW p \in Procs, NEW i \in Slots, MarkRecoveryCodeUsed(p, i)
    PROVE  Typed'
  <1>. DEFINE j == job[p][i]
  <1>1. JobOK(j) /\ j.at = "markUsed" /\ ~At(p, i, "idle")
    BY JobTyped DEF Typed, MarkRecoveryCodeUsed, At
  <1>2. JobsTyped'
    BY <1>1, UnlockedTyped DEF Typed, MarkRecoveryCodeUsed
  <1>3. j.key \in Nat
    BY <1>1 DEF JobOK, CarriesOf
  <1>4. codes' \in [Users -> SUBSET CodeRows] /\ UNCHANGED <<account, vaults>>
    <2>1. CASE MarkUsed(j.user, j.code)
      <3>1. ASSUME NEW r \in CodeRows
            PROVE  [r EXCEPT !.used = TRUE] \in CodeRows
        BY DEF CodeRows
      <3>. DEFINE marked(S) == {IF IsCode(r, j.code) THEN [r EXCEPT !.used = TRUE] ELSE r : r \in S}
      <3>2. ASSUME NEW S \in SUBSET CodeRows
            PROVE  marked(S) \in SUBSET CodeRows
        BY <3>1
      <3>3. codes' = [codes EXCEPT ![j.user] = marked(codes[j.user])] /\ UNCHANGED <<account, vaults>>
        BY <2>1 DEF MarkUsed
      <3>. HIDE DEF marked
      <3>. QED BY <3>2, <3>3 DEF Typed, StateTyped
    <2>2. CASE UNCHANGED server
      BY <2>2 DEF server, Typed, StateTyped
    <2>. QED BY <2>1, <2>2 DEF MarkRecoveryCodeUsed
  <1>5. /\ SetMasterKey(p, j.key) /\ UNCHANGED <<disk, mem, ui, paper, serial>>
        /\ UNCHANGED left \/ Spend("failures")
    BY DEF MarkRecoveryCodeUsed
  <1>6. StateTyped'
    BY <1>3, <1>4, <1>5, SpendTyped DEF Typed, StateTyped, TypeOK, CodeRows, SetMasterKey, disk
  <1>. QED BY <1>2, <1>6 DEF Typed

LEMMA UnlockTyped ==
    ASSUME Typed, NEW p \in Procs, NEW i \in Slots, Unlock(p, i)
    PROVE  Typed'
  <1>. DEFINE j == job[p][i]
              f == [j EXCEPT !.at = "message", !.ok = FALSE]
              opened == job' = [job EXCEPT ![p] = [Detached(@, i) EXCEPT ![i].at = "message", ![i].ok = TRUE]]
  <1>1. JobOK(j) /\ j.at = "unlock" /\ ~At(p, i, "idle")
    BY JobTyped DEF Typed, Unlock, At
  <1>2. JobOK(f)
    BY <1>1, Ends
  <1>3. Put(p, i, f) \/ opened
    BY DEF Unlock, Return
  <1>4. JobsTyped'
    <2>1. CASE Put(p, i, f)
      <3>. HIDE DEF f
      <3>. QED BY <1>2, <2>1, PutTyped DEF Typed
    <2>2. CASE opened
      BY <1>1, <2>2, UnlockedTyped DEF Typed
    <2>. QED BY <1>3, <2>1, <2>2
  <1>5. mem[p].enc # None => mem[p].enc.key \in Nat
    <2>1. mem[p].enc \in Wrapped \cup {None}
      BY DEF Typed, StateTyped, TypeOK, EncRows
    <2>. QED BY <2>1 DEF Wrapped
  <1>6. /\ UNCHANGED session \/ (mem[p].enc # None /\ SetMasterKey(p, mem[p].enc.key))
        /\ UNCHANGED <<server, disk, mem, ui, paper, serial, left>>
    BY DEF Unlock, Opens
  <1>7. StateTyped'
    BY <1>5, <1>6 DEF Typed, StateTyped, TypeOK, SetMasterKey, server, disk, session
  <1>. QED BY <1>4, <1>7 DEF Typed

LEMMA UnlockWithPINTyped ==
    ASSUME Typed, NEW p \in Procs, NEW i \in Slots, UnlockWithPIN(p, i)
    PROVE  Typed'
  <1>. DEFINE j == job[p][i]
              f == [j EXCEPT !.at = "message", !.ok = FALSE]
              opened == job' = [job EXCEPT ![p] = [Detached(@, i) EXCEPT ![i].at = "message", ![i].ok = TRUE]]
  <1>1. JobOK(j) /\ j.at = "unlockPIN" /\ ~At(p, i, "idle")
    BY JobTyped DEF Typed, UnlockWithPIN, At
  <1>2. JobOK(f)
    BY <1>1, Ends
  <1>3. Put(p, i, f) \/ opened
    BY DEF UnlockWithPIN, Return
  <1>4. JobsTyped'
    <2>1. CASE Put(p, i, f)
      <3>. HIDE DEF f
      <3>. QED BY <1>2, <2>1, PutTyped DEF Typed
    <2>2. CASE opened
      BY <1>1, <2>2, UnlockedTyped DEF Typed
    <2>. QED BY <1>3, <2>1, <2>2
  <1>5. j.key \in Nat \cup {None}
    BY <1>1 DEF JobOK, JobRecs
  <1>6. StateTyped'
    BY <1>5 DEF Typed, StateTyped, TypeOK, UnlockWithPIN, SetMasterKey, server, disk, session
  <1>. QED BY <1>4, <1>6 DEF Typed

LEMMA SetPINTyped ==
    ASSUME Typed, NEW p \in Procs, NEW i \in Slots, SetPIN(p, i)
    PROVE  Typed'
  <1>. DEFINE j == job[p][i]
              e == [j EXCEPT !.at = "message", !.ok = TRUE]
              f == [j EXCEPT !.at = "message", !.ok = FALSE]
  <1>1. JobOK(j) /\ j.at = "setPIN"
    BY JobTyped DEF Typed, SetPIN, At
  <1>2. JobOK(e) /\ JobOK(f)
    BY <1>1, Ends
  <1>3. Put(p, i, e) \/ Put(p, i, f)
    BY DEF SetPIN, Return
  <1>4. JobsTyped'
    <2>. HIDE DEF e, f
    <2>. QED BY <1>2, <1>3, PutTyped DEF Typed
  <1>5. j.key \in Nat \cup {None}
    BY <1>1 DEF JobOK, JobRecs
  <1>6. StateTyped'
    BY <1>5 DEF Typed, StateTyped, TypeOK, SetPIN, server, disk, session
  <1>. QED BY <1>4, <1>6 DEF Typed

LEMMA NewVaultTyped ==
    ASSUME Typed, NEW p \in Procs, NEW i \in Slots, NewVault(p, i)
    PROVE  Typed'
  <1>. DEFINE j == job[p][i]
              u == tok[DeviceOf[p]]
              e == [j EXCEPT !.at = "createVault", !.key = mk[p], !.user = u]
              f == [j EXCEPT !.at = "message", !.ok = FALSE]
  <1>1. JobOK(j) /\ j.at = "newVault"
    BY JobTyped DEF Typed, NewVault, At
  <1>2. JobOK(f)
    BY <1>1, Ends
  <1>3. ASSUME mk[p] # None, u # None
        PROVE  JobOK(e)
    <2>1. mk[p] \in Nat /\ u \in Users
      BY <1>3, DeviceTyped DEF Typed, StateTyped, TypeOK
    <2>2. Fields(e, "createVault", j.op, u, j.row, mk[p], j.alias, j.pass, j.code, j.list, j.ok)
      <3>. HIDE DEF u
      <3>. QED BY <1>1, <2>1, MoveKeyUser DEF JobOK, Stages
    <2>. HIDE DEF e, u
    <2>. QED BY <1>1, <2>1, <2>2 DEF Fields, JobOK, StageOf, CarriesOf, Taking
  <1>4. Put(p, i, f) \/ (mk[p] # None /\ u # None /\ Put(p, i, e))
    BY DEF NewVault, Return
  <1>5. JobsTyped'
    <2>. HIDE DEF e, f
    <2>. QED BY <1>2, <1>3, <1>4, PutTyped DEF Typed
  <1>6. StateTyped'
    BY DEF Typed, StateTyped, TypeOK, NewVault, server, disk, session
  <1>. QED BY <1>5, <1>6 DEF Typed

LEMMA CreateVaultTyped ==
    ASSUME Typed, NEW p \in Procs, NEW i \in Slots, CreateVault(p, i)
    PROVE  Typed'
  <1>. DEFINE j == job[p][i]
              e == [j EXCEPT !.at = "cacheVault"]
              f == [j EXCEPT !.at = "message", !.ok = FALSE]
  <1>1. JobOK(j) /\ j.at = "createVault"
    BY JobTyped DEF Typed, CreateVault, At
  <1>2. JobOK(e) /\ JobOK(f)
    BY <1>1, Goes, Ends DEF Stages
  <1>3. Put(p, i, e) \/ Put(p, i, f)
    BY DEF CreateVault, Rpc, Goto, Return
  <1>4. JobsTyped'
    <2>. HIDE DEF e, f
    <2>. QED BY <1>2, <1>3, PutTyped DEF Typed
  <1>5. j.key \in Nat
    BY <1>1 DEF JobOK, CarriesOf
  <1>6. /\ UNCHANGED server \/ InsertVault(j.user, j.key)
        /\ UNCHANGED <<disk, mem, session, ui, paper, serial>>
        /\ UNCHANGED left \/ Spend("failures") \/ Spend("replies")
    BY DEF CreateVault, Rpc
  <1>7. vaults' \in [Users -> SUBSET Nat] /\ UNCHANGED <<account, codes>>
    <2>. HIDE DEF j
    <2>. QED BY <1>5, <1>6 DEF InsertVault, Typed, StateTyped, server
  <1>8. StateTyped'
    BY <1>6, <1>7, SpendTyped DEF Typed, StateTyped, TypeOK, disk, session
  <1>. QED BY <1>4, <1>8 DEF Typed

LEMMA CacheVaultTyped ==
    ASSUME Typed, NEW p \in Procs, NEW i \in Slots, CacheVault(p, i)
    PROVE  Typed'
  <1>. DEFINE j == job[p][i]
              f == [j EXCEPT !.at = "message", !.ok = TRUE]
              v == [user |-> j.user, key |-> j.key]
              d == DeviceOf[p]
  <1>1. JobOK(j) /\ j.at = "cacheVault"
    BY JobTyped DEF Typed, CacheVault, At
  <1>2. JobOK(f)
    BY <1>1, Ends
  <1>3. Put(p, i, f) /\ cache' = [cache EXCEPT ![d] = @ \cup {v}]
        /\ UNCHANGED <<server, kv, tok, mem, session, ui, paper, serial, left>>
    BY DEF CacheVault, Return
  <1>4. JobsTyped'
    <2>. HIDE DEF f
    <2>. QED BY <1>2, <1>3, PutTyped DEF Typed
  <1>5. v \in CachedVaults
    BY <1>1 DEF JobOK, CarriesOf, CachedVaults
  <1>6. cache' \in [Devices -> SUBSET CachedVaults]
    <2>. HIDE DEF v, d
    <2>. QED BY <1>3, <1>5 DEF Typed, StateTyped
  <1>7. StateTyped'
    <2>. HIDE DEF v, d, f
    <2>. QED BY <1>3, <1>6 DEF Typed, StateTyped, TypeOK, CachedVaults, server, session
  <1>. QED BY <1>4, <1>7 DEF Typed

LEMMA ListVaultsTyped ==
    ASSUME Typed, NEW p \in Procs, NEW i \in Slots, ListVaults(p, i)
    PROVE  Typed'
  <1>. DEFINE j == job[p][i]
              u == tok[DeviceOf[p]]
              list == VaultsOf(u)
              e == [j EXCEPT !.at = "cacheList", !.key = mk[p], !.alias = TRUE, !.user = u, !.list = list]
              f == [j EXCEPT !.at = "message", !.ok = FALSE]
  <1>1. JobOK(j) /\ j.at = "listVaults"
    BY JobTyped DEF Typed, ListVaults, At
  <1>2. JobOK(f)
    BY <1>1, Ends
  <1>3. ASSUME mk[p] # None, u # None
        PROVE  JobOK(e)
    <2>1. mk[p] \in Nat /\ u \in Users
      BY <1>3, DeviceTyped DEF Typed, StateTyped, TypeOK
    <2>2. list \in SUBSET CachedVaults
      <3>. HIDE DEF u
      <3>. QED BY <2>1, VaultsTyped
    <2>3. Fields(e, "cacheList", j.op, u, j.row, mk[p], TRUE, j.pass, j.code, list, j.ok)
      <3>. HIDE DEF u, list
      <3>. QED BY <1>1, <2>1, <2>2, MoveKeyList DEF JobOK, Stages
    <2>. HIDE DEF e, u, list
    <2>. QED BY <1>1, <2>1, <2>3 DEF Fields, JobOK, StageOf, CarriesOf, Taking
  <1>4. Put(p, i, f) \/ (mk[p] # None /\ u # None /\ Put(p, i, e))
    BY DEF ListVaults, Return
  <1>5. JobsTyped'
    <2>. HIDE DEF e, f
    <2>. QED BY <1>2, <1>3, <1>4, PutTyped DEF Typed
  <1>6. StateTyped'
    BY SpendTyped DEF Typed, StateTyped, TypeOK, ListVaults, server, disk, session
  <1>. QED BY <1>5, <1>6 DEF Typed

LEMMA CacheListTyped ==
    ASSUME Typed, NEW p \in Procs, NEW i \in Slots, CacheList(p, i)
    PROVE  Typed'
  <1>. DEFINE j == job[p][i]
              d == DeviceOf[p]
              e == [j EXCEPT !.at = "prune"]
              f == [j EXCEPT !.at = "message", !.ok = TRUE]
              kept == {v \in j.list : j.op = "list" => v.key = j.key}
  <1>1. JobOK(j) /\ j.at = "cacheList"
    BY JobTyped DEF Typed, CacheList, At
  <1>2. JobOK(f) /\ (j.op = "list" => JobOK(e))
    BY <1>1, Goes, Ends DEF Stages
  <1>3. Put(p, i, f) \/ (j.op = "list" /\ Put(p, i, e))
    BY DEF CacheList, Goto, Return
  <1>4. JobsTyped'
    <2>. HIDE DEF e, f
    <2>. QED BY <1>2, <1>3, PutTyped DEF Typed
  <1>5. kept \in SUBSET CachedVaults
    BY <1>1 DEF JobOK, JobRecs
  <1>6. cache' = [cache EXCEPT ![d] = @ \cup kept] /\ UNCHANGED <<server, kv, tok, mem, session, ui, paper, serial, left>>
    BY DEF CacheList
  <1>7. cache' \in [Devices -> SUBSET CachedVaults]
    <2>. HIDE DEF kept, d
    <2>. QED BY <1>5, <1>6 DEF Typed, StateTyped
  <1>8. StateTyped'
    <2>. HIDE DEF kept, d
    <2>. QED BY <1>6, <1>7 DEF Typed, StateTyped, TypeOK, CachedVaults, server, session
  <1>. QED BY <1>4, <1>8 DEF Typed

LEMMA PruneTyped ==
    ASSUME Typed, NEW p \in Procs, NEW i \in Slots, PruneStaleVaults(p, i)
    PROVE  Typed'
  <1>. DEFINE j == job[p][i]
              f == [j EXCEPT !.at = "message", !.ok = TRUE]
  <1>1. JobOK(j) /\ j.at = "prune"
    BY JobTyped DEF Typed, PruneStaleVaults, At
  <1>2. JobOK(f)
    BY <1>1, Ends
  <1>3. Put(p, i, f)
    BY DEF PruneStaleVaults, Return
  <1>4. JobsTyped'
    <2>. HIDE DEF f
    <2>. QED BY <1>2, <1>3, PutTyped DEF Typed
  <1>5. cache' \in [Devices -> SUBSET CachedVaults]
    BY DEF Typed, StateTyped, PruneStaleVaults
  <1>6. StateTyped'
    BY <1>5 DEF Typed, StateTyped, TypeOK, CachedVaults, PruneStaleVaults, server, session
  <1>. QED BY <1>4, <1>6 DEF Typed

\* The first stage of every operation, and what its job carries.
StartOf(op) ==
    CASE op = "setup" -> "readKey"
      [] op = "recover" -> "getBlob"
      [] op = "vault" -> "newVault"
      [] op = "list" -> "listVaults"
      [] OTHER -> op

UserOf(p, op, u) == IF op = "recover" THEN tok[DeviceOf[p]] ELSE u
RowOf(p, op) == IF op = "unlock" THEN mem[p] ELSE EmptyRow
KeyOf(p, op) == CASE op = "unlockPIN" -> pin[p] [] op = "setPIN" -> mk[p] [] OTHER -> None
AliasOf(p, op) == op = "setPIN" /\ mk[p] # None

LEMMA BeginFields ==
    ASSUME Typed, NEW p \in Procs, NEW cmd \in {None, "tui"} \cup Commands, NEW op \in Ops \ {"codes"},
           NEW u \in Users \cup {None}, NEW pass \in Passwords \cup {None}, NEW code \in CodeIds \cup {None}
    PROVE  Fields(Begin(p, cmd, op, u, pass, code), StartOf(op), op, UserOf(p, op, u), RowOf(p, op),
                  KeyOf(p, op), AliasOf(p, op), pass, code, {}, FALSE)
  <1>. DEFINE first == [register |-> "register", login |-> "login", refresh |-> "refresh",
                        setup |-> "readKey", recover |-> "getBlob", unlock |-> "unlock",
                        unlockPIN |-> "unlockPIN", setPIN |-> "setPIN",
                        vault |-> "newVault", list |-> "listVaults"]
              at == StartOf(op)
              user == UserOf(p, op, u)
              row == RowOf(p, op)
              key == KeyOf(p, op)
              alias == AliasOf(p, op)
              e == Begin(p, cmd, op, u, pass, code)
  <1>1. first[op] = StartOf(op)
    BY DEF Ops, StartOf
  <1>2. e = [Idle EXCEPT !.at = at, !.cmd = cmd, !.op = op, !.pass = pass, !.code = code,
                         !.user = user, !.row = row, !.key = key, !.alias = alias]
    <2>1. e = [Idle EXCEPT !.at = first[op], !.cmd = cmd, !.op = op, !.pass = pass, !.code = code,
                           !.user = user, !.row = row, !.key = key, !.alias = alias]
      BY DEF Begin, UserOf, RowOf, KeyOf, AliasOf
    <2>. HIDE DEF first, e
    <2>. QED BY <1>1, <2>1
  <1>3. at \in Stages
    BY DEF Ops, Stages, StartOf
  <1>4. user \in Users \cup {None} /\ row \in EncRows /\ key \in Nat \cup {None} /\ alias \in BOOLEAN
    <2>1. EmptyRow \in EncRows
      BY DEF EmptyRow, EncRows
    <2>. QED BY <2>1, DeviceTyped DEF Typed, StateTyped, TypeOK, UserOf, RowOf, KeyOf, AliasOf
  <1>5. Idle \in JobRecs /\ Idle.list = {} /\ Idle.ok = FALSE
    BY IdleOK DEF JobOK, Idle
  <1>6. Fields(e, at, op, user, row, key, alias, pass, code, {}, FALSE)
    <2>1. /\ op \in Ops \cup {None} /\ cmd \in {None, "tui"} \cup Commands
          /\ pass \in Passwords \cup {None} /\ code \in Nat \cup CodeIds \cup {None}
      OBVIOUS
    <2>. DEFINE a == [Idle EXCEPT !.at = at, !.cmd = cmd, !.op = op]
                b == [a EXCEPT !.pass = pass, !.code = code, !.user = user]
                c == [b EXCEPT !.row = row, !.key = key]
                f == [c EXCEPT !.alias = alias]
    <2>. HIDE DEF e, at, user, row, key, alias
    <2>2. a \in JobRecs
      BY <1>3, <1>5, <2>1 DEF JobRecs
    <2>3. b \in JobRecs
      <3>. HIDE DEF a
      <3>. QED BY <1>4, <2>1, <2>2 DEF JobRecs
    <2>4. c \in JobRecs
      <3>. HIDE DEF b
      <3>. QED BY <1>4, <2>3 DEF JobRecs
    <2>5. f \in JobRecs
      <3>. HIDE DEF c
      <3>. QED BY <1>4, <2>4 DEF JobRecs
    <2>6. e = f
      BY <1>2
    <2>7. /\ f.at = at /\ f.op = op /\ f.pass = pass /\ f.code = code /\ f.user = user /\ f.row = row
          /\ f.list = {} /\ f.ok = FALSE /\ f.key = key /\ f.alias = alias
      BY <1>5 DEF JobRecs
    <2>. HIDE DEF f
    <2>. QED BY <2>5, <2>6, <2>7 DEF Fields
  <1>. QED BY <1>6

LEMMA InputsTyped ==
    ASSUME Typed, NEW op, NEW in \in Inputs(op)
    PROVE  /\ in.user \in Users \cup {None} /\ in.pass \in Passwords \cup {None} /\ in.code \in CodeIds \cup {None}
           /\ op \in {"login", "register"} => in.user \in Users
           /\ op = "setup" => in.pass \in Passwords
  <1>1. UNION {paper[u] : u \in Users} \subseteq CodeIds
    BY DEF Typed, StateTyped
  <1>. QED BY <1>1 DEF Inputs

LEMMA BeginOK ==
    ASSUME Typed, NEW p \in Procs, NEW cmd \in {None, "tui"} \cup Commands, NEW op \in Ops \ {"codes"},
           NEW in \in Inputs(op)
    PROVE  JobOK(Begin(p, cmd, op, in.user, in.pass, in.code))
  <1>. DEFINE e == Begin(p, cmd, op, in.user, in.pass, in.code)
  <1>1. /\ in.user \in Users \cup {None} /\ in.pass \in Passwords \cup {None} /\ in.code \in CodeIds \cup {None}
        /\ op \in {"login", "register"} => in.user \in Users
        /\ op = "setup" => in.pass \in Passwords
    BY InputsTyped
  <1>2. Fields(e, StartOf(op), op, UserOf(p, op, in.user), RowOf(p, op),
               KeyOf(p, op), AliasOf(p, op), in.pass, in.code, {}, FALSE)
    BY <1>1, BeginFields
  <1>3. JobOK(e)
    <2>. HIDE DEF e
    <2>. QED BY <1>1, <1>2 DEF Fields, JobOK, StageOf, CarriesOf, Ops, Taking, StartOf, UserOf
  <1>. QED BY <1>3

LEMMA EnterTyped ==
    ASSUME Typed, NEW p \in Procs, Enter(p)
    PROVE  Typed'
  <1>1. PICK i \in Slots, op \in Offered(p) : \E in \in Inputs(op) : Put(p, i, Begin(p, "tui", op, in.user, in.pass, in.code))
    BY DEF Enter
  <1>2. op \in Ops \ {"codes"}
    <2>. DEFINE byMode == [PIN |-> "unlockPIN", setPIN |-> "setPIN", recovery |-> "recover", password |-> "unlock"]
    <2>1. ui[p].mode \in {"password", "PIN", "setPIN", "recovery"}
      BY DEF Typed, StateTyped, TypeOK
    <2>2. byMode[ui[p].mode] \in Ops \ {"codes"}
      BY <2>1 DEF Ops
    <2>. HIDE DEF byMode
    <2>3. op \in {"login", "register", "setup", "vault", "list", byMode[ui[p].mode]}
      BY DEF Offered, byMode
    <2>. QED BY <2>2, <2>3 DEF Ops
  <1>3. JobsTyped'
    BY <1>1, <1>2, BeginOK, PutTyped DEF Typed
  <1>4. StateTyped'
    BY SpendTyped DEF Typed, StateTyped, TypeOK, Enter, server, disk, session
  <1>. QED BY <1>3, <1>4 DEF Typed

LEMMA LockedTyped ==
    ASSUME JobsTyped, NEW p \in Procs, job' = [job EXCEPT ![p] = Locked(job[p])]
    PROVE  JobsTyped'
  <1>1. job[p] \in [Slots -> JobRecs] /\ \A k \in Slots : JobOK(job[p][k])
    BY JobTyped DEF JobsTyped
  <1>. QED BY <1>1, LockedOK, ProcTyped

Screens == [screen : {"login", "lock", "setup", "dashboard", "codes"}, attempts : 0..MaxUnlockAttempts,
            mode : {"password", "PIN", "setPIN", "recovery"}]

LEMMA ScreensTyped ==
    /\ \A s \in {"login", "lock", "setup", "dashboard", "codes"} : Screen(s) \in Screens
    /\ \A pinned \in BOOLEAN : NewLock(pinned) \in Screens
    /\ \A row \in EncRows : StartScreen(row) \in Screens
  <1>1. 0 \in 0..MaxUnlockAttempts
    BY Bounds
  <1>2. \A s \in {"login", "lock", "setup", "dashboard", "codes"} : Screen(s) \in Screens
    BY <1>1 DEF Screen, Screens
  <1>3. \A pinned \in BOOLEAN : NewLock(pinned) \in Screens
    BY <1>1 DEF NewLock, Screens
  <1>4. NewLock(FALSE) \in Screens
    BY <1>1 DEF NewLock, Screens
  <1>. QED BY <1>2, <1>3, <1>4 DEF StartScreen

LEMMA LockKeyTyped ==
    ASSUME Typed, NEW p \in Procs, LockKey(p)
    PROVE  Typed'
  <1>1. UNCHANGED job \/ job' = [job EXCEPT ![p] = Locked(job[p])]
    BY DEF LockKey
  <1>2. JobsTyped'
    <2>1. CASE UNCHANGED job
      BY <2>1 DEF Typed, JobsTyped
    <2>. QED BY <1>1, <2>1, LockedTyped DEF Typed
  <1>3. ui' \in [Procs -> Screens]
    <2>1. ui \in [Procs -> Screens]
      BY DEF Typed, StateTyped, TypeOK, Screens
    <2>2. ASSUME NEW m \in {"password", "PIN", "setPIN", "recovery"}
          PROVE  [ui[p] EXCEPT !.mode = m] \in Screens
      BY <2>1 DEF Screens
    <2>3. \/ \E m \in {"password", "PIN", "setPIN", "recovery"} : ui' = [ui EXCEPT ![p] = [ui[p] EXCEPT !.mode = m]]
          \/ \E s \in {"login", "dashboard"} : ui' = [ui EXCEPT ![p] = Screen(s)]
      BY DEF LockKey, Show
    <2>4. Screen("login") \in Screens /\ Screen("dashboard") \in Screens
      BY ScreensTyped
    <2>5. CASE \E s \in {"login", "dashboard"} : ui' = [ui EXCEPT ![p] = Screen(s)]
      BY <2>1, <2>4, <2>5
    <2>6. CASE \E m \in {"password", "PIN", "setPIN", "recovery"} : ui' = [ui EXCEPT ![p] = [ui[p] EXCEPT !.mode = m]]
      BY <2>1, <2>2, <2>6
    <2>. QED BY <2>3, <2>5, <2>6
  <1>4. /\ UNCHANGED session \/ Lock(p)
        /\ UNCHANGED <<server, disk, mem, paper, serial, left>>
    BY DEF LockKey
  <1>5. StateTyped'
    BY <1>3, <1>4 DEF Typed, StateTyped, TypeOK, Lock, Screens, server, disk, session
  <1>. QED BY <1>2, <1>5 DEF Typed

LEMMA DashboardKeyTyped ==
    ASSUME Typed, NEW p \in Procs, DashboardKey(p)
    PROVE  Typed'
  <1>1. JobsTyped'
    BY LockedTyped DEF DashboardKey, Typed
  <1>2. /\ \E s \in Screens : ui' = [ui EXCEPT ![p] = s]
        /\ SoftLock(p) \/ Lock(p)
        /\ UNCHANGED <<server, disk, mem, paper, serial, left>>
    <2>1. NewLock(pin[p] # None) \in Screens /\ Screen("login") \in Screens
      BY ScreensTyped
    <2>. QED BY <2>1 DEF DashboardKey, Show
  <1>3. mk' \in [Procs -> Nat \cup {None}] /\ pin' \in [Procs -> Nat \cup {None}]
    BY <1>2 DEF Typed, StateTyped, TypeOK, Lock, SoftLock
  <1>4. ui' \in [Procs -> Screens]
    BY <1>2 DEF Typed, StateTyped, TypeOK, Screens
  <1>5. StateTyped'
    BY <1>2, <1>3, <1>4 DEF Typed, StateTyped, TypeOK, Screens, server, disk
  <1>. QED BY <1>1, <1>5 DEF Typed

LEMMA CodesKeyTyped ==
    ASSUME Typed, NEW p \in Procs, CodesKey(p)
    PROVE  Typed'
  <1>1. Screen("dashboard") \in Screens
    BY ScreensTyped
  <1>2. JobsTyped'
    BY DEF Typed, JobsTyped, CodesKey
  <1>3. StateTyped'
    BY <1>1 DEF Typed, StateTyped, TypeOK, CodesKey, Show, Screens, server, disk, session
  <1>. QED BY <1>2, <1>3 DEF Typed

LEMMA AutoLockTyped ==
    ASSUME Typed, NEW p \in Procs, AutoLock(p)
    PROVE  Typed'
  <1>1. JobsTyped'
    BY LockedTyped DEF AutoLock, Typed
  <1>2. NewLock(pin[p] # None) \in Screens
    BY ScreensTyped
  <1>3. ui' \in [Procs -> Screens]
    BY <1>2 DEF AutoLock, Show, Typed, StateTyped, TypeOK, Screens
  <1>4. StateTyped'
    BY <1>3 DEF Typed, StateTyped, TypeOK, AutoLock, SoftLock, Screens, server, disk
  <1>. QED BY <1>1, <1>4 DEF Typed

LEMMA UpdateTyped ==
    ASSUME Typed, NEW p \in Procs, NEW j, JobOK(j)
    PROVE  Update(p, j) \in Screens
  <1>1. ui[p] \in Screens
    BY DEF Typed, StateTyped, TypeOK, Screens
  <1>2. LoginUpdate(p, j) \in Screens
    BY <1>1, ScreensTyped DEF LoginUpdate
  <1>3. SetupUpdate(p, j) \in Screens
    BY <1>1, ScreensTyped DEF SetupUpdate
  <1>4. LockUpdate(p, j) \in Screens
    <2>. DEFINE asked == [ui[p] EXCEPT !.attempts = 0, !.mode = "setPIN"]
                failed == [ui[p] EXCEPT !.attempts = @ + 1]
    <2>1. asked \in Screens
      <3>1. 0 \in 0..MaxUnlockAttempts
        BY Bounds
      <3>. QED BY <1>1, <3>1 DEF Screens
    <2>2. ~Cold(p) => failed \in Screens
      BY <1>1, Bounds DEF Screens, Cold
    <2>3. LockUpdate(p, j) \in {ui[p], asked, Screen("dashboard")} \/ (~Cold(p) /\ LockUpdate(p, j) = failed)
      <3>. HIDE DEF asked, failed
      <3>. QED BY DEF LockUpdate, asked, failed
    <2>4. Screen("dashboard") \in Screens
      BY ScreensTyped
    <2>. HIDE DEF asked, failed
    <2>. QED BY <1>1, <2>1, <2>2, <2>3, <2>4
  <1>5. Screen("setup") \in Screens /\ Screen("codes") \in Screens
    BY ScreensTyped
  <1>. QED BY <1>1, <1>2, <1>3, <1>4, <1>5 DEF Update

LEMMA MessageTyped ==
    ASSUME Typed, NEW p \in Procs, NEW i \in Slots, Message(p, i)
    PROVE  Typed'
  <1>. DEFINE new == Update(p, job[p][i])
              done == [job[p] EXCEPT ![i] = Idle]
  <1>1. new \in Screens
    BY UpdateTyped, JobTyped DEF Typed
  <1>2. done \in [Slots -> JobRecs] /\ \A k \in Slots : JobOK(done[k])
    <2>1. job[p] \in [Slots -> JobRecs] /\ (\A k \in Slots : JobOK(job[p][k])) /\ Idle \in JobRecs
      BY JobTyped, IdleOK DEF Typed, JobsTyped, JobOK
    <2>. QED BY <2>1, IdleOK
  <1>3. job' = [job EXCEPT ![p] = done] \/ job' = [job EXCEPT ![p] = Locked(done)]
    BY DEF Message
  <1>4. JobsTyped'
    <2>. HIDE DEF done
    <2>1. CASE job' = [job EXCEPT ![p] = done]
      BY <1>2, <2>1, ProcTyped DEF Typed
    <2>2. CASE job' = [job EXCEPT ![p] = Locked(done)]
      BY <1>2, <2>2, LockedOK, ProcTyped DEF Typed
    <2>. QED BY <1>3, <2>1, <2>2
  <1>5. /\ ui' = [ui EXCEPT ![p] = new]
        /\ UNCHANGED session \/ Lock(p)
        /\ UNCHANGED <<server, disk, mem, paper, serial, left>>
    BY DEF Message, Show
  <1>6. StateTyped'
    <2>. HIDE DEF new
    <2>. QED BY <1>1, <1>5 DEF Typed, StateTyped, TypeOK, Lock, Screens, server, disk, session
  <1>. QED BY <1>4, <1>6 DEF Typed

LEMMA CommandTyped ==
    ASSUME Typed, NEW p \in Procs, NEW i \in Slots, Command(p, i)
    PROVE  Typed'
  <1>1. PICK cmd \in Commands :
           LET op == IF cmd \in {"recover", "vault"} THEN "refresh" ELSE cmd
           IN \E in \in Inputs(op) : Put(p, i, Begin(p, cmd, op, in.user, in.pass, in.code))
    BY DEF Command
  <1>. DEFINE op == IF cmd \in {"recover", "vault"} THEN "refresh" ELSE cmd
  <1>2. op \in Ops \ {"codes"}
    BY Wiring DEF Ops
  <1>3. PICK in \in Inputs(op) : Put(p, i, Begin(p, cmd, op, in.user, in.pass, in.code))
    BY <1>1
  <1>4. JobsTyped'
    <2>. HIDE DEF op
    <2>. QED BY <1>2, <1>3, BeginOK, PutTyped DEF Typed
  <1>5. StateTyped'
    BY SpendTyped DEF Typed, StateTyped, TypeOK, Command, server, disk, session
  <1>. QED BY <1>4, <1>5 DEF Typed

LEMMA IdleTyped ==
    ASSUME JobsTyped, NEW p \in Procs, job' = [job EXCEPT ![p] = [i \in Slots |-> Idle]]
    PROVE  JobsTyped'
  <1>. DEFINE js == [i \in Slots |-> Idle]
  <1>1. js \in [Slots -> JobRecs] /\ \A i \in Slots : JobOK(js[i])
    BY IdleOK DEF JobOK
  <1>. HIDE DEF js
  <1>. QED BY <1>1, ProcTyped DEF js

LEMMA CachedTyped ==
    ASSUME Typed, NEW d \in Devices
    PROVE  Cached(d) \in EncRows
  <1>1. EmptyRow \in EncRows
    BY DEF EmptyRow, EncRows
  <1>2. kv[d].salt \in Nat /\ kv[d].enc \in Wrapped \cup {None}
    BY DEF Typed, StateTyped, TypeOK
  <1>. QED BY <1>1, <1>2 DEF Cached, EncRows

LEMMA NextOpTyped ==
    ASSUME Typed, NEW p \in Procs, NEW i \in Slots, NextOp(p, i)
    PROVE  Typed'
  <1>. DEFINE j == job[p][i]
              e == [j EXCEPT !.ok = TRUE]
  <1>1. JobOK(j) /\ j.at = "message"
    BY JobTyped DEF Typed, NextOp, At
  <1>2. UNCHANGED <<server, disk, ui, paper, serial, left>>
    BY DEF NextOp
  <1>3. CASE \E op \in Following(p, j) \ {None} : \E in \in Inputs(op) :
                Put(p, i, Begin(p, j.cmd, op, in.user, in.pass, in.code)) /\ UNCHANGED <<mem, session>>
    <2>1. PICK op \in Following(p, j) \ {None} : \E in \in Inputs(op) :
                 Put(p, i, Begin(p, j.cmd, op, in.user, in.pass, in.code)) /\ UNCHANGED <<mem, session>>
      BY <1>3
    <2>2. op \in Ops \ {"codes"}
      BY <2>1 DEF Following, Offer, Ops
    <2>3. PICK in \in Inputs(op) : Put(p, i, Begin(p, j.cmd, op, in.user, in.pass, in.code)) /\ UNCHANGED <<mem, session>>
      BY <2>1
    <2>4. j.cmd \in {None, "tui"} \cup Commands
      BY <1>1 DEF JobOK, JobRecs
    <2>5. JobsTyped'
      <3>1. JobOK(Begin(p, j.cmd, op, in.user, in.pass, in.code))
        BY <2>2, <2>3, <2>4, BeginOK
      <3>. QED BY <2>3, <3>1, PutTyped DEF Typed
    <2>6. StateTyped'
      BY <1>2, <2>3 DEF Typed, StateTyped, TypeOK, server, disk, session
    <2>. QED BY <2>5, <2>6 DEF Typed
  <1>4. CASE Exit(p) /\ mem' = [mem EXCEPT ![p] = EmptyRow]
    <2>1. JobsTyped'
      BY <1>4, IdleTyped DEF Exit, Typed
    <2>2. EmptyRow \in EncRows
      BY DEF EmptyRow, EncRows
    <2>3. StateTyped'
      BY <1>2, <1>4, <2>2 DEF Exit, Typed, StateTyped, TypeOK, server, disk
    <2>. QED BY <2>1, <2>3 DEF Typed
  <1>5. CASE mem' = [mem EXCEPT ![p] = Cached(DeviceOf[p])] /\ Put(p, i, e) /\ UNCHANGED session
    <2>1. JobOK(e)
      <3>1. Fields(e, j.at, j.op, j.user, j.row, j.key, j.alias, j.pass, j.code, j.list, TRUE)
        BY <1>1, MoveOnlyOk DEF JobOK
      <3>. HIDE DEF e
      <3>. QED BY <1>1, <3>1 DEF Fields, JobOK, StageOf, CarriesOf, Taking
    <2>2. JobsTyped'
      <3>. HIDE DEF e
      <3>. QED BY <1>5, <2>1, PutTyped DEF Typed
    <2>3. Cached(DeviceOf[p]) \in EncRows
      BY CachedTyped, DeviceTyped
    <2>4. StateTyped'
      BY <1>2, <1>5, <2>3 DEF Typed, StateTyped, TypeOK, server, disk, session
    <2>. QED BY <2>2, <2>4 DEF Typed
  <1>. QED BY <1>3, <1>4, <1>5 DEF NextOp

LEMMA KillTyped ==
    ASSUME Typed, NEW p \in Procs, Kill(p)
    PROVE  Typed'
  <1>. DEFINE row == IF p \in Tui THEN Cached(DeviceOf[p]) ELSE EmptyRow
  <1>1. row \in EncRows
    <2>1. EmptyRow \in EncRows
      BY DEF EmptyRow, EncRows
    <2>. QED BY <2>1, CachedTyped, DeviceTyped
  <1>2. mem' = [mem EXCEPT ![p] = row] /\ ui' = [ui EXCEPT ![p] = StartScreen(row)]
    BY DEF Kill, Show
  <1>3. StartScreen(row) \in Screens
    <2>. HIDE DEF row
    <2>. QED BY <1>1, ScreensTyped
  <1>4. JobsTyped'
    BY IdleTyped DEF Kill, Exit, Typed
  <1>5. /\ mk' = [mk EXCEPT ![p] = None] /\ pin' = [pin EXCEPT ![p] = None] /\ Spend("kills")
        /\ UNCHANGED <<server, disk, paper, serial>>
    BY DEF Kill, Exit
  <1>6. StateTyped'
    <2>. HIDE DEF row
    <2>. QED BY <1>1, <1>2, <1>3, <1>5, SpendTyped DEF Typed, StateTyped, TypeOK, Screens, server, disk
  <1>. QED BY <1>4, <1>6 DEF Typed

LEMMA InitTyped ==
    ASSUME Init
    PROVE  Typed
  <1>1. EmptyRow \in EncRows
    BY DEF EmptyRow, EncRows
  <1>2. EmptyKV \in [user : Users \cup {None}, salt : Nat, enc : Wrapped \cup {None}]
    BY DEF EmptyKV
  <1>3. Screen("login") \in Screens
    BY ScreensTyped
  <1>4. left \in [{"jobs", "failures", "replies", "kills"} -> Nat]
    BY Bounds DEF Init
  <1>5. StateTyped
    BY <1>1, <1>2, <1>3, <1>4 DEF Init, StateTyped, TypeOK, Screens
  <1>6. JobsTyped
    BY IdleOK DEF Init, JobsTyped, JobOK
  <1>. QED BY <1>5, <1>6 DEF Typed

LEMMA NextTyped ==
    ASSUME Typed, [Next]_vars
    PROVE  Typed'
  <1>1. CASE UNCHANGED vars
    <2>1. UNCHANGED <<account, codes, vaults, kv, cache, tok, mem, mk, pin, ui, job, paper, serial, left>>
      BY <1>1 DEF vars, server, disk, session
    <2>. QED BY <2>1 DEF Typed, StateTyped, TypeOK, JobsTyped
  <1>2. ASSUME NEW p \in Procs, NEW i \in Slots, Accounts(p, i)
        PROVE  Typed'
    BY <1>2, RegisterTyped, LoginTyped, ReconcileTyped, ForgetTyped, RememberTyped, SaveTokensTyped,
       CacheSaltTyped, CacheEncTyped, PrefetchTyped DEF Accounts
  <1>3. ASSUME NEW p \in Procs, NEW i \in Slots, Keys(p, i)
        PROVE  Typed'
    BY <1>3, ReadKeyTyped, WrapTyped, SetupEncryptionTyped, GenKeyTyped, WrapCodesTyped, StoreRecoveryCodesTyped,
       GetRecoveryBlobTyped, MarkRecoveryCodeUsedTyped, UnlockTyped, UnlockWithPINTyped, SetPINTyped DEF Keys
  <1>4. ASSUME NEW p \in Procs, NEW i \in Slots, Vaults(p, i)
        PROVE  Typed'
    BY <1>4, NewVaultTyped, CreateVaultTyped, CacheVaultTyped, ListVaultsTyped, CacheListTyped, PruneTyped DEF Vaults
  <1>. QED
    BY <1>1, <1>2, <1>3, <1>4, MessageTyped, CommandTyped, NextOpTyped, EnterTyped, LockKeyTyped, DashboardKeyTyped,
       CodesKeyTyped, AutoLockTyped, KillTyped DEF Next

\* Whatever keys are pressed, jobs race, calls fail and processes are killed: a job
\* at a stage has the fields its use case reads there (client/usecase/auth and
\* client/usecase/vault), and tables, files, sessions and screens keep their types.
THEOREM TypeCorrect == Spec => []TypeOK
  <1>1. Init => Typed
    BY InitTyped
  <1>2. Typed /\ [Next]_vars => Typed'
    BY NextTyped
  <1>3. Typed => TypeOK
    BY DEF Typed, StateTyped
  <1>. QED BY <1>1, <1>2, <1>3, PTL DEF Spec
---------------------------------------------------------------------------
(* What a step does to the jobs of its process.                            *)

\* The other jobs of the process stay at their stages.
OthersStay(p, i) == \A k \in Slots \ {i} : job'[p][k].at = job[p][k].at

\* Only the stage of the job changes, and perhaps its result.
Becomes(p, i, at) ==
    LET j == job[p][i]
        r == job'[p][i]
    IN /\ r.at = at /\ r.op = j.op /\ r.user = j.user /\ r.row = j.row /\ r.key = j.key
       /\ r.alias = j.alias /\ r.pass = j.pass /\ r.code = j.code /\ r.list = j.list
       /\ OthersStay(p, i)

LEMMA PutDoes ==
    ASSUME JobsTyped, NEW p \in Procs, NEW i \in Slots, NEW e, Put(p, i, e)
    PROVE  job'[p][i] = e /\ OthersStay(p, i)
  BY DEF JobsTyped, Put, OthersStay

LEMMA GotoDoes ==
    ASSUME JobsTyped, NEW p \in Procs, NEW i \in Slots, NEW at \in Stages, Goto(p, i, at)
    PROVE  Becomes(p, i, at) /\ job'[p][i].ok = job[p][i].ok
  <1>. DEFINE j == job[p][i]
              e == [j EXCEPT !.at = at]
  <1>1. Fields(e, at, j.op, j.user, j.row, j.key, j.alias, j.pass, j.code, j.list, j.ok)
    BY MoveAt DEF JobsTyped
  <1>2. Put(p, i, e)
    BY DEF Goto
  <1>3. job'[p][i] = e /\ OthersStay(p, i)
    <2>. HIDE DEF e
    <2>. QED BY <1>2, PutDoes
  <1>. HIDE DEF e
  <1>. QED BY <1>1, <1>3 DEF Fields, Becomes

LEMMA ReturnDoes ==
    ASSUME JobsTyped, NEW p \in Procs, NEW i \in Slots, NEW ok \in BOOLEAN, Return(p, i, ok)
    PROVE  Becomes(p, i, "message") /\ job'[p][i].ok = ok
  <1>. DEFINE j == job[p][i]
              e == [j EXCEPT !.at = "message", !.ok = ok]
  <1>1. Fields(e, "message", j.op, j.user, j.row, j.key, j.alias, j.pass, j.code, j.list, ok)
    BY MoveOk DEF JobsTyped, Stages
  <1>2. Put(p, i, e)
    BY DEF Return
  <1>3. job'[p][i] = e /\ OthersStay(p, i)
    <2>. HIDE DEF e
    <2>. QED BY <1>2, PutDoes
  <1>. HIDE DEF e
  <1>. QED BY <1>1, <1>3 DEF Fields, Becomes

Fails(p, i) == Becomes(p, i, "message") /\ ~job'[p][i].ok
Succeeds(p, i) == Becomes(p, i, "message") /\ job'[p][i].ok

LEMMA FailsWhen ==
    ASSUME JobsTyped, NEW p \in Procs, NEW i \in Slots, Return(p, i, FALSE)
    PROVE  Fails(p, i)
  BY ReturnDoes DEF Fails

LEMMA SucceedsWhen ==
    ASSUME JobsTyped, NEW p \in Procs, NEW i \in Slots, Return(p, i, TRUE)
    PROVE  Succeeds(p, i)
  BY ReturnDoes DEF Succeeds

LEMMA RegisterDoes ==
    ASSUME JobsTyped, NEW p \in Procs, NEW i \in Slots, Register(p, i)
    PROVE  /\ job[p][i].at = "register" /\ UNCHANGED <<disk, mem, session, ui, paper, serial>>
           /\ \/ Becomes(p, i, "reconcile") /\ CreateUser(job[p][i].user) /\ account[job[p][i].user] = None
              \/ Fails(p, i) /\ UNCHANGED server
              \/ Fails(p, i) /\ CreateUser(job[p][i].user) /\ account[job[p][i].user] = None
  <1>1. Goto(p, i, "reconcile") => Becomes(p, i, "reconcile")
    BY GotoDoes DEF Stages
  <1>2. Return(p, i, FALSE) => Fails(p, i)
    BY FailsWhen
  <1>. QED BY <1>1, <1>2 DEF Register, Rpc, At

LEMMA LoginDoes ==
    ASSUME Typed, NEW p \in Procs, NEW i \in Slots, Login(p, i)
    PROVE  LET j == job[p][i]
               r == job'[p][i]
               u == IF At(p, i, "login") THEN j.user ELSE tok[DeviceOf[p]]
           IN /\ j.at \in {"login", "refresh"} /\ UNCHANGED <<server, disk, mem, session, ui, paper, serial>>
              /\ \/ Fails(p, i)
                 \/ /\ u \in Users /\ account[u] # None /\ OthersStay(p, i)
                    /\ r.at = "reconcile" /\ r.op = j.op /\ r.user = u /\ r.row = account[u]
  <1>. DEFINE j == job[p][i]
              u == IF At(p, i, "login") THEN j.user ELSE tok[DeviceOf[p]]
              e == [j EXCEPT !.at = "reconcile", !.user = u, !.row = account[u]]
  <1>1. JobOK(j) /\ j.at \in {"login", "refresh"} /\ UNCHANGED <<server, disk, mem, session, ui, paper, serial>>
    BY JobTyped DEF Typed, Login, At, Rpc, server
  <1>2. Return(p, i, FALSE) \/ (Known(u) /\ Put(p, i, e))
    BY DEF Login, Rpc
  <1>3. Return(p, i, FALSE) => Fails(p, i)
    BY FailsWhen DEF Typed
  <1>4. ASSUME Known(u), Put(p, i, e)
        PROVE  /\ u \in Users /\ account[u] # None /\ OthersStay(p, i) /\ job'[p][i].at = "reconcile"
               /\ job'[p][i].op = j.op /\ job'[p][i].user = u /\ job'[p][i].row = account[u]
    <2>1. u \in Users /\ account[u] \in EncRows /\ account[u] # None
      BY <1>1, <1>4, DeviceTyped DEF Known, JobOK, CarriesOf, At, Typed, StateTyped, TypeOK
    <2>2. Fields(e, "reconcile", j.op, u, account[u], j.key, j.alias, j.pass, j.code, j.list, j.ok)
      <3>. HIDE DEF u
      <3>. QED BY <1>1, <2>1, MoveRow DEF JobOK, Stages
    <2>3. job'[p][i] = e /\ OthersStay(p, i)
      <3>. HIDE DEF e
      <3>. QED BY <1>4, PutDoes DEF Typed
    <2>. HIDE DEF u, e
    <2>. QED BY <2>1, <2>2, <2>3 DEF Fields
  <1>. HIDE DEF u, e
  <1>. QED BY <1>1, <1>2, <1>3, <1>4 DEF u

LEMMA ReconcileDoes ==
    ASSUME JobsTyped, NEW p \in Procs, NEW i \in Slots, Reconcile(p, i)
    PROVE  /\ job[p][i].at = "reconcile" /\ UNCHANGED <<server, tok, mem, session, ui, paper, serial, left>>
           /\ \/ /\ Becomes(p, i, "forget")
                 /\ kv' = [kv EXCEPT ![DeviceOf[p]] = EmptyKV] /\ cache' = [cache EXCEPT ![DeviceOf[p]] = {}]
              \/ /\ Becomes(p, i, "remember") /\ UNCHANGED <<kv, cache>>
                 /\ kv[DeviceOf[p]].user \in {None, job[p][i].user}
  <1>1. Goto(p, i, "forget") => Becomes(p, i, "forget")
    BY GotoDoes DEF Stages
  <1>2. Goto(p, i, "remember") => Becomes(p, i, "remember")
    BY GotoDoes DEF Stages
  <1>. QED BY <1>1, <1>2 DEF Reconcile, At

LEMMA ForgetDoes ==
    ASSUME JobsTyped, NEW p \in Procs, NEW i \in Slots, Forget(p, i)
    PROVE  LET j == job[p][i]
               r == job'[p][i]
           IN /\ j.at = "forget" /\ UNCHANGED <<server, disk, ui, paper, serial, left>>
              /\ mk' = [mk EXCEPT ![p] = None] /\ pin' = [pin EXCEPT ![p] = None] /\ mem' = [mem EXCEPT ![p] = EmptyRow]
              /\ r.at = "remember" /\ r.op = j.op /\ r.user = j.user /\ r.row = j.row
              /\ OthersStay(p, i)
  <1>. DEFINE js == Locked(job[p])
              ks == [js EXCEPT ![i].at = "remember"]
              z == js[i]
  <1>1. job[p] \in [Slots -> JobRecs]
    BY DEF JobsTyped
  <1>2. /\ js \in [Slots -> JobRecs]
        /\ \A k \in Slots : js[k].at = job[p][k].at
        /\ z.op = job[p][i].op /\ z.user = job[p][i].user /\ z.row = job[p][i].row
    BY <1>1, LockedSame
  <1>3. /\ ks \in [Slots -> JobRecs]
        /\ \A k \in Slots \ {i} : ks[k] = js[k]
        /\ Fields(ks[i], "remember", z.op, z.user, z.row, z.key, z.alias, z.pass, z.code, z.list, z.ok)
    <2>. HIDE DEF js
    <2>. QED BY <1>2, OneMoves DEF Stages
  <1>4. job'[p] = ks
    BY DEF JobsTyped, Forget
  <1>5. /\ job[p][i].at = "forget" /\ UNCHANGED <<server, disk, ui, paper, serial, left>>
        /\ mk' = [mk EXCEPT ![p] = None] /\ pin' = [pin EXCEPT ![p] = None] /\ mem' = [mem EXCEPT ![p] = EmptyRow]
    BY DEF Forget, At, Lock
  <1>. HIDE DEF ks, js
  <1>. QED BY <1>2, <1>3, <1>4, <1>5 DEF Fields, OthersStay

LEMMA RememberDoes ==
    ASSUME Typed, NEW p \in Procs, NEW i \in Slots, Remember(p, i)
    PROVE  /\ job[p][i].at = "remember" /\ UNCHANGED <<server, cache, tok, mem, session, ui, paper, serial, left>>
           /\ Becomes(p, i, "saveTokens")
           /\ kv'[DeviceOf[p]].user = job[p][i].user /\ kv'[DeviceOf[p]].salt = kv[DeviceOf[p]].salt
           /\ kv'[DeviceOf[p]].enc = kv[DeviceOf[p]].enc
  <1>1. Becomes(p, i, "saveTokens")
    BY GotoDoes DEF Remember, Stages, Typed
  <1>2. /\ kv'[DeviceOf[p]].user = job[p][i].user /\ kv'[DeviceOf[p]].salt = kv[DeviceOf[p]].salt
        /\ kv'[DeviceOf[p]].enc = kv[DeviceOf[p]].enc
    BY DeviceTyped DEF Remember, Typed, StateTyped, TypeOK
  <1>. QED BY <1>1, <1>2 DEF Remember, At

LEMMA SaveTokensDoes ==
    ASSUME JobsTyped, NEW p \in Procs, NEW i \in Slots, SaveTokens(p, i)
    PROVE  LET j == job[p][i]
           IN /\ j.at = "saveTokens" /\ UNCHANGED <<server, kv, cache, session, ui, paper, serial, left>>
              /\ tok' = [tok EXCEPT ![DeviceOf[p]] = j.user]
              /\ \/ j.op = "register" /\ Succeeds(p, i) /\ UNCHANGED mem
                 \/ j.op # "register" /\ Becomes(p, i, "cacheSalt") /\ mem' = [mem EXCEPT ![p] = j.row]
  <1>1. Goto(p, i, "cacheSalt") => Becomes(p, i, "cacheSalt")
    BY GotoDoes DEF Stages
  <1>2. Return(p, i, TRUE) => Succeeds(p, i)
    BY SucceedsWhen
  <1>. QED BY <1>1, <1>2 DEF SaveTokens, At

\* After the row: prefetch, the codes or the end, successful so far.
Persists(p, i) ==
    /\ Becomes(p, i, IF job[p][i].op = "login" THEN "prefetch" ELSE IF job[p][i].op = "setup" THEN "genKey" ELSE "message")
    /\ job'[p][i].ok

LEMMA PersistsWhen ==
    ASSUME Typed, NEW p \in Procs, NEW i \in Slots, At(p, i, "cacheSalt") \/ At(p, i, "cacheEnc"),
           Put(p, i, [job[p][i] EXCEPT !.at = AfterPersist[job[p][i].op], !.ok = TRUE])
    PROVE  Persists(p, i)
  <1>. DEFINE j == job[p][i]
              at == AfterPersist[j.op]
              e == [j EXCEPT !.at = at, !.ok = TRUE]
  <1>1. JobOK(j) /\ j.at \in {"cacheSalt", "cacheEnc"}
    BY JobTyped DEF At, Typed
  <1>2. at = IF j.op = "login" THEN "prefetch" ELSE IF j.op = "setup" THEN "genKey" ELSE "message"
    BY <1>1, Persisted
  <1>3. at \in Stages
    <2>. HIDE DEF at
    <2>. QED BY <1>2 DEF Stages
  <1>4. Fields(e, at, j.op, j.user, j.row, j.key, j.alias, j.pass, j.code, j.list, TRUE)
    <2>. HIDE DEF at
    <2>. QED BY <1>1, <1>3, MoveOk DEF JobOK
  <1>5. job'[p][i] = e /\ OthersStay(p, i)
    <2>. HIDE DEF e
    <2>. QED BY PutDoes DEF Typed, e
  <1>. HIDE DEF e, at
  <1>. QED BY <1>2, <1>4, <1>5 DEF Persists, Becomes, Fields

LEMMA CacheSaltDoes ==
    ASSUME Typed, NEW p \in Procs, NEW i \in Slots, CacheSalt(p, i)
    PROVE  /\ job[p][i].at = "cacheSalt" /\ UNCHANGED <<server, cache, tok, mem, session, ui, paper, serial, left>>
           /\ kv'[DeviceOf[p]].user = kv[DeviceOf[p]].user /\ kv'[DeviceOf[p]].enc = kv[DeviceOf[p]].enc
           /\ Persists(p, i) \/ Becomes(p, i, "cacheEnc")
  <1>1. kv'[DeviceOf[p]].user = kv[DeviceOf[p]].user /\ kv'[DeviceOf[p]].enc = kv[DeviceOf[p]].enc
    BY DeviceTyped DEF CacheSalt, Typed, StateTyped, TypeOK
  <1>2. Goto(p, i, "cacheEnc") => Becomes(p, i, "cacheEnc")
    BY GotoDoes DEF Stages, Typed
  <1>3. Persists(p, i) \/ Goto(p, i, "cacheEnc")
    BY PersistsWhen DEF CacheSalt
  <1>. QED BY <1>1, <1>2, <1>3 DEF CacheSalt, At

LEMMA CacheEncDoes ==
    ASSUME Typed, NEW p \in Procs, NEW i \in Slots, CacheEnc(p, i)
    PROVE  /\ job[p][i].at = "cacheEnc" /\ UNCHANGED <<server, cache, tok, mem, session, ui, paper, serial, left>>
           /\ kv'[DeviceOf[p]].user = kv[DeviceOf[p]].user /\ kv'[DeviceOf[p]].enc = mem[p].enc
           /\ Persists(p, i)
  <1>1. kv'[DeviceOf[p]].user = kv[DeviceOf[p]].user /\ kv'[DeviceOf[p]].enc = mem[p].enc
    BY DeviceTyped DEF CacheEnc, Typed, StateTyped, TypeOK
  <1>2. Persists(p, i)
    BY PersistsWhen DEF CacheEnc
  <1>. QED BY <1>1, <1>2 DEF CacheEnc, At

LEMMA PrefetchDoes ==
    ASSUME Typed, NEW p \in Procs, NEW i \in Slots, Prefetch(p, i)
    PROVE  LET j == job[p][i]
               r == job'[p][i]
           IN /\ j.at = "prefetch" /\ UNCHANGED <<server, disk, mem, session, ui, paper, serial>>
              /\ \/ Succeeds(p, i)
                 \/ /\ r.at = "cacheList" /\ r.op = j.op /\ r.user = j.user /\ r.ok = j.ok
                    /\ r.list = VaultsOf(j.user) /\ OthersStay(p, i)
  <1>. DEFINE j == job[p][i]
              list == VaultsOf(j.user)
              e == [j EXCEPT !.at = "cacheList", !.list = list]
  <1>1. JobOK(j) /\ j.at = "prefetch" /\ UNCHANGED <<server, disk, mem, session, ui, paper, serial>>
    BY JobTyped DEF Typed, Prefetch, At
  <1>2. Fields(e, "cacheList", j.op, j.user, j.row, j.key, j.alias, j.pass, j.code, list, j.ok)
    <2>1. list \in SUBSET CachedVaults
      BY <1>1, VaultsTyped DEF JobOK, CarriesOf
    <2>. HIDE DEF list
    <2>. QED BY <1>1, <2>1, MoveList DEF JobOK, Stages
  <1>3. Return(p, i, TRUE) => Succeeds(p, i)
    BY SucceedsWhen DEF Typed
  <1>4. Put(p, i, e) => job'[p][i] = e /\ OthersStay(p, i)
    <2>. HIDE DEF e
    <2>. QED BY PutDoes DEF Typed
  <1>5. Return(p, i, TRUE) \/ Put(p, i, e)
    BY DEF Prefetch
  <1>. HIDE DEF e, list
  <1>. QED BY <1>1, <1>2, <1>3, <1>4, <1>5 DEF Fields, list

LEMMA ReadKeyDoes ==
    ASSUME Typed, NEW p \in Procs, NEW i \in Slots, ReadKey(p, i)
    PROVE  LET j == job[p][i]
               r == job'[p][i]
           IN /\ j.at = "readKey" /\ UNCHANGED <<server, disk, mem, session, ui, paper, left>>
              /\ r.at = "wrap" /\ r.op = j.op /\ OthersStay(p, i)
              /\ r.key = IF mk[p] # None THEN mk[p] ELSE serial + 1
  <1>. DEFINE j == job[p][i]
              key == IF mk[p] # None THEN mk[p] ELSE serial + 1
              alias == mk[p] # None
              e == [j EXCEPT !.at = "wrap", !.key = key, !.alias = alias]
  <1>1. key \in Nat /\ alias \in BOOLEAN /\ j \in JobRecs
    BY DEF Typed, StateTyped, TypeOK, JobsTyped
  <1>2. Fields(e, "wrap", j.op, j.user, j.row, key, alias, j.pass, j.code, j.list, j.ok)
    <2>. HIDE DEF key, alias
    <2>. QED BY <1>1, MoveKeyAlias DEF Stages
  <1>3. job'[p][i] = e /\ OthersStay(p, i)
    <2>1. Put(p, i, e)
      BY DEF ReadKey
    <2>. HIDE DEF e
    <2>. QED BY <2>1, PutDoes DEF Typed
  <1>4. j.at = "readKey" /\ UNCHANGED <<server, disk, mem, session, ui, paper, left>>
    BY DEF ReadKey, At
  <1>. HIDE DEF e
  <1>. QED BY <1>2, <1>3, <1>4 DEF Fields

LEMMA WrapDoes ==
    ASSUME Typed, NEW p \in Procs, NEW i \in Slots, Wrap(p, i)
    PROVE  LET j == job[p][i]
               r == job'[p][i]
               u == tok[DeviceOf[p]]
           IN /\ j.at = "wrap" /\ UNCHANGED <<server, disk, mem, session, ui, paper, left>>
              /\ \/ Fails(p, i)
                 \/ /\ r.at = "setup" /\ r.op = j.op /\ r.key = j.key /\ r.user = u /\ OthersStay(p, i)
                    /\ r.row.salt # 0 /\ r.row.enc # None /\ r.row.enc.key = j.key
  <1>. DEFINE j == job[p][i]
              u == tok[DeviceOf[p]]
              row == [salt |-> serial + 1, enc |-> [key |-> j.key, pass |-> j.pass, salt |-> serial + 1]]
              e == [j EXCEPT !.at = "setup", !.user = u, !.row = row]
  <1>1. JobOK(j) /\ j.at = "wrap" /\ UNCHANGED <<server, disk, mem, session, ui, paper, left>>
    BY JobTyped DEF Typed, Wrap, At
  <1>2. Return(p, i, FALSE) => Fails(p, i)
    BY FailsWhen DEF Typed
  <1>3. Return(p, i, FALSE) \/ (u # None /\ Put(p, i, e))
    BY DEF Wrap
  <1>4. serial + 1 \in Nat /\ serial + 1 # 0 /\ j.key \in Nat /\ j.pass \in Passwords
    BY <1>1 DEF JobOK, CarriesOf, Typed, StateTyped, TypeOK
  <1>5. row \in EncRows /\ row.salt # 0 /\ row.enc # None /\ row.enc.key = j.key
    <2>. HIDE DEF j
    <2>1. row.enc \in Wrapped
      BY <1>4 DEF Wrapped
    <2>. QED BY <1>4, <2>1, NoneApart DEF EncRows
  <1>6. ASSUME u # None, Put(p, i, e)
        PROVE  /\ job'[p][i].at = "setup" /\ job'[p][i].op = j.op /\ job'[p][i].key = j.key /\ job'[p][i].user = u
               /\ job'[p][i].row = row /\ OthersStay(p, i)
    <2>1. u \in Users
      BY <1>6, DeviceTyped DEF Typed, StateTyped, TypeOK
    <2>2. Fields(e, "setup", j.op, u, row, j.key, j.alias, j.pass, j.code, j.list, j.ok)
      <3>. HIDE DEF row, u
      <3>. QED BY <1>1, <1>5, <2>1, MoveRow DEF JobOK, Stages
    <2>3. job'[p][i] = e /\ OthersStay(p, i)
      <3>. HIDE DEF e
      <3>. QED BY <1>6, PutDoes DEF Typed
    <2>. HIDE DEF e, row, u
    <2>. QED BY <2>2, <2>3 DEF Fields
  <1>. HIDE DEF e, row
  <1>. QED BY <1>1, <1>2, <1>3, <1>5, <1>6

LEMMA HandedDoes ==
    ASSUME JobsTyped, NEW p \in Procs, NEW i \in Slots,
           job' = [job EXCEPT ![p] = [Detached(@, i) EXCEPT ![i].at = "cacheSalt", ![i].alias = FALSE]]
    PROVE  job'[p][i].at = "cacheSalt" /\ job'[p][i].op = job[p][i].op /\ job'[p][i].user = job[p][i].user /\ OthersStay(p, i)
  <1>. DEFINE js == Detached(job[p], i)
              ks == [js EXCEPT ![i].at = "cacheSalt", ![i].alias = FALSE]
              z == js[i]
  <1>1. job[p] \in [Slots -> JobRecs]
    BY DEF JobsTyped
  <1>2. js \in [Slots -> JobRecs] /\ z = job[p][i] /\ \A k \in Slots : js[k].at = job[p][k].at
    BY <1>1, DetachedKeeps
  <1>3. /\ ks \in [Slots -> JobRecs]
        /\ \A k \in Slots \ {i} : ks[k] = js[k]
        /\ Fields(ks[i], "cacheSalt", z.op, z.user, z.row, z.key, FALSE, z.pass, z.code, z.list, z.ok)
    <2>. HIDE DEF js
    <2>. QED BY <1>2, OneHanded DEF Stages
  <1>4. job'[p] = ks
    BY DEF JobsTyped
  <1>. HIDE DEF ks, js
  <1>. QED BY <1>2, <1>3, <1>4 DEF Fields, OthersStay

LEMMA UnlockedDoes ==
    ASSUME JobsTyped, NEW p \in Procs, NEW i \in Slots,
           job' = [job EXCEPT ![p] = [Detached(@, i) EXCEPT ![i].at = "message", ![i].ok = TRUE]]
    PROVE  Succeeds(p, i)
  <1>. DEFINE js == Detached(job[p], i)
              ks == [js EXCEPT ![i].at = "message", ![i].ok = TRUE]
              z == js[i]
  <1>1. job[p] \in [Slots -> JobRecs]
    BY DEF JobsTyped
  <1>2. js \in [Slots -> JobRecs] /\ z = job[p][i] /\ \A k \in Slots : js[k].at = job[p][k].at
    BY <1>1, DetachedKeeps
  <1>3. /\ ks \in [Slots -> JobRecs]
        /\ \A k \in Slots \ {i} : ks[k] = js[k]
        /\ Fields(ks[i], "message", z.op, z.user, z.row, z.key, z.alias, z.pass, z.code, z.list, TRUE)
    <2>. HIDE DEF js
    <2>. QED BY <1>2, OneDone DEF Stages
  <1>4. job'[p] = ks
    BY DEF JobsTyped
  <1>. HIDE DEF ks, js
  <1>. QED BY <1>2, <1>3, <1>4 DEF Fields, OthersStay, Succeeds, Becomes

LEMMA SetupEncryptionDoes ==
    ASSUME JobsTyped, NEW p \in Procs, NEW i \in Slots, SetupEncryption(p, i)
    PROVE  LET j == job[p][i]
               r == job'[p][i]
           IN /\ j.at = "setup" /\ UNCHANGED <<disk, ui, paper, serial>>
              /\ \/ /\ r.at = "cacheSalt" /\ r.op = j.op /\ r.user = j.user /\ OthersStay(p, i)
                    /\ UpdateEncKDF(j.user, j.row) /\ SetMasterKey(p, j.key) /\ mem' = [mem EXCEPT ![p] = j.row]
                 \/ Fails(p, i) /\ UNCHANGED <<session, mem>> /\ (UNCHANGED server \/ Spend("replies"))
  <1>1. Return(p, i, FALSE) => Fails(p, i)
    BY FailsWhen
  <1>2. job' = [job EXCEPT ![p] = [Detached(@, i) EXCEPT ![i].at = "cacheSalt", ![i].alias = FALSE]]
           => job'[p][i].at = "cacheSalt" /\ job'[p][i].op = job[p][i].op /\ job'[p][i].user = job[p][i].user /\ OthersStay(p, i)
    BY HandedDoes
  <1>. QED BY <1>1, <1>2 DEF SetupEncryption, Rpc, At

LEMMA GenKeyDoes ==
    ASSUME Typed, NEW p \in Procs, NEW i \in Slots, GenKey(p, i)
    PROVE  LET j == job[p][i]
               r == job'[p][i]
           IN /\ j.at = "genKey" /\ UNCHANGED <<server, disk, mem, session, ui, paper, serial, left>>
              /\ \/ Succeeds(p, i)
                 \/ r.at = "wrapCodes" /\ r.op = j.op /\ mk[p] # None /\ r.key = mk[p] /\ OthersStay(p, i)
  <1>. DEFINE j == job[p][i]
              e == [j EXCEPT !.at = "wrapCodes", !.key = mk[p], !.alias = TRUE]
  <1>1. j \in JobRecs /\ j.at = "genKey" /\ UNCHANGED <<server, disk, mem, session, ui, paper, serial, left>>
    BY DEF Typed, JobsTyped, GenKey, At
  <1>2. Return(p, i, TRUE) => Succeeds(p, i)
    BY SucceedsWhen DEF Typed
  <1>3. Return(p, i, TRUE) \/ (mk[p] # None /\ Put(p, i, e))
    BY DEF GenKey
  <1>4. ASSUME mk[p] # None, Put(p, i, e)
        PROVE  job'[p][i].at = "wrapCodes" /\ job'[p][i].op = j.op /\ job'[p][i].key = mk[p] /\ OthersStay(p, i)
    <2>1. mk[p] \in Nat
      BY <1>4 DEF Typed, StateTyped, TypeOK
    <2>2. Fields(e, "wrapCodes", j.op, j.user, j.row, mk[p], TRUE, j.pass, j.code, j.list, j.ok)
      BY <1>1, <2>1, MoveKeyAlias DEF Stages
    <2>3. job'[p][i] = e /\ OthersStay(p, i)
      <3>. HIDE DEF e
      <3>. QED BY <1>4, PutDoes DEF Typed
    <2>. HIDE DEF e
    <2>. QED BY <2>2, <2>3 DEF Fields
  <1>. HIDE DEF e
  <1>. QED BY <1>1, <1>2, <1>3, <1>4

LEMMA WrapCodesDoes ==
    ASSUME Typed, NEW p \in Procs, NEW i \in Slots, WrapCodes(p, i)
    PROVE  LET j == job[p][i]
               r == job'[p][i]
           IN /\ j.at = "wrapCodes" /\ UNCHANGED <<server, disk, mem, session, ui, paper, left>>
              /\ r.at = "storeCodes" /\ r.op = j.op /\ r.key = j.key /\ r.user = tok[DeviceOf[p]] /\ OthersStay(p, i)
  <1>. DEFINE j == job[p][i]
              u == tok[DeviceOf[p]]
              code == serial + 1
              e == [j EXCEPT !.at = "storeCodes", !.user = u, !.code = code, !.alias = FALSE]
  <1>1. j \in JobRecs /\ j.at = "wrapCodes" /\ UNCHANGED <<server, disk, mem, session, ui, paper, left>>
    BY DEF Typed, JobsTyped, WrapCodes, At
  <1>2. u \in Users \cup {None} /\ code \in Nat
    BY DeviceTyped DEF Typed, StateTyped, TypeOK
  <1>3. Fields(e, "storeCodes", j.op, u, j.row, j.key, FALSE, j.pass, code, j.list, j.ok)
    <2>. HIDE DEF u, code
    <2>. QED BY <1>1, <1>2, MoveCode DEF Stages
  <1>4. job'[p][i] = e /\ OthersStay(p, i)
    <2>1. Put(p, i, e)
      BY DEF WrapCodes
    <2>. HIDE DEF e
    <2>. QED BY <2>1, PutDoes DEF Typed
  <1>. HIDE DEF e
  <1>. QED BY <1>1, <1>3, <1>4 DEF Fields

LEMMA StoreRecoveryCodesDoes ==
    ASSUME Typed, NEW p \in Procs, NEW i \in Slots, StoreRecoveryCodes(p, i)
    PROVE  LET j == job[p][i]
               r == job'[p][i]
           IN /\ j.at = "storeCodes" /\ UNCHANGED <<disk, mem, session, ui, serial>>
              /\ UNCHANGED server \/ \E n \in 0..CodeCount : StoreCodes(j.user, j.code, j.key, n)
              /\ \/ Succeeds(p, i)
                 \/ r.at = "message" /\ r.op = "codes" /\ r.ok /\ OthersStay(p, i)
  <1>. DEFINE j == job[p][i]
              e == [j EXCEPT !.at = "message", !.op = "codes", !.ok = TRUE]
  <1>1. j \in JobRecs /\ j.at = "storeCodes" /\ UNCHANGED <<disk, mem, session, ui, serial>>
    BY DEF Typed, JobsTyped, StoreRecoveryCodes, At
  <1>2. UNCHANGED server \/ \E n \in 0..CodeCount : StoreCodes(j.user, j.code, j.key, n)
    <2>1. CodeCount \in 0..CodeCount /\ 0..(CodeCount - 1) \subseteq 0..CodeCount
      BY Bounds
    <2>. HIDE DEF e
    <2>. QED BY <2>1 DEF StoreRecoveryCodes, Rpc
  <1>3. Return(p, i, TRUE) \/ Put(p, i, e)
    BY DEF StoreRecoveryCodes, Rpc
  <1>4. Return(p, i, TRUE) => Succeeds(p, i)
    BY SucceedsWhen DEF Typed
  <1>5. Fields(e, "message", "codes", j.user, j.row, j.key, j.alias, j.pass, j.code, j.list, TRUE)
    BY <1>1, MoveOpOk DEF Stages, Ops
  <1>6. Put(p, i, e) => job'[p][i] = e /\ OthersStay(p, i)
    <2>. HIDE DEF e
    <2>. QED BY PutDoes DEF Typed
  <1>. HIDE DEF e
  <1>. QED BY <1>1, <1>2, <1>3, <1>4, <1>5, <1>6 DEF Fields

LEMMA GetRecoveryBlobDoes ==
    ASSUME Typed, NEW p \in Procs, NEW i \in Slots, GetRecoveryBlob(p, i)
    PROVE  LET j == job[p][i]
               r == job'[p][i]
           IN /\ j.at = "getBlob" /\ UNCHANGED <<server, disk, mem, session, ui, paper, serial>>
              /\ \/ Fails(p, i)
                 \/ /\ r.at = "markUsed" /\ r.op = j.op /\ r.user = j.user /\ OthersStay(p, i)
                    /\ j.user \in Users /\ \E c \in codes[j.user] : ~c.used /\ c.key \in Nat /\ r.key = c.key
  <1>. DEFINE j == job[p][i]
              e(c) == [j EXCEPT !.at = "markUsed", !.key = c.key]
              rows == IF j.user = None THEN {} ELSE GetBlob(j.user, j.code)
  <1>1. JobOK(j) /\ j.at = "getBlob"
    BY JobTyped DEF Typed, GetRecoveryBlob, At
  <1>2. UNCHANGED <<server, disk, mem, session, ui, paper, serial>>
    <2>. HIDE DEF e
    <2>. QED BY DEF GetRecoveryBlob, Rpc
  <1>3. Return(p, i, FALSE) => Fails(p, i)
    BY FailsWhen DEF Typed
  <1>4. Return(p, i, FALSE) \/ \E c \in rows : Put(p, i, e(c))
    BY DEF GetRecoveryBlob, Rpc
  <1>5. ASSUME NEW c \in rows, Put(p, i, e(c))
        PROVE  /\ job'[p][i].at = "markUsed" /\ job'[p][i].op = j.op /\ job'[p][i].user = j.user /\ OthersStay(p, i)
               /\ j.user \in Users /\ c \in codes[j.user] /\ ~c.used /\ c.key \in Nat /\ job'[p][i].key = c.key
    <2>1. j.user \in Users
      BY <1>1, <1>5 DEF JobOK, JobRecs
    <2>2. c \in codes[j.user] /\ ~c.used /\ c.key \in Nat
      BY <1>5, <2>1 DEF GetBlob, Typed, StateTyped, CodeRows
    <2>3. Fields(e(c), "markUsed", j.op, j.user, j.row, c.key, j.alias, j.pass, j.code, j.list, j.ok)
      BY <1>1, <2>2, MoveKey DEF JobOK, Stages
    <2>4. job'[p][i] = e(c) /\ OthersStay(p, i)
      <3>. HIDE DEF e
      <3>. QED BY <1>5, PutDoes DEF Typed
    <2>. HIDE DEF e
    <2>. QED BY <2>1, <2>2, <2>3, <2>4 DEF Fields
  <1>. HIDE DEF e, rows
  <1>. QED BY <1>1, <1>2, <1>3, <1>4, <1>5

LEMMA MarkRecoveryCodeUsedDoes ==
    ASSUME JobsTyped, NEW p \in Procs, NEW i \in Slots, MarkRecoveryCodeUsed(p, i)
    PROVE  LET j == job[p][i]
           IN /\ j.at = "markUsed" /\ UNCHANGED <<disk, mem, ui, paper, serial>>
              /\ MarkUsed(j.user, j.code) \/ UNCHANGED server
              /\ SetMasterKey(p, j.key) /\ Succeeds(p, i)
  BY UnlockedDoes DEF MarkRecoveryCodeUsed, At

LEMMA UnlockDoes ==
    ASSUME JobsTyped, NEW p \in Procs, NEW i \in Slots, Unlock(p, i)
    PROVE  /\ job[p][i].at = "unlock" /\ UNCHANGED <<server, disk, mem, ui, paper, serial, left>>
           /\ \/ Succeeds(p, i) /\ mem[p].enc # None /\ SetMasterKey(p, mem[p].enc.key)
              \/ Fails(p, i) /\ UNCHANGED session
  BY UnlockedDoes, FailsWhen DEF Unlock, Opens, At

LEMMA UnlockWithPINDoes ==
    ASSUME JobsTyped, NEW p \in Procs, NEW i \in Slots, UnlockWithPIN(p, i)
    PROVE  /\ job[p][i].at = "unlockPIN" /\ UNCHANGED <<server, disk, mem, ui, paper, serial, left>>
           /\ \/ Succeeds(p, i) /\ job[p][i].key # None /\ SetMasterKey(p, job[p][i].key)
              \/ Fails(p, i) /\ UNCHANGED session
  BY UnlockedDoes, FailsWhen DEF UnlockWithPIN, At

LEMMA SetPINDoes ==
    ASSUME JobsTyped, NEW p \in Procs, NEW i \in Slots, SetPIN(p, i)
    PROVE  /\ job[p][i].at = "setPIN" /\ UNCHANGED <<server, disk, mem, mk, ui, paper, serial, left>>
           /\ \/ Succeeds(p, i) /\ job[p][i].key # None /\ pin' = [pin EXCEPT ![p] = job[p][i].key]
              \/ Fails(p, i) /\ UNCHANGED pin
  BY SucceedsWhen, FailsWhen DEF SetPIN, At

LEMMA NewVaultDoes ==
    ASSUME Typed, NEW p \in Procs, NEW i \in Slots, NewVault(p, i)
    PROVE  LET j == job[p][i]
               r == job'[p][i]
           IN /\ j.at = "newVault" /\ UNCHANGED <<server, disk, mem, session, ui, paper, serial, left>>
              /\ \/ Fails(p, i)
                 \/ /\ r.at = "createVault" /\ r.op = j.op /\ r.alias = j.alias /\ OthersStay(p, i)
                    /\ mk[p] # None /\ r.key = mk[p] /\ r.user = tok[DeviceOf[p]]
  <1>. DEFINE j == job[p][i]
              u == tok[DeviceOf[p]]
              e == [j EXCEPT !.at = "createVault", !.key = mk[p], !.user = u]
  <1>1. j \in JobRecs /\ j.at = "newVault" /\ UNCHANGED <<server, disk, mem, session, ui, paper, serial, left>>
    BY DEF Typed, JobsTyped, NewVault, At
  <1>2. Return(p, i, FALSE) => Fails(p, i)
    BY FailsWhen DEF Typed
  <1>3. Return(p, i, FALSE) \/ (mk[p] # None /\ u # None /\ Put(p, i, e))
    BY DEF NewVault
  <1>4. ASSUME mk[p] # None, u # None, Put(p, i, e)
        PROVE  /\ job'[p][i].at = "createVault" /\ job'[p][i].op = j.op /\ job'[p][i].alias = j.alias
               /\ job'[p][i].key = mk[p] /\ job'[p][i].user = u /\ OthersStay(p, i)
    <2>1. mk[p] \in Nat /\ u \in Users
      BY <1>4, DeviceTyped DEF Typed, StateTyped, TypeOK
    <2>2. Fields(e, "createVault", j.op, u, j.row, mk[p], j.alias, j.pass, j.code, j.list, j.ok)
      <3>. HIDE DEF u
      <3>. QED BY <1>1, <2>1, MoveKeyUser DEF Stages
    <2>3. job'[p][i] = e /\ OthersStay(p, i)
      <3>. HIDE DEF e
      <3>. QED BY <1>4, PutDoes DEF Typed
    <2>. HIDE DEF e
    <2>. QED BY <2>2, <2>3 DEF Fields
  <1>. HIDE DEF e
  <1>. QED BY <1>1, <1>2, <1>3, <1>4

LEMMA CreateVaultDoes ==
    ASSUME JobsTyped, NEW p \in Procs, NEW i \in Slots, CreateVault(p, i)
    PROVE  /\ job[p][i].at = "createVault" /\ UNCHANGED <<disk, mem, session, ui, paper, serial>>
           /\ UNCHANGED server \/ InsertVault(job[p][i].user, job[p][i].key)
           /\ Becomes(p, i, "cacheVault") \/ Fails(p, i)
  <1>1. Goto(p, i, "cacheVault") => Becomes(p, i, "cacheVault")
    BY GotoDoes DEF Stages
  <1>. QED BY <1>1, FailsWhen DEF CreateVault, Rpc, At

LEMMA CacheVaultDoes ==
    ASSUME Typed, NEW p \in Procs, NEW i \in Slots, CacheVault(p, i)
    PROVE  /\ job[p][i].at = "cacheVault" /\ UNCHANGED <<server, kv, tok, mem, session, ui, paper, serial, left>>
           /\ cache'[DeviceOf[p]] = cache[DeviceOf[p]] \cup {[user |-> job[p][i].user, key |-> job[p][i].key]}
           /\ Succeeds(p, i)
  BY SucceedsWhen, DeviceTyped DEF CacheVault, At, Typed, StateTyped

LEMMA ListVaultsDoes ==
    ASSUME Typed, NEW p \in Procs, NEW i \in Slots, ListVaults(p, i)
    PROVE  LET j == job[p][i]
               r == job'[p][i]
               u == tok[DeviceOf[p]]
           IN /\ j.at = "listVaults" /\ UNCHANGED <<server, disk, mem, session, ui, paper, serial>>
              /\ \/ Fails(p, i)
                 \/ r.at = "cacheList" /\ r.op = j.op /\ r.user = u /\ r.list = VaultsOf(u) /\ OthersStay(p, i)
  <1>. DEFINE j == job[p][i]
              u == tok[DeviceOf[p]]
              list == VaultsOf(u)
              e == [j EXCEPT !.at = "cacheList", !.key = mk[p], !.alias = TRUE, !.user = u, !.list = list]
  <1>1. j \in JobRecs /\ j.at = "listVaults" /\ UNCHANGED <<server, disk, mem, session, ui, paper, serial>>
    BY DEF Typed, JobsTyped, ListVaults, At
  <1>2. Return(p, i, FALSE) => Fails(p, i)
    BY FailsWhen DEF Typed
  <1>3. Return(p, i, FALSE) \/ (mk[p] # None /\ u # None /\ Put(p, i, e))
    BY DEF ListVaults
  <1>4. ASSUME mk[p] # None, u # None, Put(p, i, e)
        PROVE  job'[p][i].at = "cacheList" /\ job'[p][i].op = j.op /\ job'[p][i].user = u /\ job'[p][i].list = list
               /\ OthersStay(p, i)
    <2>1. mk[p] \in Nat /\ u \in Users
      BY <1>4, DeviceTyped DEF Typed, StateTyped, TypeOK
    <2>2. list \in SUBSET CachedVaults
      <3>. HIDE DEF u
      <3>. QED BY <2>1, VaultsTyped
    <2>3. Fields(e, "cacheList", j.op, u, j.row, mk[p], TRUE, j.pass, j.code, list, j.ok)
      <3>. HIDE DEF u, list
      <3>. QED BY <1>1, <2>1, <2>2, MoveKeyList DEF Stages
    <2>4. job'[p][i] = e /\ OthersStay(p, i)
      <3>. HIDE DEF e
      <3>. QED BY <1>4, PutDoes DEF Typed
    <2>. HIDE DEF e, list
    <2>. QED BY <2>3, <2>4 DEF Fields
  <1>. HIDE DEF e
  <1>. QED BY <1>1, <1>2, <1>3, <1>4

LEMMA CacheListDoes ==
    ASSUME Typed, NEW p \in Procs, NEW i \in Slots, CacheList(p, i)
    PROVE  /\ job[p][i].at = "cacheList" /\ UNCHANGED <<server, kv, tok, mem, session, ui, paper, serial, left>>
           /\ cache'[DeviceOf[p]] \subseteq cache[DeviceOf[p]] \cup job[p][i].list
           /\ Succeeds(p, i) \/ (job[p][i].op = "list" /\ Becomes(p, i, "prune"))
  <1>1. Goto(p, i, "prune") => Becomes(p, i, "prune")
    BY GotoDoes DEF Stages, Typed
  <1>2. Return(p, i, TRUE) => Succeeds(p, i)
    BY SucceedsWhen DEF Typed
  <1>3. cache'[DeviceOf[p]] \subseteq cache[DeviceOf[p]] \cup job[p][i].list
    BY DeviceTyped DEF CacheList, Typed, StateTyped
  <1>. QED BY <1>1, <1>2, <1>3 DEF CacheList, At

LEMMA PruneDoes ==
    ASSUME Typed, NEW p \in Procs, NEW i \in Slots, PruneStaleVaults(p, i)
    PROVE  /\ job[p][i].at = "prune" /\ UNCHANGED <<server, kv, tok, mem, session, ui, paper, serial, left>>
           /\ cache'[DeviceOf[p]] \subseteq cache[DeviceOf[p]]
           /\ Succeeds(p, i)
  BY SucceedsWhen, DeviceTyped DEF PruneStaleVaults, At, Typed, StateTyped
---------------------------------------------------------------------------
\* No key is pressed while a job runs, every process has files of its own, and
\* no set-up is asked for on the CLI but after a recovery.
Orderly ==
    /\ Impatient = FALSE
    /\ \A p, q \in Procs : DeviceOf[p] = DeviceOf[q] => p = q
    /\ "setup" \notin Commands

Logins == {"login", "register", "refresh"}

\* The files of a device name one account.
Settled(d) == tok[d] # None /\ kv[d].user = tok[d]

OneJob(p) == \A i, k \in Slots : At(p, i, "idle") \/ At(p, k, "idle") \/ i = k

\* Stages that act for the account of the files.
Acting == {"setup", "cacheSalt", "cacheEnc", "storeCodes", "getBlob", "markUsed", "prefetch", "cacheList", "prune",
           "createVault", "cacheVault"}

\* Everything but a login that is under way or failed needs settled files.
NeedsSettled(j) ==
    /\ j.at # "idle"
    /\ \/ j.op \notin Logins
       \/ j.at \in {"cacheSalt", "cacheEnc", "prefetch", "cacheList"}
       \/ j.at = "message" /\ j.ok

\* The screen on which a job of the TUI runs.
ShownFor(op, screen) ==
    /\ op \in {"login", "register"} => screen = "login"
    /\ op \in {"setup", "codes"} => screen = "setup"
    /\ op \in {"unlock", "unlockPIN", "setPIN", "recover"} => screen = "lock"
    /\ op \in {"vault", "list"} => screen \in {"dashboard", "codes", "lock"}
    /\ op # "refresh"

JobSettled(p, i) ==
    LET d == DeviceOf[p]
        j == job[p][i]
    IN /\ j.at = "forget" => kv[d].user = None
       /\ j.at = "remember" => kv[d].user \in {None, j.user}
       /\ j.at = "saveTokens" => kv[d].user = j.user
       /\ NeedsSettled(j) => Settled(d)
       /\ j.at \in Acting => j.user = tok[d]
       /\ j.at \in {"cacheList", "prune"} => \A v \in j.list : v.user = j.user
       /\ p \in Tui /\ j.at # "idle" => ShownFor(j.op, ui[p].screen)

\* Whoever is past the login screen works for the account of the files.
Screened(p) == p \in Tui /\ ui[p].screen # "login" => Settled(DeviceOf[p])

ProcSettled(p) == OneJob(p) /\ Screened(p) /\ \A i \in Slots : JobSettled(p, i)

FilesSettled(d) ==
    /\ kv[d].enc # None => Settled(d)
    /\ \A v \in cache[d] : v.user = kv[d].user

SettledInv ==
    /\ \A d \in Devices : FilesSettled(d)
    /\ \A p \in Procs : ProcSettled(p)


SettledAt(p) == ProcSettled(p) /\ FilesSettled(DeviceOf[p])

---------------------------------------------------------------------------
(* Layer 2: the files of the device and the jobs that use them.            *)

\* The only job of a process moves on.
LEMMA Alone ==
    ASSUME JobsTyped', NEW p \in Procs, NEW i \in Slots, ~At(p, i, "idle"), OneJob(p), OthersStay(p, i),
           JobSettled(p, i)', Screened(p)'
    PROVE  ProcSettled(p)'
  <1>1. \A k \in Slots \ {i} : job'[p][k].at = "idle"
    BY DEF OneJob, OthersStay, At
  <1>2. OneJob(p)'
    BY <1>1 DEF OneJob, At
  <1>3. ASSUME NEW k \in Slots
        PROVE  JobSettled(p, k)'
    <2>1. CASE k = i
      BY <2>1
    <2>2. CASE k # i
      <3>1. job'[p][k].at = "idle"
        BY <1>1, <2>2
      <3>. QED BY <3>1 DEF JobSettled, NeedsSettled, Acting
    <2>. QED BY <2>1, <2>2
  <1>. QED BY <1>2, <1>3 DEF ProcSettled

\* Stages of which JobSettled asks something more.
Special == Acting \cup {"forget", "remember", "saveTokens"}

\* A job that moves on to a stage where no more is asked of it.
LEMMA Continues ==
    ASSUME Typed, JobsTyped', NEW p \in Procs, NEW i \in Slots, SettledAt(p), ~At(p, i, "idle"), OthersStay(p, i),
           UNCHANGED <<kv, cache, tok, ui>>, job'[p][i].op = job[p][i].op,
           NeedsSettled(job'[p][i]) => NeedsSettled(job[p][i]),
           job'[p][i].at \in Special => job'[p][i].at \in Acting /\ job'[p][i].user = tok[DeviceOf[p]],
           job'[p][i].at \in {"cacheList", "prune"} => \A v \in job'[p][i].list : v.user = job'[p][i].user
    PROVE  SettledAt(p)'
  <1>1. JobSettled(p, i)
    BY DEF SettledAt, ProcSettled
  <1>2. Settled(DeviceOf[p]) => Settled(DeviceOf[p])'
    BY DEF Settled
  <1>3. JobSettled(p, i)'
    <2>1. NeedsSettled(job[p][i]) => Settled(DeviceOf[p])
      BY <1>1 DEF JobSettled
    <2>2. p \in Tui => ShownFor(job'[p][i].op, ui'[p].screen)
      BY <1>1 DEF JobSettled, At
    <2>. QED BY <1>2, <2>1, <2>2 DEF JobSettled, Special, Acting
  <1>4. Screened(p)'
    BY <1>2 DEF SettledAt, ProcSettled, Screened
  <1>5. FilesSettled(DeviceOf[p])'
    BY <1>2 DEF SettledAt, FilesSettled
  <1>6. OneJob(p)
    BY DEF SettledAt, ProcSettled
  <1>. QED BY <1>3, <1>4, <1>5, <1>6, Alone DEF SettledAt

LEMMA FailureSettled ==
    ASSUME Typed, JobsTyped', NEW p \in Procs, NEW i \in Slots, SettledAt(p), ~At(p, i, "idle"), Fails(p, i),
           UNCHANGED <<kv, cache, tok, ui>>
    PROVE  SettledAt(p)'
  <1>1. /\ job'[p][i].at = "message" /\ ~job'[p][i].ok /\ job'[p][i].op = job[p][i].op /\ OthersStay(p, i)
    BY DEF Fails, Becomes
  <1>2. NeedsSettled(job'[p][i]) => NeedsSettled(job[p][i])
    BY <1>1 DEF NeedsSettled, At
  <1>. QED BY <1>1, <1>2, Continues DEF Special, Acting

LEMMA SuccessSettled ==
    ASSUME Typed, JobsTyped', NEW p \in Procs, NEW i \in Slots, SettledAt(p), ~At(p, i, "idle"), Succeeds(p, i),
           UNCHANGED <<kv, cache, tok, ui>>, NeedsSettled(job[p][i])
    PROVE  SettledAt(p)'
  <1>1. job'[p][i].at = "message" /\ job'[p][i].op = job[p][i].op /\ OthersStay(p, i)
    BY DEF Succeeds, Becomes
  <1>. QED BY <1>1, Continues DEF Special, Acting

LEMMA RegisterSettled ==
    ASSUME Typed, JobsTyped', NEW p \in Procs, NEW i \in Slots, SettledAt(p), Register(p, i)
    PROVE  SettledAt(p)'
  <1>1. /\ job[p][i].at = "register" /\ UNCHANGED <<kv, cache, tok, ui>>
        /\ Becomes(p, i, "reconcile") \/ Fails(p, i)
    BY RegisterDoes DEF Typed, disk
  <1>2. job[p][i].op = "register" /\ ~At(p, i, "idle")
    BY <1>1, JobTyped DEF Typed, JobOK, StageOf, At
  <1>3. CASE Becomes(p, i, "reconcile")
    BY <1>1, <1>2, <1>3, Continues DEF Becomes, NeedsSettled, Logins, Special, Acting
  <1>. QED BY <1>1, <1>2, <1>3, FailureSettled

LEMMA LoginSettled ==
    ASSUME Typed, JobsTyped', NEW p \in Procs, NEW i \in Slots, SettledAt(p), Login(p, i)
    PROVE  SettledAt(p)'
  <1>1. /\ job[p][i].at \in {"login", "refresh"} /\ UNCHANGED <<kv, cache, tok, ui>>
        /\ Fails(p, i) \/ (OthersStay(p, i) /\ job'[p][i].at = "reconcile" /\ job'[p][i].op = job[p][i].op)
    BY LoginDoes DEF disk
  <1>2. job[p][i].op \in Logins /\ ~At(p, i, "idle")
    BY <1>1, JobTyped DEF Typed, JobOK, StageOf, At, Logins
  <1>3. CASE OthersStay(p, i) /\ job'[p][i].at = "reconcile" /\ job'[p][i].op = job[p][i].op
    BY <1>1, <1>2, <1>3, Continues DEF NeedsSettled, Special, Acting
  <1>. QED BY <1>1, <1>2, <1>3, FailureSettled

\* A job between the answer of a login and the tokens: the login screen is shown,
\* and nothing is asked of the files.
LEMMA Entering ==
    ASSUME Typed, JobsTyped', NEW p \in Procs, NEW i \in Slots, ProcSettled(p), job[p][i].at \in Taking,
           OthersStay(p, i), UNCHANGED ui, job'[p][i].op = job[p][i].op, job'[p][i].at \in {"forget", "remember", "saveTokens"},
           job'[p][i].at = "forget" => kv'[DeviceOf[p]].user = None,
           job'[p][i].at = "remember" => kv'[DeviceOf[p]].user \in {None, job'[p][i].user},
           job'[p][i].at = "saveTokens" => kv'[DeviceOf[p]].user = job'[p][i].user
    PROVE  ProcSettled(p)'
  <1>1. job[p][i].op \in Logins /\ ~At(p, i, "idle")
    BY JobTyped DEF Typed, JobOK, StageOf, At, Taking, Logins
  <1>2. JobSettled(p, i) /\ OneJob(p)
    BY DEF ProcSettled
  <1>3. p \in Tui => ShownFor(job[p][i].op, ui[p].screen)
    BY <1>1, <1>2 DEF JobSettled, At
  <1>4. Screened(p)'
    BY <1>1, <1>3 DEF Screened, ShownFor, Logins
  <1>5. ~NeedsSettled(job'[p][i])
    BY <1>1 DEF NeedsSettled
  <1>6. JobSettled(p, i)'
    BY <1>3, <1>5 DEF JobSettled, Acting
  <1>. QED BY <1>1, <1>2, <1>4, <1>6, Alone

LEMMA ReconcileSettled ==
    ASSUME Typed, JobsTyped', NEW p \in Procs, NEW i \in Slots, SettledAt(p), Reconcile(p, i)
    PROVE  SettledAt(p)'
  <1>. DEFINE d == DeviceOf[p]
  <1>1. /\ job[p][i].at = "reconcile" /\ UNCHANGED <<tok, ui>>
        /\ \/ /\ Becomes(p, i, "forget") /\ kv' = [kv EXCEPT ![d] = EmptyKV] /\ cache' = [cache EXCEPT ![d] = {}]
           \/ Becomes(p, i, "remember") /\ UNCHANGED <<kv, cache>> /\ kv[d].user \in {None, job[p][i].user}
    BY ReconcileDoes DEF Typed
  <1>2. CASE Becomes(p, i, "forget") /\ kv' = [kv EXCEPT ![d] = EmptyKV] /\ cache' = [cache EXCEPT ![d] = {}]
    <2>1. kv'[d] = EmptyKV /\ cache'[d] = {}
      BY <1>2, DeviceTyped DEF Typed, StateTyped, TypeOK
    <2>2. EmptyKV.user = None /\ EmptyKV.enc = None
      BY DEF EmptyKV
    <2>3. FilesSettled(d)'
      BY <2>1, <2>2 DEF FilesSettled
    <2>4. ProcSettled(p)'
      BY <1>1, <1>2, <2>1, <2>2, Entering DEF Becomes, SettledAt, Taking
    <2>. QED BY <2>3, <2>4 DEF SettledAt
  <1>3. CASE Becomes(p, i, "remember") /\ UNCHANGED <<kv, cache>> /\ kv[d].user \in {None, job[p][i].user}
    <2>1. FilesSettled(d)'
      BY <1>1, <1>3 DEF SettledAt, FilesSettled, Settled
    <2>2. ProcSettled(p)'
      BY <1>1, <1>3, Entering DEF Becomes, SettledAt, Taking
    <2>. QED BY <2>1, <2>2 DEF SettledAt
  <1>. QED BY <1>1, <1>2, <1>3

LEMMA ForgetSettled ==
    ASSUME Typed, JobsTyped', NEW p \in Procs, NEW i \in Slots, SettledAt(p), Forget(p, i)
    PROVE  SettledAt(p)'
  <1>1. /\ job[p][i].at = "forget" /\ UNCHANGED <<kv, cache, tok, ui>>
        /\ job'[p][i].at = "remember" /\ job'[p][i].op = job[p][i].op /\ OthersStay(p, i)
    BY ForgetDoes DEF Typed, disk
  <1>2. kv[DeviceOf[p]].user = None
    BY <1>1 DEF SettledAt, ProcSettled, JobSettled
  <1>3. ProcSettled(p)'
    BY <1>1, <1>2, Entering DEF SettledAt, Taking
  <1>. QED BY <1>1, <1>3 DEF SettledAt, FilesSettled, Settled

LEMMA RememberSettled ==
    ASSUME Typed, JobsTyped', NEW p \in Procs, NEW i \in Slots, SettledAt(p), Remember(p, i)
    PROVE  SettledAt(p)'
  <1>. DEFINE d == DeviceOf[p]
  <1>1. /\ job[p][i].at = "remember" /\ UNCHANGED <<cache, tok, ui>> /\ Becomes(p, i, "saveTokens")
        /\ kv'[d].user = job[p][i].user /\ kv'[d].enc = kv[d].enc
    BY RememberDoes
  <1>2. kv[d].user \in {None, job[p][i].user}
    BY <1>1 DEF SettledAt, ProcSettled, JobSettled
  <1>3. ProcSettled(p)'
    BY <1>1, Entering DEF SettledAt, Taking, Becomes
  <1>4. \A v \in cache[d] : v.user \in Users /\ v.user = kv[d].user
    BY DeviceTyped DEF SettledAt, FilesSettled, Typed, StateTyped, TypeOK
  <1>5. \A v \in cache'[d] : v.user = kv'[d].user
    BY <1>1, <1>2, <1>4, NoneApart
  <1>6. kv[d].enc # None => Settled(d)
    BY DEF SettledAt, FilesSettled
  <1>7. kv'[d].enc # None => Settled(d)'
    BY <1>1, <1>2, <1>6 DEF Settled
  <1>. QED BY <1>3, <1>5, <1>7 DEF SettledAt, FilesSettled

LEMMA SaveTokensSettled ==
    ASSUME Typed, JobsTyped', NEW p \in Procs, NEW i \in Slots, SettledAt(p), SaveTokens(p, i)
    PROVE  SettledAt(p)'
  <1>. DEFINE d == DeviceOf[p]
              j == job[p][i]
  <1>1. /\ j.at = "saveTokens" /\ UNCHANGED <<kv, cache, ui>> /\ tok' = [tok EXCEPT ![d] = j.user]
        /\ Succeeds(p, i) \/ Becomes(p, i, "cacheSalt")
    BY SaveTokensDoes DEF Typed
  <1>2. kv[d].user = j.user /\ (p \in Tui => ShownFor(j.op, ui[p].screen)) /\ OneJob(p)
    BY <1>1 DEF SettledAt, ProcSettled, JobSettled
  <1>3. j.user \in Users
    BY <1>1, JobTyped DEF Typed, JobOK, CarriesOf, Taking
  <1>4. tok'[d] = j.user
    BY <1>1, DeviceTyped DEF Typed, StateTyped, TypeOK
  <1>5. Settled(d)'
    BY <1>1, <1>2, <1>3, <1>4, NoneApart DEF Settled
  <1>6. job'[p][i].at \in {"message", "cacheSalt"} /\ job'[p][i].op = j.op /\ job'[p][i].user = j.user /\ OthersStay(p, i)
    BY <1>1 DEF Succeeds, Becomes
  <1>7. JobSettled(p, i)'
    BY <1>1, <1>2, <1>4, <1>5, <1>6 DEF JobSettled
  <1>8. ProcSettled(p)'
    BY <1>1, <1>2, <1>5, <1>6, <1>7, Alone DEF Screened, At
  <1>9. FilesSettled(d)'
    BY <1>1, <1>5 DEF SettledAt, FilesSettled
  <1>. QED BY <1>8, <1>9 DEF SettledAt

\* A statement that leaves the account of the files as it is, in a job that acts for it.
LEMMA ActingSettled ==
    ASSUME Typed, JobsTyped', NEW p \in Procs, NEW i \in Slots, SettledAt(p), NeedsSettled(job[p][i]),
           UNCHANGED <<tok, ui>>, kv'[DeviceOf[p]].user = kv[DeviceOf[p]].user,
           \A v \in cache'[DeviceOf[p]] : v \in cache[DeviceOf[p]] \/ v.user = tok[DeviceOf[p]],
           OthersStay(p, i), job'[p][i].op = job[p][i].op, job'[p][i].at \notin {"forget", "remember", "saveTokens"},
           job'[p][i].at \in Acting => job'[p][i].user = tok[DeviceOf[p]],
           job'[p][i].at \in {"cacheList", "prune"} => \A v \in job'[p][i].list : v.user = job'[p][i].user
    PROVE  SettledAt(p)'
  <1>1. JobSettled(p, i) /\ OneJob(p) /\ Screened(p)
    BY DEF SettledAt, ProcSettled
  <1>2. Settled(DeviceOf[p]) /\ Settled(DeviceOf[p])'
    BY <1>1 DEF JobSettled, Settled
  <1>3. JobSettled(p, i)'
    <2>1. p \in Tui => ShownFor(job'[p][i].op, ui'[p].screen)
      BY <1>1 DEF JobSettled, NeedsSettled
    <2>. QED BY <1>2, <2>1 DEF JobSettled
  <1>4. FilesSettled(DeviceOf[p])'
    BY <1>2 DEF SettledAt, FilesSettled, Settled
  <1>5. Screened(p)'
    BY <1>2 DEF Screened
  <1>. QED BY <1>1, <1>3, <1>4, <1>5, Alone DEF SettledAt, NeedsSettled, At

LEMMA PersistsSettled ==
    ASSUME Typed, JobsTyped', NEW p \in Procs, NEW i \in Slots, SettledAt(p), job[p][i].at \in {"cacheSalt", "cacheEnc"},
           Persists(p, i), UNCHANGED <<cache, tok, ui>>, kv'[DeviceOf[p]].user = kv[DeviceOf[p]].user
    PROVE  SettledAt(p)'
  <1>1. NeedsSettled(job[p][i])
    BY DEF NeedsSettled
  <1>2. /\ OthersStay(p, i) /\ job'[p][i].op = job[p][i].op /\ job'[p][i].user = job[p][i].user
        /\ job'[p][i].at \in {"prefetch", "genKey", "message"}
    BY DEF Persists, Becomes
  <1>3. job[p][i].user = tok[DeviceOf[p]]
    BY DEF SettledAt, ProcSettled, JobSettled, Acting
  <1>. QED BY <1>1, <1>2, <1>3, ActingSettled

LEMMA CacheSaltSettled ==
    ASSUME Typed, JobsTyped', NEW p \in Procs, NEW i \in Slots, SettledAt(p), CacheSalt(p, i)
    PROVE  SettledAt(p)'
  <1>1. /\ job[p][i].at = "cacheSalt" /\ UNCHANGED <<cache, tok, ui>> /\ kv'[DeviceOf[p]].user = kv[DeviceOf[p]].user
        /\ Persists(p, i) \/ Becomes(p, i, "cacheEnc")
    BY CacheSaltDoes
  <1>2. job[p][i].user = tok[DeviceOf[p]]
    BY <1>1 DEF SettledAt, ProcSettled, JobSettled, Acting
  <1>3. CASE Becomes(p, i, "cacheEnc")
    BY <1>1, <1>2, <1>3, ActingSettled DEF Becomes, NeedsSettled
  <1>. QED BY <1>1, <1>3, PersistsSettled

LEMMA CacheEncSettled ==
    ASSUME Typed, JobsTyped', NEW p \in Procs, NEW i \in Slots, SettledAt(p), CacheEnc(p, i)
    PROVE  SettledAt(p)'
  BY CacheEncDoes, PersistsSettled

LEMMA PrefetchSettled ==
    ASSUME Typed, JobsTyped', NEW p \in Procs, NEW i \in Slots, SettledAt(p), Prefetch(p, i)
    PROVE  SettledAt(p)'
  <1>1. /\ job[p][i].at = "prefetch" /\ UNCHANGED <<kv, cache, tok, ui>>
        /\ \/ Succeeds(p, i)
           \/ /\ job'[p][i].at = "cacheList" /\ job'[p][i].op = job[p][i].op /\ job'[p][i].user = job[p][i].user
              /\ job'[p][i].list = VaultsOf(job[p][i].user) /\ OthersStay(p, i)
    BY PrefetchDoes DEF disk
  <1>2. NeedsSettled(job[p][i]) /\ ~At(p, i, "idle") /\ job[p][i].user = tok[DeviceOf[p]]
    BY <1>1 DEF NeedsSettled, At, SettledAt, ProcSettled, JobSettled, Acting
  <1>3. CASE Succeeds(p, i)
    BY <1>1, <1>2, <1>3, SuccessSettled
  <1>4. CASE /\ job'[p][i].at = "cacheList" /\ job'[p][i].op = job[p][i].op /\ job'[p][i].user = job[p][i].user
             /\ job'[p][i].list = VaultsOf(job[p][i].user) /\ OthersStay(p, i)
    <2>1. \A v \in job'[p][i].list : v.user = job'[p][i].user
      BY <1>4 DEF VaultsOf
    <2>. QED BY <1>1, <1>2, <1>4, <2>1, ActingSettled
  <1>. QED BY <1>1, <1>3, <1>4

\* The jobs that act for the account of the files, whatever they do elsewhere.
LEMMA WorkSettled ==
    ASSUME Typed, JobsTyped', NEW p \in Procs, NEW i \in Slots, SettledAt(p), ~At(p, i, "idle"), job[p][i].op \notin Logins,
           UNCHANGED <<kv, cache, tok, ui>>, OthersStay(p, i), job'[p][i].op = job[p][i].op,
           job'[p][i].at \notin {"forget", "remember", "saveTokens"},
           job'[p][i].at \in Acting => job'[p][i].user = tok[DeviceOf[p]],
           job'[p][i].at \in {"cacheList", "prune"} => \A v \in job'[p][i].list : v.user = job'[p][i].user
    PROVE  SettledAt(p)'
  <1>1. NeedsSettled(job[p][i])
    BY DEF NeedsSettled, At
  <1>2. \A v \in cache'[DeviceOf[p]] : v \in cache[DeviceOf[p]]
    OBVIOUS
  <1>. QED BY <1>1, <1>2, ActingSettled

LEMMA ReturnSettled ==
    ASSUME Typed, JobsTyped', NEW p \in Procs, NEW i \in Slots, SettledAt(p), ~At(p, i, "idle"), job[p][i].op \notin Logins,
           UNCHANGED <<kv, cache, tok, ui>>, Succeeds(p, i) \/ Fails(p, i)
    PROVE  SettledAt(p)'
  <1>1. OthersStay(p, i) /\ job'[p][i].op = job[p][i].op /\ job'[p][i].at = "message"
    BY DEF Succeeds, Fails, Becomes
  <1>. QED BY <1>1, WorkSettled DEF Acting

LEMMA OpOf ==
    ASSUME Typed, NEW p \in Procs, NEW i \in Slots,
           job[p][i].at \in {"readKey", "wrap", "setup", "genKey", "wrapCodes", "storeCodes", "getBlob", "markUsed", "unlock",
                             "unlockPIN", "setPIN", "newVault", "createVault", "cacheVault", "listVaults", "prune"}
    PROVE  job[p][i].op \notin Logins /\ ~At(p, i, "idle") /\ NeedsSettled(job[p][i])
  BY JobTyped DEF Typed, JobOK, StageOf, At, Logins, NeedsSettled

LEMMA ReadKeySettled ==
    ASSUME Typed, JobsTyped', NEW p \in Procs, NEW i \in Slots, SettledAt(p), ReadKey(p, i)
    PROVE  SettledAt(p)'
  <1>1. /\ job[p][i].at = "readKey" /\ UNCHANGED <<kv, cache, tok, ui>>
        /\ job'[p][i].at = "wrap" /\ job'[p][i].op = job[p][i].op /\ OthersStay(p, i)
    BY ReadKeyDoes DEF disk
  <1>. QED BY <1>1, OpOf, WorkSettled DEF Acting

LEMMA WrapSettled ==
    ASSUME Typed, JobsTyped', NEW p \in Procs, NEW i \in Slots, SettledAt(p), Wrap(p, i)
    PROVE  SettledAt(p)'
  <1>1. /\ job[p][i].at = "wrap" /\ UNCHANGED <<kv, cache, tok, ui>>
        /\ \/ Fails(p, i)
           \/ /\ job'[p][i].at = "setup" /\ job'[p][i].op = job[p][i].op
              /\ job'[p][i].user = tok[DeviceOf[p]] /\ OthersStay(p, i)
    BY WrapDoes DEF disk
  <1>. QED BY <1>1, OpOf, WorkSettled, ReturnSettled

LEMMA SetupEncryptionSettled ==
    ASSUME Typed, JobsTyped', NEW p \in Procs, NEW i \in Slots, SettledAt(p), SetupEncryption(p, i)
    PROVE  SettledAt(p)'
  <1>1. /\ job[p][i].at = "setup" /\ UNCHANGED <<kv, cache, tok, ui>>
        /\ \/ Fails(p, i)
           \/ /\ job'[p][i].at = "cacheSalt" /\ job'[p][i].op = job[p][i].op
              /\ job'[p][i].user = job[p][i].user /\ OthersStay(p, i)
    BY SetupEncryptionDoes DEF disk, Typed
  <1>2. job[p][i].user = tok[DeviceOf[p]]
    BY <1>1 DEF SettledAt, ProcSettled, JobSettled, Acting
  <1>. QED BY <1>1, <1>2, OpOf, WorkSettled, ReturnSettled

LEMMA GenKeySettled ==
    ASSUME Typed, JobsTyped', NEW p \in Procs, NEW i \in Slots, SettledAt(p), GenKey(p, i)
    PROVE  SettledAt(p)'
  <1>1. /\ job[p][i].at = "genKey" /\ UNCHANGED <<kv, cache, tok, ui>>
        /\ \/ Succeeds(p, i)
           \/ job'[p][i].at = "wrapCodes" /\ job'[p][i].op = job[p][i].op /\ OthersStay(p, i)
    BY GenKeyDoes DEF disk
  <1>. QED BY <1>1, OpOf, WorkSettled, ReturnSettled DEF Acting

LEMMA WrapCodesSettled ==
    ASSUME Typed, JobsTyped', NEW p \in Procs, NEW i \in Slots, SettledAt(p), WrapCodes(p, i)
    PROVE  SettledAt(p)'
  <1>1. /\ job[p][i].at = "wrapCodes" /\ UNCHANGED <<kv, cache, tok, ui>>
        /\ job'[p][i].at = "storeCodes" /\ job'[p][i].op = job[p][i].op
        /\ job'[p][i].user = tok[DeviceOf[p]] /\ OthersStay(p, i)
    BY WrapCodesDoes DEF disk
  <1>. QED BY <1>1, OpOf, WorkSettled

\* Where the codes were stored and are shown, the job counts as another.
LEMMA StoreRecoveryCodesSettled ==
    ASSUME Typed, JobsTyped', NEW p \in Procs, NEW i \in Slots, SettledAt(p), StoreRecoveryCodes(p, i)
    PROVE  SettledAt(p)'
  <1>1. /\ job[p][i].at = "storeCodes" /\ UNCHANGED <<kv, cache, tok, ui>>
        /\ \/ Succeeds(p, i)
           \/ job'[p][i].at = "message" /\ job'[p][i].op = "codes" /\ OthersStay(p, i)
    BY StoreRecoveryCodesDoes DEF disk
  <1>2. job[p][i].op = "setup" /\ NeedsSettled(job[p][i]) /\ job[p][i].op \notin Logins /\ ~At(p, i, "idle")
    BY <1>1, JobTyped DEF Typed, JobOK, StageOf, NeedsSettled, Logins, At
  <1>3. CASE job'[p][i].at = "message" /\ job'[p][i].op = "codes" /\ OthersStay(p, i)
    <2>1. JobSettled(p, i) /\ OneJob(p) /\ Screened(p)
      BY DEF SettledAt, ProcSettled
    <2>2. Settled(DeviceOf[p]) /\ Settled(DeviceOf[p])'
      BY <1>1, <1>2, <2>1 DEF JobSettled, Settled
    <2>3. p \in Tui => ui'[p].screen = "setup"
      BY <1>1, <1>2, <2>1 DEF JobSettled, ShownFor
    <2>4. JobSettled(p, i)'
      BY <1>3, <2>2, <2>3 DEF JobSettled, ShownFor, Acting
    <2>5. FilesSettled(DeviceOf[p])' /\ Screened(p)'
      BY <1>1, <2>2 DEF SettledAt, FilesSettled, Settled, Screened
    <2>. QED BY <1>2, <1>3, <2>1, <2>4, <2>5, Alone DEF SettledAt
  <1>. QED BY <1>1, <1>2, <1>3, ReturnSettled

LEMMA GetRecoveryBlobSettled ==
    ASSUME Typed, JobsTyped', NEW p \in Procs, NEW i \in Slots, SettledAt(p), GetRecoveryBlob(p, i)
    PROVE  SettledAt(p)'
  <1>1. /\ job[p][i].at = "getBlob" /\ UNCHANGED <<kv, cache, tok, ui>>
        /\ \/ Fails(p, i)
           \/ /\ job'[p][i].at = "markUsed" /\ job'[p][i].op = job[p][i].op
              /\ job'[p][i].user = job[p][i].user /\ OthersStay(p, i)
    BY GetRecoveryBlobDoes DEF disk
  <1>2. job[p][i].user = tok[DeviceOf[p]]
    BY <1>1 DEF SettledAt, ProcSettled, JobSettled, Acting
  <1>. QED BY <1>1, <1>2, OpOf, WorkSettled, ReturnSettled

LEMMA UnlockingSettled ==
    ASSUME Typed, JobsTyped', NEW p \in Procs, NEW i \in Slots, SettledAt(p),
           MarkRecoveryCodeUsed(p, i) \/ Unlock(p, i) \/ UnlockWithPIN(p, i) \/ SetPIN(p, i)
    PROVE  SettledAt(p)'
  <1>1. /\ job[p][i].at \in {"markUsed", "unlock", "unlockPIN", "setPIN"} /\ UNCHANGED <<kv, cache, tok, ui>>
        /\ Fails(p, i) \/ Succeeds(p, i)
    BY MarkRecoveryCodeUsedDoes, UnlockDoes, UnlockWithPINDoes, SetPINDoes DEF disk, Typed
  <1>. QED BY <1>1, OpOf, ReturnSettled

LEMMA NewVaultSettled ==
    ASSUME Typed, JobsTyped', NEW p \in Procs, NEW i \in Slots, SettledAt(p), NewVault(p, i)
    PROVE  SettledAt(p)'
  <1>1. /\ job[p][i].at = "newVault" /\ UNCHANGED <<kv, cache, tok, ui>>
        /\ \/ Fails(p, i)
           \/ /\ job'[p][i].at = "createVault" /\ job'[p][i].op = job[p][i].op
              /\ job'[p][i].user = tok[DeviceOf[p]] /\ OthersStay(p, i)
    BY NewVaultDoes DEF disk
  <1>. QED BY <1>1, OpOf, WorkSettled, ReturnSettled

LEMMA CreateVaultSettled ==
    ASSUME Typed, JobsTyped', NEW p \in Procs, NEW i \in Slots, SettledAt(p), CreateVault(p, i)
    PROVE  SettledAt(p)'
  <1>1. /\ job[p][i].at = "createVault" /\ UNCHANGED <<kv, cache, tok, ui>>
        /\ Becomes(p, i, "cacheVault") \/ Fails(p, i)
    BY CreateVaultDoes DEF disk, Typed
  <1>2. job[p][i].user = tok[DeviceOf[p]]
    BY <1>1 DEF SettledAt, ProcSettled, JobSettled, Acting
  <1>3. CASE Becomes(p, i, "cacheVault")
    BY <1>1, <1>2, <1>3, OpOf, WorkSettled DEF Becomes
  <1>. QED BY <1>1, <1>3, OpOf, ReturnSettled

LEMMA CacheVaultSettled ==
    ASSUME Typed, JobsTyped', NEW p \in Procs, NEW i \in Slots, SettledAt(p), CacheVault(p, i)
    PROVE  SettledAt(p)'
  <1>. DEFINE d == DeviceOf[p]
              v == [user |-> job[p][i].user, key |-> job[p][i].key]
  <1>1. /\ job[p][i].at = "cacheVault" /\ UNCHANGED <<kv, tok, ui>> /\ Succeeds(p, i) /\ cache'[d] = cache[d] \cup {v}
    BY CacheVaultDoes
  <1>2. v.user = tok[d]
    BY <1>1 DEF SettledAt, ProcSettled, JobSettled, Acting
  <1>3. OthersStay(p, i) /\ job'[p][i].at = "message" /\ job'[p][i].op = job[p][i].op
    BY <1>1 DEF Succeeds, Becomes
  <1>. HIDE DEF v
  <1>. QED BY <1>1, <1>2, <1>3, OpOf, ActingSettled DEF Acting

LEMMA ListVaultsSettled ==
    ASSUME Typed, JobsTyped', NEW p \in Procs, NEW i \in Slots, SettledAt(p), ListVaults(p, i)
    PROVE  SettledAt(p)'
  <1>. DEFINE u == tok[DeviceOf[p]]
  <1>1. /\ job[p][i].at = "listVaults" /\ UNCHANGED <<kv, cache, tok, ui>>
        /\ \/ Fails(p, i)
           \/ /\ job'[p][i].at = "cacheList" /\ job'[p][i].op = job[p][i].op /\ job'[p][i].user = u
              /\ job'[p][i].list = VaultsOf(u) /\ OthersStay(p, i)
    BY ListVaultsDoes DEF disk
  <1>2. \A v \in VaultsOf(u) : v.user = u
    BY DEF VaultsOf
  <1>. HIDE DEF u
  <1>. QED BY <1>1, <1>2, OpOf, WorkSettled, ReturnSettled DEF u

LEMMA CacheListSettled ==
    ASSUME Typed, JobsTyped', NEW p \in Procs, NEW i \in Slots, SettledAt(p), CacheList(p, i)
    PROVE  SettledAt(p)'
  <1>. DEFINE d == DeviceOf[p]
  <1>1. /\ job[p][i].at = "cacheList" /\ UNCHANGED <<kv, tok, ui>>
        /\ cache'[d] \subseteq cache[d] \cup job[p][i].list
        /\ Succeeds(p, i) \/ Becomes(p, i, "prune")
    BY CacheListDoes
  <1>2. job[p][i].user = tok[d] /\ \A v \in job[p][i].list : v.user = job[p][i].user
    BY <1>1 DEF SettledAt, ProcSettled, JobSettled, Acting
  <1>3. \A v \in cache'[d] : v \in cache[d] \/ v.user = tok[d]
    BY <1>1, <1>2
  <1>4. /\ OthersStay(p, i) /\ job'[p][i].at \in {"message", "prune"} /\ job'[p][i].op = job[p][i].op
        /\ job'[p][i].user = job[p][i].user /\ job'[p][i].list = job[p][i].list
    BY <1>1 DEF Succeeds, Becomes
  <1>5. NeedsSettled(job[p][i])
    BY <1>1 DEF NeedsSettled
  <1>. QED BY <1>1, <1>2, <1>3, <1>4, <1>5, ActingSettled

LEMMA PruneSettled ==
    ASSUME Typed, JobsTyped', NEW p \in Procs, NEW i \in Slots, SettledAt(p), PruneStaleVaults(p, i)
    PROVE  SettledAt(p)'
  <1>. DEFINE d == DeviceOf[p]
  <1>1. /\ job[p][i].at = "prune" /\ UNCHANGED <<kv, tok, ui>> /\ cache'[d] \subseteq cache[d] /\ Succeeds(p, i)
    BY PruneDoes
  <1>2. OthersStay(p, i) /\ job'[p][i].at = "message" /\ job'[p][i].op = job[p][i].op
    BY <1>1 DEF Succeeds, Becomes
  <1>. QED BY <1>1, <1>2, OpOf, ActingSettled DEF Acting

---------------------------------------------------------------------------
(* The same of keys, messages, commands and the end of a process.          *)

\* All jobs but one are idle after the step.
LEMMA Single ==
    ASSUME NEW p \in Procs, NEW i \in Slots, \A k \in Slots \ {i} : job'[p][k].at = "idle", JobSettled(p, i)', Screened(p)'
    PROVE  ProcSettled(p)'
  <1>1. OneJob(p)'
    BY DEF OneJob, At
  <1>2. ASSUME NEW k \in Slots \ {i}
        PROVE  JobSettled(p, k)'
    <2>1. job'[p][k].at = "idle"
      OBVIOUS
    <2>. QED BY <2>1 DEF JobSettled, NeedsSettled, Acting
  <1>. QED BY <1>1, <1>2 DEF ProcSettled

\* All jobs are.
LEMMA Silent ==
    ASSUME NEW p \in Procs, \A k \in Slots : job'[p][k].at = "idle", Screened(p)'
    PROVE  ProcSettled(p)'
  <1>1. OneJob(p)'
    BY DEF OneJob, At
  <1>2. ASSUME NEW k \in Slots
        PROVE  JobSettled(p, k)'
    <2>1. job'[p][k].at = "idle"
      OBVIOUS
    <2>. QED BY <2>1 DEF JobSettled, NeedsSettled, Acting
  <1>. QED BY <1>1, <1>2 DEF ProcSettled

LEMMA FilesStay ==
    ASSUME NEW d \in Devices, FilesSettled(d), UNCHANGED disk
    PROVE  FilesSettled(d)' /\ (Settled(d) => Settled(d)')
  BY DEF FilesSettled, Settled, disk

\* What the cache knows of the wrapped key is the account's of the files.
LEMMA CachedSettled ==
    ASSUME NEW d \in Devices, FilesSettled(d), EncryptionConfigured(Cached(d))
    PROVE  Settled(d) /\ kv[d].enc # None /\ kv[d].salt # 0 /\ Cached(d) = [salt |-> kv[d].salt, enc |-> kv[d].enc]
  <1>1. ~EncryptionConfigured(EmptyRow)
    BY DEF EncryptionConfigured, EmptyRow
  <1>2. EncryptionConfigured([salt |-> kv[d].salt, enc |-> kv[d].enc])
    BY <1>1 DEF Cached
  <1>3. kv[d].enc # None /\ kv[d].salt # 0
    BY <1>2 DEF EncryptionConfigured
  <1>. QED BY <1>2, <1>3 DEF FilesSettled, Cached

LEMMA OfferedShown ==
    ASSUME Typed, NEW p \in Procs, NEW op \in Offered(p)
    PROVE  op \in Ops \ {"codes", "refresh"} /\ ShownFor(op, ui[p].screen)
  <1>. DEFINE byMode == [PIN |-> "unlockPIN", setPIN |-> "setPIN", recovery |-> "recover", password |-> "unlock"]
  <1>1. ui[p].mode \in {"password", "PIN", "setPIN", "recovery"}
    BY DEF Typed, StateTyped, TypeOK
  <1>2. byMode[ui[p].mode] \in {"unlock", "unlockPIN", "setPIN", "recover"}
    BY <1>1
  <1>. HIDE DEF byMode
  <1>3. \/ ui[p].screen = "login" /\ op \in {"login", "register"}
        \/ ui[p].screen = "setup" /\ op = "setup"
        \/ ui[p].screen = "dashboard" /\ op \in {"vault", "list"}
        \/ ui[p].screen = "lock" /\ op = byMode[ui[p].mode]
    BY DEF Offered, byMode
  <1>. QED BY <1>2, <1>3 DEF Ops, ShownFor

\* A job that begins.
LEMMA BeginsAt ==
    ASSUME Typed, NEW p \in Procs, NEW i \in Slots, NEW cmd \in {None, "tui"} \cup Commands, NEW op \in Ops \ {"codes"},
           NEW in \in Inputs(op), Put(p, i, Begin(p, cmd, op, in.user, in.pass, in.code))
    PROVE  LET r == job'[p][i]
           IN /\ r.at = StartOf(op) /\ r.op = op /\ r.user = UserOf(p, op, in.user) /\ r.row = RowOf(p, op)
              /\ r.key = KeyOf(p, op) /\ r.alias = AliasOf(p, op) /\ OthersStay(p, i)
  <1>. DEFINE e == Begin(p, cmd, op, in.user, in.pass, in.code)
  <1>1. Fields(e, StartOf(op), op, UserOf(p, op, in.user), RowOf(p, op),
               KeyOf(p, op), AliasOf(p, op), in.pass, in.code, {}, FALSE)
    BY InputsTyped, BeginFields
  <1>2. job'[p][i] = e /\ OthersStay(p, i)
    <2>. HIDE DEF e
    <2>. QED BY PutDoes DEF Typed, e
  <1>. HIDE DEF e
  <1>. QED BY <1>1, <1>2 DEF Fields

\* It knows the account of the files unless it is a login.
LEMMA BeginSettled ==
    ASSUME Typed, NEW p \in Procs, NEW i \in Slots, NEW cmd \in {None, "tui"} \cup Commands, NEW op \in Ops \ {"codes"},
           NEW in \in Inputs(op), Put(p, i, Begin(p, cmd, op, in.user, in.pass, in.code)),
           UNCHANGED <<kv, tok, ui>>, op \in Logins \/ Settled(DeviceOf[p]), p \in Tui => ShownFor(op, ui[p].screen)
    PROVE  JobSettled(p, i)'
  <1>1. job'[p][i].at = StartOf(op) /\ job'[p][i].op = op /\ job'[p][i].user = UserOf(p, op, in.user)
    BY BeginsAt
  <1>2. StartOf(op) \in {"readKey", "getBlob", "newVault", "listVaults", "register", "login", "refresh", "unlock",
                         "unlockPIN", "setPIN"}
    BY DEF StartOf, Ops
  <1>3. NeedsSettled(job'[p][i]) => Settled(DeviceOf[p])'
    BY <1>1, <1>2 DEF NeedsSettled, Settled
  <1>4. job'[p][i].at \in Acting => job'[p][i].user = tok'[DeviceOf[p]]
    <2>1. StartOf(op) \in Acting => op = "recover"
      BY DEF StartOf, Ops, Acting
    <2>. QED BY <1>1, <2>1 DEF UserOf
  <1>. QED BY <1>1, <1>2, <1>3, <1>4 DEF JobSettled, Acting

LEMMA EnterSettled ==
    ASSUME Orderly, Typed, JobsTyped', NEW p \in Procs, SettledAt(p), Enter(p)
    PROVE  SettledAt(p)'
  <1>1. PICK i \in Slots, op \in Offered(p) : \E in \in Inputs(op) : Put(p, i, Begin(p, "tui", op, in.user, in.pass, in.code))
    BY DEF Enter
  <1>2. PICK in \in Inputs(op) : Put(p, i, Begin(p, "tui", op, in.user, in.pass, in.code))
    BY <1>1
  <1>3. op \in Ops \ {"codes", "refresh"} /\ ShownFor(op, ui[p].screen)
    BY OfferedShown
  <1>4. UNCHANGED <<disk, ui>> /\ Quiet(p)
    BY DEF Enter, KeyPress, Orderly
  <1>5. op \in Logins \/ Settled(DeviceOf[p])
    BY <1>3 DEF SettledAt, ProcSettled, Screened, Enter, KeyPress, ShownFor, Logins, Ops
  <1>6. JobSettled(p, i)'
    BY <1>2, <1>3, <1>4, <1>5, BeginSettled DEF disk
  <1>7. OthersStay(p, i)
    BY <1>2, <1>3, BeginsAt
  <1>8. FilesSettled(DeviceOf[p])' /\ Screened(p)'
    BY <1>4, FilesStay, DeviceTyped DEF SettledAt, ProcSettled, Screened
  <1>9. \A k \in Slots \ {i} : job'[p][k].at = "idle"
    BY <1>4, <1>7 DEF OthersStay, Quiet, At
  <1>. QED BY <1>6, <1>8, <1>9, Single DEF SettledAt

LEMMA CommandSettled ==
    ASSUME Orderly, Typed, JobsTyped', NEW p \in Procs, NEW i \in Slots, SettledAt(p), Command(p, i)
    PROVE  SettledAt(p)'
  <1>1. PICK cmd \in Commands :
           LET op == IF cmd \in {"recover", "vault"} THEN "refresh" ELSE cmd
           IN \E in \in Inputs(op) : Put(p, i, Begin(p, cmd, op, in.user, in.pass, in.code))
    BY DEF Command
  <1>. DEFINE op == IF cmd \in {"recover", "vault"} THEN "refresh" ELSE cmd
  <1>2. op \in Logins /\ op \in Ops \ {"codes"}
    BY Wiring DEF Ops, Logins, Orderly
  <1>3. PICK in \in Inputs(op) : Put(p, i, Begin(p, cmd, op, in.user, in.pass, in.code))
    BY <1>1
  <1>4. p \notin Tui /\ Quiet(p) /\ UNCHANGED <<disk, ui>>
    BY DEF Command
  <1>. HIDE DEF op
  <1>5. JobSettled(p, i)'
    BY <1>2, <1>3, <1>4, BeginSettled DEF disk
  <1>6. OthersStay(p, i)
    BY <1>2, <1>3, BeginsAt
  <1>7. FilesSettled(DeviceOf[p])' /\ Screened(p)'
    BY <1>4, FilesStay, DeviceTyped DEF SettledAt, Screened
  <1>8. \A k \in Slots \ {i} : job'[p][k].at = "idle"
    BY <1>4, <1>6 DEF OthersStay, Quiet, At
  <1>. QED BY <1>5, <1>7, <1>8, Single DEF SettledAt

\* The stages of the jobs after Lock.
LEMMA LockedStages ==
    ASSUME JobsTyped, NEW p \in Procs, job' = [job EXCEPT ![p] = Locked(job[p])]
    PROVE  \A k \in Slots : LET j == job[p][k]
                                r == job'[p][k]
                            IN /\ r.at = j.at /\ r.op = j.op /\ r.user = j.user /\ r.list = j.list /\ r.ok = j.ok
                               /\ r.row = j.row
  <1>1. job[p] \in [Slots -> JobRecs]
    BY DEF JobsTyped
  <1>2. job'[p] = Locked(job[p])
    BY DEF JobsTyped
  <1>. QED BY <1>1, <1>2, LockedSame

LEMMA KeySettled ==
    ASSUME Orderly, Typed, JobsTyped', NEW p \in Procs, SettledAt(p), LockKey(p) \/ DashboardKey(p) \/ CodesKey(p)
    PROVE  SettledAt(p)'
  <1>1. /\ UNCHANGED disk /\ Quiet(p) /\ p \in Tui /\ ui[p].screen # "login"
        /\ UNCHANGED job \/ job' = [job EXCEPT ![p] = Locked(job[p])]
    BY DEF LockKey, DashboardKey, CodesKey, KeyPress, Orderly
  <1>2. \A k \in Slots : job'[p][k].at = "idle"
    BY <1>1, LockedStages DEF Quiet, At, Typed
  <1>3. FilesSettled(DeviceOf[p])' /\ Settled(DeviceOf[p])'
    BY <1>1, FilesStay, DeviceTyped DEF SettledAt, ProcSettled, Screened
  <1>4. Screened(p)'
    BY <1>3 DEF Screened
  <1>. QED BY <1>2, <1>3, <1>4, Silent DEF SettledAt

LEMMA AutoLockSettled ==
    ASSUME Typed, JobsTyped', NEW p \in Procs, SettledAt(p), AutoLock(p)
    PROVE  SettledAt(p)'
  <1>1. /\ UNCHANGED disk /\ p \in Tui /\ ui[p].screen \in {"dashboard", "codes"}
        /\ job' = [job EXCEPT ![p] = Locked(job[p])]
    BY DEF AutoLock, Typed, StateTyped, TypeOK
  <1>2. ui'[p].screen = "lock"
    BY DEF AutoLock, Show, NewLock, Typed, StateTyped, TypeOK
  <1>3. \A k \in Slots : LET j == job[p][k]
                             r == job'[p][k]
                         IN r.at = j.at /\ r.op = j.op /\ r.user = j.user /\ r.list = j.list /\ r.ok = j.ok
    BY <1>1, LockedStages DEF Typed
  <1>4. FilesSettled(DeviceOf[p])' /\ Settled(DeviceOf[p])'
    BY <1>1, FilesStay, DeviceTyped DEF SettledAt, ProcSettled, Screened
  <1>5. ASSUME NEW k \in Slots
        PROVE  JobSettled(p, k)'
    <2>1. JobSettled(p, k) /\ JobOK(job[p][k])
      BY JobTyped DEF SettledAt, ProcSettled, Typed
    <2>2. job[p][k].at # "idle" => ShownFor(job[p][k].op, "lock")
      BY <1>1, <2>1 DEF JobSettled, ShownFor, JobOK, StageOf, Ops
    <2>3. UNCHANGED kv[DeviceOf[p]] /\ UNCHANGED tok[DeviceOf[p]]
      BY <1>1 DEF disk
    <2>. QED BY <1>2, <1>3, <1>4, <2>1, <2>2, <2>3 DEF JobSettled
  <1>6. OneJob(p)'
    BY <1>3 DEF SettledAt, ProcSettled, OneJob, At
  <1>7. Screened(p)'
    BY <1>4 DEF Screened
  <1>. QED BY <1>4, <1>5, <1>6, <1>7 DEF SettledAt, ProcSettled

\* After the message all jobs of the process are idle.
LEMMA MessageDoes ==
    ASSUME Typed, NEW p \in Procs, OneJob(p), NEW i \in Slots, Message(p, i)
    PROVE  /\ p \in Tui /\ job[p][i].at = "message" /\ \A k \in Slots : job'[p][k].at = "idle"
           /\ UNCHANGED <<server, disk, mem, paper, serial, left>> /\ ui'[p] = Update(p, job[p][i])
           /\ UNCHANGED session \/ Lock(p)
  <1>. DEFINE done == [job[p] EXCEPT ![i] = Idle]
  <1>1. done \in [Slots -> JobRecs] /\ \A k \in Slots : done[k].at = "idle"
    <2>1. job[p] \in [Slots -> JobRecs] /\ Idle \in JobRecs /\ Idle.at = "idle"
      BY IdleOK DEF Typed, JobsTyped, JobOK
    <2>2. \A k \in Slots \ {i} : job[p][k].at = "idle"
      BY DEF OneJob, At, Message
    <2>. QED BY <2>1, <2>2
  <1>2. job' = [job EXCEPT ![p] = done] \/ job' = [job EXCEPT ![p] = Locked(done)]
    BY DEF Message
  <1>3. job'[p] = done \/ job'[p] = Locked(done)
    <2>. HIDE DEF done
    <2>. QED BY <1>2 DEF Typed, JobsTyped
  <1>4. \A k \in Slots : job'[p][k].at = "idle"
    <2>. HIDE DEF done
    <2>. QED BY <1>1, <1>3, LockedSame
  <1>5. ui'[p] = Update(p, job[p][i])
    BY DEF Message, Show, Typed, StateTyped, TypeOK
  <1>. QED BY <1>4, <1>5 DEF Message, At

\* The login screen is left by the message of a login that succeeded.
LEMMA MessageSettled ==
    ASSUME Typed, JobsTyped', NEW p \in Procs, NEW i \in Slots, SettledAt(p), Message(p, i)
    PROVE  SettledAt(p)'
  <1>. DEFINE j == job[p][i]
  <1>1. /\ p \in Tui /\ j.at = "message" /\ \A k \in Slots : job'[p][k].at = "idle"
        /\ UNCHANGED disk /\ ui'[p] = Update(p, j)
    BY MessageDoes DEF SettledAt, ProcSettled
  <1>2. JobSettled(p, i) /\ Screened(p)
    BY DEF SettledAt, ProcSettled
  <1>3. ui[p].screen = "login" /\ ui'[p].screen # "login" => j.ok
    <2>1. j.op \in Ops /\ (ui[p].screen = "login" => j.op \in {"login", "register"})
      BY <1>1, <1>2, JobTyped DEF JobSettled, ShownFor, Typed, JobOK, StageOf, Ops
    <2>2. ui[p].screen = "login" => Update(p, j) = LoginUpdate(p, j)
      BY <2>1 DEF Update
    <2>3. ~j.ok => LoginUpdate(p, j) = ui[p]
      BY DEF LoginUpdate
    <2>. QED BY <1>1, <2>2, <2>3
  <1>4. ui'[p].screen # "login" => Settled(DeviceOf[p])
    <2>1. j.ok => NeedsSettled(j)
      BY <1>1 DEF NeedsSettled
    <2>. QED BY <1>1, <1>2, <1>3, <2>1 DEF JobSettled, Screened
  <1>5. FilesSettled(DeviceOf[p])' /\ Screened(p)'
    BY <1>1, <1>4, FilesStay, DeviceTyped DEF SettledAt, Screened
  <1>. QED BY <1>1, <1>5, Silent DEF SettledAt

LEMMA NextOpSettled ==
    ASSUME Typed, JobsTyped', NEW p \in Procs, NEW i \in Slots, SettledAt(p), NextOp(p, i)
    PROVE  SettledAt(p)'
  <1>. DEFINE j == job[p][i]
              d == DeviceOf[p]
              e == [j EXCEPT !.ok = TRUE]
  <1>1. JobOK(j) /\ j.at = "message" /\ p \notin Tui /\ UNCHANGED <<disk, ui>>
    BY JobTyped DEF Typed, NextOp, At
  <1>2. JobSettled(p, i) /\ \A k \in Slots \ {i} : job[p][k].at = "idle"
    BY <1>1 DEF SettledAt, ProcSettled, OneJob, At
  <1>3. FilesSettled(d)' /\ Screened(p)' /\ FilesSettled(d) /\ (Settled(d) => Settled(d)')
    BY <1>1, FilesStay, DeviceTyped DEF SettledAt, Screened
  <1>4. CASE j.ok /\ \E op \in Following(p, j) \ {None} : \E in \in Inputs(op) :
                        Put(p, i, Begin(p, j.cmd, op, in.user, in.pass, in.code))
    <2>1. PICK op \in Following(p, j) \ {None} : \E in \in Inputs(op) :
                 Put(p, i, Begin(p, j.cmd, op, in.user, in.pass, in.code))
      BY <1>4
    <2>2. op \in Ops \ {"codes"}
      BY <2>1 DEF Following, Offer, Ops
    <2>3. PICK in \in Inputs(op) : Put(p, i, Begin(p, j.cmd, op, in.user, in.pass, in.code))
      BY <2>1
    <2>4. j.cmd \in {None, "tui"} \cup Commands
      BY <1>1 DEF JobOK, JobRecs
    <2>5. Settled(d)
      BY <1>1, <1>2, <1>4 DEF JobSettled, NeedsSettled
    <2>6. JobSettled(p, i)'
      BY <1>1, <2>2, <2>3, <2>4, <2>5, BeginSettled DEF disk
    <2>7. OthersStay(p, i)
      BY <2>2, <2>3, <2>4, BeginsAt
    <2>. QED BY <1>2, <1>3, <2>6, <2>7, Single DEF OthersStay, SettledAt
  <1>5. CASE Exit(p)
    <2>1. \A k \in Slots : job'[p][k].at = "idle"
      BY <1>5, IdleOK DEF Exit, Typed, JobsTyped
    <2>. QED BY <1>3, <2>1, Silent DEF SettledAt
  <1>6. CASE EncryptionConfigured(Cached(d)) /\ Put(p, i, e)
    <2>1. Settled(d)
      BY <1>3, <1>6, CachedSettled, DeviceTyped
    <2>2. Fields(e, j.at, j.op, j.user, j.row, j.key, j.alias, j.pass, j.code, j.list, TRUE)
      BY <1>1, MoveOnlyOk DEF JobOK
    <2>3. job'[p][i] = e /\ OthersStay(p, i)
      <3>. HIDE DEF e
      <3>. QED BY <1>6, PutDoes DEF Typed
    <2>4. job'[p][i].at = "message"
      <3>. HIDE DEF e
      <3>. QED BY <1>1, <2>2, <2>3 DEF Fields
    <2>5. JobSettled(p, i)'
      BY <1>1, <1>3, <2>1, <2>4 DEF JobSettled, Acting
    <2>. QED BY <1>2, <1>3, <2>3, <2>5, Single DEF OthersStay, SettledAt
  <1>. QED BY <1>4, <1>5, <1>6 DEF NextOp

LEMMA KillSettled ==
    ASSUME Typed, JobsTyped', NEW p \in Procs, SettledAt(p), Kill(p)
    PROVE  SettledAt(p)'
  <1>. DEFINE row == IF p \in Tui THEN Cached(DeviceOf[p]) ELSE EmptyRow
  <1>1. UNCHANGED disk /\ \A k \in Slots : job'[p][k].at = "idle"
    BY IdleOK DEF Kill, Exit, Typed, JobsTyped
  <1>2. ui'[p] = StartScreen(row)
    <2>1. ui' = [ui EXCEPT ![p] = StartScreen(row)]
      BY DEF Kill, Show
    <2>. HIDE DEF row
    <2>. QED BY <2>1 DEF Typed, StateTyped, TypeOK
  <1>3. p \in Tui /\ ui'[p].screen # "login" => Settled(DeviceOf[p])
    <2>1. p \in Tui /\ ui'[p].screen # "login" => EncryptionConfigured(Cached(DeviceOf[p]))
      <3>1. ~EncryptionConfigured(row) => StartScreen(row) = Screen("login")
        BY DEF StartScreen
      <3>2. Screen("login").screen = "login"
        BY DEF Screen
      <3>3. p \in Tui => row = Cached(DeviceOf[p])
        OBVIOUS
      <3>. HIDE DEF row
      <3>. QED BY <1>2, <3>1, <3>2, <3>3
    <2>. QED BY <2>1, CachedSettled, DeviceTyped DEF SettledAt
  <1>4. FilesSettled(DeviceOf[p])' /\ Screened(p)'
    BY <1>1, <1>3, FilesStay, DeviceTyped DEF SettledAt, Screened
  <1>. QED BY <1>1, <1>4, Silent DEF SettledAt

---------------------------------------------------------------------------
(* A step of one process leaves the others and their devices alone.        *)

Local(p) ==
    /\ \A q \in Procs \ {p} : /\ job'[q] = job[q] /\ ui'[q] = ui[q] /\ mem'[q] = mem[q]
                              /\ mk'[q] = mk[q] /\ pin'[q] = pin[q]
    /\ \A d \in Devices \ {DeviceOf[p]} : kv'[d] = kv[d] /\ cache'[d] = cache[d] /\ tok'[d] = tok[d]

LEMMA AccountsLocal ==
    ASSUME Typed, NEW p \in Procs, NEW i \in Slots, Accounts(p, i)
    PROVE  Local(p)
  <1>. USE DEF Typed, StateTyped, TypeOK, JobsTyped, Local, disk, session, Goto, Return, Put, Rpc, Lock
  <1>1. CASE Register(p, i)
    BY <1>1 DEF Register
  <1>2. CASE Login(p, i)
    BY <1>2 DEF Login
  <1>3. CASE Reconcile(p, i)
    BY <1>3 DEF Reconcile
  <1>4. CASE Forget(p, i)
    BY <1>4 DEF Forget
  <1>5. CASE Remember(p, i)
    BY <1>5 DEF Remember
  <1>6. CASE SaveTokens(p, i)
    BY <1>6 DEF SaveTokens
  <1>7. CASE CacheSalt(p, i)
    BY <1>7 DEF CacheSalt
  <1>8. CASE CacheEnc(p, i)
    BY <1>8 DEF CacheEnc
  <1>9. CASE Prefetch(p, i)
    BY <1>9 DEF Prefetch
  <1>. QED BY <1>1, <1>2, <1>3, <1>4, <1>5, <1>6, <1>7, <1>8, <1>9 DEF Accounts

LEMMA KeysLocal ==
    ASSUME Typed, NEW p \in Procs, NEW i \in Slots, Keys(p, i)
    PROVE  Local(p)
  <1>. USE DEF Typed, StateTyped, TypeOK, JobsTyped, Local, disk, session, Goto, Return, Put, Rpc, SetMasterKey
  <1>1. CASE ReadKey(p, i)
    BY <1>1 DEF ReadKey
  <1>2. CASE Wrap(p, i)
    BY <1>2 DEF Wrap
  <1>3. CASE SetupEncryption(p, i)
    BY <1>3 DEF SetupEncryption
  <1>4. CASE GenKey(p, i)
    BY <1>4 DEF GenKey
  <1>5. CASE WrapCodes(p, i)
    BY <1>5 DEF WrapCodes
  <1>6. CASE StoreRecoveryCodes(p, i)
    BY <1>6 DEF StoreRecoveryCodes
  <1>7. CASE GetRecoveryBlob(p, i)
    BY <1>7 DEF GetRecoveryBlob
  <1>8. CASE MarkRecoveryCodeUsed(p, i)
    BY <1>8 DEF MarkRecoveryCodeUsed
  <1>9. CASE Unlock(p, i)
    BY <1>9 DEF Unlock
  <1>10. CASE UnlockWithPIN(p, i)
    BY <1>10 DEF UnlockWithPIN
  <1>11. CASE SetPIN(p, i)
    BY <1>11 DEF SetPIN
  <1>. QED BY <1>1, <1>2, <1>3, <1>4, <1>5, <1>6, <1>7, <1>8, <1>9, <1>10, <1>11 DEF Keys

LEMMA VaultsLocal ==
    ASSUME Typed, NEW p \in Procs, NEW i \in Slots, Vaults(p, i)
    PROVE  Local(p)
  <1>. USE DEF Typed, StateTyped, TypeOK, JobsTyped, Local, disk, session, Goto, Return, Put, Rpc
  <1>1. CASE NewVault(p, i)
    BY <1>1 DEF NewVault
  <1>2. CASE CreateVault(p, i)
    BY <1>2 DEF CreateVault
  <1>3. CASE CacheVault(p, i)
    BY <1>3 DEF CacheVault
  <1>4. CASE ListVaults(p, i)
    BY <1>4 DEF ListVaults
  <1>5. CASE CacheList(p, i)
    BY <1>5 DEF CacheList
  <1>6. CASE PruneStaleVaults(p, i)
    BY <1>6 DEF PruneStaleVaults
  <1>. QED BY <1>1, <1>2, <1>3, <1>4, <1>5, <1>6 DEF Vaults

LEMMA ScreensLocal ==
    ASSUME Typed, NEW p \in Procs,
           \/ \E i \in Slots : Message(p, i) \/ Command(p, i) \/ NextOp(p, i)
           \/ Enter(p) \/ LockKey(p) \/ DashboardKey(p) \/ CodesKey(p) \/ AutoLock(p) \/ Kill(p)
    PROVE  Local(p)
  <1>. USE DEF Typed, StateTyped, TypeOK, JobsTyped, Local, disk, session, Put, Lock, SoftLock, Exit, Show
  <1>1. ASSUME NEW i \in Slots, Message(p, i)
        PROVE  Local(p)
    BY <1>1 DEF Message
  <1>2. ASSUME NEW i \in Slots, Command(p, i)
        PROVE  Local(p)
    BY <1>2 DEF Command
  <1>3. ASSUME NEW i \in Slots, NextOp(p, i)
        PROVE  Local(p)
    BY <1>3 DEF NextOp
  <1>4. CASE Enter(p)
    BY <1>4 DEF Enter
  <1>5. CASE LockKey(p)
    BY <1>5 DEF LockKey
  <1>6. CASE DashboardKey(p) \/ CodesKey(p) \/ AutoLock(p)
    BY <1>6 DEF DashboardKey, CodesKey, AutoLock
  <1>7. CASE Kill(p)
    BY <1>7 DEF Kill
  <1>. QED BY <1>1, <1>2, <1>3, <1>4, <1>5, <1>6, <1>7

\* The step of some process.
StepOf(p) ==
    \/ \E i \in Slots : Accounts(p, i) \/ Keys(p, i) \/ Vaults(p, i) \/ Message(p, i) \/ Command(p, i) \/ NextOp(p, i)
    \/ Enter(p) \/ LockKey(p) \/ DashboardKey(p) \/ CodesKey(p) \/ AutoLock(p) \/ Kill(p)

LEMMA StepLocal ==
    ASSUME Typed, NEW p \in Procs, StepOf(p)
    PROVE  Local(p)
  BY AccountsLocal, KeysLocal, VaultsLocal, ScreensLocal DEF StepOf

LEMMA StepSettled ==
    ASSUME Orderly, Typed, JobsTyped', NEW p \in Procs, SettledAt(p), StepOf(p)
    PROVE  SettledAt(p)'
  <1>1. ASSUME NEW i \in Slots, Accounts(p, i)
        PROVE  SettledAt(p)'
    BY <1>1, RegisterSettled, LoginSettled, ReconcileSettled, ForgetSettled, RememberSettled, SaveTokensSettled,
       CacheSaltSettled, CacheEncSettled, PrefetchSettled DEF Accounts
  <1>2. ASSUME NEW i \in Slots, Keys(p, i)
        PROVE  SettledAt(p)'
    BY <1>2, ReadKeySettled, WrapSettled, SetupEncryptionSettled, GenKeySettled, WrapCodesSettled,
       StoreRecoveryCodesSettled, GetRecoveryBlobSettled, UnlockingSettled DEF Keys
  <1>3. ASSUME NEW i \in Slots, Vaults(p, i)
        PROVE  SettledAt(p)'
    BY <1>3, NewVaultSettled, CreateVaultSettled, CacheVaultSettled, ListVaultsSettled, CacheListSettled,
       PruneSettled DEF Vaults
  <1>. QED BY <1>1, <1>2, <1>3, MessageSettled, CommandSettled, NextOpSettled, EnterSettled, KeySettled,
              AutoLockSettled, KillSettled DEF StepOf

LEMMA NextSettled ==
    ASSUME Orderly, Typed, Typed', SettledInv, [Next]_vars
    PROVE  SettledInv'
  <1>1. CASE UNCHANGED vars
    <2>1. UNCHANGED <<kv, cache, tok, ui, job>>
      BY <1>1 DEF vars, disk
    <2>. QED BY <2>1 DEF SettledInv, FilesSettled, ProcSettled, OneJob, Screened, JobSettled, Settled, At
  <1>2. ASSUME NEW p \in Procs, StepOf(p)
        PROVE  SettledInv'
    <2>1. Local(p) /\ SettledAt(p)'
      BY <1>2, StepLocal, StepSettled, DeviceTyped DEF SettledInv, SettledAt, Typed
    <2>2. ASSUME NEW d \in Devices
          PROVE  FilesSettled(d)'
      <3>1. CASE d = DeviceOf[p]
        BY <2>1, <3>1 DEF SettledAt
      <3>2. CASE d # DeviceOf[p]
        BY <2>1, <3>2 DEF Local, SettledInv, FilesSettled, Settled
      <3>. QED BY <3>1, <3>2
    <2>3. ASSUME NEW q \in Procs
          PROVE  ProcSettled(q)'
      <3>1. CASE q = p
        BY <2>1, <3>1 DEF SettledAt
      <3>2. CASE q # p
        <4>1. DeviceOf[q] \in Devices \ {DeviceOf[p]}
          BY <3>2, DeviceTyped DEF Orderly
        <4>2. /\ job'[q] = job[q] /\ ui'[q] = ui[q]
              /\ kv'[DeviceOf[q]] = kv[DeviceOf[q]] /\ tok'[DeviceOf[q]] = tok[DeviceOf[q]]
          BY <2>1, <3>2, <4>1 DEF Local
        <4>3. ProcSettled(q)
          BY DEF SettledInv
        <4>. QED BY <4>2, <4>3 DEF ProcSettled, OneJob, Screened, JobSettled, Settled, At
      <3>. QED BY <3>1, <3>2
    <2>. QED BY <2>2, <2>3 DEF SettledInv
  <1>3. Next => \E p \in Procs : StepOf(p)
    BY DEF Next, StepOf
  <1>. QED BY <1>1, <1>2, <1>3

LEMMA InitSettled ==
    ASSUME Init
    PROVE  SettledInv
  <1>1. \A d \in Devices : FilesSettled(d)
    BY DEF Init, FilesSettled, EmptyKV
  <1>2. ASSUME NEW p \in Procs
        PROVE  ProcSettled(p)
    <2>1. \A k \in Slots : job[p][k].at = "idle"
      BY IdleOK DEF Init
    <2>2. Screened(p)
      BY DEF Init, Screened, Screen
    <2>. QED BY <2>1, <2>2 DEF ProcSettled, OneJob, JobSettled, NeedsSettled, Acting, At
  <1>. QED BY <1>1, <1>2 DEF SettledInv

\* Vaults of two accounts are never side by side in a device's cache: a login
\* wipes the cache of another account before it marks it with its own
\* (usecase.go, reconcileAccount), whatever fails in between and however often
\* the process is killed.
THEOREM CacheOfOneAccount == Orderly => (Spec => []NoMixing)
  <1>. SUFFICES ASSUME Orderly
                PROVE  Spec => []NoMixing
    OBVIOUS
  <1>1. Init => Typed /\ SettledInv
    BY InitTyped, InitSettled
  <1>2. Typed /\ SettledInv /\ [Next]_vars => (Typed /\ SettledInv)'
    BY NextTyped, NextSettled
  <1>3. SettledInv => NoMixing
    BY DEF SettledInv, FilesSettled, NoMixing
  <1>. QED BY <1>1, <1>2, <1>3, PTL DEF Spec

---------------------------------------------------------------------------
(* Layer 3: the keys.                                                      *)

\* One process can give an account its first key, and no answer is lost.
OneSource ==
    /\ \A p, q \in Tui : p = q
    /\ MaxLostReplies = 0

\* An account that has no key yet.
Fresh(u) == u # None /\ account[u] # None /\ account[u].enc = None

\* The key is the one of the account of the files, or becomes it.
Owns(d, key) == key # None /\ Settled(d) /\ Opened(tok[d], key)
MayGive(p) == p \in Tui /\ Fresh(tok[DeviceOf[p]])

\* What a client finds at the server.
RowsSalted == \A u \in Users : account[u] # None /\ account[u].enc # None => account[u].salt # 0
ServerKeyed == VaultKeysValid /\ RecoveryWorks /\ RowsSalted

FilesKeyed(d) ==
    /\ tok[d] # None => account[tok[d]] # None
    /\ kv[d].enc # None => Owns(d, kv[d].enc.key)

\* The row in memory: a row of another account is about to be dropped.
MemKeyed(p) ==
    mem[p].enc # None =>
        /\ mem[p].salt # 0
        /\ (\E i \in Slots : At(p, i, "forget")) \/ Owns(DeviceOf[p], mem[p].enc.key)

SessionKeyed(p) ==
    LET d == DeviceOf[p]
    IN /\ mk[p] # None => Owns(d, mk[p])
       /\ pin[p] # None => Owns(d, pin[p])
       /\ p \in Tui /\ ui[p].screen = "login" => mk[p] = None /\ pin[p] = None
       /\ p \in Tui /\ ui[p].screen = "setup" => mk[p] # None \/ MayGive(p)
       /\ p \notin Tui /\ Quiet(p) => mk[p] = None /\ pin[p] = None

\* The answer of a login has been taken.
Taken(j) == j.at \in {"cacheSalt", "cacheEnc", "prefetch", "cacheList"} \/ (j.at = "message" /\ j.ok)

\* A login: no key yet, the row of the answer, the account that was registered.
LoginKeyed(p, i) ==
    LET j == job[p][i]
    IN /\ j.at # "idle" /\ j.op \in Logins => mk[p] = None /\ pin[p] = None
       /\ j.at \in Taking => account[j.user] # None
       /\ j.at \in Taking /\ j.op # "register" /\ j.row.enc # None => j.row.salt # 0 /\ Opened(j.user, j.row.enc.key)
       /\ p \in Tui /\ j.at \in Taking /\ (j.op = "register" \/ j.row.enc = None) => Fresh(j.user)
       /\ p \in Tui /\ Taken(j) /\ (j.op = "register" \/ (j.op = "login" /\ mem[p].enc = None)) => MayGive(p)

\* The key another job carries.
KeyKeyed(p, i) ==
    LET d == DeviceOf[p]
        j == job[p][i]
    IN /\ j.at = "readKey" => mk[p] # None \/ MayGive(p)
       /\ j.at \in {"wrap", "setup"} => Owns(d, j.key) \/ MayGive(p)
       /\ j.at = "setup" => j.row.salt # 0 /\ j.row.enc # None /\ j.row.enc.key = j.key
       /\ j.at \in {"wrapCodes", "storeCodes", "markUsed", "createVault"} => Owns(d, j.key)
       /\ j.at \in {"unlockPIN", "setPIN"} /\ j.key # None => Owns(d, j.key)
       /\ j.at = "message" /\ j.op = "recover" /\ j.ok => mk[p] # None
       /\ j.at # "idle" /\ j.op = "vault" => ~j.alias

ProcKeyed(p) ==
    /\ MemKeyed(p)
    /\ SessionKeyed(p)
    /\ \A i \in Slots : LoginKeyed(p, i) /\ KeyKeyed(p, i)

KeyedAt(p) == ProcKeyed(p) /\ FilesKeyed(DeviceOf[p])

KeyedInv ==
    /\ left.replies = 0
    /\ ServerKeyed
    /\ \A d \in Devices : FilesKeyed(d)
    /\ \A p \in Procs : ProcKeyed(p)

---------------------------------------------------------------------------
(* The server: what an account's row opens, it opens ever after.           *)

Kept ==
    /\ \A u \in Users : account[u] # None => account'[u] # None
    /\ \A u \in Users : \A k : Opened(u, k) => Opened(u, k)'

FreshKept == \A u \in Users : Fresh(u) => Fresh(u)'

LEMMA AccountStays ==
    ASSUME UNCHANGED account
    PROVE  Kept /\ FreshKept
  BY DEF Kept, FreshKept, Opened, Fresh

LEMMA ServerStays ==
    ASSUME UNCHANGED server, ServerKeyed
    PROVE  Kept /\ FreshKept /\ ServerKeyed'
  BY AccountStays DEF server, ServerKeyed, VaultKeysValid, RecoveryWorks, RowsSalted, Opened

\* Codes and vaults of before are opened by the rows of after.
LEMMA RowsReplaced ==
    ASSUME ServerKeyed, Kept, UNCHANGED <<codes, vaults>>
    PROVE  VaultKeysValid' /\ RecoveryWorks'
  BY DEF Kept, ServerKeyed, VaultKeysValid, RecoveryWorks

LEMMA CreateUserKeyed ==
    ASSUME Typed, ServerKeyed, NEW u \in Users, account[u] = None, CreateUser(u)
    PROVE  Kept /\ FreshKept /\ ServerKeyed' /\ Fresh(u)' /\ account'[u] # None
  <1>1. EmptyRow \in EncRows /\ EmptyRow # None /\ EmptyRow.enc = None
    BY NoneApart DEF EmptyRow, EncRows
  <1>2. account'[u] = EmptyRow /\ \A v \in Users \ {u} : account'[v] = account[v]
    BY DEF CreateUser, Typed, StateTyped, TypeOK
  <1>3. Kept /\ FreshKept
    BY <1>1, <1>2 DEF Kept, FreshKept, Opened, Fresh
  <1>4. RowsSalted'
    BY <1>1, <1>2 DEF RowsSalted, ServerKeyed
  <1>5. Fresh(u)'
    BY <1>1, <1>2, NoneApart DEF Fresh
  <1>. QED BY <1>1, <1>2, <1>3, <1>4, <1>5, RowsReplaced DEF CreateUser, ServerKeyed

\* The new row wraps the key the old one wrapped, or the first of all.
LEMMA UpdateKeyed ==
    ASSUME Typed, ServerKeyed, NEW u \in Users, NEW row \in EncRows, NEW key,
           row.salt # 0, row.enc # None, row.enc.key = key,
           Opened(u, key) \/ Fresh(u), UpdateEncKDF(u, row)
    PROVE  Kept /\ ServerKeyed' /\ Opened(u, key)' /\ (Opened(u, key) => FreshKept)
  <1>1. row # None
    BY NoneApart
  <1>2. account'[u] = row /\ \A v \in Users \ {u} : account'[v] = account[v]
    BY DEF UpdateEncKDF, Typed, StateTyped, TypeOK
  <1>3. Opened(u, key)'
    BY <1>1, <1>2 DEF Opened
  <1>4. \A k : Opened(u, k) => k = key
    BY DEF Opened, Fresh
  <1>5. Kept
    <2>1. ASSUME NEW v \in Users, NEW k, Opened(v, k)
          PROVE  Opened(v, k)'
      BY <1>2, <1>3, <1>4, <2>1 DEF Opened
    <2>2. \A v \in Users : account[v] # None => account'[v] # None
      BY <1>1, <1>2
    <2>. QED BY <2>1, <2>2 DEF Kept
  <1>6. RowsSalted'
    BY <1>1, <1>2 DEF RowsSalted, ServerKeyed
  <1>7. Opened(u, key) => FreshKept
    BY <1>2 DEF Opened, FreshKept, Fresh
  <1>. QED BY <1>3, <1>5, <1>6, <1>7, RowsReplaced DEF UpdateEncKDF, ServerKeyed

LEMMA StoreCodesKeyed ==
    ASSUME Typed, ServerKeyed, NEW u \in Users, NEW set, NEW key, NEW n \in 0..CodeCount, Opened(u, key),
           StoreCodes(u, set, key, n)
    PROVE  Kept /\ FreshKept /\ ServerKeyed'
  <1>1. UNCHANGED <<account, vaults>>
    BY DEF StoreCodes
  <1>2. /\ \A r \in codes'[u] : r.key = key
        /\ \A v \in Users \ {u} : codes'[v] = codes[v]
    BY DEF StoreCodes, Typed, StateTyped
  <1>3. RecoveryWorks'
    BY <1>1, <1>2 DEF RecoveryWorks, ServerKeyed, Opened
  <1>. QED BY <1>1, <1>3, AccountStays DEF ServerKeyed, VaultKeysValid, RowsSalted, Opened

LEMMA MarkUsedKeyed ==
    ASSUME Typed, ServerKeyed, NEW u \in Users, NEW code, MarkUsed(u, code)
    PROVE  Kept /\ FreshKept /\ ServerKeyed'
  <1>1. UNCHANGED <<account, vaults>>
    BY DEF MarkUsed
  <1>2. \A v \in Users \ {u} : codes'[v] = codes[v]
    BY DEF MarkUsed, Typed, StateTyped
  <1>3. \A r \in codes'[u] : r.used \/ r \in codes[u]
    <2>1. codes'[u] = {IF IsCode(r, code) THEN [r EXCEPT !.used = TRUE] ELSE r : r \in codes[u]}
      BY DEF MarkUsed, Typed, StateTyped
    <2>2. ASSUME NEW r \in codes[u]
          PROVE  [r EXCEPT !.used = TRUE].used
      BY DEF Typed, StateTyped, CodeRows
    <2>. QED BY <2>1, <2>2
  <1>4. RecoveryWorks'
    BY <1>1, <1>2, <1>3 DEF RecoveryWorks, ServerKeyed, Opened
  <1>. QED BY <1>1, <1>4, AccountStays DEF ServerKeyed, VaultKeysValid, RowsSalted, Opened

LEMMA InsertVaultKeyed ==
    ASSUME Typed, ServerKeyed, NEW u \in Users, NEW key, Opened(u, key), InsertVault(u, key)
    PROVE  Kept /\ FreshKept /\ ServerKeyed'
  <1>1. UNCHANGED <<account, codes>>
    BY DEF InsertVault
  <1>2. vaults'[u] = vaults[u] \cup {key} /\ \A v \in Users \ {u} : vaults'[v] = vaults[v]
    BY DEF InsertVault, Typed, StateTyped
  <1>3. VaultKeysValid'
    BY <1>1, <1>2 DEF VaultKeysValid, ServerKeyed, Opened
  <1>. QED BY <1>1, <1>3, AccountStays DEF ServerKeyed, RecoveryWorks, RowsSalted, Opened

---------------------------------------------------------------------------
(* What others know of keys stays true.                                    *)

LEMMA OwnsKept ==
    ASSUME Typed, NEW d \in Devices, NEW key, Owns(d, key), Kept, kv'[d].user = kv[d].user, tok'[d] = tok[d]
    PROVE  Owns(d, key)'
  <1>1. tok[d] \in Users
    BY DEF Owns, Settled, Typed, StateTyped, TypeOK
  <1>2. Settled(d)' /\ key # None
    BY DEF Owns, Settled
  <1>3. Opened(tok[d], key)'
    BY <1>1 DEF Owns, Kept, Opened
  <1>. QED BY <1>2, <1>3 DEF Owns

LEMMA GiveKept ==
    ASSUME Typed, NEW p \in Procs, MayGive(p), FreshKept, tok'[DeviceOf[p]] = tok[DeviceOf[p]]
    PROVE  MayGive(p)'
  <1>1. tok[DeviceOf[p]] \in Users
    BY DeviceTyped DEF MayGive, Fresh, Typed, StateTyped, TypeOK
  <1>. QED BY <1>1 DEF MayGive, FreshKept, Fresh

LEMMA FilesKept ==
    ASSUME Typed, NEW d \in Devices, FilesKeyed(d), Kept, kv'[d] = kv[d], tok'[d] = tok[d]
    PROVE  FilesKeyed(d)'
  <1>1. kv[d].enc # None => Owns(d, kv[d].enc.key)'
    BY OwnsKept DEF FilesKeyed
  <1>2. tok[d] # None => tok[d] \in Users
    BY DEF Typed, StateTyped, TypeOK
  <1>. QED BY <1>1, <1>2 DEF FilesKeyed, Kept

\* A process that does not step, and whose files nobody else uses.
LEMMA RestKeyed ==
    ASSUME Typed, NEW q \in Procs, ProcKeyed(q), Kept, q \in Tui => FreshKept,
           job'[q] = job[q], ui'[q] = ui[q], mem'[q] = mem[q], mk'[q] = mk[q], pin'[q] = pin[q],
           kv'[DeviceOf[q]] = kv[DeviceOf[q]], tok'[DeviceOf[q]] = tok[DeviceOf[q]]
    PROVE  ProcKeyed(q)'
  <1>. DEFINE d == DeviceOf[q]
  <1>1. \A key : Owns(d, key) => Owns(d, key)'
    BY OwnsKept, DeviceTyped
  <1>2. MayGive(q) => MayGive(q)'
    BY GiveKept DEF MayGive
  <1>3. MemKeyed(q)'
    BY <1>1 DEF ProcKeyed, MemKeyed, At
  <1>4. SessionKeyed(q)'
    BY <1>1, <1>2 DEF ProcKeyed, SessionKeyed, Quiet, At
  <1>5. ASSUME NEW i \in Slots
        PROVE  LoginKeyed(q, i)'
    <2>. DEFINE j == job[q][i]
    <2>1. LoginKeyed(q, i)
      BY DEF ProcKeyed
    <2>2. j.at \in Taking => j.user \in Users
      BY JobTyped DEF Typed, JobOK, CarriesOf
    <2>3. j.at \in Taking => account'[j.user] # None
      BY <2>1, <2>2 DEF LoginKeyed, Kept
    <2>4. j.at \in Taking /\ j.op # "register" /\ j.row.enc # None => j.row.salt # 0 /\ Opened(j.user, j.row.enc.key)'
      BY <2>1, <2>2 DEF LoginKeyed, Kept
    <2>5. q \in Tui /\ j.at \in Taking /\ (j.op = "register" \/ j.row.enc = None) => Fresh(j.user)'
      BY <2>1, <2>2 DEF LoginKeyed, FreshKept
    <2>6. job[q][i]' = j
      OBVIOUS
    <2>. QED BY <1>2, <2>1, <2>3, <2>4, <2>5, <2>6 DEF LoginKeyed, Opened, Fresh
  <1>6. ASSUME NEW i \in Slots
        PROVE  KeyKeyed(q, i)'
    <2>1. KeyKeyed(q, i)
      BY DEF ProcKeyed
    <2>. QED BY <1>1, <1>2, <2>1 DEF KeyKeyed
  <1>. QED BY <1>3, <1>4, <1>5, <1>6 DEF ProcKeyed

---------------------------------------------------------------------------
(* A step of the process itself.                                           *)

\* A job knows of no key unless it is under way, and a login of none at all.
LEMMA NoLogin ==
    ASSUME JobsTyped', NEW p \in Procs, NEW i \in Slots, job'[p][i].at = "idle" \/ job'[p][i].op \notin Logins
    PROVE  LoginKeyed(p, i)'
  <1>1. StageOf(job[p][i])'
    BY DEF JobsTyped
  <1>2. CASE job'[p][i].at = "idle"
    BY <1>2 DEF LoginKeyed, Taking, Taken
  <1>3. CASE job'[p][i].op \notin Logins
    BY <1>1, <1>3 DEF LoginKeyed, StageOf, Logins, Taking, Taken
  <1>. QED BY <1>2, <1>3

LEMMA NoKey ==
    ASSUME JobsTyped', NEW p \in Procs, NEW i \in Slots, job'[p][i].at = "idle" \/ job'[p][i].op \in Logins
    PROVE  KeyKeyed(p, i)'
  <1>1. StageOf(job[p][i])'
    BY DEF JobsTyped
  <1>2. CASE job'[p][i].at = "idle"
    BY <1>2 DEF KeyKeyed
  <1>3. CASE job'[p][i].op \in Logins
    BY <1>1, <1>3 DEF KeyKeyed, StageOf, Logins
  <1>. QED BY <1>2, <1>3

LEMMA SingleKeyed ==
    ASSUME JobsTyped', NEW p \in Procs, NEW i \in Slots, \A k \in Slots \ {i} : job'[p][k].at = "idle",
           MemKeyed(p)', SessionKeyed(p)', LoginKeyed(p, i)', KeyKeyed(p, i)', FilesKeyed(DeviceOf[p])'
    PROVE  KeyedAt(p)'
  <1>1. \A k \in Slots \ {i} : LoginKeyed(p, k)' /\ KeyKeyed(p, k)'
    BY NoLogin, NoKey
  <1>. QED BY <1>1 DEF KeyedAt, ProcKeyed

LEMMA SilentKeyed ==
    ASSUME JobsTyped', NEW p \in Procs, \A k \in Slots : job'[p][k].at = "idle",
           MemKeyed(p)', SessionKeyed(p)', FilesKeyed(DeviceOf[p])'
    PROVE  KeyedAt(p)'
  <1>1. \A k \in Slots : LoginKeyed(p, k)' /\ KeyKeyed(p, k)'
    BY NoLogin, NoKey
  <1>. QED BY <1>1 DEF KeyedAt, ProcKeyed

\* The other jobs of a process with a job under way.
LEMMA OthersIdle ==
    ASSUME NEW p \in Procs, NEW i \in Slots, SettledAt(p), ~At(p, i, "idle")
    PROVE  /\ \A k \in Slots \ {i} : job[p][k].at = "idle"
           /\ OthersStay(p, i) => \A k \in Slots \ {i} : job'[p][k].at = "idle"
  BY DEF SettledAt, ProcSettled, OneJob, At, OthersStay

LEMMA MemOwned ==
    ASSUME NEW p \in Procs, NEW i \in Slots, SettledAt(p), KeyedAt(p), ~At(p, i, "idle"), ~At(p, i, "forget"),
           mem[p].enc # None
    PROVE  mem[p].salt # 0 /\ Owns(DeviceOf[p], mem[p].enc.key)
  <1>1. \A k \in Slots : ~At(p, k, "forget")
    BY OthersIdle DEF At
  <1>. QED BY <1>1 DEF KeyedAt, ProcKeyed, MemKeyed

\* A job other than a login: the login screen is not shown.
LEMMA WorkKeyed ==
    ASSUME Typed, JobsTyped', NEW p \in Procs, NEW i \in Slots, SettledAt(p), KeyedAt(p),
           ~At(p, i, "idle"), job[p][i].op \notin Logins, Kept, FreshKept,
           UNCHANGED <<tok, mem, ui>>, kv'[DeviceOf[p]].user = kv[DeviceOf[p]].user,
           kv'[DeviceOf[p]].enc # None => Owns(DeviceOf[p], kv[DeviceOf[p]].enc.key)',
           mk'[p] # None => Owns(DeviceOf[p], mk[p])', pin'[p] # None => Owns(DeviceOf[p], pin[p])',
           mk[p] # None => mk'[p] # None,
           OthersStay(p, i), job'[p][i].op \notin Logins, job'[p][i].at # "idle", KeyKeyed(p, i)'
    PROVE  KeyedAt(p)'
  <1>. DEFINE d == DeviceOf[p]
  <1>1. d \in Devices /\ job[p][i].at \notin {"idle", "forget"}
    BY DeviceTyped, JobTyped DEF At, Typed, JobOK, StageOf, Taking, Logins
  <1>2. MemKeyed(p)'
    <2>1. mem[p].enc # None => mem[p].salt # 0 /\ Owns(d, mem[p].enc.key)
      BY <1>1, MemOwned DEF At
    <2>2. mem[p].enc # None => Owns(d, mem[p].enc.key)'
      BY <1>1, <2>1, OwnsKept
    <2>. QED BY <2>1, <2>2 DEF MemKeyed
  <1>3. SessionKeyed(p)'
    <2>1. p \in Tui => ui[p].screen # "login"
      <3>1. JobSettled(p, i) /\ JobOK(job[p][i])
        BY JobTyped DEF SettledAt, ProcSettled, Typed
      <3>. QED BY <1>1, <3>1 DEF JobSettled, ShownFor, JobOK, StageOf, Ops, Logins
    <2>2. p \in Tui /\ ui[p].screen = "setup" => mk'[p] # None \/ MayGive(p)'
      BY GiveKept DEF KeyedAt, ProcKeyed, SessionKeyed
    <2>3. ~Quiet(p)'
      BY DEF Quiet, At
    <2>. QED BY <2>1, <2>2, <2>3 DEF SessionKeyed
  <1>4. FilesKeyed(d)'
    <2>1. tok[d] # None => account'[tok[d]] # None
      BY <1>1 DEF KeyedAt, FilesKeyed, Kept, Typed, StateTyped, TypeOK
    <2>. QED BY <2>1 DEF FilesKeyed
  <1>. QED BY <1>2, <1>3, <1>4, OthersIdle, NoLogin, SingleKeyed

\* Session and wrapped key on disk as they were.
LEMMA CalmKeyed ==
    ASSUME Typed, JobsTyped', NEW p \in Procs, NEW i \in Slots, SettledAt(p), KeyedAt(p),
           ~At(p, i, "idle"), job[p][i].op \notin Logins, Kept, FreshKept, UNCHANGED <<kv, tok, mem, session, ui>>,
           OthersStay(p, i), job'[p][i].op \notin Logins, job'[p][i].at # "idle", KeyKeyed(p, i)'
    PROVE  KeyedAt(p)'
  <1>. DEFINE d == DeviceOf[p]
  <1>1. UNCHANGED <<mk, pin>> /\ d \in Devices
    BY DeviceTyped DEF session
  <1>2. /\ kv[d].enc # None => Owns(d, kv[d].enc.key)
        /\ mk[p] # None => Owns(d, mk[p])
        /\ pin[p] # None => Owns(d, pin[p])
    BY DEF KeyedAt, ProcKeyed, SessionKeyed, FilesKeyed
  <1>3. \A key : Owns(d, key) => Owns(d, key)'
    BY <1>1, OwnsKept
  <1>4. /\ kv[d].enc # None => Owns(d, kv[d].enc.key)'
        /\ mk[p] # None => Owns(d, mk[p])'
        /\ pin[p] # None => Owns(d, pin[p])'
    BY <1>1, <1>2, <1>3
  <1>. QED BY <1>1, <1>4, WorkKeyed

\* The end of a job, which hands on nothing.
LEMMA EndKeyed ==
    ASSUME NEW p \in Procs, NEW i \in Slots, KeyKeyed(p, i), ~At(p, i, "idle"), Succeeds(p, i) \/ Fails(p, i),
           job[p][i].op = "recover" => Fails(p, i) \/ mk'[p] # None
    PROVE  KeyKeyed(p, i)'
  BY DEF KeyKeyed, At, Succeeds, Fails, Becomes

LEMMA ReturnKeyed ==
    ASSUME Typed, JobsTyped', NEW p \in Procs, NEW i \in Slots, SettledAt(p), KeyedAt(p),
           ~At(p, i, "idle"), job[p][i].op \notin Logins, Kept, FreshKept, UNCHANGED <<kv, tok, mem, session, ui>>,
           Succeeds(p, i) \/ Fails(p, i), job[p][i].op = "recover" => Fails(p, i)
    PROVE  KeyedAt(p)'
  <1>1. OthersStay(p, i) /\ job'[p][i].op = job[p][i].op /\ job'[p][i].at = "message"
    BY DEF Succeeds, Fails, Becomes
  <1>2. KeyKeyed(p, i)'
    BY EndKeyed DEF KeyedAt, ProcKeyed
  <1>. QED BY <1>1, <1>2, CalmKeyed

LEMMA ReadKeyKeyed ==
    ASSUME Typed, JobsTyped', NEW p \in Procs, NEW i \in Slots, SettledAt(p), KeyedAt(p), ServerKeyed, ReadKey(p, i)
    PROVE  KeyedAt(p)'
  <1>1. /\ job[p][i].at = "readKey" /\ UNCHANGED <<server, disk, mem, session, ui>>
        /\ job'[p][i].at = "wrap" /\ job'[p][i].op = job[p][i].op /\ OthersStay(p, i)
        /\ job'[p][i].key = IF mk[p] # None THEN mk[p] ELSE serial + 1
    BY ReadKeyDoes
  <1>2. job[p][i].op = "setup"
    BY <1>1, JobTyped DEF Typed, JobOK, StageOf
  <1>3. Kept /\ FreshKept /\ DeviceOf[p] \in Devices /\ UNCHANGED <<kv, tok>>
    BY <1>1, ServerStays, DeviceTyped DEF disk
  <1>4. Owns(DeviceOf[p], job'[p][i].key) \/ MayGive(p)
    BY <1>1 DEF KeyedAt, ProcKeyed, SessionKeyed, KeyKeyed
  <1>5. Owns(DeviceOf[p], job[p][i].key)' \/ MayGive(p)'
    <2>1. Owns(DeviceOf[p], job'[p][i].key) => Owns(DeviceOf[p], job[p][i].key)'
      BY <1>1 DEF Owns, Settled, Opened, disk, server
    <2>. QED BY <1>3, <1>4, <2>1, GiveKept
  <1>6. KeyKeyed(p, i)'
    BY <1>1, <1>2, <1>5 DEF KeyKeyed
  <1>. QED BY <1>1, <1>2, <1>3, <1>6, CalmKeyed DEF Logins, At

LEMMA WrapKeyed ==
    ASSUME Typed, JobsTyped', NEW p \in Procs, NEW i \in Slots, SettledAt(p), KeyedAt(p), ServerKeyed, Wrap(p, i)
    PROVE  KeyedAt(p)'
  <1>1. /\ job[p][i].at = "wrap" /\ UNCHANGED <<server, disk, mem, session, ui>>
        /\ \/ Fails(p, i)
           \/ /\ job'[p][i].at = "setup" /\ job'[p][i].op = job[p][i].op /\ job'[p][i].key = job[p][i].key
              /\ OthersStay(p, i) /\ job'[p][i].row.salt # 0 /\ job'[p][i].row.enc # None
              /\ job'[p][i].row.enc.key = job[p][i].key
    BY WrapDoes
  <1>2. job[p][i].op = "setup"
    BY <1>1, JobTyped DEF Typed, JobOK, StageOf
  <1>3. Kept /\ FreshKept /\ DeviceOf[p] \in Devices /\ UNCHANGED <<kv, tok>>
    BY <1>1, ServerStays, DeviceTyped DEF disk
  <1>4. CASE Fails(p, i)
    BY <1>1, <1>2, <1>3, <1>4, ReturnKeyed DEF Logins, At
  <1>5. CASE ~Fails(p, i)
    <2>1. Owns(DeviceOf[p], job[p][i].key) \/ MayGive(p)
      BY <1>1 DEF KeyedAt, ProcKeyed, KeyKeyed
    <2>2. Owns(DeviceOf[p], job[p][i].key) => Owns(DeviceOf[p], job[p][i].key)'
      BY <1>1, <1>5 DEF Owns, Settled, Opened, disk, server
    <2>3. Owns(DeviceOf[p], job[p][i].key)' \/ MayGive(p)'
      BY <1>3, <2>1, <2>2, GiveKept
    <2>4. KeyKeyed(p, i)'
      BY <1>1, <1>2, <1>5, <2>3 DEF KeyKeyed
    <2>. QED BY <1>1, <1>2, <1>3, <1>5, <2>4, CalmKeyed DEF Logins, At
  <1>. QED BY <1>4, <1>5

LEMMA GenKeyKeyed ==
    ASSUME Typed, JobsTyped', NEW p \in Procs, NEW i \in Slots, SettledAt(p), KeyedAt(p), ServerKeyed, GenKey(p, i)
    PROVE  KeyedAt(p)'
  <1>1. /\ job[p][i].at = "genKey" /\ UNCHANGED <<server, disk, mem, session, ui>>
        /\ \/ Succeeds(p, i)
           \/ /\ job'[p][i].at = "wrapCodes" /\ job'[p][i].op = job[p][i].op /\ mk[p] # None
              /\ job'[p][i].key = mk[p] /\ OthersStay(p, i)
    BY GenKeyDoes
  <1>2. job[p][i].op = "setup"
    BY <1>1, JobTyped DEF Typed, JobOK, StageOf
  <1>3. Kept /\ FreshKept /\ UNCHANGED <<kv, tok>>
    BY <1>1, ServerStays DEF disk
  <1>4. CASE Succeeds(p, i)
    BY <1>1, <1>2, <1>3, <1>4, ReturnKeyed DEF Logins, At
  <1>5. CASE ~Succeeds(p, i)
    <2>1. Owns(DeviceOf[p], mk[p])
      BY <1>1, <1>5 DEF KeyedAt, ProcKeyed, SessionKeyed
    <2>2. Owns(DeviceOf[p], job[p][i].key)'
      BY <1>1, <1>5, <2>1 DEF Owns, Settled, Opened, disk, server
    <2>3. KeyKeyed(p, i)'
      BY <1>1, <1>2, <1>5, <2>2 DEF KeyKeyed
    <2>. QED BY <1>1, <1>2, <1>3, <1>5, <2>3, CalmKeyed DEF Logins, At
  <1>. QED BY <1>4, <1>5

LEMMA WrapCodesKeyed ==
    ASSUME Typed, JobsTyped', NEW p \in Procs, NEW i \in Slots, SettledAt(p), KeyedAt(p), ServerKeyed, WrapCodes(p, i)
    PROVE  KeyedAt(p)'
  <1>1. /\ job[p][i].at = "wrapCodes" /\ UNCHANGED <<server, disk, mem, session, ui>>
        /\ job'[p][i].at = "storeCodes" /\ job'[p][i].op = job[p][i].op /\ job'[p][i].key = job[p][i].key
        /\ OthersStay(p, i)
    BY WrapCodesDoes
  <1>2. job[p][i].op = "setup"
    BY <1>1, JobTyped DEF Typed, JobOK, StageOf
  <1>3. Kept /\ FreshKept /\ UNCHANGED <<kv, tok>>
    BY <1>1, ServerStays DEF disk
  <1>4. Owns(DeviceOf[p], job[p][i].key)
    BY <1>1 DEF KeyedAt, ProcKeyed, KeyKeyed
  <1>5. Owns(DeviceOf[p], job[p][i].key)'
    BY <1>1, <1>4 DEF Owns, Settled, Opened, disk, server
  <1>6. KeyKeyed(p, i)'
    BY <1>1, <1>2, <1>5 DEF KeyKeyed
  <1>. QED BY <1>1, <1>2, <1>3, <1>6, CalmKeyed DEF Logins, At

---------------------------------------------------------------------------
(* Recovery codes.                                                         *)

LEMMA OwnerKnown ==
    ASSUME Typed, NEW p \in Procs, NEW key, Owns(DeviceOf[p], key)
    PROVE  tok[DeviceOf[p]] \in Users /\ Opened(tok[DeviceOf[p]], key)
  BY DeviceTyped DEF Owns, Settled, Typed, StateTyped, TypeOK

LEMMA StoreRecoveryCodesKeyed ==
    ASSUME Typed, JobsTyped', NEW p \in Procs, NEW i \in Slots, SettledAt(p), KeyedAt(p), ServerKeyed,
           StoreRecoveryCodes(p, i)
    PROVE  KeyedAt(p)' /\ Kept /\ FreshKept /\ ServerKeyed'
  <1>. DEFINE j == job[p][i]
  <1>1. /\ j.at = "storeCodes" /\ UNCHANGED <<disk, mem, session, ui>>
        /\ UNCHANGED server \/ \E n \in 0..CodeCount : StoreCodes(j.user, j.code, j.key, n)
        /\ \/ Succeeds(p, i)
           \/ job'[p][i].at = "message" /\ job'[p][i].op = "codes" /\ OthersStay(p, i)
    BY StoreRecoveryCodesDoes
  <1>2. j.op = "setup"
    BY <1>1, JobTyped DEF Typed, JobOK, StageOf
  <1>3. j.user \in Users /\ Opened(j.user, j.key)
    <2>1. j.user = tok[DeviceOf[p]]
      BY <1>1 DEF SettledAt, ProcSettled, JobSettled, Acting
    <2>2. Owns(DeviceOf[p], j.key)
      BY <1>1 DEF KeyedAt, ProcKeyed, KeyKeyed
    <2>. QED BY <2>1, <2>2, OwnerKnown
  <1>4. Kept /\ FreshKept /\ ServerKeyed'
    BY <1>1, <1>3, ServerStays, StoreCodesKeyed
  <1>5. CASE Succeeds(p, i)
    BY <1>1, <1>2, <1>4, <1>5, ReturnKeyed DEF Logins, At, disk
  <1>6. CASE job'[p][i].at = "message" /\ job'[p][i].op = "codes" /\ OthersStay(p, i)
    <2>1. KeyKeyed(p, i)'
      BY <1>6 DEF KeyKeyed
    <2>. QED BY <1>1, <1>2, <1>4, <1>6, <2>1, CalmKeyed DEF Logins, At, disk
  <1>. QED BY <1>1, <1>4, <1>5, <1>6

LEMMA GetRecoveryBlobKeyed ==
    ASSUME Typed, JobsTyped', NEW p \in Procs, NEW i \in Slots, SettledAt(p), KeyedAt(p), ServerKeyed,
           GetRecoveryBlob(p, i)
    PROVE  KeyedAt(p)'
  <1>. DEFINE j == job[p][i]
  <1>1. /\ j.at = "getBlob" /\ UNCHANGED <<server, disk, mem, session, ui>>
        /\ \/ Fails(p, i)
           \/ /\ job'[p][i].at = "markUsed" /\ job'[p][i].op = j.op /\ job'[p][i].user = j.user /\ OthersStay(p, i)
              /\ j.user \in Users /\ \E c \in codes[j.user] : ~c.used /\ c.key \in Nat /\ job'[p][i].key = c.key
    BY GetRecoveryBlobDoes
  <1>2. j.op = "recover"
    BY <1>1, JobTyped DEF Typed, JobOK, StageOf
  <1>3. Kept /\ FreshKept /\ UNCHANGED <<kv, tok>>
    BY <1>1, ServerStays DEF disk
  <1>4. CASE Fails(p, i)
    BY <1>1, <1>2, <1>3, <1>4, ReturnKeyed DEF Logins, At
  <1>5. CASE ~Fails(p, i)
    <2>1. Opened(j.user, job'[p][i].key) /\ job'[p][i].key # None
      BY <1>1, <1>5, NoneApart DEF ServerKeyed, RecoveryWorks
    <2>2. j.user = tok[DeviceOf[p]] /\ Settled(DeviceOf[p])
      BY <1>1, <1>2 DEF SettledAt, ProcSettled, JobSettled, Acting, NeedsSettled, Logins
    <2>3. Owns(DeviceOf[p], job[p][i].key)'
      BY <1>1, <2>1, <2>2 DEF Owns, Settled, Opened, disk, server
    <2>4. KeyKeyed(p, i)'
      BY <1>1, <1>2, <1>5, <2>3 DEF KeyKeyed
    <2>. QED BY <1>1, <1>2, <1>3, <1>5, <2>4, CalmKeyed DEF Logins, At
  <1>. QED BY <1>4, <1>5

---------------------------------------------------------------------------
(* The session takes a key.                                                *)

LEMMA TakesKey ==
    ASSUME Typed, JobsTyped', NEW p \in Procs, NEW i \in Slots, SettledAt(p), KeyedAt(p),
           ~At(p, i, "idle"), job[p][i].op \notin Logins, Kept, FreshKept, UNCHANGED <<disk, mem, ui>>,
           Succeeds(p, i), NEW key, Owns(DeviceOf[p], key), SetMasterKey(p, key)
    PROVE  KeyedAt(p)'
  <1>. DEFINE d == DeviceOf[p]
  <1>1. mk'[p] = key /\ pin' = pin /\ key # None
    BY DEF SetMasterKey, Owns, Typed, StateTyped, TypeOK
  <1>2. d \in Devices /\ UNCHANGED <<kv, tok>>
    BY DeviceTyped DEF disk
  <1>3. \A k : Owns(d, k) => Owns(d, k)'
    BY <1>2, OwnsKept
  <1>4. mk'[p] # None => Owns(d, mk[p])'
    BY <1>1, <1>3 DEF Owns, Opened
  <1>5. pin'[p] # None => Owns(d, pin[p])'
    BY <1>1, <1>3 DEF KeyedAt, ProcKeyed, SessionKeyed
  <1>6. kv'[d].enc # None => Owns(d, kv[d].enc.key)'
    BY <1>2, <1>3 DEF KeyedAt, FilesKeyed
  <1>7. OthersStay(p, i) /\ job'[p][i].op = job[p][i].op /\ job'[p][i].at = "message"
    BY DEF Succeeds, Becomes
  <1>8. KeyKeyed(p, i)'
    BY <1>1, EndKeyed DEF KeyedAt, ProcKeyed
  <1>. QED BY <1>1, <1>2, <1>4, <1>5, <1>6, <1>7, <1>8, WorkKeyed

LEMMA MarkRecoveryCodeUsedKeyed ==
    ASSUME Typed, JobsTyped', NEW p \in Procs, NEW i \in Slots, SettledAt(p), KeyedAt(p), ServerKeyed,
           MarkRecoveryCodeUsed(p, i)
    PROVE  KeyedAt(p)' /\ Kept /\ FreshKept /\ ServerKeyed'
  <1>. DEFINE j == job[p][i]
  <1>1. /\ j.at = "markUsed" /\ UNCHANGED <<disk, mem, ui>>
        /\ MarkUsed(j.user, j.code) \/ UNCHANGED server
        /\ SetMasterKey(p, j.key) /\ Succeeds(p, i)
    BY MarkRecoveryCodeUsedDoes DEF Typed
  <1>2. Owns(DeviceOf[p], j.key)
    BY <1>1 DEF KeyedAt, ProcKeyed, KeyKeyed
  <1>3. j.user \in Users
    <2>1. j.user = tok[DeviceOf[p]]
      BY <1>1 DEF SettledAt, ProcSettled, JobSettled, Acting
    <2>. QED BY <1>2, <2>1, OwnerKnown
  <1>4. Kept /\ FreshKept /\ ServerKeyed'
    BY <1>1, <1>3, ServerStays, MarkUsedKeyed
  <1>5. KeyedAt(p)'
    BY <1>1, <1>2, <1>4, OpOf, TakesKey
  <1>. QED BY <1>4, <1>5

LEMMA UnlockKeyed ==
    ASSUME Typed, JobsTyped', NEW p \in Procs, NEW i \in Slots, SettledAt(p), KeyedAt(p), ServerKeyed, Unlock(p, i)
    PROVE  KeyedAt(p)'
  <1>1. /\ job[p][i].at = "unlock" /\ UNCHANGED <<server, disk, mem, ui>>
        /\ \/ Succeeds(p, i) /\ mem[p].enc # None /\ SetMasterKey(p, mem[p].enc.key)
           \/ Fails(p, i) /\ UNCHANGED session
    BY UnlockDoes DEF Typed
  <1>2. Kept /\ FreshKept /\ UNCHANGED <<kv, tok>>
    BY <1>1, ServerStays DEF disk
  <1>3. job[p][i].op = "unlock"
    BY <1>1, JobTyped DEF Typed, JobOK, StageOf
  <1>4. CASE Succeeds(p, i) /\ mem[p].enc # None /\ SetMasterKey(p, mem[p].enc.key)
    <2>1. Owns(DeviceOf[p], mem[p].enc.key)
      BY <1>1, <1>4, MemOwned DEF At
    <2>. QED BY <1>1, <1>2, <1>4, <2>1, OpOf, TakesKey
  <1>5. CASE Fails(p, i) /\ UNCHANGED session
    BY <1>1, <1>2, <1>5, OpOf, ReturnKeyed
  <1>. QED BY <1>1, <1>4, <1>5

LEMMA UnlockWithPINKeyed ==
    ASSUME Typed, JobsTyped', NEW p \in Procs, NEW i \in Slots, SettledAt(p), KeyedAt(p), ServerKeyed, UnlockWithPIN(p, i)
    PROVE  KeyedAt(p)'
  <1>1. /\ job[p][i].at = "unlockPIN" /\ UNCHANGED <<server, disk, mem, ui>>
        /\ \/ Succeeds(p, i) /\ job[p][i].key # None /\ SetMasterKey(p, job[p][i].key)
           \/ Fails(p, i) /\ UNCHANGED session
    BY UnlockWithPINDoes DEF Typed
  <1>2. Kept /\ FreshKept /\ UNCHANGED <<kv, tok>>
    BY <1>1, ServerStays DEF disk
  <1>3. job[p][i].key # None => Owns(DeviceOf[p], job[p][i].key)
    BY <1>1 DEF KeyedAt, ProcKeyed, KeyKeyed
  <1>4. CASE Succeeds(p, i) /\ job[p][i].key # None /\ SetMasterKey(p, job[p][i].key)
    BY <1>1, <1>2, <1>3, <1>4, OpOf, TakesKey
  <1>5. CASE Fails(p, i) /\ UNCHANGED session
    BY <1>1, <1>2, <1>5, OpOf, ReturnKeyed
  <1>. QED BY <1>1, <1>4, <1>5

LEMMA SetPINKeyed ==
    ASSUME Typed, JobsTyped', NEW p \in Procs, NEW i \in Slots, SettledAt(p), KeyedAt(p), ServerKeyed, SetPIN(p, i)
    PROVE  KeyedAt(p)'
  <1>. DEFINE d == DeviceOf[p]
              j == job[p][i]
  <1>1. /\ j.at = "setPIN" /\ UNCHANGED <<server, disk, mem, mk, ui>>
        /\ \/ Succeeds(p, i) /\ j.key # None /\ pin' = [pin EXCEPT ![p] = j.key]
           \/ Fails(p, i) /\ UNCHANGED pin
    BY SetPINDoes DEF Typed
  <1>2. Kept /\ FreshKept /\ UNCHANGED <<kv, tok>> /\ d \in Devices
    BY <1>1, ServerStays, DeviceTyped DEF disk
  <1>3. j.key # None => Owns(d, j.key)
    BY <1>1 DEF KeyedAt, ProcKeyed, KeyKeyed
  <1>4. j.op = "setPIN"
    BY <1>1, JobTyped DEF Typed, JobOK, StageOf
  <1>5. CASE Succeeds(p, i) /\ j.key # None /\ pin' = [pin EXCEPT ![p] = j.key]
    <2>1. pin'[p] = j.key
      BY <1>5 DEF Typed, StateTyped, TypeOK
    <2>2. \A k : Owns(d, k) => Owns(d, k)'
      BY <1>2, OwnsKept
    <2>3. Owns(d, pin[p])'
      BY <1>3, <1>5, <2>1, <2>2 DEF Owns, Opened
    <2>4. mk'[p] # None => Owns(d, mk[p])'
      BY <1>1, <2>2 DEF KeyedAt, ProcKeyed, SessionKeyed
    <2>5. kv'[d].enc # None => Owns(d, kv[d].enc.key)'
      BY <1>2, <2>2 DEF KeyedAt, FilesKeyed
    <2>6. OthersStay(p, i) /\ job'[p][i].op = j.op /\ job'[p][i].at = "message"
      BY <1>5 DEF Succeeds, Becomes
    <2>7. KeyKeyed(p, i)'
      BY <1>1, <1>4, <1>5, EndKeyed DEF KeyedAt, ProcKeyed, At
    <2>. QED BY <1>1, <1>2, <1>4, <2>3, <2>4, <2>5, <2>6, <2>7, OpOf, WorkKeyed
  <1>6. CASE Fails(p, i) /\ UNCHANGED pin
    BY <1>1, <1>2, <1>6, OpOf, ReturnKeyed DEF session
  <1>. QED BY <1>1, <1>5, <1>6

---------------------------------------------------------------------------
(* Vaults.                                                                 *)

LEMMA NewVaultKeyed ==
    ASSUME Typed, JobsTyped', NEW p \in Procs, NEW i \in Slots, SettledAt(p), KeyedAt(p), ServerKeyed, NewVault(p, i)
    PROVE  KeyedAt(p)'
  <1>. DEFINE j == job[p][i]
  <1>1. /\ j.at = "newVault" /\ UNCHANGED <<server, disk, mem, session, ui>>
        /\ \/ Fails(p, i)
           \/ /\ job'[p][i].at = "createVault" /\ job'[p][i].op = j.op /\ job'[p][i].alias = j.alias
              /\ OthersStay(p, i) /\ mk[p] # None /\ job'[p][i].key = mk[p]
    BY NewVaultDoes
  <1>2. j.op = "vault"
    BY <1>1, JobTyped DEF Typed, JobOK, StageOf
  <1>3. Kept /\ FreshKept /\ UNCHANGED <<kv, tok>>
    BY <1>1, ServerStays DEF disk
  <1>4. CASE Fails(p, i)
    BY <1>1, <1>2, <1>3, <1>4, ReturnKeyed DEF Logins, At
  <1>5. CASE ~Fails(p, i)
    <2>1. Owns(DeviceOf[p], mk[p]) /\ ~j.alias
      BY <1>1, <1>2, <1>5 DEF KeyedAt, ProcKeyed, SessionKeyed, KeyKeyed
    <2>2. Owns(DeviceOf[p], job[p][i].key)'
      BY <1>1, <1>5, <2>1 DEF Owns, Settled, Opened, disk, server
    <2>3. KeyKeyed(p, i)'
      BY <1>1, <1>2, <1>5, <2>1, <2>2 DEF KeyKeyed
    <2>. QED BY <1>1, <1>2, <1>3, <1>5, <2>3, CalmKeyed DEF Logins, At
  <1>. QED BY <1>4, <1>5

LEMMA CreateVaultKeyed ==
    ASSUME Typed, JobsTyped', NEW p \in Procs, NEW i \in Slots, SettledAt(p), KeyedAt(p), ServerKeyed, CreateVault(p, i)
    PROVE  KeyedAt(p)' /\ Kept /\ FreshKept /\ ServerKeyed'
  <1>. DEFINE j == job[p][i]
  <1>1. /\ j.at = "createVault" /\ UNCHANGED <<disk, mem, session, ui>>
        /\ UNCHANGED server \/ InsertVault(j.user, j.key)
        /\ Becomes(p, i, "cacheVault") \/ Fails(p, i)
    BY CreateVaultDoes DEF Typed
  <1>2. j.op = "vault"
    BY <1>1, JobTyped DEF Typed, JobOK, StageOf
  <1>3. j.user \in Users /\ Opened(j.user, j.key)
    <2>1. j.user = tok[DeviceOf[p]]
      BY <1>1 DEF SettledAt, ProcSettled, JobSettled, Acting
    <2>2. Owns(DeviceOf[p], j.key)
      BY <1>1 DEF KeyedAt, ProcKeyed, KeyKeyed
    <2>. QED BY <2>1, <2>2, OwnerKnown
  <1>4. Kept /\ FreshKept /\ ServerKeyed'
    BY <1>1, <1>3, ServerStays, InsertVaultKeyed
  <1>5. CASE Fails(p, i)
    BY <1>1, <1>2, <1>4, <1>5, ReturnKeyed DEF Logins, At, disk
  <1>6. CASE Becomes(p, i, "cacheVault")
    <2>1. KeyKeyed(p, i)
      BY DEF KeyedAt, ProcKeyed
    <2>2. KeyKeyed(p, i)'
      BY <1>1, <1>2, <1>6, <2>1 DEF KeyKeyed, Becomes
    <2>. QED BY <1>1, <1>2, <1>4, <1>6, <2>2, CalmKeyed DEF Logins, At, disk, Becomes
  <1>. QED BY <1>1, <1>4, <1>5, <1>6

LEMMA CachingKeyed ==
    ASSUME Typed, JobsTyped', NEW p \in Procs, NEW i \in Slots, SettledAt(p), KeyedAt(p), ServerKeyed,
           CacheVault(p, i) \/ PruneStaleVaults(p, i)
    PROVE  KeyedAt(p)'
  <1>1. /\ job[p][i].at \in {"cacheVault", "prune"} /\ UNCHANGED <<server, kv, tok, mem, session, ui>>
        /\ Succeeds(p, i)
    BY CacheVaultDoes, PruneDoes
  <1>2. job[p][i].op \in {"vault", "list"}
    BY <1>1, JobTyped DEF Typed, JobOK, StageOf
  <1>. QED BY <1>1, <1>2, ServerStays, ReturnKeyed DEF Logins, At

LEMMA ListVaultsKeyed ==
    ASSUME Typed, JobsTyped', NEW p \in Procs, NEW i \in Slots, SettledAt(p), KeyedAt(p), ServerKeyed, ListVaults(p, i)
    PROVE  KeyedAt(p)'
  <1>1. /\ job[p][i].at = "listVaults" /\ UNCHANGED <<server, disk, mem, session, ui>>
        /\ \/ Fails(p, i)
           \/ job'[p][i].at = "cacheList" /\ job'[p][i].op = job[p][i].op /\ OthersStay(p, i)
    BY ListVaultsDoes
  <1>2. job[p][i].op = "list"
    BY <1>1, JobTyped DEF Typed, JobOK, StageOf
  <1>3. Kept /\ FreshKept /\ UNCHANGED <<kv, tok>>
    BY <1>1, ServerStays DEF disk
  <1>4. CASE job'[p][i].at = "cacheList" /\ job'[p][i].op = job[p][i].op /\ OthersStay(p, i)
    <2>1. KeyKeyed(p, i)'
      BY <1>2, <1>4 DEF KeyKeyed
    <2>. QED BY <1>1, <1>2, <1>3, <1>4, <2>1, CalmKeyed DEF Logins, At
  <1>. QED BY <1>1, <1>2, <1>3, <1>4, ReturnKeyed DEF Logins, At

---------------------------------------------------------------------------
(* Logins.                                                                 *)

LEMMA MemStays ==
    ASSUME Typed, NEW p \in Procs, NEW i \in Slots, SettledAt(p), KeyedAt(p), ~At(p, i, "idle"), ~At(p, i, "forget"),
           Kept, UNCHANGED <<tok, mem>>, kv'[DeviceOf[p]].user = kv[DeviceOf[p]].user
    PROVE  MemKeyed(p)'
  <1>1. mem[p].enc # None => mem[p].salt # 0 /\ Owns(DeviceOf[p], mem[p].enc.key)
    BY MemOwned
  <1>2. mem[p].enc # None => Owns(DeviceOf[p], mem[p].enc.key)'
    BY <1>1, OwnsKept, DeviceTyped
  <1>. QED BY <1>1, <1>2 DEF MemKeyed

\* A login that moves on: the login screen is shown, the session is empty.
LEMMA EnterKeyed ==
    ASSUME Typed, JobsTyped', NEW p \in Procs, NEW i \in Slots, SettledAt(p), ~At(p, i, "idle"), job[p][i].op \in Logins,
           OthersStay(p, i), UNCHANGED ui, job'[p][i].at # "idle", job'[p][i].op = job[p][i].op,
           mk'[p] = None, pin'[p] = None, MemKeyed(p)', FilesKeyed(DeviceOf[p])', LoginKeyed(p, i)'
    PROVE  KeyedAt(p)'
  <1>1. p \in Tui => ui[p].screen = "login"
    BY DEF SettledAt, ProcSettled, JobSettled, ShownFor, Logins, At
  <1>2. SessionKeyed(p)'
    BY <1>1 DEF SessionKeyed, Quiet, At
  <1>. QED BY <1>2, OthersIdle, NoKey, SingleKeyed

\* No files, no row and no account change.
LEMMA EnterCalm ==
    ASSUME Typed, JobsTyped', NEW p \in Procs, NEW i \in Slots, SettledAt(p), KeyedAt(p), ~At(p, i, "idle"),
           job[p][i].op \in Logins, ~At(p, i, "forget"), Kept, UNCHANGED <<kv, tok, mem, session, ui>>,
           OthersStay(p, i), job'[p][i].at # "idle", job'[p][i].op = job[p][i].op,
           mk[p] = None /\ pin[p] = None => LoginKeyed(p, i)'
    PROVE  KeyedAt(p)'
  <1>1. mk[p] = None /\ pin[p] = None
    BY DEF KeyedAt, ProcKeyed, LoginKeyed, At
  <1>2. FilesKeyed(DeviceOf[p])'
    BY FilesKept, DeviceTyped DEF KeyedAt
  <1>. QED BY <1>1, <1>2, MemStays, EnterKeyed DEF session

LEMMA EnterFails ==
    ASSUME Typed, JobsTyped', NEW p \in Procs, NEW i \in Slots, SettledAt(p), KeyedAt(p), ~At(p, i, "idle"),
           job[p][i].op \in Logins, ~At(p, i, "forget"), Kept, UNCHANGED <<kv, tok, mem, session, ui>>, Fails(p, i)
    PROVE  KeyedAt(p)'
  <1>1. /\ OthersStay(p, i) /\ job'[p][i].at = "message" /\ job'[p][i].op = job[p][i].op /\ ~job'[p][i].ok
    BY DEF Fails, Becomes
  <1>2. mk[p] = None /\ pin[p] = None => LoginKeyed(p, i)'
    BY <1>1 DEF LoginKeyed, Taking, Taken, session
  <1>. QED BY <1>1, <1>2, EnterCalm

LEMMA RegisterKeyed ==
    ASSUME Typed, JobsTyped', NEW p \in Procs, NEW i \in Slots, SettledAt(p), KeyedAt(p), ServerKeyed, Register(p, i)
    PROVE  KeyedAt(p)' /\ Kept /\ FreshKept /\ ServerKeyed'
  <1>. DEFINE j == job[p][i]
  <1>1. /\ j.at = "register" /\ UNCHANGED <<disk, mem, session, ui>>
        /\ \/ Becomes(p, i, "reconcile") /\ CreateUser(j.user) /\ account[j.user] = None
           \/ Fails(p, i) /\ UNCHANGED server
           \/ Fails(p, i) /\ CreateUser(j.user) /\ account[j.user] = None
    BY RegisterDoes DEF Typed
  <1>2. j.op = "register" /\ j.user \in Users
    BY <1>1, JobTyped DEF Typed, JobOK, StageOf, CarriesOf
  <1>3. Kept /\ FreshKept /\ ServerKeyed'
    BY <1>1, <1>2, ServerStays, CreateUserKeyed
  <1>4. UNCHANGED <<kv, tok>>
    BY <1>1 DEF disk
  <1>5. CASE Fails(p, i)
    BY <1>1, <1>2, <1>3, <1>4, <1>5, EnterFails DEF Logins, At
  <1>6. CASE Becomes(p, i, "reconcile") /\ CreateUser(j.user) /\ account[j.user] = None
    <2>. PICK u \in Users : u = j.user
      BY <1>2
    <2>1. Fresh(u)' /\ account'[u] # None
      BY <1>6, CreateUserKeyed
    <2>2. /\ OthersStay(p, i) /\ job'[p][i].at = "reconcile" /\ job'[p][i].op = j.op /\ job'[p][i].user = j.user
      BY <1>6 DEF Becomes
    <2>3. mk[p] = None /\ pin[p] = None => LoginKeyed(p, i)'
      BY <1>1, <1>2, <2>1, <2>2 DEF LoginKeyed, Taking, Taken, session, Fresh
    <2>. QED BY <1>1, <1>2, <1>3, <1>4, <2>2, <2>3, EnterCalm DEF Logins, At
  <1>. QED BY <1>1, <1>3, <1>5, <1>6

LEMMA LoginOneKeyed ==
    ASSUME Typed, JobsTyped', NEW p \in Procs, NEW i \in Slots, SettledAt(p), KeyedAt(p), ServerKeyed, Login(p, i)
    PROVE  KeyedAt(p)'
  <1>. DEFINE j == job[p][i]
              u == IF At(p, i, "login") THEN j.user ELSE tok[DeviceOf[p]]
  <1>1. /\ j.at \in {"login", "refresh"} /\ UNCHANGED <<server, disk, mem, session, ui>>
        /\ \/ Fails(p, i)
           \/ /\ u \in Users /\ account[u] # None /\ OthersStay(p, i)
              /\ job'[p][i].at = "reconcile" /\ job'[p][i].op = j.op /\ job'[p][i].user = u /\ job'[p][i].row = account[u]
    BY LoginDoes
  <1>. HIDE DEF u
  <1>2. j.op \in {"login", "refresh"}
    BY <1>1, JobTyped DEF Typed, JobOK, StageOf
  <1>3. Kept /\ UNCHANGED <<kv, tok>>
    BY <1>1, ServerStays DEF disk
  <1>4. CASE Fails(p, i)
    BY <1>1, <1>2, <1>3, <1>4, EnterFails DEF Logins, At
  <1>5. CASE ~Fails(p, i)
    <2>. PICK v \in Users : v = u
      BY <1>1, <1>5
    <2>. PICK row : row = account[v]
      OBVIOUS
    <2>1. row # None
      BY <1>1, <1>5
    <2>2. v # None /\ UNCHANGED account
      BY <1>1, NoneApart DEF server
    <2>3. row.enc # None => row.salt # 0 /\ Opened(v, row.enc.key)'
      BY <2>1, <2>2 DEF ServerKeyed, RowsSalted, Opened
    <2>4. row.enc = None => Fresh(v)'
      BY <2>1, <2>2 DEF Fresh
    <2>5. mk[p] = None /\ pin[p] = None => LoginKeyed(p, i)'
      BY <1>1, <1>2, <1>5, <2>1, <2>2, <2>3, <2>4 DEF LoginKeyed, Taking, Taken, session, Opened, Fresh
    <2>. QED BY <1>1, <1>2, <1>3, <1>5, <2>5, EnterCalm DEF Logins, At
  <1>. QED BY <1>4, <1>5

\* Between the answer and the tokens.
LEMMA TakingKept ==
    ASSUME NEW p \in Procs, NEW i \in Slots, LoginKeyed(p, i), job[p][i].at \in Taking, job'[p][i].at \in Taking,
           job'[p][i].op = job[p][i].op, job'[p][i].user = job[p][i].user, job'[p][i].row = job[p][i].row,
           UNCHANGED account, mk'[p] = None, pin'[p] = None
    PROVE  LoginKeyed(p, i)'
  <1>1. ~Taken(job'[p][i])
    BY DEF Taken, Taking
  <1>. QED BY <1>1 DEF LoginKeyed, Opened, Fresh

\* A job between the answer and the tokens: what it is, and what it knows.
LEMMA TakingOf ==
    ASSUME Typed, NEW p \in Procs, NEW i \in Slots, KeyedAt(p), job[p][i].at \in Taking
    PROVE  /\ job[p][i].op \in Logins /\ ~At(p, i, "idle") /\ mk[p] = None /\ pin[p] = None /\ LoginKeyed(p, i)
           /\ job[p][i].user \in Users /\ job[p][i].row \in EncRows
  <1>1. job[p][i].op \in Logins /\ ~At(p, i, "idle") /\ job[p][i].user \in Users /\ job[p][i].row \in EncRows
    BY JobTyped DEF Typed, JobOK, JobRecs, StageOf, CarriesOf, At, Taking, Logins
  <1>2. LoginKeyed(p, i)
    BY DEF KeyedAt, ProcKeyed
  <1>. QED BY <1>1, <1>2 DEF LoginKeyed, At

LEMMA ReconcileKeyed ==
    ASSUME Typed, JobsTyped', NEW p \in Procs, NEW i \in Slots, SettledAt(p), KeyedAt(p), ServerKeyed, Reconcile(p, i)
    PROVE  KeyedAt(p)'
  <1>. DEFINE d == DeviceOf[p]
              j == job[p][i]
  <1>1. /\ j.at = "reconcile" /\ UNCHANGED <<server, tok, mem, session, ui>>
        /\ \/ Becomes(p, i, "forget") /\ kv' = [kv EXCEPT ![d] = EmptyKV]
           \/ Becomes(p, i, "remember") /\ UNCHANGED kv
    BY ReconcileDoes DEF Typed
  <1>2. /\ j.op \in Logins /\ ~At(p, i, "idle") /\ mk[p] = None /\ pin[p] = None /\ LoginKeyed(p, i) /\ d \in Devices
    BY <1>1, TakingOf, DeviceTyped DEF Taking
  <1>3. /\ OthersStay(p, i) /\ job'[p][i].at \in {"forget", "remember"} /\ job'[p][i].op = j.op
        /\ job'[p][i].user = j.user /\ job'[p][i].row = j.row
    BY <1>1 DEF Becomes
  <1>4. LoginKeyed(p, i)'
    BY <1>1, <1>2, <1>3, TakingKept DEF Taking, server, session
  <1>5. Kept
    BY <1>1, ServerStays
  <1>6. CASE Becomes(p, i, "forget") /\ kv' = [kv EXCEPT ![d] = EmptyKV]
    <2>1. kv'[d].enc = None
      BY <1>2, <1>6 DEF EmptyKV, Typed, StateTyped, TypeOK
    <2>2. FilesKeyed(d)'
      BY <1>1, <1>2, <2>1 DEF KeyedAt, FilesKeyed, server
    <2>3. MemKeyed(p)'
      BY <1>1, <1>6 DEF KeyedAt, ProcKeyed, MemKeyed, At, Becomes
    <2>. QED BY <1>1, <1>2, <1>3, <1>4, <2>2, <2>3, EnterKeyed DEF session
  <1>7. CASE Becomes(p, i, "remember") /\ UNCHANGED kv
    BY <1>1, <1>2, <1>3, <1>4, <1>5, <1>7, EnterCalm DEF At
  <1>. QED BY <1>1, <1>6, <1>7

LEMMA ForgetKeyed ==
    ASSUME Typed, JobsTyped', NEW p \in Procs, NEW i \in Slots, SettledAt(p), KeyedAt(p), ServerKeyed, Forget(p, i)
    PROVE  KeyedAt(p)'
  <1>. DEFINE j == job[p][i]
  <1>1. /\ j.at = "forget" /\ UNCHANGED <<server, disk, ui>> /\ mem' = [mem EXCEPT ![p] = EmptyRow]
        /\ mk' = [mk EXCEPT ![p] = None] /\ pin' = [pin EXCEPT ![p] = None]
        /\ job'[p][i].at = "remember" /\ job'[p][i].op = j.op /\ job'[p][i].user = j.user /\ job'[p][i].row = j.row
        /\ OthersStay(p, i)
    BY ForgetDoes DEF Typed
  <1>2. j.op \in Logins /\ ~At(p, i, "idle") /\ LoginKeyed(p, i)
    BY <1>1, TakingOf DEF Taking
  <1>3. mk'[p] = None /\ pin'[p] = None /\ mem'[p].enc = None
    BY <1>1 DEF EmptyRow, Typed, StateTyped, TypeOK
  <1>4. LoginKeyed(p, i)'
    BY <1>1, <1>2, <1>3, TakingKept DEF Taking, server
  <1>5. FilesKeyed(DeviceOf[p])'
    BY <1>1, ServerStays, FilesKept, DeviceTyped DEF KeyedAt, disk
  <1>6. MemKeyed(p)'
    BY <1>3 DEF MemKeyed
  <1>. QED BY <1>1, <1>2, <1>3, <1>4, <1>5, <1>6, EnterKeyed

LEMMA RememberKeyed ==
    ASSUME Typed, JobsTyped', NEW p \in Procs, NEW i \in Slots, SettledAt(p), KeyedAt(p), ServerKeyed, Remember(p, i)
    PROVE  KeyedAt(p)'
  <1>. DEFINE d == DeviceOf[p]
              j == job[p][i]
  <1>1. /\ j.at = "remember" /\ UNCHANGED <<server, tok, mem, session, ui>> /\ Becomes(p, i, "saveTokens")
        /\ kv'[d].user = j.user /\ kv'[d].enc = kv[d].enc
    BY RememberDoes
  <1>2. j.op \in Logins /\ ~At(p, i, "idle") /\ LoginKeyed(p, i) /\ mk[p] = None /\ pin[p] = None /\ d \in Devices
    BY <1>1, TakingOf, DeviceTyped DEF Taking
  <1>3. /\ OthersStay(p, i) /\ job'[p][i].at = "saveTokens" /\ job'[p][i].op = j.op
        /\ job'[p][i].user = j.user /\ job'[p][i].row = j.row
    BY <1>1 DEF Becomes
  <1>4. LoginKeyed(p, i)'
    BY <1>1, <1>2, <1>3, TakingKept DEF Taking, server, session
  <1>5. kv[d].user \in {None, j.user}
    BY <1>1 DEF SettledAt, ProcSettled, JobSettled
  <1>6. \A key : Owns(d, key) => Owns(d, key)'
    <2>1. Settled(d) => kv'[d].user = kv[d].user
      BY <1>1, <1>5 DEF Settled
    <2>. QED BY <1>1, <1>2, <2>1, ServerStays, OwnsKept DEF Owns
  <1>7. FilesKeyed(d)'
    BY <1>1, <1>6 DEF KeyedAt, FilesKeyed, server
  <1>8. MemKeyed(p)'
    <2>1. mem[p].enc # None => mem[p].salt # 0 /\ Owns(d, mem[p].enc.key)
      BY <1>1, MemOwned DEF At
    <2>. QED BY <1>1, <1>6, <2>1 DEF MemKeyed
  <1>. QED BY <1>1, <1>2, <1>3, <1>4, <1>7, <1>8, EnterKeyed DEF session

\* The tokens are those of the account of the answer: from now on its row, and what
\* was kept of it, are those of the files.
LEMMA SaveTokensKeyed ==
    ASSUME Typed, JobsTyped', NEW p \in Procs, NEW i \in Slots, SettledAt(p), KeyedAt(p), ServerKeyed, SaveTokens(p, i)
    PROVE  KeyedAt(p)'
  <1>. DEFINE d == DeviceOf[p]
              j == job[p][i]
  <1>1. /\ j.at = "saveTokens" /\ UNCHANGED <<server, kv, session, ui>> /\ tok' = [tok EXCEPT ![d] = j.user]
        /\ \/ j.op = "register" /\ Succeeds(p, i) /\ UNCHANGED mem
           \/ j.op # "register" /\ Becomes(p, i, "cacheSalt") /\ mem' = [mem EXCEPT ![p] = j.row]
    BY SaveTokensDoes DEF Typed
  <1>2. /\ j.op \in Logins /\ ~At(p, i, "idle") /\ LoginKeyed(p, i) /\ mk[p] = None /\ pin[p] = None /\ d \in Devices
        /\ j.user \in Users /\ j.row \in EncRows
    BY <1>1, TakingOf, DeviceTyped DEF Taking
  <1>3. tok'[d] = j.user /\ kv[d].user = j.user /\ UNCHANGED account /\ mk'[p] = None /\ pin'[p] = None
    BY <1>1, <1>2 DEF SettledAt, ProcSettled, JobSettled, Typed, StateTyped, TypeOK, server, session
  <1>4. Settled(d)'
    BY <1>1, <1>2, <1>3, NoneApart DEF Settled
  <1>5. \A key : Owns(d, key) => Owns(d, key)'
    BY <1>3, <1>4 DEF Owns, Settled, Opened
  <1>6. FilesKeyed(d)'
    <2>1. account[j.user] # None
      BY <1>1, <1>2 DEF LoginKeyed, Taking
    <2>. QED BY <1>1, <1>3, <1>5, <2>1 DEF KeyedAt, FilesKeyed
  <1>7. /\ OthersStay(p, i) /\ job'[p][i].at \in {"message", "cacheSalt"} /\ job'[p][i].op = j.op
    BY <1>1 DEF Succeeds, Becomes
  <1>8. CASE j.op = "register" /\ UNCHANGED mem
    <2>1. MemKeyed(p)'
      <3>1. mem[p].enc # None => mem[p].salt # 0 /\ Owns(d, mem[p].enc.key)
        BY <1>1, <1>2, MemOwned DEF At
      <3>. QED BY <1>5, <1>8, <3>1 DEF MemKeyed
    <2>2. p \in Tui => MayGive(p)'
      BY <1>1, <1>2, <1>3, <1>8 DEF LoginKeyed, Taking, MayGive, Fresh
    <2>3. LoginKeyed(p, i)'
      BY <1>3, <1>7, <2>2 DEF LoginKeyed, Taking
    <2>. QED BY <1>1, <1>2, <1>3, <1>6, <1>7, <2>1, <2>3, EnterKeyed
  <1>9. CASE j.op # "register" /\ mem' = [mem EXCEPT ![p] = j.row]
    <2>. PICK row \in EncRows : row = j.row
      BY <1>2
    <2>1. mem'[p] = row
      BY <1>9 DEF Typed, StateTyped, TypeOK
    <2>2. row.enc # None => row.enc.key \in Nat
      BY DEF EncRows, Wrapped
    <2>3. row.enc # None => row.salt # 0 /\ Opened(j.user, row.enc.key)
      BY <1>1, <1>2, <1>9 DEF LoginKeyed, Taking
    <2>4. row.enc # None => row.salt # 0 /\ Owns(d, row.enc.key)'
      BY <1>3, <1>4, <2>2, <2>3, NoneApart DEF Owns, Opened
    <2>5. MemKeyed(p)'
      BY <2>1, <2>4 DEF MemKeyed, Owns, Opened
    <2>6. p \in Tui /\ j.row.enc = None => MayGive(p)'
      BY <1>1, <1>2, <1>3 DEF LoginKeyed, Taking, MayGive, Fresh
    <2>7. LoginKeyed(p, i)'
      BY <1>3, <1>7, <1>9, <2>1, <2>6 DEF LoginKeyed, Taking
    <2>. QED BY <1>1, <1>2, <1>3, <1>6, <1>7, <2>5, <2>7, EnterKeyed
  <1>. QED BY <1>1, <1>8, <1>9

---------------------------------------------------------------------------
(* The row is cached, by logins and by a set-up.                           *)

\* A login that has its tokens moves on; the account, the row and the tokens stay.
LEMMA TakenKept ==
    ASSUME NEW p \in Procs, NEW i \in Slots, LoginKeyed(p, i), ~At(p, i, "idle"), job[p][i].op \in Logins,
           Taken(job[p][i]), job'[p][i].at \notin Taking, job'[p][i].op = job[p][i].op,
           UNCHANGED <<account, tok, mem, session>>
    PROVE  LoginKeyed(p, i)'
  <1>1. MayGive(p) => MayGive(p)'
    BY DEF MayGive, Fresh
  <1>. QED BY <1>1 DEF LoginKeyed, At, session

LEMMA CachedKeyed ==
    ASSUME Typed, JobsTyped', NEW p \in Procs, NEW i \in Slots, SettledAt(p), KeyedAt(p), ServerKeyed,
           job[p][i].at \in {"cacheSalt", "cacheEnc", "prefetch", "cacheList"},
           UNCHANGED <<server, tok, mem, session, ui>>, kv'[DeviceOf[p]].user = kv[DeviceOf[p]].user,
           kv'[DeviceOf[p]].enc \in {kv[DeviceOf[p]].enc, mem[p].enc},
           OthersStay(p, i), job'[p][i].op = job[p][i].op,
           job'[p][i].at \in {"cacheEnc", "prefetch", "genKey", "cacheList", "prune", "message"}
    PROVE  KeyedAt(p)'
  <1>. DEFINE d == DeviceOf[p]
              j == job[p][i]
  <1>1. ~At(p, i, "idle") /\ ~At(p, i, "forget") /\ JobOK(j) /\ d \in Devices
    BY JobTyped, DeviceTyped DEF At, Typed
  <1>2. Kept /\ FreshKept /\ UNCHANGED <<account, mk, pin>>
    BY ServerStays DEF server, session
  <1>3. \A key : Owns(d, key) => Owns(d, key)'
    BY <1>1, <1>2, OwnsKept
  <1>4. kv'[d].enc # None => Owns(d, kv[d].enc.key)'
    <2>1. kv'[d].enc # None => Owns(d, kv'[d].enc.key)
      BY <1>1, MemOwned DEF KeyedAt, FilesKeyed
    <2>2. PICK enc : enc = kv'[d].enc
      OBVIOUS
    <2>. QED BY <1>3, <2>1, <2>2
  <1>5. CASE j.op \in Logins
    <2>1. LoginKeyed(p, i)
      BY DEF KeyedAt, ProcKeyed
    <2>2. mk'[p] = None /\ pin'[p] = None
      BY <1>1, <1>2, <1>5, <2>1 DEF LoginKeyed, At
    <2>3. LoginKeyed(p, i)'
      BY <1>1, <1>2, <1>5, <2>1, TakenKept DEF Taken, Taking
    <2>4. FilesKeyed(d)'
      BY <1>2, <1>4 DEF KeyedAt, FilesKeyed
    <2>. QED BY <1>1, <1>2, <1>5, <2>2, <2>3, <2>4, MemStays, EnterKeyed
  <1>6. CASE j.op \notin Logins
    <2>1. j.op \in {"setup", "list"}
      BY <1>1, <1>6 DEF JobOK, StageOf, Logins
    <2>2. KeyKeyed(p, i)'
      BY <2>1 DEF KeyKeyed
    <2>3. /\ mk'[p] # None => Owns(d, mk[p])'
          /\ pin'[p] # None => Owns(d, pin[p])'
      BY <1>2, <1>3 DEF KeyedAt, ProcKeyed, SessionKeyed
    <2>. QED BY <1>1, <1>2, <1>4, <1>6, <2>2, <2>3, WorkKeyed
  <1>. QED BY <1>5, <1>6

LEMMA CacheSaltKeyed ==
    ASSUME Typed, JobsTyped', NEW p \in Procs, NEW i \in Slots, SettledAt(p), KeyedAt(p), ServerKeyed, CacheSalt(p, i)
    PROVE  KeyedAt(p)'
  <1>1. /\ job[p][i].at = "cacheSalt" /\ UNCHANGED <<server, tok, mem, session, ui>>
        /\ kv'[DeviceOf[p]].user = kv[DeviceOf[p]].user /\ kv'[DeviceOf[p]].enc = kv[DeviceOf[p]].enc
        /\ Persists(p, i) \/ Becomes(p, i, "cacheEnc")
    BY CacheSaltDoes
  <1>2. /\ OthersStay(p, i) /\ job'[p][i].op = job[p][i].op
        /\ job'[p][i].at \in {"cacheEnc", "prefetch", "genKey", "message"}
    BY <1>1 DEF Persists, Becomes
  <1>. QED BY <1>1, <1>2, CachedKeyed

LEMMA CacheEncKeyed ==
    ASSUME Typed, JobsTyped', NEW p \in Procs, NEW i \in Slots, SettledAt(p), KeyedAt(p), ServerKeyed, CacheEnc(p, i)
    PROVE  KeyedAt(p)'
  <1>1. /\ job[p][i].at = "cacheEnc" /\ UNCHANGED <<server, tok, mem, session, ui>>
        /\ kv'[DeviceOf[p]].user = kv[DeviceOf[p]].user /\ kv'[DeviceOf[p]].enc = mem[p].enc
        /\ Persists(p, i)
    BY CacheEncDoes
  <1>2. OthersStay(p, i) /\ job'[p][i].op = job[p][i].op /\ job'[p][i].at \in {"prefetch", "genKey", "message"}
    BY <1>1 DEF Persists, Becomes
  <1>. QED BY <1>1, <1>2, CachedKeyed

LEMMA PrefetchKeyed ==
    ASSUME Typed, JobsTyped', NEW p \in Procs, NEW i \in Slots, SettledAt(p), KeyedAt(p), ServerKeyed, Prefetch(p, i)
    PROVE  KeyedAt(p)'
  <1>1. /\ job[p][i].at = "prefetch" /\ UNCHANGED <<server, kv, tok, mem, session, ui>>
        /\ \/ Succeeds(p, i)
           \/ job'[p][i].at = "cacheList" /\ job'[p][i].op = job[p][i].op /\ OthersStay(p, i)
    BY PrefetchDoes DEF disk
  <1>2. OthersStay(p, i) /\ job'[p][i].op = job[p][i].op /\ job'[p][i].at \in {"cacheList", "message"}
    BY <1>1 DEF Succeeds, Becomes
  <1>. QED BY <1>1, <1>2, CachedKeyed

LEMMA CacheListKeyed ==
    ASSUME Typed, JobsTyped', NEW p \in Procs, NEW i \in Slots, SettledAt(p), KeyedAt(p), ServerKeyed, CacheList(p, i)
    PROVE  KeyedAt(p)'
  <1>1. /\ job[p][i].at = "cacheList" /\ UNCHANGED <<server, kv, tok, mem, session, ui>>
        /\ Succeeds(p, i) \/ Becomes(p, i, "prune")
    BY CacheListDoes
  <1>2. OthersStay(p, i) /\ job'[p][i].op = job[p][i].op /\ job'[p][i].at \in {"prune", "message"}
    BY <1>1 DEF Succeeds, Becomes
  <1>. QED BY <1>1, <1>2, CachedKeyed

\* The set-up: the one step that gives an account its key.
LEMMA SetupEncryptionKeyed ==
    ASSUME Typed, JobsTyped', left.replies = 0, NEW p \in Procs, NEW i \in Slots, SettledAt(p), KeyedAt(p), ServerKeyed,
           SetupEncryption(p, i)
    PROVE  KeyedAt(p)' /\ Kept /\ (p \notin Tui => FreshKept) /\ ServerKeyed'
  <1>. DEFINE d == DeviceOf[p]
              j == job[p][i]
  <1>1. /\ j.at = "setup" /\ UNCHANGED <<disk, ui>>
        /\ \/ /\ job'[p][i].at = "cacheSalt" /\ job'[p][i].op = j.op /\ OthersStay(p, i)
              /\ UpdateEncKDF(j.user, j.row) /\ SetMasterKey(p, j.key) /\ mem' = [mem EXCEPT ![p] = j.row]
           \/ Fails(p, i) /\ UNCHANGED <<session, mem, server>>
    <2>1. ~Spend("replies")
      BY DEF Spend
    <2>. QED BY <2>1, SetupEncryptionDoes DEF Typed
  <1>2. /\ j.op = "setup" /\ ~At(p, i, "idle") /\ j.op \notin Logins /\ d \in Devices /\ UNCHANGED <<kv, tok>>
        /\ j.key \in Nat /\ j.row \in EncRows
    BY <1>1, JobTyped, DeviceTyped DEF Typed, JobOK, JobRecs, StageOf, CarriesOf, At, Logins, disk
  <1>3. CASE Fails(p, i) /\ UNCHANGED <<session, mem, server>>
    <2>1. Kept /\ FreshKept /\ ServerKeyed'
      BY <1>3, ServerStays
    <2>. QED BY <1>1, <1>2, <1>3, <2>1, ReturnKeyed
  <1>4. CASE /\ job'[p][i].at = "cacheSalt" /\ job'[p][i].op = j.op /\ OthersStay(p, i)
             /\ UpdateEncKDF(j.user, j.row) /\ SetMasterKey(p, j.key) /\ mem' = [mem EXCEPT ![p] = j.row]
    <2>. PICK row \in EncRows : row = j.row
      BY <1>2
    <2>. PICK key \in Nat : key = j.key
      BY <1>2
    <2>1. row.salt # 0 /\ row.enc # None /\ row.enc.key = key /\ (Owns(d, key) \/ MayGive(p))
      BY <1>1 DEF KeyedAt, ProcKeyed, KeyKeyed
    <2>2. j.user = tok[d] /\ Settled(d)
      BY <1>1, <1>2 DEF SettledAt, ProcSettled, JobSettled, Acting, NeedsSettled
    <2>3. PICK u \in Users : u = tok[d]
      BY <1>2, <2>2 DEF Settled, Typed, StateTyped, TypeOK
    <2>4. Opened(u, key) \/ Fresh(u)
      BY <2>1, <2>3 DEF Owns, MayGive
    <2>5. Kept /\ ServerKeyed' /\ Opened(u, key)' /\ (Opened(u, key) => FreshKept)
      BY <1>4, <2>1, <2>2, <2>3, <2>4, UpdateKeyed
    <2>6. p \notin Tui => FreshKept
      BY <2>1, <2>3, <2>5 DEF Owns, MayGive
    <2>7. Owns(d, key)'
      BY <1>2, <2>2, <2>3, <2>5, NoneApart DEF Owns, Settled
    <2>8. mem'[p] = row /\ mk'[p] = key /\ pin' = pin
      BY <1>4 DEF SetMasterKey, Typed, StateTyped, TypeOK
    <2>9. MemKeyed(p)'
      BY <2>1, <2>7, <2>8 DEF MemKeyed
    <2>10. SessionKeyed(p)'
      <3>1. p \in Tui => ui[p].screen = "setup"
        BY <1>1, <1>2 DEF SettledAt, ProcSettled, JobSettled, ShownFor
      <3>2. pin'[p] # None => Owns(d, pin[p])'
        <4>1. \A k : Owns(d, k) => Owns(d, k)'
          BY <1>2, <2>5, OwnsKept
        <4>. QED BY <2>8, <4>1 DEF KeyedAt, ProcKeyed, SessionKeyed
      <3>3. mk'[p] # None /\ Owns(d, mk[p])'
        BY <2>7, <2>8 DEF Owns, Opened
      <3>4. ~Quiet(p)'
        BY <1>4 DEF Quiet, At
      <3>. QED BY <1>1, <3>1, <3>2, <3>3, <3>4 DEF SessionKeyed
    <2>11. FilesKeyed(d)'
      BY <1>2, <2>5, FilesKept DEF KeyedAt
    <2>12. KeyKeyed(p, i)' /\ LoginKeyed(p, i)'
      BY <1>2, <1>4, NoLogin DEF KeyKeyed
    <2>13. KeyedAt(p)'
      BY <1>2, <1>4, <2>9, <2>10, <2>11, <2>12, OthersIdle, SingleKeyed
    <2>. QED BY <2>5, <2>6, <2>13
  <1>. QED BY <1>1, <1>3, <1>4

---------------------------------------------------------------------------
(* The TUI, the CLI and the end of a process: no account and no file       *)
(* changes.                                                                *)

LEMMA Here ==
    ASSUME NEW p \in Procs, UNCHANGED <<account, kv, tok>>
    PROVE  /\ \A key : Owns(DeviceOf[p], key) => Owns(DeviceOf[p], key)'
           /\ MayGive(p) => MayGive(p)'
           /\ FilesKeyed(DeviceOf[p]) => FilesKeyed(DeviceOf[p])'
  BY DEF Owns, Settled, Opened, MayGive, Fresh, FilesKeyed

LEMMA MemHere ==
    ASSUME NEW p \in Procs, KeyedAt(p), \A i \in Slots : ~At(p, i, "forget"), UNCHANGED <<account, kv, tok, mem>>
    PROVE  MemKeyed(p)'
  BY Here DEF KeyedAt, ProcKeyed, MemKeyed

\* A job that begins: the login screen has no key, a set-up has one or may give one.
LEMMA BeginKeyed ==
    ASSUME Typed, JobsTyped', NEW p \in Procs, NEW i \in Slots, KeyedAt(p),
           NEW cmd \in {None, "tui"} \cup Commands, NEW op \in Ops \ {"codes"},
           NEW in \in Inputs(op), Put(p, i, Begin(p, cmd, op, in.user, in.pass, in.code)),
           UNCHANGED <<account, kv, tok, mem, mk, pin, ui>>,
           \A k \in Slots \ {i} : job[p][k].at = "idle", ~At(p, i, "forget"),
           op \in Logins => mk[p] = None /\ pin[p] = None, op = "setup" => mk[p] # None \/ MayGive(p)
    PROVE  KeyedAt(p)'
  <1>. DEFINE d == DeviceOf[p]
  <1>1. /\ job'[p][i].at = StartOf(op) /\ job'[p][i].op = op /\ job'[p][i].key = KeyOf(p, op)
        /\ job'[p][i].alias = AliasOf(p, op) /\ OthersStay(p, i)
    BY BeginsAt
  <1>2. MemKeyed(p)'
    BY MemHere DEF At
  <1>3. /\ mk[p] # None => Owns(d, mk[p])'
        /\ pin[p] # None => Owns(d, pin[p])'
        /\ MayGive(p) => MayGive(p)'
        /\ FilesKeyed(d)'
    BY Here DEF KeyedAt, ProcKeyed, SessionKeyed
  <1>4. StartOf(op) # "idle" /\ StartOf(op) # "message" /\ StartOf(op) \notin Taking
    BY DEF StartOf, Ops, Taking
  <1>5. SessionKeyed(p)'
    BY <1>1, <1>3, <1>4 DEF SessionKeyed, KeyedAt, ProcKeyed, Quiet, At
  <1>6. LoginKeyed(p, i)'
    <2>1. ~Taken(job'[p][i])
      BY <1>1 DEF Taken, StartOf, Ops
    <2>. QED BY <1>1, <1>4, <2>1 DEF LoginKeyed
  <1>7. KeyKeyed(p, i)'
    <2>1. StartOf(op) = "readKey" => op = "setup"
      BY DEF StartOf, Ops
    <2>2. StartOf(op) \notin {"wrap", "setup", "wrapCodes", "storeCodes", "markUsed", "createVault"}
      BY DEF StartOf, Ops
    <2>. PICK key : key = KeyOf(p, op)
      OBVIOUS
    <2>3. StartOf(op) \in {"unlockPIN", "setPIN"} /\ key # None => Owns(d, key)'
      <3>1. StartOf(op) \in {"unlockPIN", "setPIN"} => key \in {mk[p], pin[p]}
        BY DEF StartOf, KeyOf, Ops
      <3>. QED BY <3>1, Here DEF KeyedAt, ProcKeyed, SessionKeyed
    <2>4. op = "vault" => ~AliasOf(p, op)
      BY DEF AliasOf
    <2>5. job'[p][i].at \in {"unlockPIN", "setPIN"} /\ job'[p][i].key # None => Owns(d, job[p][i].key)'
      BY <1>1, <2>3
    <2>. QED BY <1>1, <1>3, <1>4, <2>1, <2>2, <2>4, <2>5 DEF KeyKeyed
  <1>8. \A k \in Slots \ {i} : job'[p][k].at = "idle"
    BY <1>1 DEF OthersStay
  <1>. QED BY <1>2, <1>3, <1>5, <1>6, <1>7, <1>8, SingleKeyed

LEMMA EnterJobKeyed ==
    ASSUME Orderly, Typed, JobsTyped', NEW p \in Procs, KeyedAt(p), Enter(p)
    PROVE  KeyedAt(p)'
  <1>1. PICK i \in Slots, op \in Offered(p) : \E in \in Inputs(op) : Put(p, i, Begin(p, "tui", op, in.user, in.pass, in.code))
    BY DEF Enter
  <1>2. PICK in \in Inputs(op) : Put(p, i, Begin(p, "tui", op, in.user, in.pass, in.code))
    BY <1>1
  <1>3. op \in Ops \ {"codes", "refresh"} /\ ShownFor(op, ui[p].screen)
    BY OfferedShown
  <1>4. UNCHANGED <<server, disk, mem, session, ui>> /\ Quiet(p) /\ p \in Tui
    BY DEF Enter, KeyPress, Orderly
  <1>5. /\ op \in Logins => mk[p] = None /\ pin[p] = None
        /\ op = "setup" => mk[p] # None \/ MayGive(p)
    BY <1>3, <1>4 DEF ShownFor, Logins, KeyedAt, ProcKeyed, SessionKeyed
  <1>6. UNCHANGED <<account, kv, tok, mem, mk, pin, ui>>
    BY <1>4 DEF server, disk, session
  <1>7. \A k \in Slots : job[p][k].at = "idle"
    BY <1>4 DEF Quiet, At
  <1>. QED BY <1>2, <1>3, <1>5, <1>6, <1>7, BeginKeyed DEF At

LEMMA CommandKeyed ==
    ASSUME Orderly, Typed, JobsTyped', NEW p \in Procs, NEW i \in Slots, KeyedAt(p), Command(p, i)
    PROVE  KeyedAt(p)'
  <1>1. PICK cmd \in Commands :
           LET op == IF cmd \in {"recover", "vault"} THEN "refresh" ELSE cmd
           IN \E in \in Inputs(op) : Put(p, i, Begin(p, cmd, op, in.user, in.pass, in.code))
    BY DEF Command
  <1>. DEFINE op == IF cmd \in {"recover", "vault"} THEN "refresh" ELSE cmd
  <1>2. op \in Logins /\ op \in Ops \ {"codes"} /\ op # "setup"
    BY Wiring DEF Ops, Logins, Orderly
  <1>3. PICK in \in Inputs(op) : Put(p, i, Begin(p, cmd, op, in.user, in.pass, in.code))
    BY <1>1
  <1>4. p \notin Tui /\ Quiet(p) /\ UNCHANGED <<server, disk, mem, session, ui>>
    BY DEF Command
  <1>. HIDE DEF op
  <1>5. mk[p] = None /\ pin[p] = None
    BY <1>4 DEF KeyedAt, ProcKeyed, SessionKeyed
  <1>6. UNCHANGED <<account, kv, tok, mem, mk, pin, ui>>
    BY <1>4 DEF server, disk, session
  <1>7. \A k \in Slots : job[p][k].at = "idle"
    BY <1>4 DEF Quiet, At
  <1>. QED BY <1>2, <1>3, <1>5, <1>6, <1>7, BeginKeyed DEF At

\* A key pressed while no job runs locks at most.
LEMMA PressKeyed ==
    ASSUME Orderly, Typed, JobsTyped', NEW p \in Procs, KeyedAt(p), LockKey(p) \/ DashboardKey(p) \/ CodesKey(p)
    PROVE  KeyedAt(p)'
  <1>1. /\ UNCHANGED <<server, disk, mem>> /\ Quiet(p) /\ p \in Tui
        /\ UNCHANGED job \/ job' = [job EXCEPT ![p] = Locked(job[p])]
    BY DEF LockKey, DashboardKey, CodesKey, KeyPress, Orderly
  <1>2. \A k \in Slots : job[p][k].at = "idle" /\ job'[p][k].at = "idle"
    BY <1>1, LockedStages DEF Quiet, At, Typed
  <1>3. /\ mk'[p] \in {mk[p], None} /\ pin'[p] \in {pin[p], None}
        /\ ui'[p].screen # "setup"
        /\ ui'[p].screen = "login" => mk'[p] = None /\ pin'[p] = None
    <2>. USE DEF Lock, SoftLock, session, Show, Screen, NewLock, Typed, StateTyped, TypeOK
    <2>1. CASE LockKey(p) /\ UNCHANGED session
      <3>1. ui'[p].screen \in {"lock", "dashboard"} \/ (Lock(p) /\ ui'[p].screen = "login")
        <4>1. \/ \E mode : ui' = [ui EXCEPT ![p].mode = mode]
              \/ ui' = [ui EXCEPT ![p] = Screen("dashboard")]
              \/ Lock(p) /\ ui' = [ui EXCEPT ![p] = Screen("login")]
          BY <2>1 DEF LockKey
        <4>2. ui[p].screen = "lock"
          BY <2>1 DEF LockKey
        <4>. QED BY <4>1, <4>2
      <3>. QED BY <2>1, <3>1
    <2>2. CASE LockKey(p) /\ ~UNCHANGED session
      <3>1. Lock(p) /\ ui' = [ui EXCEPT ![p] = Screen("login")]
        BY <2>2 DEF LockKey
      <3>. QED BY <3>1
    <2>3. CASE DashboardKey(p)
      BY <2>3 DEF DashboardKey
    <2>4. CASE CodesKey(p)
      BY <2>4 DEF CodesKey
    <2>. QED BY <2>1, <2>2, <2>3, <2>4
  <1>4. UNCHANGED <<account, kv, tok, mem>>
    BY <1>1 DEF server, disk
  <1>5. MemKeyed(p)'
    BY <1>2, <1>4, MemHere DEF At
  <1>6. FilesKeyed(DeviceOf[p])' /\ SessionKeyed(p)'
    BY <1>1, <1>3, <1>4, Here DEF KeyedAt, ProcKeyed, SessionKeyed
  <1>. QED BY <1>2, <1>5, <1>6, SilentKeyed

\* The timer: a vault that is being created has its key already.
LEMMA AutoLockKeyed ==
    ASSUME Typed, JobsTyped', NEW p \in Procs, SettledAt(p), KeyedAt(p), AutoLock(p)
    PROVE  KeyedAt(p)'
  <1>. DEFINE d == DeviceOf[p]
  <1>1. /\ UNCHANGED <<account, kv, tok, mem>> /\ p \in Tui /\ ui[p].screen \in {"dashboard", "codes"}
        /\ job' = [job EXCEPT ![p] = Locked(job[p])]
    BY DEF AutoLock, server, disk, Typed, StateTyped, TypeOK
  <1>2. ui'[p].screen = "lock" /\ mk'[p] = None /\ pin'[p] = pin[p]
    BY DEF AutoLock, SoftLock, Show, NewLock, Typed, StateTyped, TypeOK
  <1>3. \A k \in Slots : job[p][k].at # "idle" => job[p][k].op \in {"vault", "list"}
    <2>1. \A k \in Slots : JobSettled(p, k) /\ JobOK(job[p][k])
      BY JobTyped DEF SettledAt, ProcSettled, Typed
    <2>. QED BY <1>1, <2>1 DEF JobSettled, ShownFor, JobOK, StageOf, Ops
  <1>4. \A k \in Slots : ~At(p, k, "forget")
    BY <1>3, JobTyped DEF At, Typed, JobOK, StageOf, Taking
  <1>5. MemKeyed(p)' /\ FilesKeyed(d)'
    BY <1>1, <1>4, MemHere, Here DEF KeyedAt
  <1>6. SessionKeyed(p)'
    BY <1>1, <1>2, Here DEF KeyedAt, ProcKeyed, SessionKeyed
  <1>7. ASSUME NEW k \in Slots
        PROVE  LoginKeyed(p, k)' /\ KeyKeyed(p, k)'
    <2>. DEFINE j == job[p][k]
                r == job'[p][k]
    <2>1. r.at = j.at /\ r.op = j.op
      BY <1>1, LockedStages DEF Typed
    <2>2. j.at = "idle" \/ j.op \notin Logins
      BY <1>3 DEF Logins
    <2>3. LoginKeyed(p, k)'
      BY <2>1, <2>2, NoLogin
    <2>4. CASE j.at = "idle"
      BY <2>1, <2>3, <2>4, NoKey
    <2>5. CASE j.at # "idle" /\ j.op = "vault"
      <3>1. KeyKeyed(p, k) /\ ~j.alias
        BY <2>5 DEF KeyedAt, ProcKeyed, KeyKeyed
      <3>2. r = j
        <4>1. job'[p] = Locked(job[p])
          BY <1>1 DEF Typed, JobsTyped
        <4>. QED BY <3>1, <4>1 DEF Locked
      <3>3. StageOf(j)
        BY JobTyped DEF Typed, JobOK
      <3>. PICK key : key = j.key
        OBVIOUS
      <3>4. j.at = "createVault" => Owns(d, key)'
        BY <1>1, <3>1, Here DEF KeyKeyed
      <3>5. j.at = "createVault" => Owns(d, job[p][k].key)'
        BY <3>2, <3>4
      <3>. QED BY <2>3, <2>5, <3>1, <3>2, <3>3, <3>5 DEF KeyKeyed, StageOf
    <2>6. CASE j.at # "idle" /\ j.op = "list"
      <3>1. StageOf(j)
        BY JobTyped DEF Typed, JobOK
      <3>. QED BY <2>1, <2>3, <2>6, <3>1 DEF KeyKeyed, StageOf
    <2>. QED BY <1>3, <2>4, <2>5, <2>6
  <1>. QED BY <1>5, <1>6, <1>7 DEF KeyedAt, ProcKeyed

\* The messages that show the login screen or the set-up.
LEMMA UpdateShows ==
    ASSUME Typed, NEW p \in Procs, NEW j
    PROVE  LET new == Update(p, j)
           IN /\ new.screen = "login" => ui[p].screen = "login"
              /\ new.screen = "setup" =>
                    \/ new = ui[p]
                    \/ new.attempts = 0 /\ j.ok /\ j.op = "recover"
                    \/ /\ new.attempts = 0 /\ ui[p].screen = "login" /\ j.ok
                       /\ j.op = "register" \/ (j.op = "login" /\ ~EncryptionConfigured(mem[p]))
  <1>. DEFINE e == [ui[p] EXCEPT !.attempts = 0, !.mode = "setPIN"]
              f == [ui[p] EXCEPT !.attempts = @ + 1]
  <1>1. e.screen = ui[p].screen /\ f.screen = ui[p].screen
    BY DEF Typed, StateTyped, TypeOK
  <1>2. LockUpdate(p, j) \in {ui[p], e, f, Screen("dashboard")}
    BY DEF LockUpdate
  <1>. HIDE DEF e, f
  <1>3. ui[p].screen = "lock" => LockUpdate(p, j).screen \in {"lock", "dashboard"}
    BY <1>1, <1>2 DEF Screen
  <1>. QED BY <1>3 DEF Update, LoginUpdate, SetupUpdate, Screen, NewLock

LEMMA MessageKeyed ==
    ASSUME Typed, JobsTyped', NEW p \in Procs, NEW i \in Slots, SettledAt(p), KeyedAt(p), Message(p, i)
    PROVE  KeyedAt(p)'
  <1>. DEFINE j == job[p][i]
              new == Update(p, j)
  <1>1. /\ p \in Tui /\ j.at = "message" /\ \A k \in Slots : job'[p][k].at = "idle"
        /\ UNCHANGED <<server, disk, mem>> /\ ui'[p] = new
    BY MessageDoes DEF SettledAt, ProcSettled
  <1>2. /\ UNCHANGED session \/ Lock(p)
        /\ ~UNCHANGED session => new.attempts >= MaxUnlockAttempts /\ ~(ui[p].attempts >= MaxUnlockAttempts)
    BY DEF Message, Cold
  <1>3. mk'[p] \in {mk[p], None} /\ pin'[p] \in {pin[p], None}
    BY <1>2 DEF session, Lock, Typed, StateTyped, TypeOK
  <1>4. UNCHANGED <<account, kv, tok, mem>>
    BY <1>1 DEF server, disk
  <1>5. \A k \in Slots : ~At(p, k, "forget")
    BY <1>1, OthersIdle DEF At
  <1>6. MemKeyed(p)' /\ FilesKeyed(DeviceOf[p])'
    BY <1>4, <1>5, MemHere, Here DEF KeyedAt
  <1>. HIDE DEF new
  <1>7. ui'[p].screen = "login" => mk'[p] = None /\ pin'[p] = None
    BY <1>1, <1>3, UpdateShows DEF new, KeyedAt, ProcKeyed, SessionKeyed
  <1>8. ui'[p].screen = "setup" => mk'[p] # None \/ MayGive(p)
    <2>1. CASE new.screen = "setup" /\ new = ui[p]
      <3>1. UNCHANGED mk
        BY <1>2, <2>1 DEF session
      <3>. QED BY <1>1, <2>1, <3>1 DEF KeyedAt, ProcKeyed, SessionKeyed
    <2>2. CASE new.attempts = 0 /\ j.ok /\ j.op = "recover"
      <3>1. ui[p].attempts \in Nat /\ MaxUnlockAttempts \in Nat
        BY Bounds DEF Typed, StateTyped, TypeOK
      <3>2. UNCHANGED mk
        BY <1>2, <2>2, <3>1 DEF session
      <3>. QED BY <1>1, <2>2, <3>2 DEF KeyedAt, ProcKeyed, KeyKeyed
    <2>3. CASE j.ok /\ (j.op = "register" \/ (j.op = "login" /\ ~EncryptionConfigured(mem[p])))
      <3>1. ~EncryptionConfigured(mem[p]) => mem[p].enc = None
        BY <1>5 DEF EncryptionConfigured, KeyedAt, ProcKeyed, MemKeyed
      <3>. QED BY <1>1, <2>3, <3>1 DEF KeyedAt, ProcKeyed, LoginKeyed, Taken
    <2>. QED BY <1>1, <2>1, <2>2, <2>3, UpdateShows DEF new
  <1>9. SessionKeyed(p)'
    BY <1>1, <1>3, <1>4, <1>7, <1>8, Here DEF KeyedAt, ProcKeyed, SessionKeyed
  <1>. QED BY <1>1, <1>6, <1>9, SilentKeyed

\* A session that ends: nothing in memory but what the files say.
LEMMA ExitKeyed ==
    ASSUME Typed, JobsTyped', NEW p \in Procs, KeyedAt(p), UNCHANGED <<account, kv, tok>>, Exit(p), MemKeyed(p)',
           p \in Tui => ui'[p].screen # "setup"
    PROVE  KeyedAt(p)'
  <1>1. /\ mk'[p] = None /\ pin'[p] = None
        /\ \A k \in Slots : job'[p][k].at = "idle"
    BY IdleOK DEF Exit, Typed, StateTyped, TypeOK, JobsTyped
  <1>2. SessionKeyed(p)' /\ FilesKeyed(DeviceOf[p])'
    BY <1>1, Here DEF KeyedAt, SessionKeyed
  <1>. QED BY <1>1, <1>2, SilentKeyed

\* The row of the cache is of the account of the files.
LEMMA CachedOwned ==
    ASSUME NEW p \in Procs, SettledAt(p), KeyedAt(p), UNCHANGED <<account, kv, tok>>,
           mem'[p] \in {Cached(DeviceOf[p]), EmptyRow}
    PROVE  MemKeyed(p)'
  <1>. DEFINE d == DeviceOf[p]
  <1>1. EmptyRow.enc = None
    BY DEF EmptyRow
  <1>2. ~EncryptionConfigured(Cached(d)) => Cached(d) = EmptyRow
    BY DEF Cached
  <1>3. CASE mem'[p] = EmptyRow
    BY <1>1, <1>3 DEF MemKeyed
  <1>4. CASE mem'[p] = Cached(d) /\ EncryptionConfigured(Cached(d))
    <2>1. kv[d].enc # None /\ kv[d].salt # 0 /\ mem'[p] = [salt |-> kv[d].salt, enc |-> kv[d].enc]
      BY <1>4, CachedSettled, DeviceTyped DEF SettledAt
    <2>2. mem'[p].salt # 0 /\ mem'[p].enc = kv[d].enc
      BY <2>1
    <2>3. Owns(d, kv[d].enc.key)'
      BY <2>1, Here DEF KeyedAt, FilesKeyed
    <2>4. Owns(d, mem[p].enc.key)'
      BY <2>2, <2>3 DEF Owns, Opened
    <2>. QED BY <2>2, <2>4 DEF MemKeyed
  <1>. QED BY <1>2, <1>3, <1>4

LEMMA KillKeyed ==
    ASSUME Typed, JobsTyped', NEW p \in Procs, SettledAt(p), KeyedAt(p), Kill(p)
    PROVE  KeyedAt(p)'
  <1>. DEFINE row == IF p \in Tui THEN Cached(DeviceOf[p]) ELSE EmptyRow
  <1>1. UNCHANGED <<account, kv, tok>> /\ Exit(p) /\ mem' = [mem EXCEPT ![p] = row] /\ ui' = [ui EXCEPT ![p] = StartScreen(row)]
    BY DEF Kill, Show, server, disk
  <1>2. row \in {Cached(DeviceOf[p]), EmptyRow}
    OBVIOUS
  <1>. HIDE DEF row
  <1>3. mem'[p] = row /\ ui'[p] = StartScreen(row)
    BY <1>1 DEF Typed, StateTyped, TypeOK
  <1>4. MemKeyed(p)'
    BY <1>1, <1>2, <1>3, CachedOwned
  <1>5. ui'[p].screen # "setup"
    BY <1>3 DEF StartScreen, NewLock, Screen
  <1>. QED BY <1>1, <1>4, <1>5, ExitKeyed

LEMMA NextOpKeyed ==
    ASSUME Orderly, Typed, JobsTyped', NEW p \in Procs, NEW i \in Slots, SettledAt(p), KeyedAt(p), NextOp(p, i)
    PROVE  KeyedAt(p)'
  <1>. DEFINE j == job[p][i]
              d == DeviceOf[p]
              e == [j EXCEPT !.ok = TRUE]
  <1>1. JobOK(j) /\ j.at = "message" /\ p \notin Tui /\ UNCHANGED <<account, kv, tok, ui>>
    BY JobTyped DEF Typed, NextOp, At, server, disk
  <1>2. /\ \A k \in Slots \ {i} : job[p][k].at = "idle"
        /\ \A k \in Slots : ~At(p, k, "forget")
        /\ OthersStay(p, i) => \A k \in Slots \ {i} : job'[p][k].at = "idle"
    BY <1>1, OthersIdle DEF At
  <1>3. CASE /\ j.ok /\ UNCHANGED <<mem, session>>
             /\ \E op \in Following(p, j) \ {None} : \E in \in Inputs(op) :
                        Put(p, i, Begin(p, j.cmd, op, in.user, in.pass, in.code))
    <2>1. PICK op \in Following(p, j) \ {None} : \E in \in Inputs(op) :
                 Put(p, i, Begin(p, j.cmd, op, in.user, in.pass, in.code))
      BY <1>3
    <2>2. op \in {"unlock", "recover", "setup", "vault"} /\ (op = "setup" => j.op = "recover")
      BY <2>1 DEF Following, Offer, Orderly
    <2>3. PICK in \in Inputs(op) : Put(p, i, Begin(p, j.cmd, op, in.user, in.pass, in.code))
      BY <2>1
    <2>4. j.cmd \in {None, "tui"} \cup Commands
      BY <1>1 DEF JobOK, JobRecs
    <2>5. op = "setup" => mk[p] # None
      BY <1>1, <1>3, <2>2 DEF KeyedAt, ProcKeyed, KeyKeyed
    <2>6. UNCHANGED <<account, kv, tok, mem, mk, pin, ui>>
      BY <1>1, <1>3 DEF session
    <2>7. op \in Ops \ {"codes"} /\ op \notin Logins
      BY <2>2 DEF Ops, Logins
    <2>. QED BY <1>2, <2>3, <2>4, <2>5, <2>6, <2>7, BeginKeyed
  <1>4. CASE Exit(p) /\ mem' = [mem EXCEPT ![p] = EmptyRow]
    <2>1. mem'[p] = EmptyRow
      BY <1>4 DEF Typed, StateTyped, TypeOK
    <2>2. MemKeyed(p)'
      BY <1>1, <2>1, CachedOwned
    <2>. QED BY <1>1, <1>4, <2>2, ExitKeyed
  <1>5. CASE /\ j.op = "refresh" /\ mem' = [mem EXCEPT ![p] = Cached(d)]
             /\ Put(p, i, e) /\ UNCHANGED session
    <2>1. MemKeyed(p)'
      <3>1. mem'[p] = Cached(d)
        BY <1>5 DEF Typed, StateTyped, TypeOK
      <3>. QED BY <1>1, <3>1, CachedOwned
    <2>2. Fields(e, j.at, j.op, j.user, j.row, j.key, j.alias, j.pass, j.code, j.list, TRUE)
      BY <1>1, MoveOnlyOk DEF JobOK
    <2>3. job'[p][i] = e /\ OthersStay(p, i)
      <3>. HIDE DEF e
      <3>. QED BY <1>5, PutDoes DEF Typed
    <2>4. job'[p][i].at = "message" /\ job'[p][i].op = "refresh"
      <3>. HIDE DEF e
      <3>. QED BY <1>1, <1>5, <2>2, <2>3 DEF Fields
    <2>5. mk'[p] = None /\ pin'[p] = None
      BY <1>1, <1>5 DEF KeyedAt, ProcKeyed, LoginKeyed, Logins, session
    <2>6. LoginKeyed(p, i)' /\ KeyKeyed(p, i)'
      BY <1>1, <2>4, <2>5, NoKey DEF LoginKeyed, Logins, Taking
    <2>7. SessionKeyed(p)' /\ FilesKeyed(d)'
      BY <1>1, <2>4, <2>5, Here DEF KeyedAt, SessionKeyed, Quiet, At
    <2>. QED BY <1>2, <2>1, <2>3, <2>6, <2>7, SingleKeyed
  <1>. QED BY <1>3, <1>4, <1>5 DEF NextOp

---------------------------------------------------------------------------
(* Every step.                                                             *)

LEMMA RepliesStay ==
    ASSUME Typed, left.replies = 0, NEW p \in Procs, StepOf(p)
    PROVE  left'.replies = 0
  <1>1. left' = left => left'.replies = 0
    OBVIOUS
  <1>2. \A what \in {"jobs", "failures", "kills"} : Spend(what) => left'.replies = 0
    BY DEF Spend, Typed, StateTyped
  <1>3. ~Spend("replies")
    BY DEF Spend
  <1>4. ASSUME NEW i \in Slots, Accounts(p, i)
        PROVE  left'.replies = 0
    BY <1>1, <1>2, <1>3, <1>4 DEF Accounts, Register, Login, Reconcile, Forget, Remember, SaveTokens, CacheSalt,
       CacheEnc, Prefetch, Rpc
  <1>5. ASSUME NEW i \in Slots, Keys(p, i)
        PROVE  left'.replies = 0
    BY <1>1, <1>2, <1>3, <1>5 DEF Keys, ReadKey, Wrap, SetupEncryption, GenKey, WrapCodes, StoreRecoveryCodes,
       GetRecoveryBlob, MarkRecoveryCodeUsed, Unlock, UnlockWithPIN, SetPIN, Rpc
  <1>6. ASSUME NEW i \in Slots, Vaults(p, i)
        PROVE  left'.replies = 0
    BY <1>1, <1>2, <1>3, <1>6 DEF Vaults, NewVault, CreateVault, CacheVault, ListVaults, CacheList, PruneStaleVaults, Rpc
  <1>7. ASSUME NEW i \in Slots, Message(p, i) \/ Command(p, i) \/ NextOp(p, i)
        PROVE  left'.replies = 0
    BY <1>1, <1>2, <1>7 DEF Message, Command, NextOp
  <1>8. CASE Enter(p) \/ LockKey(p) \/ DashboardKey(p) \/ CodesKey(p) \/ AutoLock(p) \/ Kill(p)
    BY <1>1, <1>2, <1>8 DEF Enter, LockKey, DashboardKey, CodesKey, AutoLock, Kill
  <1>. QED BY <1>4, <1>5, <1>6, <1>7, <1>8 DEF StepOf

Steady(p) == Kept /\ (p \notin Tui => FreshKept) /\ ServerKeyed'

LEMMA AccountsKeyed ==
    ASSUME Typed, JobsTyped', NEW p \in Procs, NEW i \in Slots, SettledAt(p), KeyedAt(p), ServerKeyed, Accounts(p, i)
    PROVE  KeyedAt(p)' /\ Steady(p)
  <1>1. ~Register(p, i) => UNCHANGED server
    BY DEF Accounts, Login, Reconcile, Forget, Remember, SaveTokens, CacheSalt, CacheEnc, Prefetch, Rpc
  <1>2. UNCHANGED server => Steady(p)
    BY ServerStays DEF Steady
  <1>3. Register(p, i) => KeyedAt(p)' /\ Steady(p)
    BY RegisterKeyed DEF Steady
  <1>. QED BY <1>1, <1>2, <1>3, LoginOneKeyed, ReconcileKeyed, ForgetKeyed, RememberKeyed, SaveTokensKeyed,
              CacheSaltKeyed, CacheEncKeyed, PrefetchKeyed DEF Accounts

LEMMA KeysKeyed ==
    ASSUME Typed, JobsTyped', left.replies = 0, NEW p \in Procs, NEW i \in Slots, SettledAt(p), KeyedAt(p), ServerKeyed,
           Keys(p, i)
    PROVE  KeyedAt(p)' /\ Steady(p)
  <1>1. UNCHANGED server => Steady(p)
    BY ServerStays DEF Steady
  <1>2. SetupEncryption(p, i) => KeyedAt(p)' /\ Steady(p)
    BY SetupEncryptionKeyed DEF Steady
  <1>3. StoreRecoveryCodes(p, i) \/ MarkRecoveryCodeUsed(p, i) => KeyedAt(p)' /\ Steady(p)
    BY StoreRecoveryCodesKeyed, MarkRecoveryCodeUsedKeyed DEF Steady
  <1>4. ReadKey(p, i) \/ Wrap(p, i) \/ GenKey(p, i) \/ WrapCodes(p, i) \/ GetRecoveryBlob(p, i) \/ Unlock(p, i)
          \/ UnlockWithPIN(p, i) \/ SetPIN(p, i) => UNCHANGED server
    BY DEF ReadKey, Wrap, GenKey, WrapCodes, GetRecoveryBlob, Unlock, UnlockWithPIN, SetPIN, Rpc
  <1>. QED BY <1>1, <1>2, <1>3, <1>4, ReadKeyKeyed, WrapKeyed, GenKeyKeyed, WrapCodesKeyed, GetRecoveryBlobKeyed,
              UnlockKeyed, UnlockWithPINKeyed, SetPINKeyed DEF Keys

LEMMA VaultsKeyed ==
    ASSUME Typed, JobsTyped', NEW p \in Procs, NEW i \in Slots, SettledAt(p), KeyedAt(p), ServerKeyed, Vaults(p, i)
    PROVE  KeyedAt(p)' /\ Steady(p)
  <1>1. UNCHANGED server => Steady(p)
    BY ServerStays DEF Steady
  <1>2. CreateVault(p, i) => KeyedAt(p)' /\ Steady(p)
    BY CreateVaultKeyed DEF Steady
  <1>3. NewVault(p, i) \/ CacheVault(p, i) \/ ListVaults(p, i) \/ CacheList(p, i) \/ PruneStaleVaults(p, i)
          => UNCHANGED server
    BY DEF NewVault, CacheVault, ListVaults, CacheList, PruneStaleVaults
  <1>. QED BY <1>1, <1>2, <1>3, NewVaultKeyed, CachingKeyed, ListVaultsKeyed, CacheListKeyed DEF Vaults

LEMMA StepKeyed ==
    ASSUME Orderly, Typed, JobsTyped', left.replies = 0, NEW p \in Procs, SettledAt(p), KeyedAt(p), ServerKeyed, StepOf(p)
    PROVE  KeyedAt(p)' /\ Steady(p)
  <1>1. UNCHANGED server => Steady(p)
    BY ServerStays DEF Steady
  <1>2. ASSUME NEW i \in Slots, Accounts(p, i) \/ Keys(p, i) \/ Vaults(p, i)
        PROVE  KeyedAt(p)' /\ Steady(p)
    BY <1>2, AccountsKeyed, KeysKeyed, VaultsKeyed
  <1>3. ASSUME NEW i \in Slots, Message(p, i) \/ Command(p, i) \/ NextOp(p, i)
        PROVE  KeyedAt(p)' /\ Steady(p)
    <2>1. UNCHANGED server
      BY <1>3 DEF Message, Command, NextOp
    <2>. QED BY <1>1, <1>3, <2>1, MessageKeyed, CommandKeyed, NextOpKeyed
  <1>4. CASE Enter(p) \/ LockKey(p) \/ DashboardKey(p) \/ CodesKey(p) \/ AutoLock(p) \/ Kill(p)
    <2>1. UNCHANGED server
      BY <1>4 DEF Enter, LockKey, DashboardKey, CodesKey, AutoLock, Kill
    <2>. QED BY <1>1, <1>4, <2>1, EnterJobKeyed, PressKeyed, AutoLockKeyed, KillKeyed
  <1>. QED BY <1>2, <1>3, <1>4 DEF StepOf

LEMMA StutterKeyed ==
    ASSUME KeyedInv, UNCHANGED vars
    PROVE  KeyedInv'
  <1>1. UNCHANGED <<account, codes, vaults, kv, tok, mem, mk, pin, ui, job, left>>
    BY DEF vars, server, disk, session
  <1>2. ServerKeyed' /\ left'.replies = 0
    BY <1>1 DEF KeyedInv, ServerKeyed, VaultKeysValid, RecoveryWorks, RowsSalted, Opened
  <1>3. \A d \in Devices : FilesKeyed(d)'
    BY <1>1 DEF KeyedInv, FilesKeyed, Owns, Settled, Opened
  <1>4. ASSUME NEW p \in Procs
        PROVE  ProcKeyed(p)'
    <2>1. ProcKeyed(p)
      BY DEF KeyedInv
    <2>2. MemKeyed(p)'
      BY <1>1, <2>1 DEF ProcKeyed, MemKeyed, Owns, Settled, Opened, At
    <2>3. SessionKeyed(p)'
      BY <1>1, <2>1 DEF ProcKeyed, SessionKeyed, Owns, Settled, Opened, MayGive, Fresh, At, Quiet
    <2>4. \A i \in Slots : LoginKeyed(p, i)'
      BY <1>1, <2>1 DEF ProcKeyed, LoginKeyed, Opened, MayGive, Fresh, Taken
    <2>5. \A i \in Slots : KeyKeyed(p, i)'
      BY <1>1, <2>1 DEF ProcKeyed, KeyKeyed, Owns, Settled, Opened, MayGive, Fresh
    <2>. QED BY <2>2, <2>3, <2>4, <2>5 DEF ProcKeyed
  <1>. QED BY <1>2, <1>3, <1>4 DEF KeyedInv

LEMMA NextKeyed ==
    ASSUME Orderly, OneSource, Typed, Typed', SettledInv, KeyedInv, [Next]_vars
    PROVE  KeyedInv'
  <1>1. CASE UNCHANGED vars
    BY <1>1, StutterKeyed
  <1>2. ASSUME NEW p \in Procs, StepOf(p)
        PROVE  KeyedInv'
    <2>1. SettledAt(p) /\ KeyedAt(p) /\ ServerKeyed /\ left.replies = 0
      BY DeviceTyped DEF SettledInv, SettledAt, KeyedInv, KeyedAt
    <2>2. Local(p) /\ KeyedAt(p)' /\ Steady(p) /\ left'.replies = 0
      BY <1>2, <2>1, StepLocal, StepKeyed, RepliesStay DEF Typed
    <2>3. ASSUME NEW d \in Devices
          PROVE  FilesKeyed(d)'
      <3>1. CASE d = DeviceOf[p]
        BY <2>2, <3>1 DEF KeyedAt
      <3>2. CASE d # DeviceOf[p]
        BY <2>2, <3>2, FilesKept DEF Local, KeyedInv, Steady
      <3>. QED BY <3>1, <3>2
    <2>4. ASSUME NEW q \in Procs
          PROVE  ProcKeyed(q)'
      <3>1. CASE q = p
        BY <2>2, <3>1 DEF KeyedAt
      <3>2. CASE q # p
        <4>1. DeviceOf[q] \in Devices \ {DeviceOf[p]}
          BY <3>2, DeviceTyped DEF Orderly
        <4>2. /\ job'[q] = job[q] /\ ui'[q] = ui[q] /\ mem'[q] = mem[q] /\ mk'[q] = mk[q] /\ pin'[q] = pin[q]
              /\ kv'[DeviceOf[q]] = kv[DeviceOf[q]] /\ tok'[DeviceOf[q]] = tok[DeviceOf[q]]
          BY <2>2, <3>2, <4>1 DEF Local
        <4>3. ProcKeyed(q) /\ Kept
          BY <2>2 DEF KeyedInv, Steady
        <4>4. q \in Tui => FreshKept
          BY <2>2, <3>2 DEF OneSource, Steady
        <4>. QED BY <4>2, <4>3, <4>4, RestKeyed
      <3>. QED BY <3>1, <3>2
    <2>. QED BY <2>2, <2>3, <2>4 DEF KeyedInv, Steady
  <1>3. Next => \E p \in Procs : StepOf(p)
    BY DEF Next, StepOf
  <1>. QED BY <1>1, <1>2, <1>3

LEMMA InitKeyed ==
    ASSUME OneSource, Init
    PROVE  KeyedInv
  <1>1. EmptyRow.enc = None /\ EmptyKV.enc = None /\ Screen("login").screen = "login"
    BY DEF EmptyRow, EmptyKV, Screen
  <1>2. ServerKeyed /\ left.replies = 0
    BY DEF Init, ServerKeyed, VaultKeysValid, RecoveryWorks, RowsSalted, OneSource
  <1>3. \A d \in Devices : FilesKeyed(d)
    BY <1>1 DEF Init, FilesKeyed
  <1>4. ASSUME NEW p \in Procs
        PROVE  ProcKeyed(p)
    <2>1. MemKeyed(p) /\ SessionKeyed(p)
      BY <1>1 DEF Init, MemKeyed, SessionKeyed
    <2>2. ASSUME NEW i \in Slots
          PROVE  LoginKeyed(p, i) /\ KeyKeyed(p, i)
      <3>1. job[p][i].at = "idle"
        BY IdleOK DEF Init
      <3>. QED BY <3>1 DEF LoginKeyed, KeyKeyed, Taking, Taken
    <2>. QED BY <2>1, <2>2 DEF ProcKeyed
  <1>. QED BY <1>2, <1>3, <1>4 DEF KeyedInv

\* The invariant behind the next four: whatever a job, a session or a file holds is
\* the key of the account's row, or the first one the one TUI is about to give it
\* (setup_encryption.go, recovery.go, pin.go, usecase.go).
THEOREM KeyedInvariant == Orderly /\ OneSource => (Spec => [](Typed /\ SettledInv /\ KeyedInv))
  <1>. SUFFICES ASSUME Orderly, OneSource
                PROVE  Spec => [](Typed /\ SettledInv /\ KeyedInv)
    OBVIOUS
  <1>1. Init => Typed /\ SettledInv /\ KeyedInv
    BY InitTyped, InitSettled, InitKeyed
  <1>2. Typed /\ SettledInv /\ KeyedInv /\ [Next]_vars => (Typed /\ SettledInv /\ KeyedInv)'
    BY NextTyped, NextSettled, NextKeyed
  <1>. QED BY <1>1, <1>2, PTL DEF Spec

\* Every vault key at the server is wrapped by the master key the account's row
\* wraps: a later set-up (setup_encryption.go) replaces the wrapping, never the
\* key, whichever RPCs and statements fail and wherever a process is killed.
THEOREM VaultsStayReadable == Orderly /\ OneSource => (Spec => []VaultKeysValid)
  <1>1. KeyedInv => VaultKeysValid
    BY DEF KeyedInv, ServerKeyed
  <1>. QED BY <1>1, KeyedInvariant, PTL

\* Every unused recovery code gives back the account's master key, through later
\* set-ups, failed ones and codes stored in part (recovery.go, StoreRecoveryCodes).
THEOREM CodesStayValid == Orderly /\ OneSource => (Spec => []RecoveryWorks)
  <1>1. KeyedInv => RecoveryWorks
    BY DEF KeyedInv, ServerKeyed
  <1>. QED BY <1>1, KeyedInvariant, PTL

\* The key of a session, open or wrapped by the PIN (session.go, pin.go), is the
\* key of the account whose tokens the process uses: reconcileAccount
\* (usecase.go) locks the session before the tokens change.
THEOREM SessionOfAccount == Orderly /\ OneSource => (Spec => []SessionOwn)
  <1>1. KeyedInv => SessionOwn
    BY DEF KeyedInv, ProcKeyed, SessionKeyed, Owns, Settled, SessionOwn
  <1>. QED BY <1>1, KeyedInvariant, PTL

\* An account has one master key for life: no step of any client, a second set-up
\* with a new passphrase and a recovery among them (setup_encryption.go), gives a
\* registered account's row another key or takes the row away.
THEOREM MasterKeyForLife == Orderly /\ OneSource => (Spec => [][Kept]_vars)
  <1>. SUFFICES ASSUME Orderly, OneSource
                PROVE  Spec => [][Kept]_vars
    OBVIOUS
  <1>1. Typed /\ Typed' /\ SettledInv /\ KeyedInv /\ [Next]_vars => [Kept]_vars
    <2>1. ASSUME Typed, Typed', SettledInv, KeyedInv, NEW p \in Procs, StepOf(p)
          PROVE  Kept
      <3>1. SettledAt(p) /\ KeyedAt(p) /\ ServerKeyed /\ left.replies = 0
        BY <2>1, DeviceTyped DEF SettledInv, SettledAt, KeyedInv, KeyedAt
      <3>. QED BY <2>1, <3>1, StepKeyed DEF Steady, Typed
    <2>2. Next => \E p \in Procs : StepOf(p)
      BY DEF Next, StepOf
    <2>. QED BY <2>1, <2>2
  <1>. QED BY <1>1, KeyedInvariant, PTL DEF Spec
=============================================================================
