-------------------------- MODULE OfflineSyncProofs --------------------------
(***************************************************************************)
(* For any number of devices, threads, secrets, writes, lost messages and  *)
(* crashes: whatever is stored can be decrypted, no change replaces what   *)
(* its author has not seen, and no change a user asked for is lost.  With  *)
(* one thread per device a pull misses nothing either.  The invariant      *)
(* comes in layers: SyncType (what is where and under which version),      *)
(* SeenInv (what a version says of the content), KeptInv (who has every    *)
(* change, and that no statement takes the last copy of one) and PulledInv *)
(* (what a device has of the version it stored or is about to store).      *)
(***************************************************************************)
EXTENDS OfflineSync, SequenceTheorems, FiniteSetTheorems, TLAPS

----------------------------------------------------------------------------
(* Layer 1: types, with every ciphertext under its own version. *)

Ops ==
    {op \in Op : op.enc.version = op.base + 1 /\ (op.kind = "create" => op.base = 0)}
Changes == {op \in Ops : op.kind # "create"}
Entries == [id : Nat \ {0}, op : Ops, status : {"pending", "conflict"}]

Upserts ==
    {st \in [do : {"upsert"}, s : Secrets, enc : Cipher, tiers : Cipher \cup {None},
             version : Nat \ {0}, dirty : BOOLEAN] :
        st.enc.version = st.version /\ st.tiers \in {None, st.enc}}
Tiers ==
    {st \in [do : {"index", "payload", "load"}, s : Secrets, enc : Cipher, version : Nat] :
        st.enc.version = st.version}
Statements ==
    Upserts \cup Tiers \cup [do : {"deleterow"}, s : Secrets]
    \cup [do : {"enqueue"}, op : Ops, status : {"pending", "conflict"}]
    \cup [do : {"remove", "status"}, id : Nat] \cup [do : {"synced"}, version : Nat]

Todos == Seq(Statements)
Listed == {r \in [s : Secrets, enc : Cipher, version : Nat \ {0}] : r.enc.version = r.version}

SendJobs ==
    {j \in [at : {"send"}, op : Ops, id : Nat, todo : {<<>>}] :
        j.id # 0 => j.op \in Changes}
CardJobs ==
    {j \in [at : {"card"}, op : Changes, id : Nat, todo : {<<>>}, theirs : Cipher,
            version : Nat \ {0}] :
        j.theirs.version = j.version}
OpenJobs == [at : {"open"}, op : Changes, id : Nat \ {0}, todo : {<<>>}]
RequeueJobs ==
    {j \in [at : {"requeue"}, op : Changes, todo : Todos] :
        \A st \in ToSet(j.todo) : st.do = "enqueue" => st.op = j.op}
FinishJobs == [at : {"finish"}, w : 1 .. MaxWrites, todo : Todos]
StmtJobs == [at : {"stmts"}, todo : Todos]
ReplayJobs ==
    {j \in [at : {"replay"}, queue : SUBSET Entries, todo : Todos] :
        j.queue # {} \/ j.todo # <<>>}
FreshJobs == [at : {"fresh", "pull"}, version : Nat, todo : {<<>>}]
RowsJobs ==
    {j \in [at : {"rows", "pending"}, version : Nat, todo : {<<>>}, rows : SUBSET Listed] :
        IsFiniteSet(j.rows)}
PayloadJobs == [at : {"payload"}, s : Secrets, todo : {<<>>}]

JobSet ==
    {Idle} \cup SendJobs \cup CardJobs \cup OpenJobs \cup RequeueJobs \cup FinishJobs
    \cup StmtJobs \cup ReplayJobs \cup FreshJobs \cup RowsJobs \cup PayloadJobs

\* A row of the server: what is not deleted is encrypted under the row's version.
ServerRows ==
    {r \in Row : /\ r.version > 0 => r.enc \in Cipher
                 /\ r.version > 0 /\ ~r.deleted => r.enc.version = r.version}

\* A row of the cache: every tier that is there is encrypted under the row's version.
CacheRows ==
    {r \in [version : Nat, row : Cipher \cup {None}, index : Cipher \cup {None},
            payload : Cipher \cup {None}, dirty : BOOLEAN] :
        /\ r.version > 0 => r.row \in Cipher
        /\ \A tier \in {r.row, r.index, r.payload} : tier # None => tier.version = r.version}

LeftSet == [writes : 0 .. MaxWrites, requests : Nat, replies : Nat,
            crashes : 0 .. MaxCrashes, resolves : 0 .. MaxResolves]
LogSet == [created : SUBSET Secrets, asked : SUBSET (1 .. MaxWrites),
           acked : SUBSET (1 .. MaxWrites), refused : SUBSET (1 .. MaxWrites),
           applied : SUBSET (1 .. MaxWrites), blind : SUBSET Ops,
           killed : SUBSET (1 .. MaxWrites)]

SyncType ==
    /\ sec \in [Secrets -> ServerRows] /\ vaultVersion \in [{Vault} -> Nat \ {0}]
    /\ cache \in [Devices -> [Secrets -> CacheRows]]
    /\ outbox \in [Devices -> SUBSET Entries]
    /\ nextId \in [Devices -> Nat \ {0}] /\ synced \in [Devices -> Nat]
    /\ job \in [Devices -> [Threads -> JobSet]]
    /\ left \in LeftSet /\ log \in LogSet

----------------------------------------------------------------------------
(* Layer 2: of a version that is still the server's, the content is known. *)

\* In the table S of the server: version v of s is w's, as long as it is the current one.
Known(S, s, v, w) == v <= S[s].version /\ (v = S[s].version => S[s].enc.w = w)

OpKnown(S, op) == op.kind # "create" /\ ~op.onDirty => Known(S, op.s, op.base, op.seen)

StKnown(S, st) ==
    /\ st.do = "upsert" /\ ~st.dirty => Known(S, st.s, st.version, st.enc.w)
    /\ st.do = "enqueue" => OpKnown(S, st.op)

JobKnown(S, j) ==
    /\ j.at \in {"send", "card", "open", "requeue"} => OpKnown(S, j.op)
    /\ j.at = "card" => Known(S, j.op.s, j.version, j.theirs.w)
    /\ j.at = "replay" => \A e \in j.queue : OpKnown(S, e.op)
    /\ j.at \in {"rows", "pending"} => \A r \in j.rows : Known(S, r.s, r.version, r.enc.w)
    /\ \A st \in ToSet(j.todo) : StKnown(S, st)

RowKnown(S, s, row) == Cached(row) /\ ~row.dirty => Known(S, s, row.version, row.row.w)

SeenInv ==
    /\ \A d \in Devices, t \in Threads : JobKnown(sec, job[d][t])
    /\ \A d \in Devices, s \in Secrets : RowKnown(sec, s, cache[d][s])
    /\ \A d \in Devices : \A e \in outbox[d] : OpKnown(sec, e.op)
    /\ NoBlindOverwrite

----------------------------------------------------------------------------
(* Sequences of statements. *)

LEMMA SingleSeq ==
    ASSUME NEW S, NEW a \in S
    PROVE  <<a>> \in Seq(S) /\ ToSet(<<a>>) = {a} /\ <<a>> # <<>>
BY DEF ToSet

LEMMA PairSeq ==
    ASSUME NEW S, NEW a \in S, NEW b \in S
    PROVE  <<a, b>> \in Seq(S) /\ ToSet(<<a, b>>) = {a, b} /\ <<a, b>> # <<>>
BY DEF ToSet

LEMMA TripleSeq ==
    ASSUME NEW S, NEW a \in S, NEW b \in S, NEW c \in S
    PROVE  /\ <<a, b, c>> \in Seq(S) /\ ToSet(<<a, b, c>>) = {a, b, c} /\ <<a, b, c>> # <<>>
           /\ Head(<<a, b, c>>) = a /\ Tail(<<a, b, c>>) = <<b, c>>
BY DEF ToSet

LEMMA EmptyTodo == ASSUME NEW S PROVE <<>> \in Seq(S) /\ ToSet(<<>>) = {}
BY DEF ToSet

LEMMA HeadTail ==
    ASSUME NEW S, NEW q \in Seq(S), q # <<>>
    PROVE  /\ Head(q) \in S /\ Tail(q) \in Seq(S)
           /\ ToSet(q) = {Head(q)} \cup ToSet(Tail(q))
<1>1. Len(q) \in Nat \ {0} /\ Head(q) = q[1] /\ Head(q) \in S /\ Tail(q) \in Seq(S) /\ Len(Tail(q)) = Len(q) - 1
      /\ \A i \in 1 .. Len(q) - 1 : Tail(q)[i] = q[i + 1]
  OBVIOUS
<1>2. DOMAIN q = 1 .. Len(q) /\ DOMAIN Tail(q) = 1 .. Len(q) - 1
  BY <1>1
<1>3. ASSUME NEW x \in ToSet(q) PROVE x \in {Head(q)} \cup ToSet(Tail(q))
  <2>1. PICK i \in 1 .. Len(q) : x = q[i]
    BY <1>2 DEF ToSet
  <2>2. CASE i = 1
    BY <1>1, <2>1, <2>2
  <2>3. CASE i # 1
    <3>1. i - 1 \in 1 .. Len(q) - 1 /\ Tail(q)[i - 1] = q[(i - 1) + 1] /\ (i - 1) + 1 = i
      BY <1>1, <2>3
    <3> QED BY <1>2, <2>1, <3>1 DEF ToSet
  <2> QED BY <2>2, <2>3
<1>4. ASSUME NEW x \in ToSet(Tail(q)) PROVE x \in ToSet(q)
  <2>1. PICK i \in 1 .. Len(q) - 1 : x = Tail(q)[i]
    BY <1>2 DEF ToSet
  <2>2. i + 1 \in 1 .. Len(q) /\ x = q[i + 1]
    BY <1>1, <2>1
  <2> QED BY <1>2, <2>2 DEF ToSet
<1>5. Head(q) \in ToSet(q)
  BY <1>1, <1>2 DEF ToSet
<1> QED BY <1>1, <1>3, <1>4, <1>5

LEMMA Concat ==
    ASSUME NEW S, NEW p \in Seq(S), NEW q \in Seq(S)
    PROVE  p \o q \in Seq(S) /\ ToSet(p \o q) = ToSet(p) \cup ToSet(q)
<1>1. /\ p \o q \in Seq(S) /\ Len(p) \in Nat /\ Len(q) \in Nat /\ Len(p \o q) = Len(p) + Len(q)
      /\ \A i \in 1 .. Len(p) + Len(q) : (p \o q)[i] = IF i <= Len(p) THEN p[i] ELSE q[i - Len(p)]
  BY ConcatProperties
<1>2. DOMAIN p = 1 .. Len(p) /\ DOMAIN q = 1 .. Len(q) /\ DOMAIN (p \o q) = 1 .. Len(p) + Len(q)
  BY <1>1
<1>3. ASSUME NEW x \in ToSet(p \o q) PROVE x \in ToSet(p) \cup ToSet(q)
  <2>1. PICK i \in 1 .. Len(p) + Len(q) : x = (p \o q)[i]
    BY <1>2 DEF ToSet
  <2>2. CASE i <= Len(p)
    BY <1>1, <1>2, <2>1, <2>2 DEF ToSet
  <2>3. CASE ~(i <= Len(p))
    <3>1. i - Len(p) \in 1 .. Len(q) /\ x = q[i - Len(p)]
      BY <1>1, <2>1, <2>3
    <3> QED BY <1>2, <3>1 DEF ToSet
  <2> QED BY <2>2, <2>3
<1>4. ASSUME NEW x \in ToSet(p) PROVE x \in ToSet(p \o q)
  <2>1. PICK i \in 1 .. Len(p) : x = p[i]
    BY <1>2 DEF ToSet
  <2>2. i \in 1 .. Len(p) + Len(q) /\ x = (p \o q)[i]
    BY <1>1, <2>1
  <2> QED BY <1>2, <2>2 DEF ToSet
<1>5. ASSUME NEW x \in ToSet(q) PROVE x \in ToSet(p \o q)
  <2>1. PICK i \in 1 .. Len(q) : x = q[i]
    BY <1>2 DEF ToSet
  <2>2. i + Len(p) \in 1 .. Len(p) + Len(q) /\ ~(i + Len(p) <= Len(p)) /\ (i + Len(p)) - Len(p) = i
    BY <1>1, <2>1
  <2>3. x = (p \o q)[i + Len(p)]
    BY <1>1, <2>1, <2>2
  <2> QED BY <1>2, <2>2, <2>3 DEF ToSet
<1> QED BY <1>1, <1>3, <1>4, <1>5

\* The statements of a list of rows, in the order the list happens to have.
LEMMA ListOfSet ==
    ASSUME NEW S, IsFiniteSet(S)
    PROVE  SetToSeq(S) \in Seq(S) /\ ToSet(SetToSeq(S)) = S
<1> DEFINE n == Cardinality(S)
<1>1. n \in Nat /\ ExistsBijection(1 .. n, S)
  BY FS_CardinalityType
<1>2. PICK f \in Bijection(1 .. n, S) : TRUE
  BY <1>1 DEF ExistsBijection
<1>3. f \in [1 .. n -> S] /\ IsInjective(f)
  BY <1>2 DEF Bijection, Injection, IsInjective
<1>4. SetToSeq(S) \in [1 .. n -> S] /\ IsInjective(SetToSeq(S))
  BY <1>3 DEF SetToSeq
<1>5. SetToSeq(S) \in Surjection(1 .. n, S)
  <2>1. SetToSeq(S) \in Injection(1 .. n, S)
    BY <1>4 DEF Injection, IsInjective
  <2>2. IsFiniteSet(1 .. n) /\ Cardinality(1 .. n) = n
    BY <1>1, FS_Interval
  <2> QED BY <2>1, <2>2, FS_Injection
<1> HIDE DEF n
<1>6. SetToSeq(S) \in Seq(S)
  BY <1>1, <1>4, SeqDef
<1>7. ToSet(SetToSeq(S)) = S
  BY <1>4, <1>5 DEF ToSet, Surjection
<1> QED BY <1>6, <1>7

----------------------------------------------------------------------------
(* What the sets of jobs and statements say of their members. *)

LEMMA JobKinds ==
    ASSUME NEW j \in JobSet
    PROVE  /\ j.at = "send" => j \in SendJobs
           /\ j.at = "card" => j \in CardJobs
           /\ j.at = "open" => j \in OpenJobs
           /\ j.at = "requeue" => j \in RequeueJobs
           /\ j.at = "finish" => j \in FinishJobs
           /\ j.at = "stmts" => j \in StmtJobs
           /\ j.at = "replay" => j \in ReplayJobs
           /\ j.at \in {"fresh", "pull"} => j \in FreshJobs
           /\ j.at \in {"rows", "pending"} => j \in RowsJobs
           /\ j.at = "payload" => j \in PayloadJobs
           /\ j.at = "idle" => j = Idle
           /\ j.at \in {"idle", "send", "card", "open", "requeue", "finish", "stmts", "replay",
                        "fresh", "pull", "rows", "pending", "payload"}
           /\ j.todo \in Todos
<1>1. <<>> \in Todos
  BY EmptyTodo DEF Todos
<1> QED BY <1>1 DEF JobSet, Idle, SendJobs, CardJobs, OpenJobs, RequeueJobs, FinishJobs, StmtJobs,
           ReplayJobs, FreshJobs, RowsJobs, PayloadJobs

\* Only these jobs have statements left.
LEMMA BusyKinds ==
    ASSUME NEW j \in JobSet, j.todo # <<>>
    PROVE  j.at \in {"requeue", "finish", "stmts", "replay"}
BY JobKinds DEF Idle, SendJobs, CardJobs, OpenJobs, FreshJobs, RowsJobs, PayloadJobs

LEMMA StatementKinds ==
    ASSUME NEW st \in Statements
    PROVE  /\ st.do = "upsert" => st \in Upserts
           /\ st.do \in {"index", "payload", "load"} => st \in Tiers
           /\ st.do = "deleterow" => st \in [do : {"deleterow"}, s : Secrets]
           /\ st.do = "enqueue" => st \in [do : {"enqueue"}, op : Ops, status : {"pending", "conflict"}]
           /\ st.do \in {"remove", "status"} => st \in [do : {"remove", "status"}, id : Nat]
           /\ st.do = "synced" => st \in [do : {"synced"}, version : Nat]
           /\ st.do \in {"upsert", "index", "payload", "load", "deleterow", "enqueue", "remove",
                         "status", "synced"}
BY DEF Statements, Upserts, Tiers

LEMMA OpFacts ==
    ASSUME NEW op \in Ops
    PROVE  /\ op.kind \in {"create", "update", "delete"} /\ op.s \in Secrets /\ op.base \in Nat
           /\ op.enc \in Cipher /\ op.enc.w \in 1 .. MaxWrites /\ op.enc.version = op.base + 1
           /\ op.seen \in 0 .. MaxWrites /\ op.onDirty \in BOOLEAN
           /\ op.kind = "create" => op.base = 0
BY DEF Ops, Op, Cipher

----------------------------------------------------------------------------
(* The lists of statements the answers lead to. *)

Clean(op) ==
    IF op.kind = "delete" THEN {DeleteRow(op.s)}
    ELSE {Upsert(op.s, op.enc, op.enc, op.base + 1, FALSE), SetIndex(op.s, op.enc, op.base + 1),
          SetPayload(op.s, op.enc, op.base + 1)}
Dirty(op) ==
    {Upsert(op.s, op.enc, op.enc, op.base + 1, TRUE), SetIndex(op.s, op.enc, op.base + 1),
     SetPayload(op.s, op.enc, op.base + 1), DeleteRow(op.s), Enqueue(op, "pending")}

LEMMA UpsertOK ==
    ASSUME NEW s \in Secrets, NEW enc \in Cipher, NEW v \in Nat \ {0}, enc.version = v,
           NEW dirty \in BOOLEAN, NEW tiers \in {None, enc}
    PROVE  Upsert(s, enc, tiers, v, dirty) \in Statements
BY DEF Upsert, Upserts, Statements

LEMMA TierOK ==
    ASSUME NEW s \in Secrets, NEW enc \in Cipher, NEW v \in Nat, enc.version = v
    PROVE  /\ SetIndex(s, enc, v) \in Statements /\ SetPayload(s, enc, v) \in Statements
           /\ LoadIndex(s, enc, v) \in Statements
BY DEF SetIndex, SetPayload, LoadIndex, Tiers, Statements

LEMMA OtherOK ==
    /\ \A s \in Secrets : DeleteRow(s) \in Statements
    /\ \A op \in Ops, status \in {"pending", "conflict"} : Enqueue(op, status) \in Statements
    /\ \A id \in Nat : RemoveEntry(id) \in Statements /\ MarkConflict(id) \in Statements
    /\ \A v \in Nat : SetSynced(v) \in Statements
BY DEF DeleteRow, Enqueue, RemoveEntry, MarkConflict, SetSynced, Statements

LEMMA FullSecret ==
    ASSUME NEW s \in Secrets, NEW enc \in Cipher, NEW v \in Nat \ {0}, enc.version = v,
           NEW dirty \in BOOLEAN
    PROVE  /\ CacheFullSecret(s, enc, v, dirty) \in Todos
           /\ ToSet(CacheFullSecret(s, enc, v, dirty)) =
                {Upsert(s, enc, enc, v, dirty), SetIndex(s, enc, v), SetPayload(s, enc, v)}
<1> DEFINE U == Upsert(s, enc, enc, v, dirty)
           I == SetIndex(s, enc, v)
           P == SetPayload(s, enc, v)
<1>1. U \in Statements /\ I \in Statements /\ P \in Statements
  BY UpsertOK, TierOK
<1>2. CacheFullSecret(s, enc, v, dirty) = <<U, I, P>>
  BY DEF CacheFullSecret
<1> HIDE DEF U, I, P
<1>3. <<U, I, P>> \in Seq(Statements) /\ ToSet(<<U, I, P>>) = {U, I, P}
  BY <1>1 DEF ToSet
<1> QED BY <1>2, <1>3 DEF Todos, U, I, P

LEMMA OfflineLists ==
    ASSUME NEW op \in Ops, NEW L,
           \/ op.kind = "create" /\ L = CreateOffline(op)
           \/ L = UpdateOffline(op)
           \/ L = DeleteOffline(op)
    PROVE  L \in Todos /\ ToSet(L) \subseteq Dirty(op) /\ Enqueue(op, "pending") \in ToSet(L)
<1> DEFINE U == Upsert(op.s, op.enc, op.enc, op.base + 1, TRUE)
           E == Enqueue(op, "pending")
           D == DeleteRow(op.s)
           F == CacheFullSecret(op.s, op.enc, op.base + 1, TRUE)
           UL == <<U>>
           EL == <<E>>
           EDL == <<E, D>>
<1>0. op.base + 1 \in Nat \ {0} /\ op.s \in Secrets /\ op.enc \in Cipher /\ op.enc.version = op.base + 1
      /\ (op.kind = "create" => op.base + 1 = 1)
  BY OpFacts
<1>1. E \in Statements /\ D \in Statements
  BY <1>0, OtherOK
<1>2. U \in Statements
  BY <1>0, UpsertOK
<1>3. U \in Dirty(op) /\ E \in Dirty(op) /\ D \in Dirty(op)
      /\ SetIndex(op.s, op.enc, op.base + 1) \in Dirty(op) /\ SetPayload(op.s, op.enc, op.base + 1) \in Dirty(op)
  BY DEF Dirty
<1>4. F \in Todos
      /\ ToSet(F) = {U, SetIndex(op.s, op.enc, op.base + 1), SetPayload(op.s, op.enc, op.base + 1)}
  BY <1>0, FullSecret
<1>5. /\ op.kind = "create" => CreateOffline(op) = UL \o EL
      /\ UpdateOffline(op) = F \o EL
      /\ DeleteOffline(op) = EDL
  BY <1>0 DEF CreateOffline, CacheCreated, UpdateOffline, DeleteOffline
<1> HIDE DEF U, E, D, F
<1>6. /\ EL \in Seq(Statements) /\ ToSet(EL) = {E}
      /\ UL \in Seq(Statements) /\ ToSet(UL) = {U}
      /\ EDL \in Seq(Statements) /\ ToSet(EDL) = {E, D}
  BY <1>1, <1>2 DEF ToSet
<1> HIDE DEF EL, UL, EDL
<1>7. F \o EL \in Seq(Statements) /\ ToSet(F \o EL) = ToSet(F) \cup {E}
  BY <1>4, <1>6, Concat DEF Todos
<1>8. UL \o EL \in Seq(Statements) /\ ToSet(UL \o EL) = {U} \cup {E}
  BY <1>6, Concat
<1>9. E = Enqueue(op, "pending")
  BY DEF E
<1>10. CASE op.kind = "create" /\ L = CreateOffline(op)
  BY <1>3, <1>5, <1>8, <1>9, <1>10 DEF Todos
<1>11. CASE L = UpdateOffline(op)
  BY <1>3, <1>4, <1>5, <1>7, <1>9, <1>11 DEF Todos
<1>12. CASE L = DeleteOffline(op)
  BY <1>3, <1>5, <1>6, <1>9, <1>12 DEF Todos
<1> QED BY <1>10, <1>11, <1>12

LEMMA CleanLists ==
    ASSUME NEW op \in Ops, NEW L,
           \/ op.kind = "create" /\ L = CacheCreated(op, FALSE)
           \/ op.kind # "delete" /\ L = CacheFullSecret(op.s, op.enc, op.base + 1, FALSE)
           \/ op.kind # "delete" /\ L = <<Upsert(op.s, op.enc, op.enc, op.base + 1, FALSE)>>
           \/ op.kind = "delete" /\ L = <<DeleteRow(op.s)>>
    PROVE  L \in Todos /\ ToSet(L) \subseteq Clean(op)
<1> DEFINE U == Upsert(op.s, op.enc, op.enc, op.base + 1, FALSE)
           D == DeleteRow(op.s)
           F == CacheFullSecret(op.s, op.enc, op.base + 1, FALSE)
           UL == <<U>>
           DL == <<D>>
<1>0. op.base + 1 \in Nat \ {0} /\ op.s \in Secrets /\ op.enc \in Cipher /\ op.enc.version = op.base + 1
      /\ (op.kind = "create" => op.base + 1 = 1)
  BY OpFacts
<1>1. D \in Statements /\ U \in Statements
  BY <1>0, OtherOK, UpsertOK
<1>2. op.kind # "delete" => /\ U \in Clean(op) /\ SetIndex(op.s, op.enc, op.base + 1) \in Clean(op)
                            /\ SetPayload(op.s, op.enc, op.base + 1) \in Clean(op)
  BY DEF Clean
<1>3. op.kind = "delete" => D \in Clean(op)
  BY DEF Clean
<1>4. F \in Todos
      /\ ToSet(F) = {U, SetIndex(op.s, op.enc, op.base + 1), SetPayload(op.s, op.enc, op.base + 1)}
  <2> HIDE DEF U
  <2>1. CacheFullSecret(op.s, op.enc, op.base + 1, FALSE) \in Todos
        /\ ToSet(CacheFullSecret(op.s, op.enc, op.base + 1, FALSE)) =
             {Upsert(op.s, op.enc, op.enc, op.base + 1, FALSE),
              SetIndex(op.s, op.enc, op.base + 1), SetPayload(op.s, op.enc, op.base + 1)}
    <3>1. ASSUME NEW v \in Nat \ {0}, v = op.base + 1
          PROVE  /\ CacheFullSecret(op.s, op.enc, v, FALSE) \in Todos
                 /\ ToSet(CacheFullSecret(op.s, op.enc, v, FALSE)) =
                      {Upsert(op.s, op.enc, op.enc, v, FALSE), SetIndex(op.s, op.enc, v),
                       SetPayload(op.s, op.enc, v)}
      <4>1. op.enc.version = v /\ op.s \in Secrets /\ op.enc \in Cipher
        BY <1>0, <3>1
      <4>2. ASSUME NEW s \in Secrets, NEW enc \in Cipher, enc.version = v
            PROVE  /\ CacheFullSecret(s, enc, v, FALSE) \in Todos
                   /\ ToSet(CacheFullSecret(s, enc, v, FALSE)) =
                        {Upsert(s, enc, enc, v, FALSE), SetIndex(s, enc, v), SetPayload(s, enc, v)}
        BY <4>2, FullSecret
      <4> QED BY <4>1, <4>2
    <3> QED BY <1>0, <3>1
  <2> QED BY <2>1 DEF U
<1>5. op.kind = "create" => CacheCreated(op, FALSE) = UL
  BY <1>0 DEF CacheCreated
<1>6. \/ op.kind # "delete" /\ L \in {UL, F}
      \/ op.kind = "delete" /\ L = DL
  BY <1>5
<1> HIDE DEF U, D, F
<1>7. UL \in Seq(Statements) /\ ToSet(UL) = {U}
  BY <1>1 DEF ToSet
<1>8. DL \in Seq(Statements) /\ ToSet(DL) = {D}
  BY <1>1 DEF ToSet
<1> HIDE DEF UL, DL
<1> QED BY <1>2, <1>3, <1>4, <1>6, <1>7, <1>8 DEF Todos

\* The same, before or after an entry of the outbox is removed.
LEMMA WithRemove ==
    ASSUME NEW L \in Todos, NEW id \in Nat, NEW M \in {<<RemoveEntry(id)>> \o L, L \o <<RemoveEntry(id)>>}
    PROVE  M \in Todos /\ ToSet(M) = ToSet(L) \cup {RemoveEntry(id)}
<1> DEFINE R == RemoveEntry(id)
           RL == <<R>>
<1>1. R \in Statements
  BY OtherOK
<1>4. R = RemoveEntry(id) /\ M \in {RL \o L, L \o RL}
  OBVIOUS
<1> HIDE DEF R
<1>2. RL \in Seq(Statements) /\ ToSet(RL) = {R}
  BY <1>1 DEF ToSet
<1> HIDE DEF RL
<1>3. /\ RL \o L \in Seq(Statements) /\ ToSet(RL \o L) = {R} \cup ToSet(L)
      /\ L \o RL \in Seq(Statements) /\ ToSet(L \o RL) = ToSet(L) \cup {R}
  BY <1>2, Concat DEF Todos
<1> QED BY <1>3, <1>4 DEF Todos

----------------------------------------------------------------------------
(* One call of the server. *)

\* The server executed op in this step.
Executed(op) ==
    /\ \A s \in Secrets : s # op.s => sec'[s] = sec[s]
    /\ sec'[op.s].version = op.base + 1 /\ sec[op.s].version = op.base
    /\ op.kind # "delete" => sec'[op.s].enc = op.enc
    /\ vaultVersion'[Vault] = vaultVersion[Vault] + 1
    /\ log'.applied = log.applied \cup {op.enc.w} /\ log'.refused = log.refused
    /\ \/ log'.blind = log.blind
       \/ /\ log'.blind = log.blind \cup {op}
          /\ op.kind # "create" /\ sec[op.s].enc.w # op.seen

\* The request had no effect, except that the user may give the writes up.
Rejected(refused) ==
    /\ sec' = sec /\ vaultVersion' = vaultVersion
    /\ log'.applied = log.applied /\ log'.refused = log.refused \cup refused
    /\ log'.blind = log.blind

ServerRow(v, deleted, c) == [version |-> v, deleted |-> deleted, enc |-> c, blob |-> None]

LEMMA ServerRowOK ==
    ASSUME NEW v \in Nat, NEW c \in Cipher, NEW deleted \in BOOLEAN, deleted \/ c.version = v
    PROVE  ServerRow(v, deleted, c) \in ServerRows
<1> DEFINE r == ServerRow(v, deleted, c)
<1>1. r \in Row /\ r.enc = c /\ r.version = v /\ r.deleted = deleted
  BY DEF Row, ServerRow
<1> HIDE DEF r
<1>3. r \in ServerRows
  BY <1>1 DEF ServerRows
<1> QED BY <1>1, <1>3 DEF r

LEMMA ExecuteFacts ==
    ASSUME SyncType, NEW op \in Ops, Execute(op)
    PROVE  /\ sec' \in [Secrets -> ServerRows] /\ vaultVersion' \in [{Vault} -> Nat \ {0}]
           /\ log' \in LogSet /\ Executed(op)
           /\ log'.asked = log.asked /\ log'.acked = log.acked /\ log'.killed = log.killed
<1> DEFINE row == sec[op.s]
<1>1. /\ op.s \in Secrets /\ op.base \in Nat /\ op.enc \in Cipher /\ op.enc.version = op.base + 1
      /\ op.enc.w \in 1 .. MaxWrites /\ (op.kind = "create" => op.base = 0) /\ op.base + 1 \in Nat
      /\ op.kind \in {"create", "update", "delete"}
  BY OpFacts
<1>2. row \in ServerRows /\ sec \in [Secrets -> ServerRows] /\ vaultVersion \in [{Vault} -> Nat \ {0}]
  BY <1>1 DEF SyncType
<1>3. PICK new : /\ Put(op.s, new) /\ row.version = op.base
                 /\ \/ op.kind = "create" /\ new = Inserted(op.enc)
                    \/ op.kind = "update" /\ new = UpdatedFields(row, op.enc) /\ Writable(row, op.base)
                    \/ op.kind = "delete" /\ new = SoftDeleted(row) /\ Writable(row, op.base)
  <2>1. row.version \in Nat
    BY <1>2 DEF ServerRows, Row
  <2> QED BY <1>1, <2>1 DEF Execute, CreateSecret, UpdateSecret, DeleteSecret, Writable, Exists
<1>4. new \in ServerRows /\ new.version = op.base + 1 /\ (op.kind # "delete" => new.enc = op.enc)
  <2>1. CASE op.kind = "create"
    <3>1. new = ServerRow(op.base + 1, FALSE, op.enc)
      BY <1>1, <1>3, <2>1 DEF Inserted, ServerRow
    <3>2. ServerRow(op.base + 1, FALSE, op.enc) \in ServerRows
      BY <1>1, ServerRowOK
    <3>3. new.version = op.base + 1 /\ new.enc = op.enc
      BY <3>1 DEF ServerRow
    <3> QED BY <3>1, <3>2, <3>3
  <2>2. CASE op.kind # "create"
    <3>1. /\ row.version \in Nat /\ row.version = op.base /\ row.deleted = FALSE
          /\ row.enc \in Cipher /\ row.blob = None
      BY <1>2, <1>3, <2>2 DEF ServerRows, Row, Writable, Exists
    <3>2. CASE op.kind = "update"
      <4>1. new = ServerRow(op.base + 1, FALSE, op.enc)
        BY <1>3, <3>1, <3>2 DEF UpdatedFields, ServerRow
      <4>2. ServerRow(op.base + 1, FALSE, op.enc) \in ServerRows
        BY <1>1, ServerRowOK
      <4>3. new.version = op.base + 1 /\ new.enc = op.enc
        BY <4>1 DEF ServerRow
      <4> QED BY <4>1, <4>2, <4>3
    <3>3. CASE op.kind = "delete"
      <4>1. new = ServerRow(op.base + 1, TRUE, row.enc)
        BY <1>3, <3>1, <3>3 DEF SoftDeleted, ServerRow
      <4>2. ServerRow(op.base + 1, TRUE, row.enc) \in ServerRows
        BY <1>1, <3>1, ServerRowOK
      <4>3. new.version = op.base + 1
        BY <4>1 DEF ServerRow
      <4> QED BY <3>3, <4>1, <4>2, <4>3
    <3> QED BY <1>1, <2>2, <3>2, <3>3
  <2> QED BY <2>1, <2>2
<1>5. sec' = [sec EXCEPT ![op.s] = new] /\ vaultVersion' = [vaultVersion EXCEPT ![Vault] = @ + 1]
  BY <1>1, <1>3 DEF Put
<1>6. sec' \in [Secrets -> ServerRows] /\ sec'[op.s] = new /\ \A s \in Secrets : s # op.s => sec'[s] = sec[s]
  BY <1>1, <1>2, <1>4, <1>5
<1>7. /\ vaultVersion' \in [{Vault} -> Nat \ {0}]
      /\ vaultVersion'[Vault] = vaultVersion[Vault] + 1
  BY <1>2, <1>5
<1> DEFINE blind == IF op.kind # "create" /\ sec[op.s].enc.w # op.seen
                    THEN log.blind \cup {op} ELSE log.blind
<1>8. /\ log' = [log EXCEPT !.applied = @ \cup {op.enc.w}, !.blind = blind]
      /\ log \in LogSet /\ blind \in SUBSET Ops
      /\ \/ blind = log.blind
         \/ blind = log.blind \cup {op} /\ op.kind # "create" /\ sec[op.s].enc.w # op.seen
  BY DEF Execute, SyncType, LogSet
<1> HIDE DEF blind
<1>9. /\ log' \in LogSet /\ log'.applied = log.applied \cup {op.enc.w} /\ log'.blind = blind
      /\ log'.refused = log.refused
      /\ log'.asked = log.asked /\ log'.acked = log.acked /\ log'.killed = log.killed
  BY <1>1, <1>8 DEF LogSet
<1> QED BY <1>3, <1>4, <1>6, <1>7, <1>8, <1>9 DEF Executed

Called(op, answer, refused) ==
    /\ sec' \in [Secrets -> ServerRows] /\ vaultVersion' \in [{Vault} -> Nat \ {0}]
    /\ left' \in LeftSet /\ log' \in LogSet
    /\ log'.asked = log.asked /\ log'.acked = log.acked /\ log'.killed = log.killed
    /\ Executed(op) \/ Rejected(refused)
    /\ answer = "ok" => Executed(op)
    /\ answer \in {"conflict", "notfound"} => Rejected(refused)
    /\ answer = "conflict" =>
        op.kind # "create" /\ sec[op.s].version > 0 /\ ~sec[op.s].deleted

LEMMA CallFacts ==
    ASSUME SyncType, NEW op \in Ops, NEW answer \in Answers, NEW refused \in SUBSET (1 .. MaxWrites),
           Call(op, answer, refused)
    PROVE  Called(op, answer, refused)
<1> DEFINE Turned == log' = [log EXCEPT !.refused = @ \cup refused] /\ UNCHANGED serverVars
           Typed == /\ sec' \in [Secrets -> ServerRows] /\ vaultVersion' \in [{Vault} -> Nat \ {0}]
                    /\ log' \in LogSet
                    /\ log'.asked = log.asked /\ log'.acked = log.acked /\ log'.killed = log.killed
<1>1. ASSUME Turned PROVE Typed /\ Rejected(refused)
  <2>1. log \in LogSet /\ log' = [log EXCEPT !.refused = @ \cup refused] /\ sec' = sec /\ vaultVersion' = vaultVersion
    BY <1>1 DEF SyncType, serverVars
  <2>2. /\ log' \in LogSet /\ log'.applied = log.applied /\ log'.refused = log.refused \cup refused
        /\ log'.blind = log.blind
        /\ log'.asked = log.asked /\ log'.acked = log.acked /\ log'.killed = log.killed
    BY <2>1 DEF LogSet
  <2> QED BY <2>1, <2>2 DEF Rejected, SyncType
<1>2. ASSUME Execute(op) PROVE Typed /\ Executed(op)
  BY <1>2, ExecuteFacts
<1>3. left \in LeftSet
  BY DEF SyncType
<1>4. CASE /\ answer = Verdict(op)
           /\ IF answer = "ok" THEN Execute(op) ELSE Turned
           /\ UNCHANGED left
  <2>1. answer = "conflict" => op.kind # "create" /\ sec[op.s].version > 0 /\ ~sec[op.s].deleted
    BY <1>4 DEF Verdict, Exists
  <2> HIDE DEF Turned, Typed
  <2>2. Typed /\ (Executed(op) \/ Rejected(refused)) /\ (answer = "ok" => Executed(op))
        /\ (answer # "ok" => Rejected(refused))
    BY <1>1, <1>2, <1>4
  <2>3. left' \in LeftSet
    BY <1>3, <1>4
  <2> QED BY <2>1, <2>2, <2>3 DEF Typed, Called
<1>5. CASE /\ answer \in {"offline", "internal"} /\ left.requests > 0
           /\ left' = [left EXCEPT !.requests = @ - 1]
           /\ Turned
  <2>1. left' \in LeftSet
    BY <1>3, <1>5 DEF LeftSet
  <2> QED BY <1>1, <1>5, <2>1 DEF Called
<1>6. CASE /\ answer \in {"offline", "internal"} /\ left.replies > 0 /\ Verdict(op) = "ok"
           /\ left' = [left EXCEPT !.replies = @ - 1]
           /\ Execute(op)
  <2>1. left' \in LeftSet
    BY <1>3, <1>6 DEF LeftSet
  <2> QED BY <1>2, <1>6, <2>1 DEF Called
<1> QED BY <1>4, <1>5, <1>6 DEF Call

----------------------------------------------------------------------------
(* What a job goes on with after an answer. *)

Removal(id) == IF id = 0 THEN {} ELSE {RemoveEntry(id)}

\* A request the server executed: the job brings the cache up to date and ends.
Applies(op, id, k) ==
    k \in FinishJobs /\ k.w = op.enc.w /\ ToSet(k.todo) \subseteq Clean(op) \cup Removal(id)

\* A request that did not reach the server: the job queues the change and ends.
Defers(op, id, k) ==
    /\ k \in FinishJobs /\ k.w = op.enc.w
    /\ ToSet(k.todo) \subseteq Dirty(op) \cup Removal(id)
    /\ Enqueue(op, "pending") \in ToSet(k.todo)

\* retryOutboxUpdate met the next conflict.
Requeues(op, id, k) ==
    /\ k \in RequeueJobs /\ k.op = op /\ id # 0
    /\ Head(k.todo) = MarkConflict(id) /\ k.todo # <<>>
    /\ ToSet(Tail(k.todo)) = {RemoveEntry(id), Enqueue(op, "conflict")}

Outcome(op, id, answer, k) ==
    /\ answer = "ok" => Applies(op, id, k)
    /\ answer = "offline" => Defers(op, id, k) \/ (k = Idle /\ id # 0)
    /\ answer = "conflict" => k = Card(op, 0) \/ k = Card(op, id) \/ Requeues(op, id, k)
    /\ answer \in {"notfound", "internal"} => k = Idle

LEMMA FinishOK ==
    ASSUME NEW w \in 1 .. MaxWrites, NEW L \in Todos
    PROVE  /\ Finish(w, L) \in FinishJobs /\ Finish(w, L).w = w
           /\ Finish(w, L).todo = L /\ Finish(w, L).at = "finish"
BY DEF Finish, FinishJobs

LEMMA CleanFinish ==
    ASSUME NEW op \in Ops, NEW id \in Nat, NEW L, NEW k,
           \/ op.kind = "create" /\ L = CacheCreated(op, FALSE)
           \/ op.kind # "delete" /\ L = CacheFullSecret(op.s, op.enc, op.base + 1, FALSE)
           \/ op.kind = "delete" /\ L = <<DeleteRow(op.s)>>,
           \/ k = Finish(op.enc.w, L)
           \/ id # 0 /\ k = Finish(op.enc.w, <<RemoveEntry(id)>> \o L)
           \/ id # 0 /\ k = Finish(op.enc.w, L \o <<RemoveEntry(id)>>)
    PROVE  Applies(op, id, k)
<1> DEFINE A == <<RemoveEntry(id)>> \o L
           B == L \o <<RemoveEntry(id)>>
<1>1. L \in Todos /\ ToSet(L) \subseteq Clean(op)
  BY CleanLists
<1>2. /\ A \in Todos /\ ToSet(A) = ToSet(L) \cup {RemoveEntry(id)}
      /\ B \in Todos /\ ToSet(B) = ToSet(L) \cup {RemoveEntry(id)}
  BY <1>1, WithRemove
<1>3. op.enc.w \in 1 .. MaxWrites
  BY OpFacts
<1>4. \/ k = Finish(op.enc.w, L)
      \/ id # 0 /\ (k = Finish(op.enc.w, A) \/ k = Finish(op.enc.w, B))
  OBVIOUS
<1> HIDE DEF A, B
<1> QED BY <1>1, <1>2, <1>3, <1>4, FinishOK DEF Applies, Removal

LEMMA OfflineFinish ==
    ASSUME NEW op \in Ops, NEW id \in Nat, NEW L, NEW k,
           \/ op.kind = "create" /\ L = CreateOffline(op)
           \/ L = UpdateOffline(op)
           \/ L = DeleteOffline(op),
           k = Finish(op.enc.w, L) \/ (id # 0 /\ k = Finish(op.enc.w, L \o <<RemoveEntry(id)>>))
    PROVE  Defers(op, id, k)
<1> DEFINE B == L \o <<RemoveEntry(id)>>
<1>1. L \in Todos /\ ToSet(L) \subseteq Dirty(op) /\ Enqueue(op, "pending") \in ToSet(L)
  BY OfflineLists
<1>2. B \in Todos /\ ToSet(B) = ToSet(L) \cup {RemoveEntry(id)}
  BY <1>1, WithRemove
<1>3. op.enc.w \in 1 .. MaxWrites
  BY OpFacts
<1>4. k = Finish(op.enc.w, L) \/ (id # 0 /\ k = Finish(op.enc.w, B))
  OBVIOUS
<1> HIDE DEF B
<1> QED BY <1>1, <1>2, <1>3, <1>4, FinishOK DEF Defers, Removal

LEMMA RequeueOK ==
    ASSUME NEW op \in Changes, NEW id \in Nat \ {0}, NEW k,
           k = [at |-> "requeue", op |-> op,
                todo |-> <<MarkConflict(id), RemoveEntry(id), Enqueue(op, "conflict")>>]
    PROVE  Requeues(op, id, k)
<1> DEFINE M == MarkConflict(id)
           R == RemoveEntry(id)
           E == Enqueue(op, "conflict")
           L == <<M, R, E>>
<1>1. M \in Statements /\ R \in Statements /\ E \in Statements
  BY OtherOK DEF Changes
<1>2. M.do # "enqueue" /\ R.do # "enqueue" /\ E.op = op
  BY DEF MarkConflict, RemoveEntry, Enqueue
<1>3. k.at = "requeue" /\ k.op = op /\ k.todo = L /\ k = [at |-> "requeue", op |-> op, todo |-> L]
  OBVIOUS
<1> HIDE DEF M, R, E
<1>4. /\ L \in Seq(Statements) /\ L # <<>> /\ Head(L) = M /\ Tail(L) = <<R, E>>
      /\ ToSet(L) = {M, R, E} /\ ToSet(<<R, E>>) = {R, E}
  BY <1>1 DEF ToSet
<1>5. k \in [at : {"requeue"}, op : Changes, todo : Todos]
  BY <1>3, <1>4 DEF Todos
<1> HIDE DEF L
<1>6. \A st \in ToSet(k.todo) : st.do = "enqueue" => st.op = k.op
  BY <1>2, <1>3, <1>4
<1>7. k \in RequeueJobs
  BY <1>5, <1>6 DEF RequeueJobs
<1>8. Tail(k.todo) = <<R, E>> /\ Head(k.todo) = M /\ k.todo # <<>>
  BY <1>3, <1>4
<1>9. ToSet(Tail(k.todo)) = {R, E}
  BY <1>4, <1>8
<1> QED BY <1>3, <1>7, <1>8, <1>9 DEF Requeues, M, R, E

\* Send: a change made on screen, or one of an entry of the outbox.
LEMMA SendOutcome ==
    ASSUME NEW op \in Ops, NEW id \in Nat, NEW answer \in Answers, NEW k,
           id # 0 => op.kind # "create",
           k = CASE id = 0 -> AfterSend(op, answer)
                 [] id # 0 /\ op.kind = "update" -> AfterRetryUpdate(op, id, answer)
                 [] id # 0 /\ op.kind = "delete" -> AfterRetryDelete(op, id, answer)
    PROVE  Outcome(op, id, answer, k)
<1>1. op.kind \in {"create", "update", "delete"}
  BY OpFacts
<1>2. CASE id = 0
  <2>1. k = AfterSend(op, answer)
    BY <1>2
  <2>2. CASE answer = "ok"
    <3>1. PICK L : /\ k = Finish(op.enc.w, L)
                   /\ \/ op.kind = "create" /\ L = CacheCreated(op, FALSE)
                      \/ op.kind = "update" /\ L = CacheFullSecret(op.s, op.enc, op.base + 1, FALSE)
                      \/ op.kind = "delete" /\ L = <<DeleteRow(op.s)>>
      BY <1>1, <2>1, <2>2 DEF AfterSend
    <3> QED BY <2>2, <3>1, CleanFinish DEF Outcome
  <2>3. CASE answer = "offline"
    <3>1. PICK L : /\ k = Finish(op.enc.w, L)
                   /\ \/ op.kind = "create" /\ L = CreateOffline(op)
                      \/ op.kind = "update" /\ L = UpdateOffline(op)
                      \/ op.kind = "delete" /\ L = DeleteOffline(op)
      BY <1>1, <2>1, <2>3 DEF AfterSend
    <3> QED BY <2>3, <3>1, OfflineFinish DEF Outcome
  <2>4. CASE answer = "conflict"
    <3>1. k = Card(op, 0)
      BY <2>1, <2>4 DEF AfterSend
    <3> QED BY <2>4, <3>1 DEF Outcome
  <2>5. CASE answer \in {"notfound", "internal"}
    <3>1. k = Idle
      BY <2>1, <2>5 DEF AfterSend
    <3> QED BY <2>5, <3>1 DEF Outcome
  <2> QED BY <2>2, <2>3, <2>4, <2>5 DEF Answers
<1>3. CASE id # 0 /\ op.kind = "update"
  <2>1. k = AfterRetryUpdate(op, id, answer)
    BY <1>3
  <2>2. CASE answer = "ok"
    <3>1. k = Finish(op.enc.w, <<RemoveEntry(id)>> \o CacheFullSecret(op.s, op.enc, op.base + 1, FALSE))
      BY <2>1, <2>2 DEF AfterRetryUpdate
    <3>2. Applies(op, id, k)
      BY <1>3, <3>1, CleanFinish
    <3> QED BY <2>2, <3>2 DEF Outcome
  <2>3. CASE answer = "conflict"
    <3>1. k = [at |-> "requeue", op |-> op,
               todo |-> <<MarkConflict(id), RemoveEntry(id), Enqueue(op, "conflict")>>]
      BY <2>1, <2>3 DEF AfterRetryUpdate
    <3>2. op \in Changes
      BY <1>3 DEF Changes
    <3>3. Requeues(op, id, k)
      BY <1>3, <3>1, <3>2, RequeueOK
    <3> QED BY <2>3, <3>3 DEF Outcome
  <2>4. CASE answer \in {"offline", "notfound", "internal"}
    <3>1. k = Idle
      BY <2>1, <2>4 DEF AfterRetryUpdate
    <3> QED BY <1>3, <2>4, <3>1 DEF Outcome
  <2> QED BY <2>2, <2>3, <2>4 DEF Answers
<1>4. CASE id # 0 /\ op.kind = "delete"
  <2>1. k = AfterRetryDelete(op, id, answer)
    <3>1. op.kind # "update" /\ op.kind = "delete" /\ id # 0
      BY <1>4
    <3> QED BY <3>1
  <2>2. CASE answer = "ok"
    <3>1. k = Finish(op.enc.w, <<DeleteRow(op.s), RemoveEntry(id)>>)
      BY <2>1, <2>2 DEF AfterRetryDelete
    <3>2. <<DeleteRow(op.s), RemoveEntry(id)>> = <<DeleteRow(op.s)>> \o <<RemoveEntry(id)>>
      OBVIOUS
    <3>3. Applies(op, id, k)
      BY <1>4, <3>1, <3>2, CleanFinish
    <3> QED BY <2>2, <3>3 DEF Outcome
  <2>3. CASE answer = "offline"
    <3>1. k = Finish(op.enc.w, DeleteOffline(op) \o <<RemoveEntry(id)>>)
      BY <2>1, <2>3 DEF AfterRetryDelete
    <3>2. Defers(op, id, k)
      BY <1>4, <3>1, OfflineFinish
    <3> QED BY <2>3, <3>2 DEF Outcome
  <2>4. CASE answer = "conflict"
    <3>1. k = Card(op, 0)
      BY <2>1, <2>4 DEF AfterRetryDelete
    <3> QED BY <2>4, <3>1 DEF Outcome
  <2>5. CASE answer \in {"notfound", "internal"}
    <3>1. k = Idle
      BY <2>1, <2>5 DEF AfterRetryDelete
    <3> QED BY <2>5, <3>1 DEF Outcome
  <2> QED BY <2>2, <2>3, <2>4, <2>5 DEF Answers
<1> QED BY <1>1, <1>2, <1>3, <1>4

----------------------------------------------------------------------------
(* The steps of a thread, in the terms of the invariants. *)

\* The thread's job becomes k; the other jobs stay.
Moves(d, t, k) ==
    /\ job' \in [Devices -> [Threads -> JobSet]] /\ job'[d][t] = k
    /\ \A e \in Devices, u \in Threads : e # d \/ u # t => job'[e][u] = job[e][u]

LEMMA RunFacts ==
    ASSUME SyncType, NEW d \in Devices, NEW t \in Threads, NEW k \in JobSet, Run(d, t, k)
    PROVE  Moves(d, t, k)
BY DEF SyncType, Run, Moves

LEMMA CardOK ==
    ASSUME SyncType, NEW op \in Ops, NEW id \in Nat,
           op.kind # "create", sec[op.s].version > 0, ~sec[op.s].deleted
    PROVE  Card(op, id) \in CardJobs
<1>1. op \in Changes /\ op.s \in Secrets
  BY OpFacts DEF Changes
<1>2. sec[op.s] \in ServerRows
  BY <1>1 DEF SyncType
<1>3. sec[op.s].enc \in Cipher /\ sec[op.s].version \in Nat \ {0} /\ sec[op.s].enc.version = sec[op.s].version
  BY <1>2 DEF ServerRows, Row
<1> QED BY <1>1, <1>3 DEF Card, CardJobs

LEMMA OutcomeTyped ==
    ASSUME SyncType, NEW op \in Ops, NEW id \in Nat, NEW answer \in Answers, NEW k,
           NEW refused, Called(op, answer, refused), Outcome(op, id, answer, k)
    PROVE  k \in JobSet
<1>1. CASE answer = "conflict"
  BY <1>1, CardOK DEF Called, Outcome, Requeues, JobSet
<1>2. CASE answer # "conflict"
  BY <1>2 DEF Outcome, Applies, Defers, JobSet, Answers
<1> QED BY <1>1, <1>2

\* Send and ConflictFromOutbox: the job's change is sent.
Refuses(j, answer) ==
    IF j.at = "send" /\ j.id = 0 /\ answer \in {"notfound", "internal"} THEN {j.op.enc.w} ELSE {}

Asks(d, t, op, id, answer, k) ==
    /\ job[d][t].at \in {"send", "open"} /\ op = job[d][t].op /\ id = job[d][t].id
    /\ op \in Ops /\ id \in Nat /\ answer \in Answers /\ k \in JobSet
    /\ id # 0 => op.kind # "create"
    /\ job[d][t].at = "open" => id # 0
    /\ job[d][t].todo = <<>>
    /\ Called(op, answer, Refuses(job[d][t], answer))
    /\ Outcome(op, id, answer, k)
    /\ Moves(d, t, k)
    /\ UNCHANGED localVars

LEMMA SendStep ==
    ASSUME SyncType, NEW d \in Devices, NEW t \in Threads, Send(d, t)
    PROVE  \E op, id, answer, k : Asks(d, t, op, id, answer, k)
<1> DEFINE j == job[d][t]
<1>1. j \in JobSet /\ j.at = "send"
  BY DEF SyncType, Send
<1>2. j \in SendJobs
  BY <1>1, JobKinds
<1>3. j.op \in Ops /\ j.id \in Nat /\ j.todo = <<>> /\ (j.id # 0 => j.op.kind # "create")
  BY <1>2 DEF SendJobs, Changes
<1>4. PICK answer \in Answers :
        /\ Call(j.op, answer, IF j.id = 0 /\ answer \in {"notfound", "internal"}
                              THEN {j.op.enc.w} ELSE {})
        /\ Run(d, t, CASE j.id = 0 -> AfterSend(j.op, answer)
                       [] j.id # 0 /\ j.op.kind = "update" -> AfterRetryUpdate(j.op, j.id, answer)
                       [] j.id # 0 /\ j.op.kind = "delete" -> AfterRetryDelete(j.op, j.id, answer))
  BY DEF Send
<1>5. PICK k : /\ k = CASE j.id = 0 -> AfterSend(j.op, answer)
                       [] j.id # 0 /\ j.op.kind = "update" -> AfterRetryUpdate(j.op, j.id, answer)
                       [] j.id # 0 /\ j.op.kind = "delete" -> AfterRetryDelete(j.op, j.id, answer)
               /\ Run(d, t, k)
  BY <1>4
<1>6. Outcome(j.op, j.id, answer, k)
  BY <1>3, <1>5, SendOutcome
<1>7. Call(j.op, answer, Refuses(j, answer)) /\ Refuses(j, answer) \in SUBSET (1 .. MaxWrites)
  BY <1>1, <1>3, <1>4, OpFacts DEF Refuses
<1>8. Called(j.op, answer, Refuses(j, answer))
  BY <1>3, <1>7, CallFacts
<1>9. k \in JobSet
  BY <1>3, <1>6, <1>8, OutcomeTyped
<1>10. Moves(d, t, k)
  BY <1>5, <1>9, RunFacts
<1>11. UNCHANGED localVars
  BY DEF Send
<1>12. Asks(d, t, j.op, j.id, answer, k)
  BY <1>1, <1>3, <1>6, <1>8, <1>9, <1>10, <1>11 DEF Asks
<1> QED BY <1>12

LEMMA OpenStep ==
    ASSUME SyncType, NEW d \in Devices, NEW t \in Threads, ConflictFromOutbox(d, t)
    PROVE  \E op, id, answer, k : Asks(d, t, op, id, answer, k)
<1> DEFINE j == job[d][t]
           applied == IF j.op.kind = "update"
                      THEN CacheFullSecret(j.op.s, j.op.enc, j.op.base + 1, FALSE)
                      ELSE <<DeleteRow(j.op.s)>>
<1>1. j \in JobSet /\ j.at = "open"
  BY DEF SyncType, ConflictFromOutbox
<1>2. j \in OpenJobs
  BY <1>1, JobKinds
<1>3. j.op \in Ops /\ j.id \in Nat /\ j.id # 0 /\ j.todo = <<>> /\ j.op.kind \in {"update", "delete"}
  BY <1>2, OpFacts DEF OpenJobs, Changes
<1>4. PICK answer \in Answers :
        /\ Call(j.op, answer, {})
        /\ Run(d, t, CASE answer = "ok" -> Finish(j.op.enc.w, <<RemoveEntry(j.id)>> \o applied)
                       [] answer = "conflict" -> Card(j.op, j.id)
                       [] OTHER -> Idle)
  BY DEF ConflictFromOutbox
<1>5. PICK k : /\ Run(d, t, k)
               /\ answer = "ok" => k = Finish(j.op.enc.w, <<RemoveEntry(j.id)>> \o applied)
               /\ answer = "conflict" => k = Card(j.op, j.id)
               /\ answer \notin {"ok", "conflict"} => k = Idle
  BY <1>4
<1>6. \/ j.op.kind # "delete" /\ applied = CacheFullSecret(j.op.s, j.op.enc, j.op.base + 1, FALSE)
      \/ j.op.kind = "delete" /\ applied = <<DeleteRow(j.op.s)>>
  BY <1>3
<1> HIDE DEF applied
<1>7. answer = "ok" => Applies(j.op, j.id, k)
  BY <1>3, <1>5, <1>6, CleanFinish
<1>8. Outcome(j.op, j.id, answer, k)
  BY <1>3, <1>5, <1>7 DEF Outcome
<1>9. Refuses(j, answer) = {}
  BY <1>1 DEF Refuses
<1>10. Called(j.op, answer, Refuses(j, answer))
  BY <1>3, <1>4, <1>9, CallFacts
<1>11. k \in JobSet
  BY <1>3, <1>8, <1>10, OutcomeTyped
<1>12. Moves(d, t, k)
  BY <1>5, <1>11, RunFacts
<1>13. UNCHANGED localVars
  BY DEF ConflictFromOutbox
<1>14. Asks(d, t, j.op, j.id, answer, k)
  BY <1>1, <1>3, <1>8, <1>10, <1>11, <1>12, <1>13 DEF Asks
<1> QED BY <1>14

\* ReplayEntry: the request of the entry e is sent.
Replays(d, t, e, answer, k) ==
    LET j == job[d][t] IN
    /\ j \in ReplayJobs /\ j.at = "replay" /\ j.todo = <<>> /\ e \in j.queue /\ e \in Entries
    /\ answer \in Answers /\ k \in JobSet
    /\ Called(e.op, answer, {})
    /\ answer = "ok" => /\ k \in ReplayJobs /\ k.queue = j.queue \ {e}
                        /\ ToSet(k.todo) \subseteq Clean(e.op) \cup {RemoveEntry(e.id)}
    /\ answer = "conflict" => /\ k \in ReplayJobs /\ k.queue = j.queue \ {e}
                              /\ ToSet(k.todo) = {MarkConflict(e.id)}
    /\ answer \notin {"ok", "conflict"} => k = Idle
    /\ Moves(d, t, k)
    /\ UNCHANGED localVars

LEMMA ReplayedOK ==
    ASSUME NEW e \in Entries
    PROVE  /\ Replayed(e) \in Todos /\ Replayed(e) # <<>>
           /\ ToSet(Replayed(e)) \subseteq Clean(e.op) \cup {RemoveEntry(e.id)}
<1> DEFINE A == IF e.op.kind = "delete" THEN DeleteRow(e.op.s)
                ELSE Upsert(e.op.s, e.op.enc, e.op.enc, e.op.base + 1, FALSE)
           R == RemoveEntry(e.id)
           L == <<A, R>>
<1>1. e.op \in Ops /\ e.id \in Nat
  BY DEF Entries
<1>2. /\ e.op.base + 1 \in Nat \ {0} /\ e.op.s \in Secrets /\ e.op.enc \in Cipher
      /\ e.op.enc.version = e.op.base + 1
  BY <1>1, OpFacts
<1>3. Upsert(e.op.s, e.op.enc, e.op.enc, e.op.base + 1, FALSE) \in Statements
  BY <1>2, UpsertOK
<1>4. DeleteRow(e.op.s) \in Statements /\ R \in Statements
  BY <1>1, <1>2, OtherOK
<1>5. A \in Statements /\ A \in Clean(e.op)
  BY <1>3, <1>4 DEF Clean
<1>6. Replayed(e) = L
  BY DEF Replayed
<1> HIDE DEF A, R
<1>7. L \in Seq(Statements) /\ L # <<>> /\ ToSet(L) = {A, R}
  BY <1>4, <1>5 DEF ToSet
<1>8. ToSet(L) \subseteq Clean(e.op) \cup {RemoveEntry(e.id)}
  BY <1>5, <1>7 DEF R
<1> QED BY <1>6, <1>7, <1>8 DEF Todos

LEMMA ReplayStep ==
    ASSUME SyncType, NEW d \in Devices, NEW t \in Threads, ReplayEntry(d, t)
    PROVE  \E e, answer, k : Replays(d, t, e, answer, k)
<1> DEFINE j == job[d][t]
           Go(e, stmts) == [at |-> "replay", queue |-> j.queue \ {e}, todo |-> stmts]
<1>1. j \in JobSet /\ j.at = "replay" /\ j.todo = <<>> /\ UNCHANGED localVars
  BY DEF SyncType, ReplayEntry
<1>2. j \in ReplayJobs
  BY <1>1, JobKinds
<1>3. j.queue \in SUBSET Entries
  BY <1>2 DEF ReplayJobs
<1>4. PICK e \in j.queue, answer \in Answers :
        /\ Call(e.op, answer, {})
        /\ Run(d, t, CASE answer = "ok" -> Go(e, Replayed(e))
                       [] answer = "conflict" -> Go(e, <<MarkConflict(e.id)>>)
                       [] OTHER -> Idle)
  BY DEF ReplayEntry
<1>5. PICK k : /\ Run(d, t, k)
               /\ answer = "ok" => k = Go(e, Replayed(e))
               /\ answer = "conflict" => k = Go(e, <<MarkConflict(e.id)>>)
               /\ answer \notin {"ok", "conflict"} => k = Idle
  BY <1>4
<1>6. e \in Entries /\ e.op \in Ops /\ e.id \in Nat
  BY <1>3 DEF Entries
<1>7. Called(e.op, answer, {})
  BY <1>4, <1>6, CallFacts
<1>8. ASSUME NEW L \in Todos, L # <<>>
      PROVE  Go(e, L) \in ReplayJobs /\ Go(e, L).queue = j.queue \ {e} /\ Go(e, L).todo = L
  BY <1>3, <1>8 DEF ReplayJobs
<1>9. answer = "ok" => /\ k \in ReplayJobs /\ k.queue = j.queue \ {e}
                       /\ ToSet(k.todo) \subseteq Clean(e.op) \cup {RemoveEntry(e.id)}
  <2>1. /\ Replayed(e) \in Todos /\ Replayed(e) # <<>>
        /\ ToSet(Replayed(e)) \subseteq Clean(e.op) \cup {RemoveEntry(e.id)}
    BY <1>6, ReplayedOK
  <2> HIDE DEF Go
  <2> QED BY <1>5, <1>8, <2>1
<1>10. answer = "conflict" => /\ k \in ReplayJobs /\ k.queue = j.queue \ {e}
                              /\ ToSet(k.todo) = {MarkConflict(e.id)}
  <2> DEFINE M == MarkConflict(e.id)
             L == <<M>>
  <2>1. M \in Statements
    BY <1>6, OtherOK
  <2>2. answer = "conflict" => k = Go(e, L)
    BY <1>5
  <2> HIDE DEF M
  <2>3. L \in Seq(Statements) /\ L # <<>> /\ ToSet(L) = {M}
    BY <2>1 DEF ToSet
  <2> HIDE DEF L, Go
  <2>4. answer = "conflict" => /\ k \in ReplayJobs /\ k.queue = j.queue \ {e}
                               /\ ToSet(k.todo) = {M}
    BY <1>8, <2>2, <2>3 DEF Todos
  <2> QED BY <2>4 DEF M
<1>11. k \in JobSet
  BY <1>5, <1>9, <1>10 DEF JobSet
<1>12. Moves(d, t, k)
  BY <1>5, <1>11, RunFacts
<1>13. Replays(d, t, e, answer, k)
  BY <1>1, <1>2, <1>5, <1>6, <1>7, <1>9, <1>10, <1>11, <1>12 DEF Replays
<1> QED BY <1>13

----------------------------------------------------------------------------
(* The reads of the server and of the local database. *)

LEMMA ImageFinite ==
    ASSUME NEW S, IsFiniteSet(S), NEW f, DOMAIN f = S, f = [x \in S |-> f[x]]
    PROVE  IsFiniteSet({f[x] : x \in S})
<1> DEFINE T == {f[x] : x \in S}
<1>1. f \in Surjection(S, T)
  BY DEF Surjection
<1> QED BY <1>1, FS_Surjection

\* A job that reads, or writes what it has read to the cache.
Reading(j) ==
    /\ j.at \in {"idle", "fresh", "pull", "rows", "pending", "stmts", "payload"}
    /\ \A st \in ToSet(j.todo) : st.do \in {"upsert", "index", "payload", "load", "synced"}

\* The version and the content are those of the row of s in the table S of the server.
Same(S, s, version, enc) == version = S[s].version /\ enc = S[s].enc

\* The secret has an entry in the outbox; the list writes the row of the secret.
Waiting(es, s) == \E e \in es : e.op.s = s
Written(L, s) == \E st \in ToSet(L) : st.do = "upsert" /\ st.s = s

SyncedLast(L) == \A i \in 1 .. Len(L) : L[i].do = "synced" => i = Len(L)

\* What the read that makes the job k of j has fetched.
Fetched(d, j, k) ==
    /\ k.at = "fresh" => k.version = vaultVersion[Vault]
    /\ k.at = "pull" => j.at = "fresh" /\ k.version = j.version /\ synced[d] < j.version
    /\ k.at = "rows" =>
        /\ j.at = "pull" /\ k.version = j.version
        /\ \A r \in k.rows : Same(sec, r.s, r.version, r.enc)
        /\ \A s \in Live : \E r \in k.rows : r.s = s
    /\ k.at = "pending" =>
        /\ j.at = "rows" /\ k.version = j.version /\ k.rows \subseteq j.rows
        /\ \A r \in j.rows \ k.rows : Waiting(outbox[d], r.s)
    /\ k.at = "stmts" =>
        \/ \A st \in ToSet(k.todo) : st.do \in {"index", "payload", "load"}
        \/ /\ j.at = "pending" /\ SyncedLast(k.todo)
           /\ \A st \in ToSet(k.todo) :
               \/ st.do = "synced" /\ st.version = j.version
               \/ /\ st.do = "upsert"
                  /\ \E r \in j.rows : st.s = r.s /\ st.version = r.version /\ st.enc = r.enc
           /\ \A r \in j.rows : Written(k.todo, r.s) \/ Waiting(outbox[d], r.s)

Reads(d, t, k) ==
    /\ k \in JobSet /\ Reading(k) /\ Fetched(d, job[d][t], k)
    /\ job[d][t].todo = <<>> /\ Reading(job[d][t])
    /\ JobKnown(sec, job[d][t]) => JobKnown(sec, k)
    /\ Moves(d, t, k)
    /\ UNCHANGED <<serverVars, localVars, left, log>>

\* A job without statements is Reading and Known by its kind.
LEMMA ReadOK ==
    ASSUME SyncType, NEW d \in Devices, NEW t \in Threads, NEW k \in JobSet, Read(d, t, k),
           job[d][t].todo = <<>>,
           job[d][t].at \in {"idle", "fresh", "pull", "rows", "pending", "payload"},
           Reading(k), JobKnown(sec, job[d][t]) => JobKnown(sec, k), Fetched(d, job[d][t], k)
    PROVE  Reads(d, t, k)
<1>1. Reading(job[d][t])
  BY EmptyTodo DEF Reading
<1>2. Moves(d, t, k) /\ UNCHANGED <<serverVars, localVars, left, log>>
  BY RunFacts DEF Read
<1> QED BY <1>1, <1>2 DEF Reads

LEMMA EasyReads ==
    ASSUME SyncType, NEW d \in Devices, NEW t \in Threads,
           \/ CheckFreshness(d, t) \/ ReadSyncedVersion(d, t) \/ GetPayload(d, t)
           \/ ReadFails(d, t)
    PROVE  \E k : Reads(d, t, k)
<1> DEFINE j == job[d][t]
           Kinds1(k) == k.at \in {"idle", "fresh", "pull", "payload"} /\ k.todo = <<>>
<1>1. j \in JobSet /\ vaultVersion[Vault] \in Nat /\ synced[d] \in Nat
  BY DEF SyncType
<1>2. j.at \in {"idle", "fresh", "pull", "payload"} /\ (j.at = "idle" => j = Idle)
  BY <1>1, JobKinds DEF CheckFreshness, ReadSyncedVersion, GetPayload, ReadFails, Idle
<1>3. j.todo = <<>> /\ (j.at = "fresh" => j \in FreshJobs)
  BY <1>1, <1>2, JobKinds, BusyKinds
<1>4. PICK k \in JobSet : Read(d, t, k) /\ Kinds1(k) /\ Fetched(d, j, k)
  <2>1. CASE CheckFreshness(d, t)
    <3> DEFINE k == [at |-> "fresh", version |-> vaultVersion[Vault], todo |-> <<>>]
    <3>1. k \in JobSet
      BY <1>1 DEF JobSet, FreshJobs
    <3>2. k.at = "fresh" /\ k.todo = <<>> /\ k.version = vaultVersion[Vault] /\ Read(d, t, k)
      BY <2>1 DEF CheckFreshness
    <3> HIDE DEF k
    <3>3. Fetched(d, j, k)
      BY <3>2 DEF Fetched
    <3> QED BY <3>1, <3>2, <3>3
  <2>2. CASE ReadSyncedVersion(d, t) /\ synced[d] >= j.version
    <3>1. Idle \in JobSet /\ Idle.at = "idle" /\ Idle.todo = <<>> /\ Read(d, t, Idle)
      BY <2>2 DEF JobSet, Idle, ReadSyncedVersion
    <3>2. Fetched(d, j, Idle)
      BY <3>1 DEF Fetched
    <3> QED BY <3>1, <3>2
  <2>3. CASE ReadSyncedVersion(d, t) /\ ~(synced[d] >= j.version)
    <3> DEFINE k == [j EXCEPT !.at = "pull"]
    <3>1. j \in FreshJobs /\ j.at = "fresh" /\ Read(d, t, k)
      BY <1>3, <2>3 DEF ReadSyncedVersion
    <3>2. k \in FreshJobs /\ k.at = "pull" /\ k.todo = <<>> /\ k.version = j.version
      BY <3>1 DEF FreshJobs
    <3>3. synced[d] < j.version
      BY <1>1, <2>3, <3>1 DEF FreshJobs
    <3> HIDE DEF k
    <3>4. k \in JobSet /\ Fetched(d, j, k)
      BY <3>1, <3>2, <3>3 DEF JobSet, Fetched
    <3> QED BY <3>1, <3>2, <3>4
  <2>4. CASE GetPayload(d, t)
    <3>1. PICK s \in Secrets : Read(d, t, [at |-> "payload", s |-> s, todo |-> <<>>])
      BY <2>4 DEF GetPayload
    <3> DEFINE k == [at |-> "payload", s |-> s, todo |-> <<>>]
    <3>2. k \in JobSet /\ k.at = "payload" /\ k.todo = <<>>
      BY DEF JobSet, PayloadJobs
    <3> HIDE DEF k
    <3>3. Fetched(d, j, k)
      BY <3>2 DEF Fetched
    <3> QED BY <3>1, <3>2, <3>3 DEF k
  <2>5. CASE ReadFails(d, t)
    <3>1. Idle \in JobSet /\ Idle.at = "idle" /\ Idle.todo = <<>> /\ Read(d, t, Idle)
      BY <2>5 DEF JobSet, Idle, ReadFails
    <3>2. Fetched(d, j, Idle)
      BY <3>1 DEF Fetched
    <3> QED BY <3>1, <3>2
  <2> QED BY <2>1, <2>2, <2>3, <2>4, <2>5
<1>5. Reading(k) /\ JobKnown(sec, k)
  BY <1>4, EmptyTodo DEF Reading, JobKnown
<1> QED BY <1>2, <1>3, <1>4, <1>5, ReadOK

LEMMA LiveRow ==
    ASSUME SyncType, NEW s \in Live
    PROVE  /\ s \in Secrets /\ sec[s].enc \in Cipher /\ sec[s].version \in Nat \ {0}
           /\ sec[s].enc.version = sec[s].version
<1>1. s \in Secrets /\ sec[s] \in ServerRows /\ sec[s].version > 0 /\ ~sec[s].deleted
  BY DEF Live, Exists, SyncType
<1> QED BY <1>1 DEF ServerRows, Row

LEMMA ListRowsStep ==
    ASSUME SyncType, NEW d \in Devices, NEW t \in Threads, ListSecretRows(d, t)
    PROVE  \E k : Reads(d, t, k)
<1> DEFINE j == job[d][t]
           f == [s \in Live |-> [s |-> s, enc |-> sec[s].enc, version |-> sec[s].version]]
           rows == {f[s] : s \in Live}
           k == [at |-> "rows", version |-> j.version, todo |-> <<>>, rows |-> rows]
<1>1. j \in JobSet /\ j.at = "pull"
  BY DEF SyncType, ListSecretRows
<1>2. j.todo = <<>> /\ j.version \in Nat
  BY <1>1, JobKinds DEF FreshJobs
<1>3. Live \in SUBSET Secrets
  BY DEF Live
<1>4. IsFiniteSet(rows)
  <2>1. IsFiniteSet(Live)
    BY <1>3, SecretsAssumption, FS_Subset
  <2>2. DOMAIN f = Live /\ f = [x \in Live |-> f[x]]
    OBVIOUS
  <2> HIDE DEF f
  <2> QED BY <2>1, <2>2, ImageFinite
<1>5. ASSUME NEW r \in rows
      PROVE  r \in Listed /\ Known(sec, r.s, r.version, r.enc.w) /\ Same(sec, r.s, r.version, r.enc)
  <2>1. PICK s \in Live : r = [s |-> s, enc |-> sec[s].enc, version |-> sec[s].version]
    OBVIOUS
  <2>2. /\ s \in Secrets /\ sec[s].enc \in Cipher /\ sec[s].version \in Nat \ {0}
        /\ sec[s].enc.version = sec[s].version
    BY LiveRow
  <2> QED BY <2>1, <2>2 DEF Listed, Known, Same
<1>6. Read(d, t, k)
  <2>1. {[s |-> s, enc |-> sec[s].enc, version |-> sec[s].version] : s \in Live} = rows
    OBVIOUS
  <2> QED BY <2>1 DEF ListSecretRows
<1>7. ASSUME NEW s \in Live PROVE \E r \in rows : r.s = s
  <2> DEFINE r == [s |-> s, enc |-> sec[s].enc, version |-> sec[s].version]
  <2>1. r \in rows /\ r.s = s
    OBVIOUS
  <2> QED BY <2>1
<1> HIDE DEF rows
<1>8. rows \in SUBSET Listed
  BY <1>5
<1>9. k \in [at : {"rows", "pending"}, version : Nat, todo : {<<>>}, rows : SUBSET Listed]
  BY <1>2, <1>8
<1>10. k.rows = rows /\ k.at = "rows" /\ k.todo = <<>> /\ k.version = j.version
  OBVIOUS
<1> HIDE DEF k
<1>11. k \in JobSet
  BY <1>4, <1>9, <1>10 DEF RowsJobs, JobSet
<1>12. Reading(k) /\ JobKnown(sec, k)
  BY <1>5, <1>10, EmptyTodo DEF Reading, JobKnown
<1>13. Fetched(d, j, k)
  BY <1>1, <1>5, <1>7, <1>10 DEF Fetched
<1> QED BY <1>1, <1>2, <1>6, <1>11, <1>12, <1>13, ReadOK

LEMMA PendingStep ==
    ASSUME SyncType, NEW d \in Devices, NEW t \in Threads, ReadPending(d, t)
    PROVE  \E k : Reads(d, t, k)
<1> DEFINE j == job[d][t]
           rows == {r \in j.rows : r.s \notin OutstandingSecretIDs(Pending(outbox[d]))}
           k == [at |-> "pending", version |-> j.version, todo |-> <<>>, rows |-> rows]
<1>1. j \in JobSet /\ j.at = "rows" /\ Read(d, t, k)
  BY DEF SyncType, ReadPending
<1>2. j \in RowsJobs
  BY <1>1, JobKinds
<1>3. j.todo = <<>> /\ j.version \in Nat /\ j.rows \in SUBSET Listed /\ IsFiniteSet(j.rows)
  BY <1>2 DEF RowsJobs
<1>4. rows \in SUBSET j.rows /\ \A r \in j.rows \ rows : Waiting(outbox[d], r.s)
  BY DEF OutstandingSecretIDs, Pending, Waiting
<1> HIDE DEF rows
<1>5. IsFiniteSet(rows) /\ rows \in SUBSET Listed
  BY <1>3, <1>4, FS_Subset
<1>6. k \in [at : {"rows", "pending"}, version : Nat, todo : {<<>>}, rows : SUBSET Listed]
  BY <1>3, <1>5
<1>7. k.rows = rows /\ k.at = "pending" /\ k.todo = <<>> /\ k.version = j.version
  OBVIOUS
<1> HIDE DEF k
<1>8. k \in JobSet
  BY <1>5, <1>6, <1>7 DEF RowsJobs, JobSet
<1>9. Reading(k) /\ (JobKnown(sec, j) => JobKnown(sec, k))
  BY <1>1, <1>4, <1>7, EmptyTodo DEF Reading, JobKnown
<1>10. Fetched(d, j, k)
  BY <1>1, <1>4, <1>7 DEF Fetched
<1> QED BY <1>1, <1>3, <1>8, <1>9, <1>10, ReadOK

\* A list of statements that write what was read.
LEMMA StmtsOK ==
    ASSUME NEW L \in Todos
    PROVE  /\ [at |-> "stmts", todo |-> L] \in JobSet
           /\ [at |-> "stmts", todo |-> L].at = "stmts" /\ [at |-> "stmts", todo |-> L].todo = L
BY DEF JobSet, StmtJobs

LEMMA ConflictsStep ==
    ASSUME SyncType, NEW d \in Devices, NEW t \in Threads, ReadConflicts(d, t)
    PROVE  \E k : Reads(d, t, k)
<1> DEFINE j == job[d][t]
           rows == {r \in j.rows : r.s \notin OutstandingSecretIDs(Conflicts(outbox[d]))}
           f == [r \in rows |-> Upsert(r.s, r.enc, None, r.version, FALSE)]
           ups == {f[r] : r \in rows}
           A == SetToSeq(ups)
           B == <<SetSynced(j.version)>>
           L == A \o B
           k == [at |-> "stmts", todo |-> L]
<1>1. j \in JobSet /\ j.at = "pending"
  BY DEF SyncType, ReadConflicts
<1>2. j \in RowsJobs
  BY <1>1, JobKinds
<1>3. j.todo = <<>> /\ j.version \in Nat /\ j.rows \in SUBSET Listed /\ IsFiniteSet(j.rows)
  BY <1>2 DEF RowsJobs
<1>4. Read(d, t, k)
  <2>1. {Upsert(r.s, r.enc, None, r.version, FALSE) : r \in rows} = ups
    OBVIOUS
  <2> QED BY <2>1 DEF ReadConflicts
<1>5. rows \in SUBSET j.rows /\ \A r \in j.rows \ rows : Waiting(outbox[d], r.s)
  BY DEF OutstandingSecretIDs, Conflicts, Waiting
<1>6. DOMAIN f = rows /\ f = [r \in rows |-> f[r]]
      /\ \A r \in rows : f[r] = Upsert(r.s, r.enc, None, r.version, FALSE)
  OBVIOUS
<1> HIDE DEF rows, f
<1>7. IsFiniteSet(ups)
  BY <1>3, <1>5, <1>6, FS_Subset, ImageFinite
<1>8. ASSUME NEW st \in ups
      PROVE  /\ st \in Statements /\ st.do = "upsert" /\ (JobKnown(sec, j) => StKnown(sec, st))
             /\ \E r \in j.rows : st.s = r.s /\ st.version = r.version /\ st.enc = r.enc
  <2>1. PICK r \in rows : st = Upsert(r.s, r.enc, None, r.version, FALSE)
    BY <1>6
  <2>2. r \in j.rows /\ r \in Listed
    BY <1>3, <1>5
  <2>3. st \in Statements
    <3>1. r.s \in Secrets /\ r.enc \in Cipher /\ r.version \in Nat \ {0} /\ r.enc.version = r.version
      BY <2>2 DEF Listed
    <3> QED BY <2>1, <3>1, UpsertOK
  <2>4. st.do = "upsert" /\ st.s = r.s /\ st.version = r.version /\ st.enc = r.enc
    BY <2>1 DEF Upsert
  <2>5. JobKnown(sec, j) => Known(sec, r.s, r.version, r.enc.w)
    BY <1>1, <2>2 DEF JobKnown
  <2> QED BY <2>2, <2>3, <2>4, <2>5 DEF StKnown
<1>9. ASSUME NEW r \in rows PROVE \E st \in ups : st.do = "upsert" /\ st.s = r.s
  <2>1. f[r] \in ups /\ f[r] = Upsert(r.s, r.enc, None, r.version, FALSE)
    BY <1>6
  <2> QED BY <2>1 DEF Upsert
<1>10. A \in Todos /\ ToSet(A) = ups
  <2>1. A \in Seq(ups) /\ ToSet(A) = ups
    BY <1>7, ListOfSet
  <2>2. ups \subseteq Statements
    BY <1>8
  <2> HIDE DEF A, ups
  <2> QED BY <2>1, <2>2 DEF Todos
<1>11. B \in Todos /\ Len(B) = 1 /\ \A st \in ToSet(B) : st.do = "synced" /\ st.version = j.version
  <2> DEFINE v == SetSynced(j.version)
  <2>1. v \in Statements /\ v.do = "synced" /\ v.version = j.version /\ B = <<v>>
    BY <1>3, OtherOK DEF SetSynced
  <2> HIDE DEF v, B
  <2> QED BY <2>1 DEF Todos, ToSet
<1> HIDE DEF A, B, ups
<1>12. L \in Todos /\ ToSet(L) = ToSet(A) \cup ToSet(B)
  BY <1>10, <1>11, Concat DEF Todos
<1>13. ASSUME NEW st \in ToSet(L)
       PROVE  st.do \in {"upsert", "synced"} /\ (JobKnown(sec, j) => StKnown(sec, st))
  <2>1. CASE st \in ToSet(A)
    BY <1>8, <1>10, <2>1
  <2>2. CASE st \in ToSet(B)
    BY <1>11, <2>2 DEF StKnown
  <2> QED BY <1>12, <2>1, <2>2
<1>14. SyncedLast(L)
  <2>1. /\ Len(A) \in Nat /\ Len(L) = Len(A) + 1
        /\ \A i \in 1 .. Len(A) + 1 : L[i] = IF i <= Len(A) THEN A[i] ELSE B[i - Len(A)]
    BY <1>10, <1>11, ConcatProperties DEF Todos
  <2>2. \A i \in 1 .. Len(A) : A[i] \in ToSet(A)
    BY <1>10 DEF ToSet, Todos
  <2>3. \A i \in 1 .. Len(A) : L[i].do = "upsert"
    BY <1>8, <1>10, <2>1, <2>2
  <2> QED BY <2>1, <2>3 DEF SyncedLast
<1> HIDE DEF L
<1>15. k \in JobSet /\ k.at = "stmts" /\ k.todo = L
  BY <1>12, StmtsOK
<1> HIDE DEF k
<1>16. Reading(k) /\ (JobKnown(sec, j) => JobKnown(sec, k))
  BY <1>13, <1>15 DEF Reading, JobKnown
<1>17. Fetched(d, j, k)
  <2>1. ASSUME NEW st \in ToSet(L)
        PROVE  \/ st.do = "synced" /\ st.version = j.version
               \/ /\ st.do = "upsert"
                  /\ \E r \in j.rows : st.s = r.s /\ st.version = r.version /\ st.enc = r.enc
    BY <1>8, <1>10, <1>11, <1>12
  <2>2. \A r \in j.rows : Written(L, r.s) \/ Waiting(outbox[d], r.s)
    BY <1>5, <1>9, <1>10, <1>12 DEF Written
  <2> QED BY <1>1, <1>14, <1>15, <2>1, <2>2 DEF Fetched
<1> QED BY <1>1, <1>3, <1>4, <1>15, <1>16, <1>17, ReadOK

LEMMA ListIndexStep ==
    ASSUME SyncType, NEW d \in Devices, NEW t \in Threads, ListSecretIndex(d, t)
    PROVE  \E k : Reads(d, t, k)
<1> DEFINE f == [s \in Live |-> LoadIndex(s, sec[s].enc, sec[s].version)]
           loads == {f[s] : s \in Live}
           L == SetToSeq(loads)
           k == [at |-> "stmts", todo |-> L]
<1>1. job[d][t] = Idle
  BY DEF ListSecretIndex
<1>2. job[d][t].todo = <<>> /\ job[d][t].at = "idle"
  BY <1>1 DEF Idle
<1>3. Read(d, t, k)
  <2>1. {LoadIndex(s, sec[s].enc, sec[s].version) : s \in Live} = loads
    OBVIOUS
  <2> QED BY <2>1 DEF ListSecretIndex
<1>4. Live \in SUBSET Secrets
  BY DEF Live
<1>5. DOMAIN f = Live /\ f = [s \in Live |-> f[s]]
      /\ \A s \in Live : f[s] = LoadIndex(s, sec[s].enc, sec[s].version)
  OBVIOUS
<1> HIDE DEF f
<1>6. IsFiniteSet(loads)
  BY <1>4, <1>5, SecretsAssumption, FS_Subset, ImageFinite
<1>7. ASSUME NEW st \in loads PROVE st \in Statements /\ st.do = "load"
  <2>1. PICK s \in Live : st = LoadIndex(s, sec[s].enc, sec[s].version)
    BY <1>5
  <2>2. /\ s \in Secrets /\ sec[s].enc \in Cipher /\ sec[s].version \in Nat
        /\ sec[s].enc.version = sec[s].version
    BY LiveRow
  <2>3. st \in Statements
    BY <2>1, <2>2, TierOK
  <2> QED BY <2>1, <2>3 DEF LoadIndex
<1>8. L \in Todos /\ ToSet(L) \subseteq loads
  <2>1. L \in Seq(loads) /\ ToSet(L) \subseteq loads
    BY <1>6, ListOfSet
  <2>2. loads \subseteq Statements
    BY <1>7
  <2> HIDE DEF L, loads
  <2> QED BY <2>1, <2>2 DEF Todos
<1> HIDE DEF L, loads
<1>9. k \in JobSet /\ k.at = "stmts" /\ k.todo = L
  BY <1>8, StmtsOK
<1> HIDE DEF k
<1>10. Reading(k) /\ JobKnown(sec, k)
  BY <1>7, <1>8, <1>9 DEF Reading, JobKnown, StKnown
<1>11. Fetched(d, job[d][t], k)
  BY <1>7, <1>8, <1>9 DEF Fetched
<1> QED BY <1>2, <1>3, <1>9, <1>10, <1>11, ReadOK

LEMMA SecretPayloadStep ==
    ASSUME SyncType, NEW d \in Devices, NEW t \in Threads, GetSecretPayload(d, t)
    PROVE  \E k : Reads(d, t, k)
<1> DEFINE j == job[d][t]
           P == SetPayload(j.s, sec[j.s].enc, sec[j.s].version)
           L == <<P>>
           k == [at |-> "stmts", todo |-> L]
<1>1. j \in JobSet /\ j.at = "payload" /\ Read(d, t, k) /\ j.s \in Live
  BY DEF SyncType, GetSecretPayload
<1>2. j.todo = <<>>
  BY <1>1, JobKinds DEF PayloadJobs
<1>3. P \in Statements /\ P.do = "payload"
  <2>1. /\ j.s \in Secrets /\ sec[j.s].enc \in Cipher /\ sec[j.s].version \in Nat
        /\ sec[j.s].enc.version = sec[j.s].version
    BY <1>1, LiveRow
  <2>2. P \in Statements
    BY <2>1, TierOK
  <2> QED BY <2>2 DEF SetPayload
<1> HIDE DEF P
<1>4. L \in Todos /\ ToSet(L) = {P}
  BY <1>3 DEF Todos, ToSet
<1> HIDE DEF L
<1>5. k \in JobSet /\ k.at = "stmts" /\ k.todo = L
  BY <1>4, StmtsOK
<1> HIDE DEF k
<1>6. Reading(k) /\ JobKnown(sec, k)
  BY <1>3, <1>4, <1>5 DEF Reading, JobKnown, StKnown
<1>7. Fetched(d, j, k)
  BY <1>3, <1>4, <1>5 DEF Fetched
<1> QED BY <1>1, <1>2, <1>5, <1>6, <1>7, ReadOK

----------------------------------------------------------------------------
(* The steps of the user. *)

\* Create and UpdateOrDelete: a change of what the cache shows.
Submits(d, t, op) ==
    /\ op \in Ops /\ Sending(op, 0) \in SendJobs
    /\ op.kind # "create" => /\ Cached(cache[d][op.s]) /\ op.base = cache[d][op.s].version
                             /\ op.seen = cache[d][op.s].row.w /\ op.onDirty = cache[d][op.s].dirty
    /\ job[d][t] = Idle /\ Moves(d, t, Sending(op, 0))
    /\ left' \in LeftSet /\ log' \in LogSet
    /\ log'.asked = log.asked \cup {op.enc.w}
    /\ log'.applied = log.applied /\ log'.refused = log.refused /\ log'.killed = log.killed
    /\ log'.acked = log.acked /\ log'.blind = log.blind
    /\ UNCHANGED <<serverVars, localVars>>

LEMMA ChangeOK ==
    ASSUME NEW kind \in {"create", "update", "delete"}, NEW s \in Secrets, NEW base \in Nat,
           NEW w \in 1 .. MaxWrites, NEW seen \in 0 .. MaxWrites, NEW onDirty \in BOOLEAN,
           kind = "create" => base = 0
    PROVE  /\ Change(kind, s, base, w, seen, onDirty) \in Ops
           /\ Change(kind, s, base, w, seen, onDirty).kind = kind
           /\ Change(kind, s, base, w, seen, onDirty).s = s
           /\ Change(kind, s, base, w, seen, onDirty).base = base
           /\ Change(kind, s, base, w, seen, onDirty).enc.w = w
           /\ Change(kind, s, base, w, seen, onDirty).seen = seen
           /\ Change(kind, s, base, w, seen, onDirty).onDirty = onDirty
<1> DEFINE c == Enc(w, base + 1)
           op == [kind |-> kind, s |-> s, base |-> base, enc |-> c, seen |-> seen, onDirty |-> onDirty]
<1>1. Change(kind, s, base, w, seen, onDirty) = op
  BY DEF Change
<1>2. c \in Cipher /\ c.w = w /\ c.version = base + 1
  BY DEF Enc, Cipher
<1> HIDE DEF c
<1>3. /\ op \in Op /\ op.enc = c /\ op.base = base /\ op.kind = kind /\ op.s = s /\ op.seen = seen
      /\ op.onDirty = onDirty
  BY <1>2 DEF Op
<1> HIDE DEF op
<1>4. op \in Ops
  BY <1>2, <1>3 DEF Ops
<1> QED BY <1>1, <1>2, <1>3, <1>4

\* The same for a change made on a clean row.
CleanChange(kind, s, base, w, seen) == Change(kind, s, base, w, seen, FALSE)

LEMMA CleanChangeOK ==
    ASSUME NEW kind \in {"update", "delete"}, NEW s \in Secrets, NEW base \in Nat,
           NEW w \in 1 .. MaxWrites, NEW seen \in 0 .. MaxWrites
    PROVE  /\ CleanChange(kind, s, base, w, seen) \in Ops
           /\ CleanChange(kind, s, base, w, seen).kind = kind
           /\ CleanChange(kind, s, base, w, seen).s = s
           /\ CleanChange(kind, s, base, w, seen).base = base
           /\ CleanChange(kind, s, base, w, seen).enc.w = w
           /\ CleanChange(kind, s, base, w, seen).seen = seen
<1> DEFINE c == Enc(w, base + 1)
           op == [kind |-> kind, s |-> s, base |-> base, enc |-> c, seen |-> seen, onDirty |-> FALSE]
<1>1. CleanChange(kind, s, base, w, seen) = op
  BY DEF CleanChange, Change
<1>2. c \in Cipher /\ c.w = w /\ c.version = base + 1
  BY DEF Enc, Cipher
<1> HIDE DEF c
<1>3. op \in Op /\ op.enc = c /\ op.base = base /\ op.kind = kind /\ op.s = s /\ op.seen = seen
  BY <1>2 DEF Op
<1> HIDE DEF op
<1>4. op \in Ops
  BY <1>2, <1>3 DEF Ops
<1> QED BY <1>1, <1>2, <1>3, <1>4

LEMMA SubmitFacts ==
    ASSUME SyncType, NEW d \in Devices, NEW t \in Threads, NEW op \in Ops, Submit(d, t, op),
           op.kind # "create" => /\ Cached(cache[d][op.s]) /\ op.base = cache[d][op.s].version
                                 /\ op.seen = cache[d][op.s].row.w
                                 /\ op.onDirty = cache[d][op.s].dirty
    PROVE  Submits(d, t, op)
<1>1. Sending(op, 0) \in SendJobs
  BY DEF Sending, SendJobs
<1>2. Moves(d, t, Sending(op, 0))
  <2>1. Sending(op, 0) \in JobSet
    BY <1>1 DEF JobSet
  <2> QED BY <2>1, RunFacts DEF Submit
<1>3. left' \in LeftSet
  <2>1. left \in LeftSet /\ left.writes \in 0 .. MaxWrites /\ left.writes > 0
        /\ left' = [left EXCEPT !.writes = @ - 1]
    BY DEF SyncType, LeftSet, Submit
  <2>2. left.writes - 1 \in 0 .. MaxWrites
    BY <2>1, BoundsAssumption
  <2> QED BY <2>1, <2>2 DEF LeftSet
<1>4. /\ log \in LogSet /\ op.enc.w \in 1 .. MaxWrites /\ op.s \in Secrets
      /\ log' = [log EXCEPT !.asked = @ \cup {op.enc.w}, !.created = @ \cup {op.s}]
  BY OpFacts DEF SyncType, Submit
<1>5. /\ log' \in LogSet /\ log'.asked = log.asked \cup {op.enc.w}
      /\ log'.applied = log.applied /\ log'.refused = log.refused /\ log'.killed = log.killed
      /\ log'.acked = log.acked /\ log'.blind = log.blind
  BY <1>4 DEF LogSet
<1> QED BY <1>1, <1>2, <1>3, <1>5 DEF Submits, Submit

LEMMA SubmitStep ==
    ASSUME SyncType, NEW d \in Devices, NEW t \in Threads, Create(d, t) \/ UpdateOrDelete(d, t)
    PROVE  \E op : Submits(d, t, op)
<1>1. ASSUME left.writes > 0 PROVE NextWrite \in 1 .. MaxWrites
  <2>1. left.writes \in 1 .. MaxWrites
    BY <1>1, BoundsAssumption DEF SyncType, LeftSet
  <2> QED BY <2>1, BoundsAssumption DEF NextWrite
<1>2. CASE Create(d, t)
  <2>1. PICK s \in Secrets : Submit(d, t, Change("create", s, 0, NextWrite, 0, FALSE))
    BY <1>2 DEF Create
  <2> DEFINE op == Change("create", s, 0, NextWrite, 0, FALSE)
  <2>2. NextWrite \in 1 .. MaxWrites
    BY <1>1, <2>1 DEF Submit
  <2>3. op \in Ops /\ op.kind = "create"
    <3>1. 0 \in 0 .. MaxWrites
      BY BoundsAssumption
    <3>2. ASSUME NEW b \in BOOLEAN
          PROVE  /\ Change("create", s, 0, NextWrite, 0, b) \in Ops
                 /\ Change("create", s, 0, NextWrite, 0, b).kind = "create"
      BY <2>2, <3>1, ChangeOK
    <3> QED BY <3>2, Zenon
  <2> HIDE DEF op
  <2>4. Submits(d, t, op)
    BY <2>1, <2>3, SubmitFacts DEF op
  <2> QED BY <2>4
<1>3. CASE UpdateOrDelete(d, t)
  <2>1. PICK s \in Secrets, kind \in Kinds :
            /\ Cached(cache[d][s])
            /\ Submit(d, t, Change(kind, s, cache[d][s].version, NextWrite, cache[d][s].row.w, cache[d][s].dirty))
    BY <1>3 DEF UpdateOrDelete
  <2> DEFINE row == cache[d][s]
             op == Change(kind, s, row.version, NextWrite, row.row.w, row.dirty)
  <2>2. NextWrite \in 1 .. MaxWrites
    BY <1>1, <2>1 DEF Submit
  <2>3. row \in CacheRows
    BY DEF SyncType
  <2>4. row.version \in Nat /\ row.dirty \in BOOLEAN /\ row.row.w \in 0 .. MaxWrites
    BY <2>1, <2>3, BoundsAssumption DEF CacheRows, Cached, Cipher
  <2>5. kind \in {"create", "update", "delete"} /\ kind # "create"
    BY KindsAssumption
  <2>6. op \in Ops /\ op.s = s /\ op.base = row.version /\ op.seen = row.row.w /\ op.onDirty = row.dirty
    BY <2>2, <2>4, <2>5, ChangeOK
  <2>7. Submit(d, t, op)
    BY <2>1
  <2> HIDE DEF op
  <2>8. Submits(d, t, op)
    BY <2>1, <2>6, <2>7, SubmitFacts
  <2> QED BY <2>8
<1> QED BY <1>2, <1>3

\* OpenEntry: the user opens the entry e.
Opens(d, t, e, k) ==
    /\ e \in outbox[d] /\ e \in Entries /\ k \in JobSet
    /\ k.at = "open" /\ k.op = e.op /\ k.id = e.id /\ k.todo = <<>>
    /\ job[d][t] = Idle /\ Moves(d, t, k) /\ left' \in LeftSet /\ MaxResolves # 0
    /\ UNCHANGED <<serverVars, localVars, log>>

LEMMA OpenEntryStep ==
    ASSUME SyncType, NEW d \in Devices, NEW t \in Threads, OpenEntry(d, t)
    PROVE  \E e, k : Opens(d, t, e, k)
<1>1. PICK e \in outbox[d] : /\ e.op.kind # "create"
                             /\ Run(d, t, [at |-> "open", op |-> e.op, id |-> e.id, todo |-> <<>>])
  BY DEF OpenEntry
<1> DEFINE k == [at |-> "open", op |-> e.op, id |-> e.id, todo |-> <<>>]
<1>2. e \in Entries /\ e.op \in Changes /\ e.id \in Nat \ {0}
  BY <1>1 DEF SyncType, Entries, Changes
<1>3. k \in JobSet /\ k.at = "open" /\ k.op = e.op /\ k.id = e.id /\ k.todo = <<>>
  BY <1>2 DEF JobSet, OpenJobs
<1> HIDE DEF k
<1>4. Moves(d, t, k)
  BY <1>1, <1>3, RunFacts DEF k
<1>5. left' \in LeftSet /\ MaxResolves # 0
  <2>1. left \in LeftSet /\ left.resolves \in 0 .. MaxResolves /\ left.resolves > 0
        /\ left' = [left EXCEPT !.resolves = @ - 1]
    BY DEF SyncType, LeftSet, OpenEntry
  <2>2. left.resolves - 1 \in 0 .. MaxResolves /\ MaxResolves # 0
    BY <2>1, BoundsAssumption
  <2> QED BY <2>1, <2>2 DEF LeftSet
<1>6. Opens(d, t, e, k)
  BY <1>2, <1>3, <1>4, <1>5 DEF Opens, OpenEntry
<1> QED BY <1>6

\* StartReplay reads the pending entries.
Starts(d, t, k) ==
    /\ k \in JobSet /\ k.at = "replay" /\ k.queue = Pending(outbox[d]) /\ k.todo = <<>>
    /\ job[d][t] = Idle /\ Moves(d, t, k)
    /\ UNCHANGED <<serverVars, localVars, left, log>>

LEMMA StartReplayStep ==
    ASSUME SyncType, NEW d \in Devices, NEW t \in Threads, StartReplay(d, t)
    PROVE  \E k : Starts(d, t, k)
<1> DEFINE q == Pending(outbox[d])
           k == [at |-> "replay", queue |-> q, todo |-> <<>>]
<1>1. q \in SUBSET Entries /\ q # {}
  BY DEF SyncType, Pending, StartReplay
<1>2. Run(d, t, k)
  BY DEF StartReplay
<1> HIDE DEF q
<1>3. k \in [at : {"replay"}, queue : SUBSET Entries, todo : Todos]
  BY <1>1, EmptyTodo DEF Todos
<1>4. k.at = "replay" /\ k.queue = q /\ k.todo = <<>>
  OBVIOUS
<1> HIDE DEF k
<1>5. k \in JobSet
  BY <1>1, <1>3, <1>4 DEF JobSet, ReplayJobs
<1>6. Starts(d, t, k)
  BY <1>2, <1>4, <1>5, RunFacts DEF Starts, StartReplay, q
<1> QED BY <1>6

\* The user decides on the card of a conflict.
Decides(d, t, k) ==
    LET j == job[d][t] IN
    /\ j \in CardJobs /\ j.at = "card" /\ k \in JobSet /\ Moves(d, t, k)
    /\ \/ /\ k.at = "send" /\ k.id = j.id /\ k.op.enc.w = j.op.enc.w /\ k.todo = <<>>
          /\ k.op.s = j.op.s /\ k.op.base = j.version /\ k.op.seen = j.theirs.w
          /\ UNCHANGED log
       \/ /\ k.at = "stmts"
          /\ ToSet(k.todo) = {Upsert(j.op.s, j.theirs, j.theirs, j.version, FALSE),
                              SetIndex(j.op.s, j.theirs, j.version),
                              SetPayload(j.op.s, j.theirs, j.version)}
          /\ Refused(j.op.enc.w)
       \/ k = Idle /\ IF j.id = 0 THEN Refused(j.op.enc.w) ELSE UNCHANGED log
    /\ UNCHANGED <<serverVars, localVars, left>>

LEMMA DecideStep ==
    ASSUME SyncType, NEW d \in Devices, NEW t \in Threads, Decide(d, t)
    PROVE  \E k : Decides(d, t, k)
<1> DEFINE j == job[d][t]
<1>1. j \in JobSet /\ j.at = "card" /\ UNCHANGED <<serverVars, localVars, left>>
  BY DEF SyncType, Decide, ChoiceMine, ChoiceServer, LeaveCard
<1>2. j \in CardJobs
  BY <1>1, JobKinds
<1>3. /\ j.op \in Changes /\ j.id \in Nat /\ j.theirs \in Cipher /\ j.version \in Nat \ {0}
      /\ j.theirs.version = j.version /\ j.op \in Ops /\ j.op.kind # "create"
  BY <1>2 DEF CardJobs, Changes
<1>4. j.op.kind \in {"update", "delete"} /\ j.op.s \in Secrets /\ j.op.enc.w \in 1 .. MaxWrites
  BY <1>3, OpFacts
<1>5. CASE ChoiceMine(d, t)
  <2> DEFINE op == Change(j.op.kind, j.op.s, j.version, j.op.enc.w, j.theirs.w, FALSE)
             k == Sending(op, j.id)
  <2>1. j.theirs.w \in 0 .. MaxWrites
    BY <1>3, BoundsAssumption DEF Cipher
  <2>2. /\ op \in Ops /\ op.kind = j.op.kind /\ op.s = j.op.s /\ op.base = j.version
        /\ op.enc.w = j.op.enc.w /\ op.seen = j.theirs.w
    <3>1. j.op.kind \in {"update", "delete"} /\ j.op.s \in Secrets /\ j.version \in Nat
          /\ j.op.enc.w \in 1 .. MaxWrites /\ j.theirs.w \in 0 .. MaxWrites
      BY <1>3, <1>4, <2>1
    <3>2. op = CleanChange(j.op.kind, j.op.s, j.version, j.op.enc.w, j.theirs.w)
      BY DEF CleanChange
    <3> HIDE DEF j, op
    <3> QED BY <3>1, <3>2, CleanChangeOK
  <2>3. Run(d, t, k) /\ UNCHANGED log
    BY <1>5 DEF ChoiceMine
  <2> HIDE DEF op
  <2>4. k \in SendJobs /\ k.at = "send" /\ k.op = op /\ k.id = j.id /\ k.todo = <<>>
    BY <1>3, <2>2 DEF Sending, SendJobs, Changes
  <2> HIDE DEF k
  <2>5. k \in JobSet
    BY <2>4 DEF JobSet
  <2>6. Moves(d, t, k)
    BY <2>3, <2>5, RunFacts
  <2>7. Decides(d, t, k)
    BY <1>1, <1>2, <2>2, <2>3, <2>4, <2>5, <2>6 DEF Decides
  <2> QED BY <2>7
<1>6. CASE ChoiceServer(d, t)
  <2> DEFINE L == CacheFullSecret(j.op.s, j.theirs, j.version, FALSE)
             k == [at |-> "stmts", todo |-> L]
  <2>1. L \in Todos /\ ToSet(L) = {Upsert(j.op.s, j.theirs, j.theirs, j.version, FALSE),
                              SetIndex(j.op.s, j.theirs, j.version),
                              SetPayload(j.op.s, j.theirs, j.version)}
    BY <1>3, <1>4, FullSecret
  <2>2. Run(d, t, k) /\ Refused(j.op.enc.w)
    BY <1>6 DEF ChoiceServer
  <2> HIDE DEF L
  <2>3. k \in JobSet /\ k.at = "stmts" /\ k.todo = L
    BY <2>1, StmtsOK
  <2> HIDE DEF k
  <2>4. Moves(d, t, k)
    BY <2>2, <2>3, RunFacts
  <2>5. Decides(d, t, k)
    BY <1>1, <1>2, <2>1, <2>2, <2>3, <2>4 DEF Decides
  <2> QED BY <2>5
<1>7. CASE LeaveCard(d, t)
  <2>1. Idle \in JobSet
    BY DEF JobSet
  <2>2. Moves(d, t, Idle)
    BY <1>7, <2>1, RunFacts DEF LeaveCard
  <2>3. Decides(d, t, Idle)
    BY <1>1, <1>2, <1>7, <2>1, <2>2 DEF Decides, LeaveCard
  <2> QED BY <2>3
<1> QED BY <1>5, <1>6, <1>7 DEF Decide

----------------------------------------------------------------------------
(* One statement. *)

\* The job ends, or goes on with the statements of rest.
Continues(j, rest, k) ==
    \/ k = Idle /\ rest = <<>>
    \/ /\ k.at = j.at /\ k.todo = rest /\ (rest # <<>> \/ j.at = "replay")
       /\ j.at = "requeue" => k.op = j.op
       /\ j.at = "finish" => k.w = j.w
       /\ j.at = "replay" => k.queue = j.queue

LEMMA ResumeOK ==
    ASSUME NEW j \in JobSet, j.at \in {"requeue", "finish", "stmts", "replay"}, NEW rest \in Todos,
           j.at = "requeue" => \A st \in ToSet(rest) : st.do = "enqueue" => st.op = j.op
    PROVE  Resume(j, rest) \in JobSet /\ Continues(j, rest, Resume(j, rest))
<1>0. Idle \in JobSet /\ <<>> \in Todos
  BY EmptyTodo DEF JobSet, Todos
<1>1. CASE rest # <<>>
  <2> DEFINE k == [j EXCEPT !.todo = rest]
  <2>1. Resume(j, rest) = k
    BY <1>1 DEF Resume
  <2>2. CASE j.at = "requeue"
    <3>1. j \in RequeueJobs
      BY <2>2, JobKinds
    <3>2. k \in [at : {"requeue"}, op : Changes, todo : Todos] /\ k.op = j.op /\ k.todo = rest /\ k.at = j.at
      BY <3>1 DEF RequeueJobs
    <3> HIDE DEF k
    <3> QED BY <1>1, <2>1, <2>2, <3>2 DEF RequeueJobs, JobSet, Continues
  <2>3. CASE j.at = "finish"
    <3>1. j \in FinishJobs
      BY <2>3, JobKinds
    <3>2. k \in FinishJobs /\ k.w = j.w /\ k.todo = rest /\ k.at = j.at
      BY <3>1 DEF FinishJobs
    <3> HIDE DEF k
    <3> QED BY <1>1, <2>1, <2>3, <3>2 DEF JobSet, Continues
  <2>4. CASE j.at = "stmts"
    <3>1. j \in StmtJobs
      BY <2>4, JobKinds
    <3>2. k \in StmtJobs /\ k.todo = rest /\ k.at = j.at
      BY <3>1 DEF StmtJobs
    <3> HIDE DEF k
    <3> QED BY <1>1, <2>1, <2>4, <3>2 DEF JobSet, Continues
  <2>5. CASE j.at = "replay"
    <3>1. j \in ReplayJobs
      BY <2>5, JobKinds
    <3>2. k \in [at : {"replay"}, queue : SUBSET Entries, todo : Todos] /\ k.queue = j.queue
          /\ k.todo = rest /\ k.at = j.at
      BY <3>1 DEF ReplayJobs
    <3> HIDE DEF k
    <3> QED BY <1>1, <2>1, <2>5, <3>2 DEF ReplayJobs, JobSet, Continues
  <2> QED BY <2>2, <2>3, <2>4, <2>5
<1>2. CASE rest = <<>> /\ j.at = "replay" /\ j.queue # {}
  <2> DEFINE k == [j EXCEPT !.todo = <<>>]
  <2>1. Resume(j, rest) = k
    BY <1>2 DEF Resume
  <2>2. j \in ReplayJobs
    BY <1>2, JobKinds
  <2>3. k \in [at : {"replay"}, queue : SUBSET Entries, todo : Todos] /\ k.queue = j.queue
        /\ k.todo = <<>> /\ k.at = j.at
    BY <1>0, <2>2 DEF ReplayJobs
  <2> HIDE DEF k
  <2> QED BY <1>2, <2>1, <2>3 DEF ReplayJobs, JobSet, Continues
<1>3. CASE rest = <<>> /\ ~(j.at = "replay" /\ j.queue # {})
  <2>1. Resume(j, rest) = Idle
    BY <1>3 DEF Resume
  <2> QED BY <1>0, <1>3, <2>1 DEF Continues
<1> QED BY <1>1, <1>2, <1>3

\* A statement of the thread's job: what it changes, and the job k that is left.
Performs(d, t, st, k) ==
    LET j == job[d][t]
        rest == Tail(j.todo)
        On == Continues(j, rest, k) /\ Reported(j, rest)
    IN
    \/ /\ st.do \in {"upsert", "index", "payload", "deleterow"}
       /\ cache' = [cache EXCEPT ![d][st.s] = RowAfter(@, st)]
       /\ On /\ UNCHANGED <<outbox, nextId, synced>>
    \/ /\ st.do = "load"
       /\ \/ Continues(j, rest, k)
          \/ Continues(j, <<SetIndex(st.s, st.enc, st.version)>> \o rest, k)
       /\ UNCHANGED <<localVars, log>>
    \/ /\ st.do = "enqueue"
       /\ outbox' = [outbox EXCEPT ![d] = EnqueueOutbox(@, nextId[d], st.op, st.status)]
       /\ nextId' = [nextId EXCEPT ![d] = @ + 1]
       /\ \/ j.at # "requeue" /\ On
          \/ /\ j.at = "requeue" /\ st.op = j.op /\ UNCHANGED log
             /\ k.at = "open" /\ k.op = st.op /\ k.id = nextId[d] /\ k.todo = <<>>
       /\ UNCHANGED <<cache, synced>>
    \/ /\ st.do = "remove"
       /\ outbox' = [outbox EXCEPT ![d] = RemoveOutbox(@, st.id)]
       /\ On /\ UNCHANGED <<cache, nextId, synced>>
    \/ /\ st.do = "status" /\ HasEntry(outbox[d], st.id)
       /\ outbox' = [outbox EXCEPT ![d] = SetOutboxStatus(@, st.id, "conflict")]
       /\ On /\ UNCHANGED <<cache, nextId, synced>>
    \/ /\ st.do = "status" /\ ~HasEntry(outbox[d], st.id)
       /\ k = Idle /\ UNCHANGED <<localVars, log>>
    \/ /\ st.do = "synced" /\ synced' = [synced EXCEPT ![d] = st.version]
       /\ On /\ UNCHANGED <<cache, outbox, nextId>>

Steps(d, t, st, k) ==
    LET j == job[d][t] IN
    /\ j.todo # <<>> /\ j.at \in {"requeue", "finish", "stmts", "replay"}
    /\ st = Head(j.todo) /\ st \in Statements /\ Tail(j.todo) \in Todos
    /\ ToSet(j.todo) = {st} \cup ToSet(Tail(j.todo))
    /\ k \in JobSet /\ Moves(d, t, k) /\ Performs(d, t, st, k)
    /\ UNCHANGED <<serverVars, left>>

LEMMA StatementStep ==
    ASSUME SyncType, NEW d \in Devices, NEW t \in Threads, Statement(d, t)
    PROVE  \E st, k : Steps(d, t, st, k)
<1> DEFINE j == job[d][t]
           st == Head(j.todo)
           rest == Tail(j.todo)
           Done == Run(d, t, Resume(j, rest)) /\ Reported(j, rest)
<1>1. j \in JobSet /\ j.todo # <<>> /\ UNCHANGED <<serverVars, left>>
  <2>1. j \in JobSet
    BY DEF SyncType
  <2>2. j.todo # <<>> /\ UNCHANGED <<serverVars, left>>
    BY DEF Statement
  <2> QED BY <2>1, <2>2
<1>2. j.at \in {"requeue", "finish", "stmts", "replay"} /\ j.todo \in Todos
  BY <1>1, BusyKinds, JobKinds
<1>3. st \in Statements /\ rest \in Todos /\ ToSet(j.todo) = {st} \cup ToSet(rest)
  BY <1>1, <1>2, HeadTail DEF Todos
<1>4. j.at = "requeue" => /\ j.op \in Changes
                          /\ \A x \in {st} \cup ToSet(rest) : x.do = "enqueue" => x.op = j.op
  <2>1. j.at = "requeue" => j \in RequeueJobs
    BY <1>1, JobKinds
  <2> QED BY <1>3, <2>1 DEF RequeueJobs
<1>5. Resume(j, rest) \in JobSet /\ Continues(j, rest, Resume(j, rest))
  BY <1>1, <1>2, <1>3, <1>4, ResumeOK
<1>6. \/ /\ st.do \in {"upsert", "index", "payload", "deleterow"}
         /\ cache' = [cache EXCEPT ![d][st.s] = RowAfter(@, st)]
         /\ Done
         /\ UNCHANGED <<outbox, nextId, synced>>
      \/ /\ st.do = "load"
         /\ LET row == cache[d][st.s]
                wanted == Cached(row) /\ ~row.dirty /\ row.index = None
            IN Run(d, t, Resume(j, IF wanted
                                   THEN <<SetIndex(st.s, st.enc, st.version)>> \o rest
                                   ELSE rest))
         /\ UNCHANGED <<localVars, log>>
      \/ /\ st.do = "enqueue"
         /\ outbox' = [outbox EXCEPT ![d] = EnqueueOutbox(@, nextId[d], st.op, st.status)]
         /\ nextId' = [nextId EXCEPT ![d] = @ + 1]
         /\ IF j.at = "requeue"
            THEN /\ Run(d, t, [at |-> "open", op |-> st.op, id |-> nextId[d], todo |-> <<>>])
                 /\ UNCHANGED log
            ELSE Done
         /\ UNCHANGED <<cache, synced>>
      \/ /\ st.do = "remove"
         /\ outbox' = [outbox EXCEPT ![d] = RemoveOutbox(@, st.id)]
         /\ Done
         /\ UNCHANGED <<cache, nextId, synced>>
      \/ /\ st.do = "status" /\ HasEntry(outbox[d], st.id)
         /\ outbox' = [outbox EXCEPT ![d] = SetOutboxStatus(@, st.id, "conflict")]
         /\ Done
         /\ UNCHANGED <<cache, nextId, synced>>
      \/ /\ st.do = "status" /\ ~HasEntry(outbox[d], st.id)
         /\ Run(d, t, Idle)
         /\ UNCHANGED <<localVars, log>>
      \/ /\ st.do = "synced"
         /\ synced' = [synced EXCEPT ![d] = st.version]
         /\ Done
         /\ UNCHANGED <<cache, outbox, nextId>>
  BY DEF Statement
<1> DEFINE S(k) == k \in JobSet /\ Moves(d, t, k) /\ Performs(d, t, st, k)
<1> HIDE DEF st, rest
<1>7. Done => Moves(d, t, Resume(j, rest)) /\ Reported(j, rest)
  BY <1>5, RunFacts
<1>8. \E k : S(k)
  <2>1. CASE st.do \in {"upsert", "index", "payload", "deleterow"}
    <3>1. S(Resume(j, rest))
      BY <1>5, <1>6, <1>7, <2>1 DEF Performs, rest
    <3> QED BY <3>1
  <2>2. CASE st.do = "load"
    <3> DEFINE I == SetIndex(st.s, st.enc, st.version)
               L == <<I>>
               more == L \o rest
    <3>1. UNCHANGED <<localVars, log>> /\ (Run(d, t, Resume(j, more)) \/ Run(d, t, Resume(j, rest)))
      BY <1>6, <2>2
    <3>2. I \in Statements /\ I.do = "index"
      <4>1. st \in Tiers
        BY <1>3, <2>2, StatementKinds
      <4>2. I \in Statements
        BY <4>1, TierOK DEF Tiers
      <4> QED BY <4>2 DEF SetIndex
    <3>3. more = <<SetIndex(st.s, st.enc, st.version)>> \o rest
      OBVIOUS
    <3> HIDE DEF I
    <3>4. L \in Seq(Statements) /\ ToSet(L) = {I}
      BY <3>2 DEF ToSet
    <3> HIDE DEF L
    <3>5. more \in Todos /\ ToSet(more) = {I} \cup ToSet(rest)
      BY <1>3, <3>4, Concat DEF Todos
    <3> HIDE DEF more
    <3>6. Resume(j, more) \in JobSet /\ Continues(j, more, Resume(j, more))
      BY <1>1, <1>2, <1>4, <3>2, <3>5, ResumeOK
    <3>7. CASE Run(d, t, Resume(j, more))
      <4>1. S(Resume(j, more))
        BY <2>2, <3>1, <3>3, <3>6, <3>7, RunFacts DEF Performs, rest
      <4> QED BY <4>1
    <3>8. CASE Run(d, t, Resume(j, rest))
      <4>1. S(Resume(j, rest))
        BY <1>5, <2>2, <3>1, <3>8, RunFacts DEF Performs, rest
      <4> QED BY <4>1
    <3> QED BY <3>1, <3>7, <3>8
  <2>3. CASE st.do = "enqueue" /\ j.at # "requeue"
    <3>1. S(Resume(j, rest))
      BY <1>5, <1>6, <1>7, <2>3 DEF Performs, rest
    <3> QED BY <3>1
  <2>4. CASE st.do = "enqueue" /\ j.at = "requeue"
    <3> DEFINE k == [at |-> "open", op |-> st.op, id |-> nextId[d], todo |-> <<>>]
    <3>1. st.op = j.op /\ j.op \in Changes /\ nextId[d] \in Nat \ {0}
      BY <1>4, <2>4 DEF SyncType
    <3>2. k \in OpenJobs /\ k.at = "open" /\ k.op = st.op /\ k.id = nextId[d] /\ k.todo = <<>>
      BY <3>1 DEF OpenJobs
    <3>3. Run(d, t, k) /\ UNCHANGED log
      BY <1>6, <2>4
    <3> HIDE DEF k
    <3>4. k \in JobSet
      BY <3>2 DEF JobSet
    <3>5. Moves(d, t, k)
      BY <3>3, <3>4, RunFacts
    <3>6. S(k)
      BY <1>6, <2>4, <3>1, <3>2, <3>3, <3>4, <3>5 DEF Performs, rest
    <3> QED BY <3>6
  <2>5. CASE st.do = "remove"
    <3>1. S(Resume(j, rest))
      BY <1>5, <1>6, <1>7, <2>5 DEF Performs, rest
    <3> QED BY <3>1
  <2>6. CASE st.do = "status" /\ HasEntry(outbox[d], st.id)
    <3>1. S(Resume(j, rest))
      BY <1>5, <1>6, <1>7, <2>6 DEF Performs, rest
    <3> QED BY <3>1
  <2>7. CASE st.do = "status" /\ ~HasEntry(outbox[d], st.id)
    <3>1. Idle \in JobSet
      BY DEF JobSet
    <3>2. Moves(d, t, Idle)
      BY <1>6, <2>7, <3>1, RunFacts
    <3>3. S(Idle)
      BY <1>6, <2>7, <3>1, <3>2 DEF Performs, rest
    <3> QED BY <3>3
  <2>8. CASE st.do = "synced"
    <3>1. S(Resume(j, rest))
      BY <1>5, <1>6, <1>7, <2>8 DEF Performs, rest
    <3> QED BY <3>1
  <2> QED BY <1>3, <2>1, <2>2, <2>3, <2>4, <2>5, <2>6, <2>7, <2>8, StatementKinds
<1>9. PICK k : S(k)
  BY <1>8
<1>10. st = Head(j.todo) /\ rest = Tail(j.todo)
  BY DEF st, rest
<1>11. Steps(d, t, st, k)
  BY <1>1, <1>2, <1>3, <1>9, <1>10 DEF Steps
<1> QED BY <1>11

----------------------------------------------------------------------------
(* Layer 1 is inductive. *)

LEMMA RowAfterTyped ==
    ASSUME NEW row \in CacheRows, NEW st \in Statements,
           st.do \in {"upsert", "index", "payload", "deleterow"}
    PROVE  RowAfter(row, st) \in CacheRows
<1> DEFINE Fields == [version : Nat, row : Cipher \cup {None}, index : Cipher \cup {None},
                      payload : Cipher \cup {None}, dirty : BOOLEAN]
<1>1. /\ row \in Fields /\ (row.version > 0 => row.row \in Cipher)
      /\ (row.row # None => row.row.version = row.version)
      /\ (row.index # None => row.index.version = row.version)
      /\ (row.payload # None => row.payload.version = row.version)
  BY DEF CacheRows
<1>2. ASSUME NEW r \in Fields, r.version > 0 => r.row \in Cipher,
             r.row # None => r.row.version = r.version,
             r.index # None => r.index.version = r.version,
             r.payload # None => r.payload.version = r.version
      PROVE  r \in CacheRows
  BY <1>2 DEF CacheRows
<1>3. CASE st.do = "upsert"
  <2>1. st \in Upserts
    BY <1>3, StatementKinds
  <2>2. /\ st.enc \in Cipher /\ st.tiers \in Cipher \cup {None} /\ st.version \in Nat \ {0}
        /\ st.dirty \in BOOLEAN /\ st.enc.version = st.version /\ st.tiers \in {None, st.enc}
    BY <2>1 DEF Upserts
  <2> DEFINE index == IF ~Cached(row) THEN st.tiers
                      ELSE IF row.version = st.version THEN row.index ELSE None
             payload == IF ~Cached(row) THEN st.tiers
                        ELSE IF row.version = st.version THEN row.payload ELSE None
             r == [version |-> st.version, row |-> st.enc, index |-> index, payload |-> payload,
                   dirty |-> st.dirty]
  <2>3. RowAfter(row, st) = r
    BY <1>3 DEF RowAfter, UpsertSecretRow
  <2>4. index \in Cipher \cup {None} /\ (index # None => index.version = st.version)
    BY <1>1, <2>2
  <2>5. payload \in Cipher \cup {None} /\ (payload # None => payload.version = st.version)
    BY <1>1, <2>2
  <2> HIDE DEF index, payload
  <2>6. r \in Fields /\ r.version = st.version /\ r.row = st.enc /\ r.index = index /\ r.payload = payload
    BY <2>2, <2>4, <2>5
  <2> HIDE DEF r, Fields
  <2> QED BY <1>2, <2>2, <2>3, <2>4, <2>5, <2>6
<1>4. CASE st.do = "index"
  <2>1. st \in Tiers
    BY <1>4, StatementKinds
  <2>2. st.enc \in Cipher /\ st.enc.version = st.version
    BY <2>1 DEF Tiers
  <2>3. RowAfter(row, st) = IF Cached(row) /\ row.version = st.version
                            THEN [row EXCEPT !.index = st.enc] ELSE row
    BY <1>4 DEF RowAfter, SetSecretIndex
  <2> DEFINE r == [row EXCEPT !.index = st.enc]
  <2>4. /\ r \in Fields /\ r.version = row.version /\ r.row = row.row /\ r.index = st.enc
        /\ r.payload = row.payload
    BY <1>1, <2>2
  <2> HIDE DEF r, Fields
  <2>5. row.version = st.version => r \in CacheRows
    BY <1>1, <1>2, <2>2, <2>4
  <2> QED BY <2>3, <2>5 DEF r
<1>5. CASE st.do = "payload"
  <2>1. st \in Tiers
    BY <1>5, StatementKinds
  <2>2. st.enc \in Cipher /\ st.enc.version = st.version
    BY <2>1 DEF Tiers
  <2>3. RowAfter(row, st) = IF Cached(row) /\ row.version = st.version
                            THEN [row EXCEPT !.payload = st.enc] ELSE row
    BY <1>5 DEF RowAfter, SetSecretPayload
  <2> DEFINE r == [row EXCEPT !.payload = st.enc]
  <2>4. /\ r \in Fields /\ r.version = row.version /\ r.row = row.row /\ r.index = row.index
        /\ r.payload = st.enc
    BY <1>1, <2>2
  <2> HIDE DEF r, Fields
  <2>5. row.version = st.version => r \in CacheRows
    BY <1>1, <1>2, <2>2, <2>4
  <2> QED BY <2>3, <2>5 DEF r
<1>6. CASE st.do = "deleterow"
  <2>1. RowAfter(row, st) = NoRow
    BY <1>6 DEF RowAfter
  <2>2. NoRow \in CacheRows
    BY DEF NoRow, CacheRows
  <2> QED BY <2>1, <2>2
<1> QED BY <1>3, <1>4, <1>5, <1>6

\* A report changes nothing but the set of acknowledged writes.
LEMMA ReportFacts ==
    ASSUME SyncType, NEW j \in JobSet, NEW rest, Reported(j, rest)
    PROVE  /\ log' \in LogSet
           /\ log'.asked = log.asked /\ log'.applied = log.applied /\ log'.refused = log.refused
           /\ log'.killed = log.killed /\ log'.blind = log.blind
           /\ \/ log'.acked = log.acked /\ ~(j.at = "finish" /\ rest = <<>>)
              \/ log'.acked = log.acked \cup {j.w} /\ j.at = "finish" /\ rest = <<>>
<1>1. log \in LogSet
  BY DEF SyncType
<1>2. CASE j.at = "finish" /\ rest = <<>>
  <2>1. j.w \in 1 .. MaxWrites
    BY <1>2, JobKinds DEF FinishJobs
  <2>2. log' = [log EXCEPT !.acked = @ \cup {j.w}]
    BY <1>2 DEF Reported
  <2> QED BY <1>1, <1>2, <2>1, <2>2 DEF LogSet
<1>3. CASE ~(j.at = "finish" /\ rest = <<>>)
  BY <1>1, <1>3 DEF Reported
<1> QED BY <1>2, <1>3

\* What a statement leaves of the history.
LEMMA StepLog ==
    ASSUME SyncType, NEW d \in Devices, NEW t \in Threads, NEW st, NEW k, Steps(d, t, st, k)
    PROVE  /\ log' \in LogSet
           /\ log'.asked = log.asked /\ log'.applied = log.applied /\ log'.refused = log.refused
           /\ log'.killed = log.killed /\ log'.blind = log.blind
           /\ \/ log'.acked = log.acked
              \/ /\ log'.acked = log.acked \cup {job[d][t].w} /\ job[d][t].at = "finish"
                 /\ Tail(job[d][t].todo) = <<>>
<1>1. job[d][t] \in JobSet /\ log \in LogSet
  BY DEF SyncType
<1>2. log' = log \/ Reported(job[d][t], Tail(job[d][t].todo))
  BY DEF Steps, Performs
<1> QED BY <1>1, <1>2, ReportFacts

LEMMA StatementTyped ==
    ASSUME SyncType, NEW d \in Devices, NEW t \in Threads, NEW st, NEW k, Steps(d, t, st, k)
    PROVE  SyncType'
<1>1. st \in Statements /\ Performs(d, t, st, k) /\ job' \in [Devices -> [Threads -> JobSet]]
      /\ sec' = sec /\ vaultVersion' = vaultVersion /\ left' = left
  BY DEF Steps, Moves, serverVars
<1>2. log' \in LogSet
  BY StepLog
<1>3. cache' \in [Devices -> [Secrets -> CacheRows]]
  <2>1. CASE UNCHANGED cache
    BY <2>1 DEF SyncType
  <2>2. CASE /\ st.do \in {"upsert", "index", "payload", "deleterow"}
             /\ cache' = [cache EXCEPT ![d][st.s] = RowAfter(@, st)]
    <3>1. st.s \in Secrets
      BY <1>1, <2>2, StatementKinds DEF Upserts, Tiers
    <3>2. cache \in [Devices -> [Secrets -> CacheRows]]
      BY DEF SyncType
    <3>3. RowAfter(cache[d][st.s], st) \in CacheRows
      BY <1>1, <2>2, <3>1, <3>2, RowAfterTyped
    <3> QED BY <2>2, <3>1, <3>2, <3>3
  <2> QED BY <1>1, <2>1, <2>2 DEF Performs, localVars
<1>4. outbox' \in [Devices -> SUBSET Entries] /\ nextId' \in [Devices -> Nat \ {0}]
  <2>1. outbox \in [Devices -> SUBSET Entries] /\ nextId \in [Devices -> Nat \ {0}]
    BY DEF SyncType
  <2>2. CASE UNCHANGED <<outbox, nextId>>
    BY <2>1, <2>2
  <2>3. CASE /\ st.do = "enqueue"
             /\ outbox' = [outbox EXCEPT ![d] = EnqueueOutbox(@, nextId[d], st.op, st.status)]
             /\ nextId' = [nextId EXCEPT ![d] = @ + 1]
    <3>1. st.op \in Ops /\ st.status \in {"pending", "conflict"}
      BY <1>1, <2>3, StatementKinds
    <3>2. [id |-> nextId[d], op |-> st.op, status |-> st.status] \in Entries
      BY <2>1, <3>1 DEF Entries
    <3>3. EnqueueOutbox(outbox[d], nextId[d], st.op, st.status) \in SUBSET Entries
      BY <2>1, <3>2 DEF EnqueueOutbox
    <3>4. nextId' \in [Devices -> Nat \ {0}]
      BY <2>1, <2>3
    <3> QED BY <2>1, <2>3, <3>3, <3>4
  <2>4. CASE /\ outbox' = [outbox EXCEPT ![d] = RemoveOutbox(@, st.id)] /\ UNCHANGED nextId
    <3>1. RemoveOutbox(outbox[d], st.id) \in SUBSET Entries
      BY <2>1 DEF RemoveOutbox
    <3> QED BY <2>1, <2>4, <3>1
  <2>5. CASE /\ outbox' = [outbox EXCEPT ![d] = SetOutboxStatus(@, st.id, "conflict")]
             /\ UNCHANGED nextId
    <3>1. SetOutboxStatus(outbox[d], st.id, "conflict") \in SUBSET Entries
      <4>1. ASSUME NEW e \in outbox[d] PROVE [e EXCEPT !.status = "conflict"] \in Entries /\ e \in Entries
        BY <2>1 DEF Entries
      <4> QED BY <4>1 DEF SetOutboxStatus
    <3> QED BY <2>1, <2>5, <3>1
  <2> QED BY <1>1, <2>2, <2>3, <2>4, <2>5 DEF Performs, localVars
<1>5. synced' \in [Devices -> Nat]
  <2>1. CASE UNCHANGED synced
    BY <2>1 DEF SyncType
  <2>2. CASE st.do = "synced" /\ synced' = [synced EXCEPT ![d] = st.version]
    <3>1. st.version \in Nat
      BY <1>1, <2>2, StatementKinds
    <3> QED BY <2>2, <3>1 DEF SyncType
  <2> QED BY <1>1, <2>1, <2>2 DEF Performs, localVars
<1> QED BY <1>1, <1>2, <1>3, <1>4, <1>5 DEF SyncType

\* The processes of the device are killed.
Kills(d) ==
    /\ job' \in [Devices -> [Threads -> JobSet]] /\ \A t \in Threads : job'[d][t] = Idle
    /\ \A e \in Devices, t \in Threads : e # d => job'[e][t] = job[e][t]
    /\ left' \in LeftSet /\ log' \in LogSet /\ MaxCrashes # 0
    /\ log'.killed = log.killed \cup {w \in log.asked : Holds(d, w)}
    /\ log'.asked = log.asked /\ log'.applied = log.applied /\ log'.refused = log.refused
    /\ log'.acked = log.acked /\ log'.blind = log.blind
    /\ UNCHANGED <<serverVars, localVars>>

LEMMA CrashStep ==
    ASSUME SyncType, NEW d \in Devices, Crash(d)
    PROVE  Kills(d)
<1>1. job' = [job EXCEPT ![d] = [t \in Threads |-> Idle]] /\ Idle \in JobSet
  BY DEF Crash, JobSet
<1>2. /\ job' \in [Devices -> [Threads -> JobSet]] /\ \A t \in Threads : job'[d][t] = Idle
      /\ \A e \in Devices, t \in Threads : e # d => job'[e][t] = job[e][t]
  BY <1>1 DEF SyncType
<1>3. left' \in LeftSet /\ MaxCrashes # 0
  <2>1. left \in LeftSet /\ left.crashes \in 0 .. MaxCrashes /\ left.crashes > 0
        /\ left' = [left EXCEPT !.crashes = @ - 1]
    BY DEF SyncType, LeftSet, Crash
  <2>2. left.crashes - 1 \in 0 .. MaxCrashes /\ MaxCrashes # 0
    BY <2>1, BoundsAssumption
  <2> QED BY <2>1, <2>2 DEF LeftSet
<1> DEFINE gone == {w \in log.asked : Holds(d, w)}
<1>4. log \in LogSet /\ log' = [log EXCEPT !.killed = @ \cup gone] /\ gone \in SUBSET (1 .. MaxWrites)
  BY DEF SyncType, LogSet, Crash
<1>5. log'.killed = log.killed \cup {w \in log.asked : Holds(d, w)}
  BY <1>4 DEF LogSet
<1> HIDE DEF gone
<1>6. /\ log' \in LogSet /\ log'.asked = log.asked /\ log'.applied = log.applied
      /\ log'.refused = log.refused /\ log'.acked = log.acked /\ log'.blind = log.blind
  BY <1>4 DEF LogSet
<1> QED BY <1>2, <1>3, <1>5, <1>6 DEF Kills, Crash

\* Every step is one of these.
LEMMA StepKinds ==
    ASSUME SyncType, Next
    PROVE  \E d \in Devices :
             \/ Kills(d)
             \/ \E t \in Threads :
                 \/ \E op : Submits(d, t, op)
                 \/ \E e, k : Opens(d, t, e, k)
                 \/ \E k : Starts(d, t, k) \/ Reads(d, t, k) \/ Decides(d, t, k)
                 \/ \E op, id, answer, k : Asks(d, t, op, id, answer, k)
                 \/ \E e, answer, k : Replays(d, t, e, answer, k)
                 \/ \E st, k : Steps(d, t, st, k)
<1>1. PICK d \in Devices :
        \/ \E t \in UserThreads : UserJob(d, t)
        \/ \E t \in SyncThreads : SyncJob(d, t)
        \/ \E t \in Threads : JobStep(d, t) \/ Decide(d, t)
        \/ Crash(d)
  BY DEF Next
<1>2. CASE Crash(d)
  BY <1>2, CrashStep
<1>3. ASSUME NEW t \in Threads, UserJob(d, t) \/ SyncJob(d, t) \/ JobStep(d, t) \/ Decide(d, t)
      PROVE  \/ \E op : Submits(d, t, op)
             \/ \E e, k : Opens(d, t, e, k)
             \/ \E k : Starts(d, t, k) \/ Reads(d, t, k) \/ Decides(d, t, k)
             \/ \E op, id, answer, k : Asks(d, t, op, id, answer, k)
             \/ \E e, answer, k : Replays(d, t, e, answer, k)
             \/ \E st, k : Steps(d, t, st, k)
  <2>1. CASE UserJob(d, t)
    BY <2>1, SubmitStep, OpenEntryStep, EasyReads DEF UserJob
  <2>2. CASE SyncJob(d, t)
    BY <2>2, StartReplayStep, EasyReads, ListIndexStep DEF SyncJob
  <2>3. CASE JobStep(d, t)
    BY <2>3, SendStep, OpenStep, ReplayStep, EasyReads, ListRowsStep, PendingStep, ConflictsStep,
       SecretPayloadStep, StatementStep DEF JobStep
  <2>4. CASE Decide(d, t)
    BY <2>4, DecideStep
  <2> QED BY <1>3, <2>1, <2>2, <2>3, <2>4
<1>4. UserThreads \subseteq Threads /\ SyncThreads \subseteq Threads
  BY DEF Threads
<1> QED BY <1>1, <1>2, <1>3, <1>4

LEMMA TypeInit == ASSUME Init PROVE SyncType
<1>1. sec \in [Secrets -> ServerRows]
  <2>1. Absent \in ServerRows
    BY DEF Absent, ServerRows, Row
  <2> QED BY <2>1 DEF Init, StoreInit
<1>2. cache \in [Devices -> [Secrets -> CacheRows]]
  <2>1. NoRow \in CacheRows
    BY DEF NoRow, CacheRows
  <2> QED BY <2>1 DEF Init
<1>3. job \in [Devices -> [Threads -> JobSet]]
  <2>1. Idle \in JobSet
    BY DEF JobSet
  <2> QED BY <2>1 DEF Init
<1>4. left \in LeftSet
  BY BoundsAssumption DEF Init, LeftSet
<1>5. log \in LogSet
  BY DEF Init, LogSet
<1>6. vaultVersion \in [{Vault} -> Nat \ {0}]
  BY DEF Init, StoreInit
<1>7. outbox \in [Devices -> SUBSET Entries] /\ nextId \in [Devices -> Nat \ {0}]
      /\ synced \in [Devices -> Nat]
  BY DEF Init
<1> QED BY <1>1, <1>2, <1>3, <1>4, <1>5, <1>6, <1>7 DEF SyncType

LEMMA TypeNext == ASSUME SyncType, [Next]_vars PROVE SyncType'
<1>1. CASE Next
  <2>1. PICK d \in Devices :
             \/ Kills(d)
             \/ \E t \in Threads :
                 \/ \E op : Submits(d, t, op)
                 \/ \E e, k : Opens(d, t, e, k)
                 \/ \E k : Starts(d, t, k) \/ Reads(d, t, k) \/ Decides(d, t, k)
                 \/ \E op, id, answer, k : Asks(d, t, op, id, answer, k)
                 \/ \E e, answer, k : Replays(d, t, e, answer, k)
                 \/ \E st, k : Steps(d, t, st, k)
    BY <1>1, StepKinds
  <2>2. CASE Kills(d)
    BY <2>2 DEF Kills, SyncType, serverVars, localVars
  <2>3. ASSUME NEW t \in Threads, NEW op, Submits(d, t, op) PROVE SyncType'
    BY <2>3 DEF Submits, Moves, SyncType, serverVars, localVars
  <2>4. ASSUME NEW t \in Threads, NEW e, NEW k, Opens(d, t, e, k) PROVE SyncType'
    BY <2>4 DEF Opens, Moves, SyncType, serverVars, localVars
  <2>5. ASSUME NEW t \in Threads, NEW k, Starts(d, t, k) PROVE SyncType'
    BY <2>5 DEF Starts, Moves, SyncType, serverVars, localVars
  <2>6. ASSUME NEW t \in Threads, NEW k, Reads(d, t, k) PROVE SyncType'
    BY <2>6 DEF Reads, Moves, SyncType, serverVars, localVars
  <2>7. ASSUME NEW t \in Threads, NEW k, Decides(d, t, k) PROVE SyncType'
    <3>1. log' \in LogSet
      <4>1. job[d][t].op.enc.w \in 1 .. MaxWrites
        BY <2>7, OpFacts DEF Decides, CardJobs, Changes
      <4>2. log \in LogSet /\ (log' = log \/ Refused(job[d][t].op.enc.w))
        BY <2>7 DEF Decides, SyncType
      <4> QED BY <4>1, <4>2 DEF LogSet, Refused
    <3> QED BY <2>7, <3>1 DEF Decides, Moves, SyncType, serverVars, localVars
  <2>8. ASSUME NEW t \in Threads, NEW op, NEW id, NEW answer, NEW k, Asks(d, t, op, id, answer, k)
        PROVE  SyncType'
    BY <2>8 DEF Asks, Called, Moves, SyncType, serverVars, localVars
  <2>9. ASSUME NEW t \in Threads, NEW e, NEW answer, NEW k, Replays(d, t, e, answer, k)
        PROVE  SyncType'
    BY <2>9 DEF Replays, Called, Moves, SyncType, serverVars, localVars
  <2>10. ASSUME NEW t \in Threads, NEW st, NEW k, Steps(d, t, st, k) PROVE SyncType'
    BY <2>10, StatementTyped
  <2> QED BY <2>1, <2>2, <2>3, <2>4, <2>5, <2>6, <2>7, <2>8, <2>9, <2>10
<1>2. CASE UNCHANGED vars
  BY <1>2 DEF vars, serverVars, localVars, SyncType
<1> QED BY <1>1, <1>2

\* Every state has its jobs, statements, entries and rows as the code leaves them, and
\* every ciphertext is next to the version it was encrypted for.
THEOREM SyncTypeInvariance == Spec => []SyncType
BY TypeInit, TypeNext, PTL DEF Spec

\* The type invariant of the devices and of the server they share (secret_repo.go, outbox_repo.go).
THEOREM SyncTypeOK == Spec => []TypeOK
<1>1. ASSUME SyncType PROVE TypeOK
  <2>1. StoreTypeOK
    BY <1>1 DEF SyncType, StoreTypeOK, ServerRows
  <2>2. cache \in [Devices -> [Secrets ->
            [version : Nat, row : Cipher \cup {None}, index : Cipher \cup {None},
             payload : Cipher \cup {None}, dirty : BOOLEAN]]]
    BY <1>1 DEF SyncType, CacheRows
  <2>3. Ops \subseteq Op
    BY DEF Ops
  <2>4. ASSUME NEW d \in Devices
        PROVE  outbox[d] \subseteq [id : Nat \ {0}, op : Op, status : {"pending", "conflict"}]
    BY <1>1, <2>3 DEF SyncType, Entries
  <2>5. ASSUME NEW d \in Devices, NEW t \in Threads
        PROVE  LET j == job[d][t] IN
               /\ j.at \in {"idle", "send", "card", "open", "requeue", "finish", "stmts",
                            "replay", "fresh", "pull", "rows", "pending", "payload"}
               /\ j.at \in {"send", "card", "open", "requeue"} => j.op \in Op
               /\ j.at = "replay" => j.queue # {} \/ j.todo # <<>>
    <3>1. job[d][t] \in JobSet
      BY <1>1 DEF SyncType
    <3> QED BY <2>3, <3>1, JobKinds DEF SendJobs, CardJobs, OpenJobs, RequeueJobs, ReplayJobs, Changes
  <2>6. \A b \in DOMAIN left : left[b] \in Nat
    <3>1. DOMAIN left = {"writes", "requests", "replies", "crashes", "resolves"}
      BY <1>1 DEF SyncType, LeftSet
    <3>2. left.writes \in Nat /\ left.requests \in Nat /\ left.replies \in Nat /\ left.crashes \in Nat
          /\ left.resolves \in Nat
      BY <1>1, BoundsAssumption DEF SyncType, LeftSet
    <3> QED BY <3>1, <3>2
  <2>7. /\ \A f \in {"asked", "acked", "refused", "applied", "killed"} : log[f] \subseteq 1 .. MaxWrites
        /\ log.created \subseteq Secrets /\ log.blind \subseteq Op
    BY <1>1, <2>3 DEF SyncType, LogSet
  <2> QED BY <1>1, <2>1, <2>2, <2>4, <2>5, <2>6, <2>7 DEF TypeOK, SyncType
<1> QED BY <1>1, SyncTypeInvariance, PTL

\* Whatever a device or the server has stored decrypts under the version next to it, for
\* any number of devices, threads, writes, lost messages and crashes (tiers.go, aad.go).
THEOREM StoredIsDecryptable == Spec => []Decryptable
<1>1. ASSUME SyncType PROVE Decryptable
  <2>1. ASSUME NEW d \in Devices, NEW s \in Secrets,
               NEW tier \in {cache[d][s].row, cache[d][s].index, cache[d][s].payload}, tier # None
        PROVE  tier.version = cache[d][s].version
    <3>1. cache[d][s] \in CacheRows
      BY <1>1 DEF SyncType
    <3> QED BY <2>1, <3>1 DEF CacheRows
  <2>2. \A s \in Live : sec[s].enc.version = sec[s].version
    BY <1>1, LiveRow
  <2> QED BY <2>1, <2>2 DEF Decryptable
<1> QED BY <1>1, SyncTypeInvariance, PTL

----------------------------------------------------------------------------
(* Layer 2 is inductive. *)

LEMMA TodoStatements ==
    ASSUME NEW L \in Todos
    PROVE  ToSet(L) \subseteq Statements
BY DEF Todos, ToSet

\* A row of the server changes only together with its version, which grows.
Grows == \A s \in Secrets : sec'[s] = sec[s] \/ sec'[s].version > sec[s].version

LEMMA CalledGrows ==
    ASSUME SyncType, NEW op \in Ops, NEW answer, NEW refused, Called(op, answer, refused)
    PROVE  Grows
<1>1. CASE Executed(op)
  <2>1. op.base \in Nat /\ op.s \in Secrets
    BY OpFacts
  <2> QED BY <1>1, <2>1 DEF Executed, Grows
<1>2. CASE Rejected(refused)
  BY <1>2 DEF Rejected, Grows
<1> QED BY <1>1, <1>2 DEF Called

LEMMA KnownGrows ==
    ASSUME SyncType, SyncType', Grows, NEW s \in Secrets, NEW v \in Nat, NEW w, Known(sec, s, v, w)
    PROVE  Known(sec', s, v, w)
<1>1. sec[s].version \in Nat /\ sec'[s].version \in Nat
  BY DEF SyncType, ServerRows, Row
<1> QED BY <1>1 DEF Known, Grows

LEMMA OpGrows ==
    ASSUME SyncType, SyncType', Grows, NEW op \in Ops, OpKnown(sec, op)
    PROVE  OpKnown(sec', op)
BY OpFacts, KnownGrows DEF OpKnown

LEMMA StGrows ==
    ASSUME SyncType, SyncType', Grows, NEW st \in Statements, StKnown(sec, st)
    PROVE  StKnown(sec', st)
<1>1. st.do = "upsert" => st.s \in Secrets /\ st.version \in Nat
  BY StatementKinds DEF Upserts
<1>2. st.do = "enqueue" => st.op \in Ops
  BY StatementKinds
<1> QED BY <1>1, <1>2, KnownGrows, OpGrows DEF StKnown

LEMMA JobGrows ==
    ASSUME SyncType, SyncType', Grows, NEW j \in JobSet, JobKnown(sec, j)
    PROVE  JobKnown(sec', j)
<1>1. j.at \in {"send", "card", "open", "requeue"} => OpKnown(sec', j.op)
  <2>1. j.at \in {"send", "card", "open", "requeue"} => j.op \in Ops
    BY JobKinds DEF SendJobs, CardJobs, OpenJobs, RequeueJobs, Changes
  <2> QED BY <2>1, OpGrows DEF JobKnown
<1>2. j.at = "card" => Known(sec', j.op.s, j.version, j.theirs.w)
  <2>1. j.at = "card" => j.op \in Ops /\ j.version \in Nat
    BY JobKinds DEF CardJobs, Changes
  <2>2. j.at = "card" => j.op.s \in Secrets
    BY <2>1, OpFacts
  <2> QED BY <2>1, <2>2, KnownGrows DEF JobKnown
<1>3. j.at = "replay" => \A e \in j.queue : OpKnown(sec', e.op)
  <2>1. j.at = "replay" => \A e \in j.queue : e.op \in Ops
    BY JobKinds DEF ReplayJobs, Entries
  <2> QED BY <2>1, OpGrows DEF JobKnown
<1>4. j.at \in {"rows", "pending"} => \A r \in j.rows : Known(sec', r.s, r.version, r.enc.w)
  <2>1. j.at \in {"rows", "pending"} => \A r \in j.rows : r.s \in Secrets /\ r.version \in Nat
    BY JobKinds DEF RowsJobs, Listed
  <2> QED BY <2>1, KnownGrows DEF JobKnown
<1>5. \A st \in ToSet(j.todo) : StKnown(sec', st)
  <2>1. ToSet(j.todo) \subseteq Statements
    BY JobKinds, TodoStatements
  <2> QED BY <2>1, StGrows DEF JobKnown
<1> QED BY <1>1, <1>2, <1>3, <1>4, <1>5 DEF JobKnown

LEMMA RowGrows ==
    ASSUME SyncType, SyncType', Grows, NEW d \in Devices, NEW s \in Secrets, RowKnown(sec, s, cache[d][s])
    PROVE  RowKnown(sec', s, cache[d][s])
<1>1. cache[d][s].version \in Nat
  BY DEF SyncType, CacheRows
<1> QED BY <1>1, KnownGrows DEF RowKnown

\* A step of a thread that leaves the local database alone.
LEMMA SeenStep ==
    ASSUME SyncType, SyncType', SeenInv, Grows, NEW d \in Devices, NEW t \in Threads, NEW k,
           Moves(d, t, k), UNCHANGED localVars, JobKnown(sec', k), NoBlindOverwrite'
    PROVE  SeenInv'
<1>1. ASSUME NEW e \in Devices, NEW u \in Threads PROVE JobKnown(sec', job'[e][u])
  <2>1. CASE e = d /\ u = t
    BY <2>1 DEF Moves
  <2>2. CASE e # d \/ u # t
    <3>1. job[e][u] \in JobSet /\ JobKnown(sec, job[e][u]) /\ job'[e][u] = job[e][u]
      BY <2>2 DEF SyncType, SeenInv, Moves
    <3> QED BY <3>1, JobGrows
  <2> QED BY <2>1, <2>2
<1>2. ASSUME NEW e \in Devices, NEW s \in Secrets PROVE RowKnown(sec', s, cache'[e][s])
  BY RowGrows DEF SeenInv, localVars
<1>3. ASSUME NEW e \in Devices, NEW x \in outbox'[e] PROVE OpKnown(sec', x.op)
  <2>1. x \in outbox[e] /\ x.op \in Ops
    BY DEF localVars, SyncType, Entries
  <2> QED BY <2>1, OpGrows DEF SeenInv
<1> QED BY <1>1, <1>2, <1>3 DEF SeenInv

LEMMA IdleKnown == ASSUME NEW S PROVE JobKnown(S, Idle)
<1>1. Idle.at = "idle" /\ ToSet(Idle.todo) = {}
  BY EmptyTodo DEF Idle
<1> QED BY <1>1 DEF JobKnown

\* The statements after an answer the server gave.
LEMMA CleanKnown ==
    ASSUME SyncType', NEW op \in Ops, Executed(op), NEW id, NEW st \in Clean(op) \cup {RemoveEntry(id)}
    PROVE  StKnown(sec', st)
<1>1. op.s \in Secrets /\ op.base \in Nat
  BY OpFacts
<1>2. st.do = "upsert" => st.s = op.s /\ st.version = op.base + 1 /\ st.enc = op.enc /\ op.kind # "delete"
  BY DEF Clean, DeleteRow, Upsert, SetIndex, SetPayload, RemoveEntry
<1>3. st.do # "enqueue"
  BY DEF Clean, DeleteRow, Upsert, SetIndex, SetPayload, RemoveEntry
<1>4. op.kind # "delete" => Known(sec', op.s, op.base + 1, op.enc.w)
  BY <1>1 DEF Executed, Known
<1> QED BY <1>2, <1>3, <1>4 DEF StKnown

LEMMA DirtyKnown ==
    ASSUME NEW S, NEW op, OpKnown(S, op), NEW id, NEW st \in Dirty(op) \cup {RemoveEntry(id)}
    PROVE  StKnown(S, st)
<1>1. (st.do = "upsert" => st.dirty = TRUE) /\ (st.do = "enqueue" => st.op = op)
  BY DEF Dirty, DeleteRow, Upsert, SetIndex, SetPayload, RemoveEntry, Enqueue
<1> QED BY <1>1 DEF StKnown

\* The optimistic lock: what is executed replaces what its author saw.
LEMMA NotBlind ==
    ASSUME SyncType, SeenInv, NEW op \in Ops, OpKnown(sec, op), NEW answer, NEW refused,
           Called(op, answer, refused)
    PROVE  NoBlindOverwrite'
<1>1. CASE log'.blind = log.blind
  BY <1>1 DEF SeenInv, NoBlindOverwrite
<1>2. CASE /\ log'.blind = log.blind \cup {op} /\ op.kind # "create"
           /\ sec[op.s].enc.w # op.seen /\ sec[op.s].version = op.base
  <2>1. op.onDirty
    BY <1>2 DEF OpKnown, Known
  <2> QED BY <1>2, <2>1 DEF SeenInv, NoBlindOverwrite
<1> QED BY <1>1, <1>2 DEF Called, Executed, Rejected

LEMMA AsksSeen ==
    ASSUME SyncType, SyncType', SeenInv, NEW d \in Devices, NEW t \in Threads,
           NEW op, NEW id, NEW answer, NEW k, Asks(d, t, op, id, answer, k)
    PROVE  SeenInv'
<1> DEFINE refused == Refuses(job[d][t], answer)
<1>1. /\ op \in Ops /\ id \in Nat /\ Called(op, answer, refused) /\ Outcome(op, id, answer, k)
      /\ Moves(d, t, k) /\ UNCHANGED localVars /\ answer \in Answers
  BY DEF Asks
<1>2. OpKnown(sec, op)
  BY DEF Asks, SeenInv, JobKnown
<1>3. Grows /\ NoBlindOverwrite'
  BY <1>1, <1>2, CalledGrows, NotBlind
<1>4. OpKnown(sec', op)
  BY <1>1, <1>2, <1>3, OpGrows
<1> HIDE DEF refused
<1>5. JobKnown(sec', k)
  <2>1. CASE answer = "ok"
    <3>1. Applies(op, id, k) /\ Executed(op)
      BY <1>1, <2>1 DEF Outcome, Called
    <3>2. k.at = "finish" /\ ToSet(k.todo) \subseteq Clean(op) \cup {RemoveEntry(id)}
      BY <3>1 DEF Applies, FinishJobs, Removal
    <3>3. \A st \in ToSet(k.todo) : StKnown(sec', st)
      BY <1>1, <3>1, <3>2, CleanKnown
    <3> QED BY <3>2, <3>3 DEF JobKnown
  <2>2. CASE answer = "offline" /\ k # Idle
    <3>1. Defers(op, id, k)
      BY <1>1, <2>2 DEF Outcome
    <3>2. k.at = "finish" /\ ToSet(k.todo) \subseteq Dirty(op) \cup {RemoveEntry(id)}
      BY <3>1 DEF Defers, FinishJobs, Removal
    <3>3. \A st \in ToSet(k.todo) : StKnown(sec', st)
      BY <1>4, <3>2, DirtyKnown
    <3> QED BY <3>2, <3>3 DEF JobKnown
  <2>3. CASE answer = "conflict"
    <3>1. sec' = sec
      BY <1>1, <2>3 DEF Called, Rejected
    <3>2. ASSUME NEW i, k = Card(op, i) PROVE JobKnown(sec', k)
      <4>1. /\ k.at = "card" /\ k.op = op /\ k.todo = <<>> /\ k.theirs = sec[op.s].enc
            /\ k.version = sec[op.s].version
        BY <3>2 DEF Card
      <4>2. sec[op.s].version \in Nat
        BY <1>1, OpFacts DEF SyncType, ServerRows, Row
      <4>3. Known(sec', op.s, k.version, k.theirs.w)
        BY <3>1, <4>1, <4>2 DEF Known
      <4> QED BY <1>4, <4>1, <4>3, EmptyTodo DEF JobKnown
    <3>3. ASSUME Requeues(op, id, k) PROVE JobKnown(sec', k)
      <4>1. k.at = "requeue" /\ k.op = op /\ k.todo \in Todos /\ k.todo # <<>>
            /\ Head(k.todo) = MarkConflict(id)
            /\ ToSet(Tail(k.todo)) = {RemoveEntry(id), Enqueue(op, "conflict")}
        BY <3>3 DEF Requeues, RequeueJobs
      <4>2. ToSet(k.todo) = {Head(k.todo)} \cup ToSet(Tail(k.todo))
        BY <4>1, HeadTail DEF Todos
      <4>3. ASSUME NEW st \in ToSet(k.todo) PROVE StKnown(sec', st)
        <5>1. st.do # "upsert" /\ (st.do = "enqueue" => st.op = op)
          BY <4>1, <4>2 DEF MarkConflict, RemoveEntry, Enqueue
        <5> QED BY <1>4, <5>1 DEF StKnown
      <4> QED BY <1>4, <4>1, <4>3 DEF JobKnown
    <3> QED BY <1>1, <2>3, <3>2, <3>3 DEF Outcome
  <2>4. CASE k = Idle
    BY <2>4, IdleKnown
  <2> QED BY <1>1, <2>1, <2>2, <2>3, <2>4 DEF Outcome, Answers
<1> QED BY <1>1, <1>3, <1>5, SeenStep

LEMMA ReplaysSeen ==
    ASSUME SyncType, SyncType', SeenInv, NEW d \in Devices, NEW t \in Threads,
           NEW e, NEW answer, NEW k, Replays(d, t, e, answer, k)
    PROVE  SeenInv'
<1> DEFINE j == job[d][t]
<1>1. /\ e \in Entries /\ e.op \in Ops /\ Called(e.op, answer, {}) /\ answer \in Answers
      /\ Moves(d, t, k) /\ UNCHANGED localVars /\ e \in j.queue /\ j \in ReplayJobs /\ j.at = "replay"
  BY DEF Replays, Entries
<1>2. \A x \in j.queue : OpKnown(sec, x.op) /\ x.op \in Ops
  BY <1>1 DEF SeenInv, JobKnown, ReplayJobs, Entries
<1>3. Grows /\ NoBlindOverwrite'
  BY <1>1, <1>2, CalledGrows, NotBlind
<1>4. \A x \in j.queue : OpKnown(sec', x.op)
  BY <1>2, <1>3, OpGrows
<1>5. JobKnown(sec', k)
  <2>1. CASE answer = "ok"
    <3>1. /\ k \in ReplayJobs /\ k.queue = j.queue \ {e} /\ Executed(e.op)
          /\ ToSet(k.todo) \subseteq Clean(e.op) \cup {RemoveEntry(e.id)}
      BY <1>1, <2>1 DEF Replays, Called
    <3>2. k.at = "replay"
      BY <3>1 DEF ReplayJobs
    <3>3. \A st \in ToSet(k.todo) : StKnown(sec', st)
      BY <1>1, <3>1, CleanKnown
    <3> QED BY <1>4, <3>1, <3>2, <3>3 DEF JobKnown
  <2>2. CASE answer = "conflict"
    <3>1. k \in ReplayJobs /\ k.queue = j.queue \ {e} /\ ToSet(k.todo) = {MarkConflict(e.id)}
      BY <1>1, <2>2 DEF Replays
    <3>2. k.at = "replay"
      BY <3>1 DEF ReplayJobs
    <3>3. \A st \in ToSet(k.todo) : StKnown(sec', st)
      BY <3>1 DEF StKnown, MarkConflict
    <3> QED BY <1>4, <3>1, <3>2, <3>3 DEF JobKnown
  <2>3. CASE answer \notin {"ok", "conflict"}
    <3>1. k = Idle
      BY <2>3 DEF Replays
    <3> QED BY <3>1, IdleKnown
  <2> QED BY <2>1, <2>2, <2>3
<1> QED BY <1>1, <1>3, <1>5, SeenStep

\* What is left of a job's statements is known as before.
LEMMA ContinuesKnown ==
    ASSUME NEW S, NEW j, JobKnown(S, j), j.at \in {"requeue", "finish", "stmts", "replay"},
           NEW rest, \A st \in ToSet(rest) : StKnown(S, st), NEW k, Continues(j, rest, k)
    PROVE  JobKnown(S, k)
<1>1. CASE k = Idle
  BY <1>1, IdleKnown
<1>2. CASE k # Idle
  <2>1. /\ k.at = j.at /\ k.todo = rest /\ (j.at = "requeue" => k.op = j.op)
        /\ (j.at = "replay" => k.queue = j.queue)
    BY <1>2 DEF Continues
  <2> QED BY <2>1 DEF JobKnown
<1> QED BY <1>1, <1>2

LEMMA StepsJob ==
    ASSUME SyncType, NEW S, NEW d \in Devices, NEW t \in Threads, NEW st, NEW k, Steps(d, t, st, k),
           JobKnown(S, job[d][t])
    PROVE  JobKnown(S, k) /\ StKnown(S, st)
<1> DEFINE j == job[d][t]
           rest == Tail(j.todo)
<1>1. /\ j.at \in {"requeue", "finish", "stmts", "replay"} /\ st \in Statements /\ rest \in Todos
      /\ ToSet(j.todo) = {st} \cup ToSet(rest) /\ Performs(d, t, st, k)
  BY DEF Steps
<1>2. StKnown(S, st) /\ \A x \in ToSet(rest) : StKnown(S, x)
  BY <1>1 DEF JobKnown
<1> HIDE DEF rest
<1>3. CASE Continues(j, rest, k)
  BY <1>1, <1>2, <1>3, ContinuesKnown
<1>4. CASE st.do = "load" /\ Continues(j, <<SetIndex(st.s, st.enc, st.version)>> \o rest, k)
  <2> DEFINE I == SetIndex(st.s, st.enc, st.version)
             L == <<I>>
             more == L \o rest
  <2>1. st \in Tiers
    BY <1>1, <1>4, StatementKinds
  <2>2. I \in Statements
    BY <2>1, TierOK DEF Tiers
  <2>3. I.do = "index"
    BY DEF SetIndex
  <2>4. Continues(j, more, k)
    BY <1>4
  <2> HIDE DEF I
  <2>5. L \in Seq(Statements) /\ ToSet(L) = {I}
    BY <2>2 DEF ToSet
  <2> HIDE DEF L
  <2>6. ToSet(more) = {I} \cup ToSet(rest)
    BY <1>1, <2>5, Concat DEF Todos
  <2> HIDE DEF more
  <2>7. StKnown(S, I)
    BY <2>3 DEF StKnown
  <2>8. \A x \in ToSet(more) : StKnown(S, x)
    BY <1>2, <2>6, <2>7
  <2>9. JobKnown(S, k)
    BY <1>1, <2>4, <2>8, ContinuesKnown
  <2> QED BY <1>2, <2>9
<1>5. CASE st.do = "enqueue" /\ k.at = "open" /\ k.op = st.op /\ k.todo = <<>>
  BY <1>2, <1>5, EmptyTodo DEF JobKnown, StKnown
<1>6. CASE k = Idle
  BY <1>2, <1>6, IdleKnown
<1> QED BY <1>1, <1>3, <1>4, <1>5, <1>6 DEF Performs, rest

LEMMA RowAfterKnown ==
    ASSUME NEW S, NEW row \in CacheRows, NEW st \in Statements, StKnown(S, st),
           st.do \in {"upsert", "index", "payload", "deleterow"}, RowKnown(S, st.s, row)
    PROVE  RowKnown(S, st.s, RowAfter(row, st))
<1>1. CASE st.do = "upsert"
  <2> DEFINE r == RowAfter(row, st)
  <2>1. r.version = st.version /\ r.row = st.enc /\ r.dirty = st.dirty
    BY <1>1 DEF RowAfter, UpsertSecretRow
  <2> HIDE DEF r
  <2>2. RowKnown(S, st.s, r)
    BY <1>1, <2>1 DEF RowKnown, StKnown
  <2> QED BY <2>2 DEF r
<1>2. CASE st.do \in {"index", "payload"}
  <2> DEFINE r == RowAfter(row, st)
  <2>1. r = row \/ r = [row EXCEPT !.index = st.enc] \/ r = [row EXCEPT !.payload = st.enc]
    BY <1>2 DEF RowAfter, SetSecretIndex, SetSecretPayload
  <2>2. r.version = row.version /\ r.row = row.row /\ r.dirty = row.dirty
    BY <2>1 DEF CacheRows
  <2> HIDE DEF r
  <2>3. RowKnown(S, st.s, r)
    BY <2>2 DEF RowKnown, Cached
  <2> QED BY <2>3 DEF r
<1>3. CASE st.do = "deleterow"
  <2>1. RowAfter(row, st) = NoRow
    BY <1>3 DEF RowAfter
  <2>2. ~Cached(NoRow)
    BY DEF Cached, NoRow
  <2> QED BY <2>1, <2>2 DEF RowKnown
<1> QED BY <1>1, <1>2, <1>3

LEMMA StatementSeen ==
    ASSUME SyncType, SyncType', SeenInv, NEW d \in Devices, NEW t \in Threads, NEW st, NEW k,
           Steps(d, t, st, k)
    PROVE  SeenInv'
<1>1. /\ st \in Statements /\ Performs(d, t, st, k) /\ sec' = sec /\ Moves(d, t, k)
      /\ JobKnown(sec, job[d][t])
  BY DEF Steps, SeenInv, serverVars
<1>2. JobKnown(sec, k) /\ StKnown(sec, st)
  BY <1>1, StepsJob
<1>3. ASSUME NEW e \in Devices, NEW u \in Threads PROVE JobKnown(sec', job'[e][u])
  BY <1>1, <1>2 DEF SeenInv, Moves
<1>4. ASSUME NEW e \in Devices, NEW s \in Secrets PROVE RowKnown(sec', s, cache'[e][s])
  <2>1. RowKnown(sec, s, cache[e][s]) /\ cache[e][s] \in CacheRows
    BY DEF SeenInv, SyncType
  <2>2. CASE UNCHANGED cache
    BY <1>1, <2>1, <2>2
  <2>3. CASE /\ st.do \in {"upsert", "index", "payload", "deleterow"}
             /\ cache' = [cache EXCEPT ![d][st.s] = RowAfter(@, st)]
    <3>1. st.s \in Secrets
      BY <1>1, <2>3, StatementKinds DEF Upserts, Tiers
    <3>2. CASE e = d /\ s = st.s
      <4>1. cache'[e][s] = RowAfter(cache[e][s], st)
        BY <2>3, <3>1, <3>2 DEF SyncType
      <4>2. RowKnown(sec, st.s, RowAfter(cache[e][s], st))
        BY <1>1, <1>2, <2>1, <2>3, <3>2, RowAfterKnown
      <4> QED BY <1>1, <3>2, <4>1, <4>2
    <3>3. CASE e # d \/ s # st.s
      <4>1. cache'[e][s] = cache[e][s]
        BY <2>3, <3>1, <3>3 DEF SyncType
      <4> QED BY <1>1, <2>1, <4>1
    <3> QED BY <3>2, <3>3
  <2> QED BY <1>1, <2>2, <2>3 DEF Performs, localVars
<1>5. ASSUME NEW e \in Devices, NEW x \in outbox'[e] PROVE OpKnown(sec', x.op)
  <2>0. outbox \in [Devices -> SUBSET Entries]
    BY DEF SyncType
  <2>1. \A y \in outbox[e] : OpKnown(sec', y.op)
    BY <1>1 DEF SeenInv
  <2>2. CASE x \in outbox[e]
    BY <2>1, <2>2
  <2>3. CASE /\ st.do = "enqueue"
             /\ outbox' = [outbox EXCEPT ![d] = EnqueueOutbox(@, nextId[d], st.op, st.status)]
    <3>1. x \in outbox[e] \/ x = [id |-> nextId[d], op |-> st.op, status |-> st.status]
      BY <2>0, <2>3 DEF EnqueueOutbox
    <3>2. x \in outbox[e] \/ x.op = st.op
      BY <3>1
    <3> QED BY <1>1, <1>2, <2>1, <2>3, <3>2 DEF StKnown
  <2>4. CASE outbox' = [outbox EXCEPT ![d] = RemoveOutbox(@, st.id)]
    BY <2>0, <2>1, <2>4 DEF RemoveOutbox
  <2>5. CASE outbox' = [outbox EXCEPT ![d] = SetOutboxStatus(@, st.id, "conflict")]
    <3>1. \E y \in outbox[e] : x = y \/ x = [y EXCEPT !.status = "conflict"]
      BY <2>0, <2>5 DEF SetOutboxStatus
    <3>2. \E y \in outbox[e] : x.op = y.op
      BY <2>0, <3>1 DEF Entries
    <3> QED BY <2>1, <3>2
  <2> QED BY <1>1, <2>2, <2>3, <2>4, <2>5 DEF Performs, localVars
<1>6. NoBlindOverwrite'
  <2>1. log'.blind = log.blind
    BY StepLog
  <2> QED BY <2>1 DEF SeenInv, NoBlindOverwrite
<1> QED BY <1>3, <1>4, <1>5, <1>6 DEF SeenInv

LEMMA SeenInit == ASSUME Init PROVE SeenInv
<1>1. \A d \in Devices, t \in Threads : JobKnown(sec, job[d][t])
  BY IdleKnown DEF Init
<1>2. \A d \in Devices, s \in Secrets : RowKnown(sec, s, cache[d][s])
  <2>1. ~Cached(NoRow)
    BY DEF Cached, NoRow
  <2> QED BY <2>1 DEF Init, RowKnown
<1>3. \A d \in Devices : outbox[d] = {}
  BY DEF Init
<1>4. NoBlindOverwrite
  BY DEF Init, NoBlindOverwrite
<1> QED BY <1>1, <1>2, <1>3, <1>4 DEF SeenInv

LEMMA SeenNext == ASSUME SyncType, SyncType', SeenInv, [Next]_vars PROVE SeenInv'
<1>1. CASE Next
  <2>1. PICK d \in Devices :
             \/ Kills(d)
             \/ \E t \in Threads :
                 \/ \E op : Submits(d, t, op)
                 \/ \E e, k : Opens(d, t, e, k)
                 \/ \E k : Starts(d, t, k) \/ Reads(d, t, k) \/ Decides(d, t, k)
                 \/ \E op, id, answer, k : Asks(d, t, op, id, answer, k)
                 \/ \E e, answer, k : Replays(d, t, e, answer, k)
                 \/ \E st, k : Steps(d, t, st, k)
    BY <1>1, StepKinds
  <2>2. CASE Kills(d)
    <3>1. sec' = sec /\ cache' = cache /\ outbox' = outbox /\ log'.blind = log.blind
      BY <2>2 DEF Kills, serverVars, localVars
    <3>2. \A e \in Devices, t \in Threads : job'[e][t] = Idle \/ job'[e][t] = job[e][t]
      BY <2>2 DEF Kills
    <3> QED BY <3>1, <3>2, IdleKnown DEF SeenInv, NoBlindOverwrite
  <2>3. ASSUME NEW t \in Threads, NEW k, Moves(d, t, k), UNCHANGED <<serverVars, localVars>>,
               JobKnown(sec, k), log'.blind = log.blind
        PROVE  SeenInv'
    <3>1. sec' = sec /\ UNCHANGED localVars
      BY <2>3 DEF serverVars
    <3>2. Grows /\ JobKnown(sec', k) /\ NoBlindOverwrite'
      BY <2>3, <3>1 DEF Grows, NoBlindOverwrite, SeenInv
    <3> QED BY <2>3, <3>1, <3>2, SeenStep
  <2>4. ASSUME NEW t \in Threads, NEW op, Submits(d, t, op) PROVE SeenInv'
    <3> DEFINE k == Sending(op, 0)
    <3>1. k.at = "send" /\ k.op = op /\ k.todo = <<>>
      BY DEF Sending
    <3>2. op \in Ops /\ op.s \in Secrets
      BY <2>4, OpFacts DEF Submits
    <3>3. OpKnown(sec, op)
      BY <2>4, <3>2 DEF Submits, SeenInv, RowKnown, OpKnown
    <3>4. Moves(d, t, k) /\ UNCHANGED <<serverVars, localVars>> /\ log'.blind = log.blind
      BY <2>4 DEF Submits
    <3> HIDE DEF k
    <3>5. JobKnown(sec, k)
      BY <3>1, <3>3, EmptyTodo DEF JobKnown
    <3> QED BY <2>3, <3>4, <3>5
  <2>5. ASSUME NEW t \in Threads, NEW e, NEW k, Opens(d, t, e, k) PROVE SeenInv'
    <3>1. JobKnown(sec, k)
      BY <2>5, EmptyTodo DEF Opens, JobKnown, SeenInv
    <3> QED BY <2>3, <2>5, <3>1 DEF Opens
  <2>6. ASSUME NEW t \in Threads, NEW k, Starts(d, t, k) PROVE SeenInv'
    <3>1. JobKnown(sec, k)
      BY <2>6, EmptyTodo DEF Starts, JobKnown, SeenInv, Pending
    <3> QED BY <2>3, <2>6, <3>1 DEF Starts
  <2>7. ASSUME NEW t \in Threads, NEW k, Reads(d, t, k) PROVE SeenInv'
    <3>1. JobKnown(sec, k)
      BY <2>7 DEF Reads, SeenInv
    <3> QED BY <2>3, <2>7, <3>1 DEF Reads
  <2>8. ASSUME NEW t \in Threads, NEW k, Decides(d, t, k) PROVE SeenInv'
    <3> DEFINE j == job[d][t]
    <3>1. j.at = "card" /\ JobKnown(sec, j) /\ Moves(d, t, k) /\ UNCHANGED <<serverVars, localVars>>
      BY <2>8 DEF Decides, SeenInv
    <3>2. Known(sec, j.op.s, j.version, j.theirs.w)
      BY <3>1 DEF JobKnown
    <3>3. log'.blind = log.blind
      BY <2>8 DEF Decides, Refused, SyncType, LogSet
    <3>4. JobKnown(sec, k)
      <4>1. CASE /\ k.at = "send" /\ k.todo = <<>>
                 /\ k.op.s = j.op.s /\ k.op.base = j.version /\ k.op.seen = j.theirs.w
        BY <3>2, <4>1, EmptyTodo DEF JobKnown, OpKnown
      <4>2. CASE /\ k.at = "stmts"
                 /\ ToSet(k.todo) = {Upsert(j.op.s, j.theirs, j.theirs, j.version, FALSE),
                              SetIndex(j.op.s, j.theirs, j.version),
                              SetPayload(j.op.s, j.theirs, j.version)}
        <5>1. ASSUME NEW st \in ToSet(k.todo) PROVE StKnown(sec, st)
          BY <3>2, <4>2 DEF StKnown, Upsert, SetIndex, SetPayload
        <5> QED BY <4>2, <5>1 DEF JobKnown
      <4>3. CASE k = Idle
        BY <4>3, IdleKnown
      <4> QED BY <2>8, <4>1, <4>2, <4>3 DEF Decides
    <3> QED BY <2>3, <3>1, <3>3, <3>4
  <2>9. ASSUME NEW t \in Threads, NEW op, NEW id, NEW answer, NEW k, Asks(d, t, op, id, answer, k)
        PROVE  SeenInv'
    BY <2>9, AsksSeen
  <2>10. ASSUME NEW t \in Threads, NEW e, NEW answer, NEW k, Replays(d, t, e, answer, k)
         PROVE  SeenInv'
    BY <2>10, ReplaysSeen
  <2>11. ASSUME NEW t \in Threads, NEW st, NEW k, Steps(d, t, st, k) PROVE SeenInv'
    BY <2>11, StatementSeen
  <2> QED BY <2>1, <2>2, <2>4, <2>5, <2>6, <2>7, <2>8, <2>9, <2>10, <2>11
<1>2. CASE UNCHANGED vars
  BY <1>2 DEF vars, serverVars, localVars, SeenInv, NoBlindOverwrite
<1> QED BY <1>1, <1>2

\* Whatever knows a version of a secret knows its content, as long as the version is the
\* server's: the base version of a change stands for what its author saw.
THEOREM SeenInvariance == Spec => []SeenInv
BY SyncTypeInvariance, SeenInit, SeenNext, PTL DEF Spec

\* A change made on content the server knew replaces only what its author had on the
\* screen, for any number of devices and any order of replays and conflicts (generic.go).
THEOREM NothingOverwrittenUnseen == Spec => []NoBlindOverwrite
<1>1. SeenInv => NoBlindOverwrite
  BY DEF SeenInv
<1> QED BY <1>1, SeenInvariance, PTL

----------------------------------------------------------------------------
(* Layer 3: who has a change. *)

Settled(lg, w) == w \in lg.applied \cup lg.refused \cup lg.killed

Enqueues(j, w) == \E st \in ToSet(j.todo) : st.do = "enqueue" /\ st.op.enc.w = w

\* retryOutboxUpdate has not found its entry yet, and ends if it does not find it.
Marking(j) == j.at = "requeue" /\ j.todo # <<>> /\ Head(j.todo).do = "status"

\* The job has the change for itself and will not end without it.
Owns(j, w) ==
    \/ j.at \in {"send", "card"} /\ j.id = 0 /\ j.op.enc.w = w
    \/ ~Marking(j) /\ Enqueues(j, w)

\* On a device with the jobs js and the entries es: the change w is settled, a job has
\* it, or an entry younger than i.
Kept(js, es, lg, w, i) ==
    \/ Settled(lg, w)
    \/ \E t \in Threads : Owns(js[t], w)
    \/ \E e \in es : e.op.enc.w = w /\ e.id > i

\* All entries that have the id are of the change w; n is the next id.
Tied(es, n, id, w) == id < n /\ \A e \in es : e.id = id => e.op.enc.w = w

\* An entry is removed only for a change that is kept without it.
JobKept(js, es, n, lg, j) ==
    /\ j.at \in {"send", "card", "open"} /\ j.id # 0 => Tied(es, n, j.id, j.op.enc.w)
    /\ j.at = "replay" => \A q \in j.queue : Tied(es, n, q.id, q.op.enc.w)
    /\ j.at = "requeue" => /\ j.todo # <<>>
                           /\ \A st \in ToSet(Tail(j.todo)) : st.do # "status"
    /\ \A st \in ToSet(j.todo) :
        /\ st.do = "status" => j.at \in {"replay", "requeue"}
        /\ st.do = "enqueue" => j.at # "replay"
        /\ st.do = "remove" =>
            /\ st.id < n
            /\ \A e \in es : e.id = st.id =>
                IF Marking(j) THEN Enqueues(j, e.op.enc.w) ELSE Kept(js, es, lg, e.op.enc.w, e.id)

\* AUTOINCREMENT: entries with one id are of one change, and n is larger than all ids.
Numbered(es, n) ==
    /\ \A e \in es : e.id < n
    /\ \A e, f \in es : e.id = f.id => e.op.enc.w = f.op.enc.w

KeptInv ==
    /\ \A d \in Devices, t \in Threads : JobKept(job[d], outbox[d], nextId[d], log, job[d][t])
    /\ \A d \in Devices : Numbered(outbox[d], nextId[d])
    /\ \A w \in log.asked : \E d \in Devices : Kept(job[d], outbox[d], log, w, 0)

----------------------------------------------------------------------------
(* What one step of a thread must leave, and why that is enough. *)

\* Whatever was kept on the device is kept, and what is new in the outbox has a new id.
GrowsIn(js, es, n, lg, js2, es2, n2, lg2) ==
    /\ n <= n2
    /\ \A w \in 1 .. MaxWrites, i \in Nat :
        i < n /\ Kept(js, es, lg, w, i) => Kept(js2, es2, lg2, w, i)
    /\ \A x \in es2 : x.id >= n \/ \E y \in es : y.id = x.id /\ y.op.enc.w = x.op.enc.w

LEMMA EntryFacts ==
    ASSUME NEW e \in Entries
    PROVE  e.id \in Nat \ {0} /\ e.op \in Ops /\ e.op.enc.w \in 1 .. MaxWrites
BY OpFacts DEF Entries

LEMMA JobStillKept ==
    ASSUME NEW js, NEW js2, NEW es \in SUBSET Entries, NEW es2 \in SUBSET Entries,
           NEW n \in Nat, NEW n2 \in Nat, NEW lg, NEW lg2,
           GrowsIn(js, es, n, lg, js2, es2, n2, lg2),
           NEW j \in JobSet, JobKept(js, es, n, lg, j)
    PROVE  JobKept(js2, es2, n2, lg2, j)
<1>1. ASSUME NEW id \in Nat, NEW w, Tied(es, n, id, w) PROVE Tied(es2, n2, id, w)
  <2>1. id < n /\ n <= n2 /\ \A e \in es : e.id = id => e.op.enc.w = w
    BY <1>1 DEF Tied, GrowsIn
  <2>2. ASSUME NEW x \in es2, x.id = id PROVE x.op.enc.w = w
    <3>1. PICK y \in es : y.id = x.id /\ y.op.enc.w = x.op.enc.w
      BY <2>1, <2>2 DEF GrowsIn
    <3> QED BY <2>1, <2>2, <3>1
  <2> QED BY <2>1, <2>2 DEF Tied
<1>2. j.at \in {"send", "card", "open"} /\ j.id # 0 => Tied(es2, n2, j.id, j.op.enc.w)
  <2>1. j.at \in {"send", "card", "open"} => j.id \in Nat
    BY JobKinds DEF SendJobs, CardJobs, OpenJobs
  <2> QED BY <1>1, <2>1 DEF JobKept
<1>3. j.at = "replay" => \A q \in j.queue : Tied(es2, n2, q.id, q.op.enc.w)
  <2>1. j.at = "replay" => \A q \in j.queue : q.id \in Nat
    BY JobKinds DEF ReplayJobs, Entries
  <2> QED BY <1>1, <2>1 DEF JobKept
<1>4. ASSUME NEW st \in ToSet(j.todo), st.do = "remove"
      PROVE  /\ st.id < n2
             /\ \A e \in es2 : e.id = st.id =>
                 IF Marking(j) THEN Enqueues(j, e.op.enc.w) ELSE Kept(js2, es2, lg2, e.op.enc.w, e.id)
  <2>1. st \in Statements
    BY JobKinds, TodoStatements
  <2>2. st.id \in Nat /\ st.id < n /\ n <= n2
    BY <1>4, <2>1, StatementKinds DEF JobKept, GrowsIn
  <2>3. ASSUME NEW x \in es2, x.id = st.id
        PROVE  IF Marking(j) THEN Enqueues(j, x.op.enc.w) ELSE Kept(js2, es2, lg2, x.op.enc.w, x.id)
    <3>1. PICK y \in es : y.id = x.id /\ y.op.enc.w = x.op.enc.w
      BY <2>2, <2>3 DEF GrowsIn
    <3>2. IF Marking(j) THEN Enqueues(j, y.op.enc.w) ELSE Kept(js, es, lg, y.op.enc.w, y.id)
      BY <1>4, <2>3, <3>1 DEF JobKept
    <3>3. x.op.enc.w \in 1 .. MaxWrites
      BY EntryFacts
    <3>4. CASE Marking(j)
      BY <3>1, <3>2, <3>4
    <3>5. CASE ~Marking(j)
      <4>1. Kept(js, es, lg, x.op.enc.w, st.id)
        BY <2>3, <3>1, <3>2, <3>5
      <4>2. Kept(js2, es2, lg2, x.op.enc.w, st.id)
        BY <2>2, <3>3, <4>1 DEF GrowsIn
      <4> QED BY <2>3, <3>5, <4>2
    <3> QED BY <3>4, <3>5
  <2> QED BY <2>2, <2>3
<1> QED BY <1>2, <1>3, <1>4 DEF JobKept

\* The state of a device, as the lemmas above want it.
LEMMA DeviceFacts ==
    ASSUME SyncType, NEW d \in Devices
    PROVE  /\ outbox[d] \in SUBSET Entries /\ nextId[d] \in Nat /\ nextId[d] > 0
           /\ \A t \in Threads : job[d][t] \in JobSet
BY DEF SyncType

LEMMA DeviceFactsNext ==
    ASSUME SyncType', NEW d \in Devices
    PROVE  /\ outbox'[d] \in SUBSET Entries /\ nextId'[d] \in Nat /\ nextId'[d] > 0
           /\ \A t \in Threads : job'[d][t] \in JobSet
BY DEF SyncType

LEMMA KeptStep ==
    ASSUME SyncType, SyncType', KeptInv, NEW d \in Devices, NEW t \in Threads, NEW k, Moves(d, t, k),
           \A w \in 1 .. MaxWrites : Settled(log, w) => Settled(log', w),
           \A e \in Devices : e # d => outbox'[e] = outbox[e] /\ nextId'[e] = nextId[e],
           GrowsIn(job[d], outbox[d], nextId[d], log, job'[d], outbox'[d], nextId'[d], log'),
           Numbered(outbox'[d], nextId'[d]),
           JobKept(job'[d], outbox'[d], nextId'[d], log', k),
           \A w \in log'.asked : w \in log.asked \/ Owns(k, w)
    PROVE  KeptInv'
<1>1. ASSUME NEW e \in Devices
      PROVE  GrowsIn(job[e], outbox[e], nextId[e], log, job'[e], outbox'[e], nextId'[e], log')
  <2>1. CASE e = d
    BY <2>1
  <2>2. CASE e # d
    <3>1. outbox'[e] = outbox[e] /\ nextId'[e] = nextId[e] /\ \A u \in Threads : job'[e][u] = job[e][u]
      BY <2>2 DEF Moves
    <3>2. nextId[e] \in Nat
      BY DeviceFacts
    <3>3. ASSUME NEW w \in 1 .. MaxWrites, NEW i \in Nat, Kept(job[e], outbox[e], log, w, i)
          PROVE  Kept(job'[e], outbox'[e], log', w, i)
      BY <3>1, <3>3 DEF Kept
    <3> QED BY <3>1, <3>2, <3>3 DEF GrowsIn
  <2> QED BY <2>1, <2>2
<1>2. ASSUME NEW e \in Devices, NEW u \in Threads
      PROVE  JobKept(job'[e], outbox'[e], nextId'[e], log', job'[e][u])
  <2>1. CASE e = d /\ u = t
    BY <2>1 DEF Moves
  <2>2. CASE e # d \/ u # t
    <3>1. job'[e][u] = job[e][u] /\ JobKept(job[e], outbox[e], nextId[e], log, job[e][u])
      BY <2>2 DEF Moves, KeptInv
    <3>2. /\ outbox[e] \in SUBSET Entries /\ outbox'[e] \in SUBSET Entries
          /\ nextId[e] \in Nat /\ nextId'[e] \in Nat /\ job[e][u] \in JobSet
      BY DeviceFacts, DeviceFactsNext
    <3> QED BY <1>1, <3>1, <3>2, JobStillKept
  <2> QED BY <2>1, <2>2
<1>3. ASSUME NEW e \in Devices PROVE Numbered(outbox'[e], nextId'[e])
  BY DEF KeptInv
<1>4. ASSUME NEW w \in log'.asked
      PROVE  \E e \in Devices : Kept(job'[e], outbox'[e], log', w, 0)
  <2>1. CASE w \in log.asked
    <3>1. PICK e \in Devices : Kept(job[e], outbox[e], log, w, 0)
      BY <2>1 DEF KeptInv
    <3>2. w \in 1 .. MaxWrites /\ 0 < nextId[e]
      BY <2>1, DeviceFacts DEF SyncType, LogSet
    <3> QED BY <1>1, <3>1, <3>2 DEF GrowsIn
  <2>2. CASE Owns(k, w)
    <3>1. job'[d][t] = k
      BY DEF Moves
    <3>2. Kept(job'[d], outbox'[d], log', w, 0)
      BY <2>2, <3>1 DEF Kept
    <3> QED BY <3>2
  <2> QED BY <2>1, <2>2
<1> QED BY <1>2, <1>3, <1>4 DEF KeptInv

\* The same for a step that leaves the local database alone.
LEMMA KeptHere ==
    ASSUME SyncType, SyncType', KeptInv, NEW d \in Devices, NEW t \in Threads, NEW k, Moves(d, t, k),
           UNCHANGED localVars,
           \A w \in 1 .. MaxWrites : Settled(log, w) => Settled(log', w),
           \A w \in 1 .. MaxWrites : Owns(job[d][t], w) => Settled(log', w) \/ Owns(k, w),
           JobKept(job'[d], outbox[d], nextId[d], log', k),
           \A w \in log'.asked : w \in log.asked \/ Owns(k, w)
    PROVE  KeptInv'
<1>1. outbox' = outbox /\ nextId' = nextId
  BY DEF localVars
<1>2. ASSUME NEW w \in 1 .. MaxWrites, NEW i \in Nat, Kept(job[d], outbox[d], log, w, i)
      PROVE  Kept(job'[d], outbox'[d], log', w, i)
  <2>1. ASSUME NEW u \in Threads, Owns(job[d][u], w)
        PROVE  Settled(log', w) \/ \E v \in Threads : Owns(job'[d][v], w)
    <3>1. CASE u = t
      BY <2>1, <3>1 DEF Moves
    <3>2. CASE u # t
      BY <2>1, <3>2 DEF Moves
    <3> QED BY <3>1, <3>2
  <2> QED BY <1>1, <1>2, <2>1 DEF Kept
<1>3. nextId[d] \in Nat
  BY DeviceFacts
<1>4. GrowsIn(job[d], outbox[d], nextId[d], log, job'[d], outbox'[d], nextId'[d], log')
  BY <1>1, <1>2, <1>3 DEF GrowsIn
<1>5. Numbered(outbox'[d], nextId'[d])
  BY <1>1 DEF KeptInv
<1> QED BY <1>1, <1>4, <1>5, KeptStep

----------------------------------------------------------------------------
(* The steps of the user, the reads, and the calls of the server. *)

LEMMA IdleKept ==
    /\ Idle.at = "idle" /\ ToSet(Idle.todo) = {}
    /\ \A w : ~Owns(Idle, w)
    /\ \A js, es, n, lg : JobKept(js, es, n, lg, Idle)
<1>1. Idle.at = "idle" /\ ToSet(Idle.todo) = {}
  BY EmptyTodo DEF Idle
<1>2. ASSUME NEW w PROVE ~Owns(Idle, w)
  BY <1>1 DEF Owns, Enqueues
<1>3. ASSUME NEW js, NEW es, NEW n, NEW lg PROVE JobKept(js, es, n, lg, Idle)
  BY <1>1 DEF JobKept
<1> QED BY <1>1, <1>2, <1>3

\* A job in a call or on a card: it owns its change unless an entry of the outbox has it.
LEMMA WaitingOwns ==
    ASSUME NEW j, ToSet(j.todo) = {}, NEW w
    PROVE  Owns(j, w) <=> j.at \in {"send", "card"} /\ j.id = 0 /\ j.op.enc.w = w
BY DEF Owns, Enqueues

LEMMA WaitingKept ==
    ASSUME NEW js, NEW es, NEW n, NEW lg, NEW j, ToSet(j.todo) = {}, j.at \in {"send", "card", "open"},
           j.id # 0 => Tied(es, n, j.id, j.op.enc.w)
    PROVE  JobKept(js, es, n, lg, j)
BY DEF JobKept

LEMMA UserKept ==
    ASSUME SyncType, SyncType', KeptInv, NEW d \in Devices, NEW t \in Threads, NEW k,
           \/ \E op : Submits(d, t, op) /\ k = Sending(op, 0)
           \/ \E e : Opens(d, t, e, k)
           \/ Starts(d, t, k)
    PROVE  KeptInv'
<1>0. ASSUME NEW w PROVE ~Owns(Idle, w)
  BY IdleKept
<1>1. CASE \E op : Submits(d, t, op) /\ k = Sending(op, 0)
  <2>1. PICK op : Submits(d, t, op) /\ k = Sending(op, 0)
    BY <1>1
  <2>2. k.at = "send" /\ k.op = op /\ k.id = 0 /\ ToSet(k.todo) = {}
    BY <2>1, EmptyTodo DEF Sending
  <2>3. /\ Moves(d, t, k) /\ job[d][t] = Idle /\ UNCHANGED localVars
        /\ log'.asked = log.asked \cup {op.enc.w} /\ log'.applied = log.applied
        /\ log'.refused = log.refused /\ log'.killed = log.killed
    BY <2>1 DEF Submits
  <2>4. Owns(k, op.enc.w)
    BY <2>2 DEF Owns
  <2>5. JobKept(job'[d], outbox[d], nextId[d], log', k)
    BY <2>2, WaitingKept
  <2>6. \A w \in 1 .. MaxWrites : Settled(log, w) => Settled(log', w)
    BY <2>3 DEF Settled
  <2> QED BY <1>0, <2>3, <2>4, <2>5, <2>6, KeptHere
<1>2. CASE \E e : Opens(d, t, e, k)
  <2>1. PICK e : Opens(d, t, e, k)
    BY <1>2
  <2>2. /\ k.at = "open" /\ k.op = e.op /\ k.id = e.id /\ ToSet(k.todo) = {} /\ e \in outbox[d]
        /\ Moves(d, t, k) /\ job[d][t] = Idle /\ UNCHANGED localVars /\ log' = log
    BY <2>1, EmptyTodo DEF Opens
  <2>3. Tied(outbox[d], nextId[d], k.id, k.op.enc.w)
    BY <2>2 DEF Tied, KeptInv, Numbered
  <2>4. JobKept(job'[d], outbox[d], nextId[d], log', k)
    BY <2>2, <2>3, WaitingKept
  <2> QED BY <1>0, <2>2, <2>4, KeptHere
<1>3. CASE Starts(d, t, k)
  <2>1. /\ k.at = "replay" /\ k.queue = Pending(outbox[d]) /\ ToSet(k.todo) = {}
        /\ Moves(d, t, k) /\ job[d][t] = Idle /\ UNCHANGED localVars /\ log' = log
    BY <1>3, EmptyTodo DEF Starts
  <2>2. ASSUME NEW q \in k.queue PROVE Tied(outbox[d], nextId[d], q.id, q.op.enc.w)
    <3>1. q \in outbox[d]
      BY <2>1 DEF Pending
    <3> QED BY <3>1 DEF Tied, KeptInv, Numbered
  <2>3. JobKept(job'[d], outbox[d], nextId[d], log', k)
    BY <2>1, <2>2 DEF JobKept
  <2> QED BY <1>0, <2>1, <2>3, KeptHere
<1> QED BY <1>1, <1>2, <1>3

LEMMA ReadsKept ==
    ASSUME SyncType, SyncType', KeptInv, NEW d \in Devices, NEW t \in Threads, NEW k, Reads(d, t, k)
    PROVE  KeptInv'
<1>1. /\ Reading(k) /\ Reading(job[d][t]) /\ Moves(d, t, k) /\ UNCHANGED localVars /\ log' = log
  BY DEF Reads
<1>2. ASSUME NEW w PROVE ~Owns(job[d][t], w)
  BY <1>1 DEF Reading, Owns, Enqueues
<1>3. JobKept(job'[d], outbox[d], nextId[d], log', k)
  BY <1>1 DEF Reading, JobKept
<1> QED BY <1>1, <1>2, <1>3, KeptHere

LEMMA DecidesKept ==
    ASSUME SyncType, SyncType', KeptInv, NEW d \in Devices, NEW t \in Threads, NEW k, Decides(d, t, k)
    PROVE  KeptInv'
<1> DEFINE j == job[d][t]
<1>1. /\ j.at = "card" /\ ToSet(j.todo) = {} /\ Moves(d, t, k) /\ UNCHANGED localVars
      /\ j.op.enc.w \in 1 .. MaxWrites
  BY EmptyTodo, OpFacts DEF Decides, CardJobs, Changes
<1>2. \A w : Owns(j, w) <=> j.id = 0 /\ j.op.enc.w = w
  BY <1>1, WaitingOwns
<1>3. j.id # 0 => Tied(outbox[d], nextId[d], j.id, j.op.enc.w)
  BY <1>1 DEF KeptInv, JobKept
<1>4. ASSUME Refused(j.op.enc.w)
      PROVE  /\ log'.asked = log.asked /\ Settled(log', j.op.enc.w)
             /\ \A w \in 1 .. MaxWrites : Settled(log, w) => Settled(log', w)
  <2>1. log \in LogSet
    BY DEF SyncType
  <2>2. /\ log'.asked = log.asked /\ log'.refused = log.refused \cup {j.op.enc.w}
        /\ log'.applied = log.applied /\ log'.killed = log.killed
    BY <1>4, <2>1 DEF Refused, LogSet
  <2> QED BY <2>2 DEF Settled
<1>5. CASE k.at = "send" /\ k.id = j.id /\ k.op.enc.w = j.op.enc.w /\ k.todo = <<>> /\ UNCHANGED log
  <2>1. ToSet(k.todo) = {}
    BY <1>5, EmptyTodo
  <2>2. JobKept(job'[d], outbox[d], nextId[d], log', k)
    BY <1>3, <1>5, <2>1, WaitingKept
  <2>3. \A w : Owns(j, w) => Owns(k, w)
    BY <1>2, <1>5 DEF Owns
  <2> QED BY <1>1, <1>5, <2>2, <2>3, KeptHere
<1>6. CASE /\ k.at = "stmts"
           /\ ToSet(k.todo) = {Upsert(j.op.s, j.theirs, j.theirs, j.version, FALSE),
                              SetIndex(j.op.s, j.theirs, j.version),
                              SetPayload(j.op.s, j.theirs, j.version)}
           /\ Refused(j.op.enc.w)
  <2>1. \A st \in ToSet(k.todo) : st.do \in {"upsert", "index", "payload"}
    BY <1>6 DEF Upsert, SetIndex, SetPayload
  <2>2. JobKept(job'[d], outbox[d], nextId[d], log', k)
    BY <1>6, <2>1 DEF JobKept
  <2> QED BY <1>1, <1>2, <1>4, <1>6, <2>2, KeptHere
<1>7. CASE k = Idle /\ IF j.id = 0 THEN Refused(j.op.enc.w) ELSE UNCHANGED log
  <2>1. JobKept(job'[d], outbox[d], nextId[d], log', k)
    BY <1>7, IdleKept
  <2>2. CASE j.id = 0
    BY <1>1, <1>2, <1>4, <1>7, <2>1, <2>2, KeptHere
  <2>3. CASE j.id # 0
    BY <1>1, <1>2, <1>7, <2>1, <2>3, KeptHere
  <2> QED BY <2>2, <2>3
<1> QED BY <1>5, <1>6, <1>7 DEF Decides

\* The history after a call.
LEMMA CalledSettles ==
    ASSUME NEW op, NEW answer, NEW refused, Called(op, answer, refused)
    PROVE  /\ log'.asked = log.asked
           /\ \A w : Settled(log, w) => Settled(log', w)
           /\ Executed(op) => Settled(log', op.enc.w)
           /\ Rejected(refused) => \A w \in refused : Settled(log', w)
BY DEF Called, Executed, Rejected, Settled

LEMMA CleanDo ==
    ASSUME NEW op, NEW st \in Clean(op)
    PROVE  st.do \in {"upsert", "index", "payload", "deleterow"}
BY DEF Clean, Upsert, SetIndex, SetPayload, DeleteRow

LEMMA DirtyDo ==
    ASSUME NEW op, NEW st \in Dirty(op)
    PROVE  st.do \in {"upsert", "index", "payload", "deleterow", "enqueue"}
BY DEF Dirty, Upsert, SetIndex, SetPayload, DeleteRow, Enqueue

\* The outcome of a request of the change op, of the entry id (0: of none).
LEMMA OutcomeKept ==
    ASSUME NEW js, NEW es \in SUBSET Entries, NEW n \in Nat, n > 0, NEW lg, NEW t \in Threads, NEW k, js[t] = k,
           NEW op \in Ops, NEW id \in Nat, NEW answer \in Answers, Outcome(op, id, answer, k),
           id # 0 => Tied(es, n, id, op.enc.w),
           answer = "ok" => Settled(lg, op.enc.w)
    PROVE  JobKept(js, es, n, lg, k)
<1>1. ASSUME NEW st, st \in Removal(id)
      PROVE  st.do = "remove" /\ st.id = id /\ id # 0
  BY <1>1 DEF Removal, RemoveEntry
<1>2. ASSUME k.at = "finish", \A st \in ToSet(k.todo) : st \in Removal(id) \/ st.do \notin {"remove", "status"},
             Settled(lg, op.enc.w) \/ Enqueues(k, op.enc.w)
      PROVE  JobKept(js, es, n, lg, k)
  <2>1. ~Marking(k)
    BY <1>2 DEF Marking
  <2>2. ASSUME NEW i PROVE Kept(js, es, lg, op.enc.w, i)
    BY <1>2, <2>1 DEF Kept, Owns
  <2>3. ASSUME NEW st \in ToSet(k.todo)
        PROVE  /\ st.do # "status"
               /\ st.do = "remove" => /\ st.id < n
                                      /\ \A e \in es : e.id = st.id => Kept(js, es, lg, e.op.enc.w, e.id)
    <3>1. CASE st \in Removal(id)
      BY <1>1, <2>2, <3>1 DEF Tied
    <3>2. CASE st.do \notin {"remove", "status"}
      BY <3>2
    <3> QED BY <1>2, <3>1, <3>2
  <2> QED BY <1>2, <2>1, <2>3 DEF JobKept
<1>3. CASE answer = "ok"
  <2>1. k.at = "finish" /\ ToSet(k.todo) \subseteq Clean(op) \cup Removal(id)
    BY <1>3 DEF Outcome, Applies, FinishJobs
  <2> QED BY <1>2, <1>3, <2>1, CleanDo
<1>4. CASE answer = "offline" /\ k # Idle
  <2>1. /\ k.at = "finish" /\ ToSet(k.todo) \subseteq Dirty(op) \cup Removal(id)
        /\ Enqueue(op, "pending") \in ToSet(k.todo)
    BY <1>4 DEF Outcome, Defers, FinishJobs
  <2>2. Enqueues(k, op.enc.w)
    <3>1. Enqueue(op, "pending").do = "enqueue" /\ Enqueue(op, "pending").op = op
      BY DEF Enqueue
    <3> QED BY <2>1, <3>1 DEF Enqueues
  <2> QED BY <1>2, <2>1, <2>2, DirtyDo
<1>5. CASE answer = "conflict"
  <2>1. ASSUME NEW i \in {0, id}, k = Card(op, i) PROVE JobKept(js, es, n, lg, k)
    <3>1. k.at = "card" /\ k.id = i /\ k.op = op /\ ToSet(k.todo) = {}
      BY <2>1, EmptyTodo DEF Card
    <3> QED BY <3>1, WaitingKept
  <2>2. ASSUME Requeues(op, id, k) PROVE JobKept(js, es, n, lg, k)
    <3>1. /\ k.at = "requeue" /\ k.todo \in Todos /\ k.todo # <<>> /\ id # 0
          /\ Head(k.todo) = MarkConflict(id)
          /\ ToSet(Tail(k.todo)) = {RemoveEntry(id), Enqueue(op, "conflict")}
      BY <2>2 DEF Requeues, RequeueJobs
    <3>2. ToSet(k.todo) = {MarkConflict(id), RemoveEntry(id), Enqueue(op, "conflict")}
      BY <3>1, HeadTail DEF Todos
    <3>3. /\ MarkConflict(id).do = "status" /\ RemoveEntry(id).do = "remove" /\ RemoveEntry(id).id = id
          /\ Enqueue(op, "conflict").do = "enqueue" /\ Enqueue(op, "conflict").op = op
      BY DEF MarkConflict, RemoveEntry, Enqueue
    <3>4. Marking(k) /\ Enqueues(k, op.enc.w)
      BY <3>1, <3>2, <3>3 DEF Marking, Enqueues
    <3>5. \A st \in ToSet(Tail(k.todo)) : st.do # "status"
      BY <3>1, <3>3
    <3>6. ASSUME NEW st \in ToSet(k.todo), st.do = "remove"
          PROVE  st.id < n /\ \A e \in es : e.id = st.id => Enqueues(k, e.op.enc.w)
      <4>1. st.id = id
        BY <3>2, <3>3, <3>6
      <4> QED BY <3>1, <3>4, <4>1 DEF Tied
    <3> QED BY <3>1, <3>4, <3>5, <3>6 DEF JobKept
  <2> QED BY <1>5, <2>1, <2>2 DEF Outcome
<1>6. CASE k = Idle
  BY <1>6, IdleKept
<1> QED BY <1>3, <1>4, <1>5, <1>6 DEF Outcome, Answers

LEMMA AsksKept ==
    ASSUME SyncType, SyncType', KeptInv, NEW d \in Devices, NEW t \in Threads,
           NEW op, NEW id, NEW answer, NEW k, Asks(d, t, op, id, answer, k)
    PROVE  KeptInv'
<1> DEFINE j == job[d][t]
           refused == Refuses(j, answer)
<1>1. /\ op \in Ops /\ id \in Nat /\ Called(op, answer, refused) /\ Outcome(op, id, answer, k)
      /\ Moves(d, t, k) /\ UNCHANGED localVars /\ answer \in Answers
      /\ j.at \in {"send", "open"} /\ op = j.op /\ id = j.id /\ ToSet(j.todo) = {}
  BY EmptyTodo DEF Asks
<1>2. \A w : Owns(j, w) <=> j.at = "send" /\ id = 0 /\ op.enc.w = w
  BY <1>1, WaitingOwns
<1>3. id # 0 => Tied(outbox[d], nextId[d], id, op.enc.w)
  BY <1>1 DEF KeptInv, JobKept
<1>4. /\ log'.asked = log.asked
      /\ \A w : Settled(log, w) => Settled(log', w)
      /\ Executed(op) => Settled(log', op.enc.w)
      /\ Rejected(refused) => \A w \in refused : Settled(log', w)
  BY <1>1, CalledSettles
<1>5. answer = "ok" => Settled(log', op.enc.w)
  BY <1>1, <1>4 DEF Called
<1>6. JobKept(job'[d], outbox[d], nextId[d], log', k)
  <2>1. job'[d][t] = k
    BY <1>1 DEF Moves
  <2> QED BY <1>1, <1>3, <1>5, <2>1, DeviceFacts, OutcomeKept
<1>7. ASSUME NEW w \in 1 .. MaxWrites, Owns(j, w) PROVE Settled(log', w) \/ Owns(k, w)
  <2>1. j.at = "send" /\ id = 0 /\ op.enc.w = w
    BY <1>2, <1>7
  <2>2. CASE answer = "ok"
    BY <1>5, <2>1, <2>2
  <2>3. CASE answer = "offline"
    <3>1. k.at = "finish" /\ Enqueue(op, "pending") \in ToSet(k.todo)
      BY <1>1, <2>1, <2>3 DEF Outcome, Defers, FinishJobs
    <3>2. Enqueue(op, "pending").do = "enqueue" /\ Enqueue(op, "pending").op = op
      BY DEF Enqueue
    <3> QED BY <2>1, <3>1, <3>2 DEF Owns, Marking, Enqueues
  <2>4. CASE answer = "conflict"
    <3>1. k = Card(op, 0)
      BY <1>1, <2>1, <2>4 DEF Outcome, Requeues
    <3> QED BY <2>1, <3>1 DEF Card, Owns
  <2>5. CASE answer \in {"notfound", "internal"}
    <3>1. refused = {w}
      BY <1>1, <2>1, <2>5 DEF Refuses
    <3>2. Executed(op) \/ Rejected(refused)
      BY <1>1 DEF Called
    <3> QED BY <1>4, <2>1, <3>1, <3>2
  <2> QED BY <1>1, <2>2, <2>3, <2>4, <2>5 DEF Answers
<1> QED BY <1>1, <1>4, <1>6, <1>7, KeptHere

LEMMA ReplaysKept ==
    ASSUME SyncType, SyncType', KeptInv, NEW d \in Devices, NEW t \in Threads,
           NEW e, NEW answer, NEW k, Replays(d, t, e, answer, k)
    PROVE  KeptInv'
<1> DEFINE j == job[d][t]
<1>1. /\ e \in Entries /\ Called(e.op, answer, {}) /\ answer \in Answers
      /\ Moves(d, t, k) /\ UNCHANGED localVars /\ e \in j.queue /\ j.at = "replay" /\ ToSet(j.todo) = {}
  BY EmptyTodo DEF Replays
<1>2. \A q \in j.queue : Tied(outbox[d], nextId[d], q.id, q.op.enc.w)
  BY <1>1 DEF KeptInv, JobKept
<1>3. \A w : ~Owns(j, w)
  BY <1>1, WaitingOwns
<1>4. /\ log'.asked = log.asked
      /\ \A w : Settled(log, w) => Settled(log', w)
      /\ Executed(e.op) => Settled(log', e.op.enc.w)
  BY <1>1, CalledSettles
<1>5. JobKept(job'[d], outbox[d], nextId[d], log', k)
  <2>1. CASE answer = "ok"
    <3>1. /\ k.at = "replay" /\ k.queue = j.queue \ {e} /\ Settled(log', e.op.enc.w)
          /\ ToSet(k.todo) \subseteq Clean(e.op) \cup {RemoveEntry(e.id)}
      BY <1>1, <1>4, <2>1 DEF Replays, Called, ReplayJobs
    <3>2. RemoveEntry(e.id).do = "remove" /\ RemoveEntry(e.id).id = e.id
      BY DEF RemoveEntry
    <3>3. ASSUME NEW st \in ToSet(k.todo)
          PROVE  /\ st.do \notin {"status", "enqueue"}
                 /\ st.do = "remove" =>
                      /\ st.id < nextId[d]
                      /\ \A x \in outbox[d] : x.id = st.id => Kept(job'[d], outbox[d], log', x.op.enc.w, x.id)
      <4>1. CASE st \in Clean(e.op)
        BY <4>1, CleanDo
      <4>2. CASE st = RemoveEntry(e.id)
        BY <1>1, <1>2, <3>1, <3>2, <4>2 DEF Tied, Kept
      <4> QED BY <3>1, <4>1, <4>2
    <3>4. ~Marking(k)
      BY <3>1 DEF Marking
    <3> QED BY <1>2, <3>1, <3>3, <3>4 DEF JobKept
  <2>2. CASE answer = "conflict"
    <3>1. k.at = "replay" /\ k.queue = j.queue \ {e} /\ ToSet(k.todo) = {MarkConflict(e.id)}
      BY <1>1, <2>2 DEF Replays, ReplayJobs
    <3>2. MarkConflict(e.id).do = "status"
      BY DEF MarkConflict
    <3> QED BY <1>2, <3>1, <3>2 DEF JobKept
  <2>3. CASE answer \notin {"ok", "conflict"}
    <3>1. k = Idle
      BY <2>3 DEF Replays
    <3> QED BY <3>1, IdleKept
  <2> QED BY <2>1, <2>2, <2>3
<1> QED BY <1>1, <1>3, <1>4, <1>5, KeptHere

----------------------------------------------------------------------------
(* One statement of a job. *)

\* The statement st of j is done, and k goes on with rest: what was left, or also the
\* SetSecretIndex of a loaded item.
Leaves(j, st, rest, k) ==
    /\ Continues(j, rest, k) /\ rest \in Todos
    /\ j.todo # <<>> /\ j.at \in {"requeue", "finish", "stmts", "replay"}
    /\ st = Head(j.todo) /\ ToSet(Tail(j.todo)) \subseteq ToSet(j.todo)
    /\ ToSet(j.todo) \subseteq {st} \cup ToSet(rest)
    /\ \A x \in ToSet(rest) : x \in ToSet(Tail(j.todo)) \/ x.do = "index"

LEMMA StepLeaves ==
    ASSUME SyncType, NEW d \in Devices, NEW t \in Threads, NEW st, NEW k, Steps(d, t, st, k)
    PROVE  \/ \E rest : Leaves(job[d][t], st, rest, k)
           \/ /\ st.do = "enqueue" /\ job[d][t].at = "requeue"
              /\ k.at = "open" /\ k.op = st.op /\ k.id = nextId[d] /\ k.todo = <<>>
           \/ st.do = "status" /\ ~HasEntry(outbox[d], st.id) /\ k = Idle /\ UNCHANGED localVars
<1> DEFINE j == job[d][t]
           rest == Tail(j.todo)
<1>1. /\ j.todo # <<>> /\ j.at \in {"requeue", "finish", "stmts", "replay"}
      /\ st = Head(j.todo) /\ st \in Statements /\ rest \in Todos
      /\ ToSet(j.todo) = {st} \cup ToSet(rest) /\ Performs(d, t, st, k)
  BY DEF Steps
<1> DEFINE L(r) == Leaves(j, st, r, k)
<1>2. ASSUME Continues(j, rest, k) PROVE L(rest)
  BY <1>1, <1>2 DEF Leaves
<1>3. ASSUME st.do = "load", Continues(j, <<SetIndex(st.s, st.enc, st.version)>> \o rest, k)
      PROVE  \E r : L(r)
  <2> DEFINE I == SetIndex(st.s, st.enc, st.version)
             S == <<I>>
             more == S \o rest
  <2>1. st \in Tiers
    BY <1>1, <1>3, StatementKinds
  <2>2. I \in Statements
    BY <2>1, TierOK DEF Tiers
  <2>3. I.do = "index"
    BY DEF SetIndex
  <2>4. Continues(j, more, k)
    BY <1>3
  <2> HIDE DEF I, rest
  <2>5. S \in Seq(Statements) /\ ToSet(S) = {I}
    BY <2>2 DEF ToSet
  <2> HIDE DEF S
  <2>6. more \in Todos /\ ToSet(more) = {I} \cup ToSet(rest)
    BY <1>1, <2>5, Concat DEF Todos
  <2> HIDE DEF more
  <2>7. L(more)
    BY <1>1, <2>3, <2>4, <2>6 DEF Leaves, rest
  <2> QED BY <2>7
<1> HIDE DEF L
<1>4. \/ Continues(j, rest, k)
      \/ st.do = "load" /\ Continues(j, <<SetIndex(st.s, st.enc, st.version)>> \o rest, k)
      \/ /\ st.do = "enqueue" /\ j.at = "requeue"
         /\ k.at = "open" /\ k.op = st.op /\ k.id = nextId[d] /\ k.todo = <<>>
      \/ st.do = "status" /\ ~HasEntry(outbox[d], st.id) /\ k = Idle /\ UNCHANGED localVars
  BY <1>1 DEF Performs
<1>5. \/ \E r : L(r)
      \/ /\ st.do = "enqueue" /\ j.at = "requeue"
         /\ k.at = "open" /\ k.op = st.op /\ k.id = nextId[d] /\ k.todo = <<>>
      \/ st.do = "status" /\ ~HasEntry(outbox[d], st.id) /\ k = Idle /\ UNCHANGED localVars
  BY <1>2, <1>3, <1>4
<1> QED BY <1>5 DEF L

\* The job that is left has the changes it has not enqueued yet.
LEMMA RestOwns ==
    ASSUME NEW js, NEW es, NEW n, NEW lg, NEW j, JobKept(js, es, n, lg, j),
           NEW st, NEW rest, NEW k, Leaves(j, st, rest, k)
    PROVE  /\ ~Marking(k)
           /\ \A w : Enqueues(j, w) => Owns(k, w) \/ (st.do = "enqueue" /\ st.op.enc.w = w)
<1>1. \A x \in ToSet(rest) : j.at = "requeue" => x.do # "status"
  BY DEF Leaves, JobKept
<1>2. ~Marking(k)
  <2>1. CASE k = Idle
    BY <2>1, IdleKept DEF Marking
  <2>2. CASE k # Idle
    <3>1. k.at = j.at /\ k.todo = rest /\ rest \in Todos
      BY <2>2 DEF Leaves, Continues
    <3>2. rest # <<>> => Head(rest) \in ToSet(rest)
      BY <3>1, HeadTail DEF Todos
    <3> QED BY <1>1, <3>1, <3>2 DEF Marking
  <2> QED BY <2>1, <2>2
<1>3. ASSUME NEW w, Enqueues(j, w), ~(st.do = "enqueue" /\ st.op.enc.w = w) PROVE Owns(k, w)
  <2>1. PICK x \in ToSet(j.todo) : x.do = "enqueue" /\ x.op.enc.w = w
    BY <1>3 DEF Enqueues
  <2>2. x \in ToSet(rest)
    BY <1>3, <2>1 DEF Leaves
  <2>3. rest # <<>>
    BY <2>2, EmptyTodo
  <2>4. k.todo = rest
    BY <2>3 DEF Leaves, Continues
  <2> QED BY <1>2, <2>1, <2>2, <2>4 DEF Owns, Enqueues
<1> QED BY <1>2, <1>3

LEMMA RestKept ==
    ASSUME NEW js, NEW js2, NEW es \in SUBSET Entries, NEW es2 \in SUBSET Entries,
           NEW n \in Nat, NEW n2 \in Nat, NEW lg, NEW lg2,
           GrowsIn(js, es, n, lg, js2, es2, n2, lg2),
           NEW j \in JobSet, JobKept(js, es, n, lg, j),
           NEW st, NEW rest, NEW k, Leaves(j, st, rest, k),
           NEW t \in Threads, js2[t] = k
    PROVE  JobKept(js2, es2, n2, lg2, k)
<1>1. CASE k = Idle
  BY <1>1, IdleKept
<1>2. CASE k # Idle
  <2>1. JobKept(js2, es2, n2, lg2, j)
    BY JobStillKept
  <2>2. /\ k.at = j.at /\ k.todo = rest /\ rest \in Todos /\ (rest # <<>> \/ j.at = "replay")
        /\ j.at = "replay" => k.queue = j.queue
        /\ j.at \in {"requeue", "finish", "stmts", "replay"}
    BY <1>2 DEF Leaves, Continues
  <2>3. k.at = "replay" => \A q \in k.queue : Tied(es2, n2, q.id, q.op.enc.w)
    BY <2>1, <2>2 DEF JobKept
  <2>4. k.at = "requeue" => /\ k.todo # <<>>
                            /\ \A x \in ToSet(Tail(k.todo)) : x.do # "status"
    <3>1. \A x \in ToSet(rest) : j.at = "requeue" => x.do # "status"
      BY DEF Leaves, JobKept
    <3>2. rest # <<>> => ToSet(Tail(rest)) \subseteq ToSet(rest)
      BY <2>2, HeadTail DEF Todos
    <3> QED BY <2>2, <3>1, <3>2
  <2>5. ASSUME NEW x \in ToSet(k.todo)
        PROVE  /\ x.do = "status" => k.at \in {"replay", "requeue"}
               /\ x.do = "enqueue" => k.at # "replay"
               /\ x.do = "remove" =>
                    /\ x.id < n2
                    /\ \A e \in es2 : e.id = x.id => Kept(js2, es2, lg2, e.op.enc.w, e.id)
    <3>1. CASE x.do = "index"
      BY <3>1
    <3>2. CASE x \in ToSet(j.todo)
      <4>1. ASSUME NEW e \in es2, e.id = x.id, x.do = "remove"
            PROVE  Kept(js2, es2, lg2, e.op.enc.w, e.id)
        <5>1. CASE Marking(j)
          <6>1. Enqueues(j, e.op.enc.w)
            BY <2>1, <3>2, <4>1, <5>1 DEF JobKept
          <6>2. st.do = "status"
            BY <5>1 DEF Marking, Leaves
          <6>3. Owns(k, e.op.enc.w)
            BY <6>1, <6>2, RestOwns
          <6> QED BY <6>3 DEF Kept
        <5>2. CASE ~Marking(j)
          BY <2>1, <3>2, <4>1, <5>2 DEF JobKept
        <5> QED BY <5>1, <5>2
      <4> QED BY <2>1, <2>2, <3>2, <4>1 DEF JobKept
    <3> QED BY <2>2, <3>1, <3>2 DEF Leaves
  <2>6. ~Marking(k)
    BY RestOwns
  <2> QED BY <2>2, <2>3, <2>4, <2>5, <2>6 DEF JobKept
<1> QED BY <1>1, <1>2

\* What the job of t had, it has, or it is in the outbox; what the outbox loses is kept
\* without it.
LEMMA Grown ==
    ASSUME NEW js, NEW js2, NEW es \in SUBSET Entries, NEW es2 \in SUBSET Entries,
           NEW n \in Nat, NEW n2 \in Nat, n <= n2, NEW lg, NEW lg2, NEW t \in Threads,
           \A w : Settled(lg, w) => Settled(lg2, w),
           \A u \in Threads : u # t => js2[u] = js[u],
           \A w : Owns(js[t], w) => Owns(js2[t], w) \/ \E e \in es2 : e.op.enc.w = w /\ e.id >= n,
           \A e \in es :
             \/ \E x \in es2 : x.id = e.id /\ x.op.enc.w = e.op.enc.w
             \/ /\ Kept(js, es, lg, e.op.enc.w, e.id)
                /\ \A f \in es : f.id # e.id => \E x \in es2 : x.id = f.id /\ x.op.enc.w = f.op.enc.w,
           \A x \in es2 : x.id >= n \/ \E y \in es : y.id = x.id /\ y.op.enc.w = x.op.enc.w
    PROVE  GrowsIn(js, es, n, lg, js2, es2, n2, lg2)
<1>1. ASSUME NEW w, NEW i \in Nat, i < n, NEW u \in Threads, Owns(js[u], w)
      PROVE  Kept(js2, es2, lg2, w, i)
  <2>1. CASE u # t
    BY <1>1, <2>1 DEF Kept
  <2>2. CASE u = t /\ Owns(js2[t], w)
    BY <2>2 DEF Kept
  <2>3. CASE \E e \in es2 : e.op.enc.w = w /\ e.id >= n
    <3>1. PICK e \in es2 : e.op.enc.w = w /\ e.id >= n
      BY <2>3
    <3>2. e.id \in Nat
      BY DEF Entries
    <3>3. e.id > i
      BY <1>1, <3>1, <3>2
    <3> QED BY <3>1, <3>3 DEF Kept
  <2> QED BY <1>1, <2>1, <2>2, <2>3
<1>2. ASSUME NEW w, NEW i \in Nat, i < n, Kept(js, es, lg, w, i)
      PROVE  Kept(js2, es2, lg2, w, i)
  <2>1. CASE Settled(lg, w)
    BY <2>1 DEF Kept
  <2>2. CASE \E u \in Threads : Owns(js[u], w)
    BY <1>1, <1>2, <2>2
  <2>3. CASE \E e \in es : e.op.enc.w = w /\ e.id > i
    <3>1. PICK e \in es : e.op.enc.w = w /\ e.id > i
      BY <2>3
    <3>2. CASE \E x \in es2 : x.id = e.id /\ x.op.enc.w = e.op.enc.w
      BY <3>1, <3>2 DEF Kept
    <3>3. CASE /\ Kept(js, es, lg, e.op.enc.w, e.id)
               /\ \A f \in es : f.id # e.id => \E x \in es2 : x.id = f.id /\ x.op.enc.w = f.op.enc.w
      <4>1. CASE \E f \in es : f.op.enc.w = w /\ f.id > e.id
        <5>1. PICK f \in es : f.op.enc.w = w /\ f.id > e.id
          BY <4>1
        <5>2. f.id \in Nat /\ e.id \in Nat
          BY DEF Entries
        <5>3. f.id # e.id /\ f.id > i
          BY <3>1, <5>1, <5>2
        <5>4. PICK x \in es2 : x.id = f.id /\ x.op.enc.w = f.op.enc.w
          BY <3>3, <5>3
        <5> QED BY <5>1, <5>3, <5>4 DEF Kept
      <4> QED BY <1>1, <1>2, <2>1, <3>1, <3>3, <4>1 DEF Kept
    <3> QED BY <3>2, <3>3
  <2> QED BY <1>2, <2>1, <2>2, <2>3 DEF Kept
<1> QED BY <1>2 DEF GrowsIn

\* The outbox of the device after the statement.
OutboxAfter(d, st) ==
    \/ /\ st.do \notin {"enqueue", "remove"} /\ nextId'[d] = nextId[d]
       /\ \/ outbox'[d] = outbox[d]
          \/ outbox'[d] = SetOutboxStatus(outbox[d], st.id, "conflict")
    \/ /\ st.do = "remove" /\ nextId'[d] = nextId[d]
       /\ outbox'[d] = RemoveOutbox(outbox[d], st.id)
    \/ /\ st.do = "enqueue" /\ nextId'[d] = nextId[d] + 1
       /\ outbox'[d] = EnqueueOutbox(outbox[d], nextId[d], st.op, st.status)

LEMMA StepOutbox ==
    ASSUME SyncType, NEW d \in Devices, NEW t \in Threads, NEW st, NEW k, Steps(d, t, st, k)
    PROVE  /\ OutboxAfter(d, st)
           /\ \A e \in Devices : e # d => outbox'[e] = outbox[e] /\ nextId'[e] = nextId[e]
<1>1. outbox \in [Devices -> SUBSET Entries] /\ nextId \in [Devices -> Nat \ {0}]
  BY DEF SyncType
<1>2. Performs(d, t, st, k)
  BY DEF Steps
<1>3. \/ st.do \notin {"enqueue", "remove"} /\ outbox' = outbox /\ nextId' = nextId
      \/ /\ st.do = "status" /\ nextId' = nextId
         /\ outbox' = [outbox EXCEPT ![d] = SetOutboxStatus(@, st.id, "conflict")]
      \/ /\ st.do = "remove" /\ nextId' = nextId
         /\ outbox' = [outbox EXCEPT ![d] = RemoveOutbox(@, st.id)]
      \/ /\ st.do = "enqueue" /\ nextId' = [nextId EXCEPT ![d] = @ + 1]
         /\ outbox' = [outbox EXCEPT ![d] = EnqueueOutbox(@, nextId[d], st.op, st.status)]
  BY <1>2 DEF Performs, localVars
<1> QED BY <1>1, <1>3 DEF OutboxAfter

\* The rows of the outbox that the statement leaves, and the one it adds.
LEMMA OutboxRows ==
    ASSUME SyncType, NEW d \in Devices, NEW st, OutboxAfter(d, st)
    PROVE  /\ \A e \in outbox[d] :
                \/ \E x \in outbox'[d] : x.id = e.id /\ x.op = e.op
                \/ st.do = "remove" /\ e.id = st.id
           /\ \A x \in outbox'[d] :
                \/ \E y \in outbox[d] : y.id = x.id /\ y.op = x.op
                \/ st.do = "enqueue" /\ x.id = nextId[d] /\ x.op = st.op
           /\ st.do = "enqueue" => \E x \in outbox'[d] : x.id = nextId[d] /\ x.op = st.op
           /\ nextId[d] <= nextId'[d]
           /\ st.do = "enqueue" => nextId[d] < nextId'[d]
<1> DEFINE es == outbox[d]
           es2 == outbox'[d]
           n == nextId[d]
<1>1. es \in SUBSET Entries /\ n \in Nat
  BY DEF SyncType
<1>2. CASE st.do \notin {"enqueue", "remove"} /\ es2 = es /\ nextId'[d] = n
  BY <1>1, <1>2
<1>3. CASE /\ st.do \notin {"enqueue", "remove"} /\ nextId'[d] = n
           /\ es2 = SetOutboxStatus(es, st.id, "conflict")
  <2> DEFINE R(e) == IF e.id = st.id THEN [e EXCEPT !.status = "conflict"] ELSE e
  <2>1. ASSUME NEW e \in es PROVE R(e).id = e.id /\ R(e).op = e.op
    BY <1>1 DEF Entries
  <2>2. es2 = {R(e) : e \in es}
    BY <1>3 DEF SetOutboxStatus
  <2> HIDE DEF R, es, es2
  <2>3. ASSUME NEW e \in es PROVE \E x \in es2 : x.id = e.id /\ x.op = e.op
    BY <2>1, <2>2
  <2>4. ASSUME NEW x \in es2 PROVE \E y \in es : y.id = x.id /\ y.op = x.op
    BY <2>1, <2>2
  <2> QED BY <1>1, <1>3, <2>3, <2>4 DEF es, es2
<1>4. CASE st.do = "remove" /\ nextId'[d] = n /\ es2 = RemoveOutbox(es, st.id)
  BY <1>1, <1>4 DEF RemoveOutbox
<1>5. CASE st.do = "enqueue" /\ nextId'[d] = n + 1 /\ es2 = EnqueueOutbox(es, n, st.op, st.status)
  <2> DEFINE r == [id |-> n, op |-> st.op, status |-> st.status]
  <2>1. r.id = n /\ r.op = st.op /\ es2 = es \cup {r}
    BY <1>5 DEF EnqueueOutbox
  <2> HIDE DEF r, es, es2
  <2> QED BY <1>1, <1>5, <2>1 DEF es, es2
<1> QED BY <1>2, <1>3, <1>4, <1>5 DEF OutboxAfter

LEMMA OutboxNumbered ==
    ASSUME SyncType, SyncType', NEW d \in Devices, NEW st, OutboxAfter(d, st),
           Numbered(outbox[d], nextId[d])
    PROVE  Numbered(outbox'[d], nextId'[d])
<1>1. \A e \in outbox[d] : e.id < nextId[d] /\ e.id \in Nat
  BY DeviceFacts DEF Numbered, Entries
<1>2. nextId[d] \in Nat /\ nextId'[d] \in Nat /\ nextId[d] <= nextId'[d]
  BY DeviceFacts, DeviceFactsNext, OutboxRows
<1>3. ASSUME NEW x \in outbox'[d]
      PROVE  \/ \E y \in outbox[d] : y.id = x.id /\ y.op.enc.w = x.op.enc.w
             \/ st.do = "enqueue" /\ x.id = nextId[d] /\ x.op = st.op /\ nextId[d] < nextId'[d]
  BY OutboxRows
<1>4. ASSUME NEW x \in outbox'[d] PROVE x.id < nextId'[d]
  BY <1>1, <1>2, <1>3
<1>5. ASSUME NEW x \in outbox'[d], NEW z \in outbox'[d], x.id = z.id PROVE x.op.enc.w = z.op.enc.w
  <2>1. CASE x.id = nextId[d]
    <3>1. \A y \in outbox[d] : y.id # nextId[d]
      BY <1>1, <1>2
    <3>2. x.op = st.op
      BY <1>3, <2>1, <3>1
    <3>3. z.id = nextId[d]
      BY <1>5, <2>1
    <3>4. \/ \E y \in outbox[d] : y.id = z.id /\ y.op.enc.w = z.op.enc.w
          \/ st.do = "enqueue" /\ z.id = nextId[d] /\ z.op = st.op
      BY <1>3
    <3>5. z.op = st.op
      BY <3>1, <3>3, <3>4
    <3> QED BY <3>2, <3>5
  <2>2. CASE x.id # nextId[d]
    <3>1. PICK y \in outbox[d] : y.id = x.id /\ y.op.enc.w = x.op.enc.w
      BY <1>3, <2>2
    <3>2. PICK v \in outbox[d] : v.id = z.id /\ v.op.enc.w = z.op.enc.w
      BY <1>3, <1>5, <2>2
    <3> QED BY <1>5, <3>1, <3>2 DEF Numbered
  <2> QED BY <2>1, <2>2
<1> QED BY <1>4, <1>5 DEF Numbered

LEMMA StatementKept ==
    ASSUME SyncType, SyncType', KeptInv, NEW d \in Devices, NEW t \in Threads,
           NEW st, NEW k, Steps(d, t, st, k)
    PROVE  KeptInv'
<1> DEFINE j == job[d][t]
           js == job[d]
           js2 == job'[d]
           es == outbox[d]
           es2 == outbox'[d]
           n == nextId[d]
           n2 == nextId'[d]
<1>1. /\ es \in SUBSET Entries /\ es2 \in SUBSET Entries /\ n \in Nat /\ n2 \in Nat /\ j \in JobSet
      /\ JobKept(js, es, n, log, j) /\ Numbered(es, n)
  BY DeviceFacts, DeviceFactsNext DEF KeptInv
<1>2. /\ OutboxAfter(d, st)
      /\ \A e \in Devices : e # d => outbox'[e] = outbox[e] /\ nextId'[e] = nextId[e]
  BY StepOutbox
<1>3. /\ Moves(d, t, k) /\ js2[t] = k /\ \A u \in Threads : u # t => js2[u] = js[u]
      /\ j.at \in {"requeue", "finish", "stmts", "replay"} /\ j.todo # <<>> /\ st = Head(j.todo)
      /\ st \in ToSet(j.todo)
  BY DEF Steps, Moves
<1>4. log'.asked = log.asked /\ \A w : Settled(log, w) => Settled(log', w)
  BY StepLog DEF Settled
<1>5. Numbered(es2, n2)
  BY <1>1, <1>2, OutboxNumbered
<1>6. /\ \A e \in es :
           \/ \E x \in es2 : x.id = e.id /\ x.op.enc.w = e.op.enc.w
           \/ st.do = "remove" /\ e.id = st.id
      /\ \A x \in es2 :
           \/ \E y \in es : y.id = x.id /\ y.op.enc.w = x.op.enc.w
           \/ st.do = "enqueue" /\ x.id = n /\ x.op = st.op
      /\ st.do = "enqueue" => \E x \in es2 : x.id = n /\ x.op = st.op
      /\ n <= n2 /\ (st.do = "enqueue" => n < n2)
  BY <1>2, OutboxRows
<1> HIDE DEF j, js, js2, es, es2, n, n2
<1>7. ASSUME NEW e \in es, st.do = "remove", e.id = st.id
      PROVE  Kept(js, es, log, e.op.enc.w, e.id)
  <2>1. ~Marking(j)
    BY <1>3, <1>7 DEF Marking
  <2> QED BY <1>1, <1>3, <1>7, <2>1 DEF JobKept
<1>8. ASSUME \A w : Owns(j, w) => Owns(k, w) \/ \E e \in es2 : e.op.enc.w = w /\ e.id >= n
      PROVE  GrowsIn(js, es, n, log, js2, es2, n2, log')
  <2>1. js[t] = j
    BY DEF js, j
  <2>2. \A w : Owns(js[t], w) => Owns(js2[t], w) \/ \E e \in es2 : e.op.enc.w = w /\ e.id >= n
    BY <1>3, <1>8, <2>1
  <2>3. ASSUME NEW e \in es
        PROVE  \/ \E x \in es2 : x.id = e.id /\ x.op.enc.w = e.op.enc.w
               \/ /\ Kept(js, es, log, e.op.enc.w, e.id)
                  /\ \A f \in es : f.id # e.id => \E x \in es2 : x.id = f.id /\ x.op.enc.w = f.op.enc.w
    BY <1>6, <1>7
  <2>4. \A x \in es2 : x.id >= n \/ \E y \in es : y.id = x.id /\ y.op.enc.w = x.op.enc.w
    BY <1>1, <1>6
  <2> QED BY <1>1, <1>3, <1>4, <1>6, <2>2, <2>3, <2>4, Grown
<1>9. ASSUME GrowsIn(js, es, n, log, js2, es2, n2, log'), JobKept(js2, es2, n2, log', k)
      PROVE  KeptInv'
  BY <1>2, <1>3, <1>4, <1>5, <1>9, KeptStep DEF js, js2, es, es2, n, n2
<1>10. ASSUME NEW rest, Leaves(j, st, rest, k) PROVE KeptInv'
  <2>1. ASSUME NEW w, Owns(j, w) PROVE Owns(k, w) \/ \E e \in es2 : e.op.enc.w = w /\ e.id >= n
    <3>1. Enqueues(j, w)
      BY <1>3, <2>1 DEF Owns
    <3>2. Owns(k, w) \/ (st.do = "enqueue" /\ st.op.enc.w = w)
      BY <1>1, <1>10, <3>1, RestOwns
    <3> QED BY <1>1, <1>6, <3>2
  <2>2. GrowsIn(js, es, n, log, js2, es2, n2, log')
    BY <1>8, <2>1
  <2>3. JobKept(js2, es2, n2, log', k)
    BY <1>1, <1>3, <1>10, <2>2, RestKept
  <2> QED BY <1>9, <2>2, <2>3
<1>11. CASE /\ st.do = "enqueue" /\ j.at = "requeue"
            /\ k.at = "open" /\ k.op = st.op /\ k.id = n /\ k.todo = <<>>
  <2>1. j \in RequeueJobs
    BY <1>1, <1>11, JobKinds
  <2>2. \A x \in ToSet(j.todo) : x.do = "enqueue" => x.op = st.op
    BY <1>3, <1>11, <2>1 DEF RequeueJobs
  <2>3. ASSUME NEW w, Owns(j, w) PROVE \E e \in es2 : e.op.enc.w = w /\ e.id >= n
    <3>1. PICK x \in ToSet(j.todo) : x.do = "enqueue" /\ x.op.enc.w = w
      BY <1>3, <2>3 DEF Owns, Enqueues
    <3>2. PICK e \in es2 : e.id = n /\ e.op = st.op
      BY <1>6, <1>11
    <3> QED BY <1>1, <2>2, <3>1, <3>2
  <2>4. GrowsIn(js, es, n, log, js2, es2, n2, log')
    BY <1>8, <2>3
  <2>5. Tied(es2, n2, k.id, k.op.enc.w)
    <3>1. ASSUME NEW y \in es PROVE y.id # n
      <4>1. y.id \in Nat /\ y.id < n
        BY <1>1 DEF Numbered, Entries
      <4> QED BY <1>1, <4>1
    <3>2. \A x \in es2 : x.id = n => x.op = st.op
      BY <1>6, <3>1
    <3> QED BY <1>6, <1>11, <3>2 DEF Tied
  <2>6. ToSet(k.todo) = {}
    BY <1>11, EmptyTodo
  <2>7. JobKept(js2, es2, n2, log', k)
    BY <1>11, <2>5, <2>6, WaitingKept
  <2> QED BY <1>9, <2>4, <2>7
<1>12. CASE st.do = "status" /\ ~HasEntry(outbox[d], st.id) /\ k = Idle /\ UNCHANGED localVars
  <2>1. ASSUME NEW w PROVE ~Owns(j, w)
    <3>1. j.at = "requeue" => Marking(j)
      BY <1>3, <1>12 DEF Marking
    <3>2. j.at \in {"replay", "requeue"}
      BY <1>1, <1>3, <1>12 DEF JobKept
    <3>3. j.at = "replay" => ~Enqueues(j, w)
      BY <1>1 DEF JobKept, Enqueues
    <3> QED BY <3>1, <3>2, <3>3 DEF Owns
  <2>2. GrowsIn(js, es, n, log, js2, es2, n2, log')
    BY <1>8, <2>1
  <2>3. JobKept(js2, es2, n2, log', k)
    BY <1>12, IdleKept
  <2> QED BY <1>9, <2>2, <2>3
<1> QED BY <1>10, <1>11, <1>12, StepLeaves DEF j, n

----------------------------------------------------------------------------
(* A kill, and the whole. *)

LEMMA EnqueuesHolds ==
    ASSUME SyncType, NEW d \in Devices, NEW t \in Threads, NEW w, Enqueues(job[d][t], w)
    PROVE  Holds(d, w)
<1>1. PICK st \in ToSet(job[d][t].todo) : st.do = "enqueue" /\ st.op.enc.w = w
  BY DEF Enqueues
<1>2. PICK i \in DOMAIN job[d][t].todo : st = job[d][t].todo[i]
  BY DEF ToSet
<1> QED BY <1>1, <1>2 DEF Holds

LEMMA OwnsHolds ==
    ASSUME SyncType, NEW d \in Devices, NEW t \in Threads, NEW w, Owns(job[d][t], w)
    PROVE  Holds(d, w)
<1>1. CASE job[d][t].at \in {"send", "card"} /\ job[d][t].op.enc.w = w
  BY <1>1 DEF Holds
<1> QED BY <1>1, EnqueuesHolds DEF Owns

LEMMA KillsKept ==
    ASSUME SyncType, SyncType', KeptInv, NEW d \in Devices, Kills(d)
    PROVE  KeptInv'
<1>1. /\ outbox' = outbox /\ nextId' = nextId /\ log'.asked = log.asked
      /\ \A e \in Devices, t \in Threads : job'[e][t] = IF e = d THEN Idle ELSE job[e][t]
      /\ log'.applied = log.applied /\ log'.refused = log.refused
      /\ log'.killed = log.killed \cup {w \in log.asked : Holds(d, w)}
  BY DEF Kills, localVars
<1>2. \A w : Settled(log, w) => Settled(log', w)
  BY <1>1 DEF Settled
<1>3. ASSUME NEW e \in Devices, e # d, NEW w, NEW i, Kept(job[e], outbox[e], log, w, i)
      PROVE  Kept(job'[e], outbox'[e], log', w, i)
  BY <1>1, <1>2, <1>3 DEF Kept
<1>4. ASSUME NEW e \in Devices, NEW t \in Threads
      PROVE  JobKept(job'[e], outbox'[e], nextId'[e], log', job'[e][t])
  <2>1. CASE e = d
    BY <1>1, <2>1, IdleKept
  <2>2. CASE e # d
    <3>1. \A u \in Threads : job'[e][u] = job[e][u]
      BY <1>1, <2>2
    <3>2. /\ outbox[e] \in SUBSET Entries /\ nextId[e] \in Nat /\ job[e][t] \in JobSet
          /\ JobKept(job[e], outbox[e], nextId[e], log, job[e][t])
      BY DeviceFacts DEF KeptInv
    <3>3. GrowsIn(job[e], outbox[e], nextId[e], log, job'[e], outbox[e], nextId[e], log')
      BY <1>1, <1>3, <2>2, <3>2 DEF GrowsIn
    <3> QED BY <1>1, <3>1, <3>2, <3>3, JobStillKept
  <2> QED BY <2>1, <2>2
<1>5. ASSUME NEW w \in log'.asked PROVE \E e \in Devices : Kept(job'[e], outbox'[e], log', w, 0)
  <2>1. PICK e \in Devices : Kept(job[e], outbox[e], log, w, 0)
    BY <1>1 DEF KeptInv
  <2>2. CASE e # d
    BY <1>3, <2>1, <2>2
  <2>3. CASE e = d /\ \E t \in Threads : Owns(job[d][t], w)
    <3>1. w \in log'.killed
      BY <1>1, <2>3, OwnsHolds
    <3> QED BY <3>1 DEF Kept, Settled
  <2>4. CASE e = d /\ ~\E t \in Threads : Owns(job[d][t], w)
    BY <1>1, <1>2, <2>1, <2>4 DEF Kept
  <2> QED BY <2>2, <2>3, <2>4
<1> QED BY <1>1, <1>4, <1>5 DEF KeptInv

LEMMA KeptInit == ASSUME Init PROVE KeptInv
<1>1. /\ \A d \in Devices, t \in Threads : job[d][t] = Idle
      /\ \A d \in Devices : outbox[d] = {}
      /\ log.asked = {}
  BY DEF Init
<1>2. \A d \in Devices, t \in Threads : JobKept(job[d], outbox[d], nextId[d], log, job[d][t])
  BY <1>1, IdleKept
<1> QED BY <1>1, <1>2 DEF KeptInv, Numbered

LEMMA KeptNext == ASSUME SyncType, SyncType', KeptInv, [Next]_vars PROVE KeptInv'
<1>1. CASE Next
  <2>1. PICK d \in Devices :
             \/ Kills(d)
             \/ \E t \in Threads :
                 \/ \E op : Submits(d, t, op)
                 \/ \E e, k : Opens(d, t, e, k)
                 \/ \E k : Starts(d, t, k) \/ Reads(d, t, k) \/ Decides(d, t, k)
                 \/ \E op, id, answer, k : Asks(d, t, op, id, answer, k)
                 \/ \E e, answer, k : Replays(d, t, e, answer, k)
                 \/ \E st, k : Steps(d, t, st, k)
    BY <1>1, StepKinds
  <2>2. ASSUME NEW t \in Threads, NEW op, Submits(d, t, op) PROVE KeptInv'
    BY <2>2, UserKept
  <2>3. ASSUME NEW t \in Threads, NEW e, NEW k, Opens(d, t, e, k) PROVE KeptInv'
    BY <2>3, UserKept
  <2>4. ASSUME NEW t \in Threads, NEW k, Starts(d, t, k) PROVE KeptInv'
    BY <2>4, UserKept
  <2> QED BY <2>1, <2>2, <2>3, <2>4, KillsKept, ReadsKept, DecidesKept, AsksKept, ReplaysKept,
             StatementKept
<1>2. CASE UNCHANGED vars
  BY <1>2 DEF vars, serverVars, localVars, KeptInv
<1> QED BY <1>1, <1>2

\* Every change has a keeper, and an entry is removed from an outbox only for a change that
\* somebody else keeps (generic.go, outbox_replay.go, conflict_from_outbox.go).
THEOREM KeptInvariance == Spec => []KeptInv
BY SyncTypeInvariance, KeptInit, KeptNext, PTL DEF Spec

\* No order of answers, replays, conflicts and retries drops a change a user asked for, for
\* any number of devices, threads, lost messages and kills (generic.go, outbox_replay.go).
THEOREM NoChangeLost == Spec => []NothingLost
<1>1. ASSUME SyncType, KeptInv PROVE NothingLost
  <2>1. ASSUME NEW w \in log.asked, w \notin log.refused, w \notin log.killed
        PROVE  w \in log.applied \/ Queued(w) \/ Carried(w)
    <3>1. PICK d \in Devices : Kept(job[d], outbox[d], log, w, 0)
      BY <1>1 DEF KeptInv
    <3>2. CASE \E t \in Threads : Owns(job[d][t], w)
      <4>1. Holds(d, w)
        BY <1>1, <3>2, OwnsHolds
      <4> QED BY <4>1 DEF Carried
    <3>3. CASE \E e \in outbox[d] : e.op.enc.w = w
      BY <3>3 DEF Queued
    <3> QED BY <2>1, <3>1, <3>2, <3>3 DEF Kept, Settled
  <2> QED BY <2>1 DEF NothingLost
<1> QED BY <1>1, SyncTypeInvariance, KeptInvariance, PTL

----------------------------------------------------------------------------
(* What is reported as saved: every change was asked for, ... *)

JobAsked(asked, j) ==
    /\ j.at \in {"send", "card", "open", "requeue"} => j.op.enc.w \in asked
    /\ j.at = "finish" => j.w \in asked
    /\ \A st \in ToSet(j.todo) : st.do = "enqueue" => st.op.enc.w \in asked

AskedInv ==
    /\ \A d \in Devices, t \in Threads : JobAsked(log.asked, job[d][t])
    /\ \A d \in Devices : \A e \in outbox[d] : e.op.enc.w \in log.asked
    /\ log.acked \subseteq log.asked
    /\ MaxCrashes = 0 => log.killed = {}

(* ... and, when no conflict of an outbox is opened, a job that will report a change has
   put it, or will still put it, where it stays. *)

DurableOn(es, lg, w) == w \in lg.applied \cup lg.refused \/ \E e \in es : e.op.enc.w = w

JobSaved(es, lg, j) ==
    /\ j.at \notin {"open", "requeue"} /\ (j.at \in {"send", "card"} => j.id = 0)
    /\ j.at = "finish" => DurableOn(es, lg, j.w) \/ Enqueues(j, j.w)
    /\ \A st \in ToSet(j.todo) : st.do = "remove" =>
        \A e \in es : e.id = st.id => e.op.enc.w \in lg.applied

SavedInv ==
    /\ \A d \in Devices, t \in Threads : JobSaved(outbox[d], log, job[d][t])
    /\ \A w \in log.acked : \E d \in Devices : DurableOn(outbox[d], log, w)

LEMMA IdleSaved ==
    /\ \A asked : JobAsked(asked, Idle)
    /\ \A es, lg : JobSaved(es, lg, Idle)
BY IdleKept DEF JobAsked, JobSaved

\* A step that leaves the outboxes alone.
LEMMA AskedHere ==
    ASSUME SyncType, AskedInv, NEW d \in Devices, NEW t \in Threads, NEW k, Moves(d, t, k),
           outbox' = outbox, log'.acked = log.acked, log'.killed = log.killed,
           log.asked \subseteq log'.asked, JobAsked(log'.asked, k)
    PROVE  AskedInv'
<1>1. ASSUME NEW e \in Devices, NEW u \in Threads PROVE JobAsked(log'.asked, job'[e][u])
  <2>1. CASE e = d /\ u = t
    BY <2>1 DEF Moves
  <2>2. CASE e # d \/ u # t
    BY <2>2 DEF Moves, AskedInv, JobAsked
  <2> QED BY <2>1, <2>2
<1> QED BY <1>1 DEF AskedInv

LEMMA AsksAsked ==
    ASSUME SyncType, AskedInv, NEW d \in Devices, NEW t \in Threads,
           NEW op, NEW id, NEW answer, NEW k, Asks(d, t, op, id, answer, k)
    PROVE  AskedInv'
<1>1. /\ Moves(d, t, k) /\ outbox' = outbox /\ log'.acked = log.acked /\ log'.killed = log.killed
      /\ log'.asked = log.asked /\ op.enc.w \in log.asked /\ answer \in Answers
      /\ Outcome(op, id, answer, k)
  BY DEF Asks, Called, localVars, AskedInv, JobAsked
<1>2. JobAsked(log.asked, k)
  <2>1. CASE answer = "ok"
    <3>1. /\ k.at = "finish" /\ k.w = op.enc.w
          /\ \A st \in ToSet(k.todo) : st \in Clean(op) \/ st = RemoveEntry(id)
      BY <1>1, <2>1 DEF Outcome, Applies, FinishJobs, Removal
    <3>2. RemoveEntry(id).do = "remove"
      BY DEF RemoveEntry
    <3> QED BY <1>1, <3>1, <3>2, CleanDo DEF JobAsked
  <2>2. CASE answer = "offline" /\ k # Idle
    <3>1. /\ k.at = "finish" /\ k.w = op.enc.w
          /\ \A st \in ToSet(k.todo) : st \in Dirty(op) \/ st = RemoveEntry(id)
      BY <1>1, <2>2 DEF Outcome, Defers, FinishJobs, Removal
    <3>2. RemoveEntry(id).do = "remove"
      BY DEF RemoveEntry
    <3>3. ASSUME NEW st \in Dirty(op), st.do = "enqueue" PROVE st.op = op
      BY <3>3 DEF Dirty, Upsert, SetIndex, SetPayload, DeleteRow, Enqueue
    <3> QED BY <1>1, <3>1, <3>2, <3>3 DEF JobAsked
  <2>3. CASE answer = "conflict" /\ k \in {Card(op, 0), Card(op, id)}
    <3>1. k.at = "card" /\ k.op = op /\ ToSet(k.todo) = {}
      BY <2>3, EmptyTodo DEF Card
    <3> QED BY <1>1, <3>1 DEF JobAsked
  <2>4. CASE answer = "conflict" /\ Requeues(op, id, k)
    <3>1. /\ k.at = "requeue" /\ k.op = op /\ \A st \in ToSet(k.todo) : st.do = "enqueue" => st.op = op
      BY <2>4 DEF Requeues, RequeueJobs
    <3> QED BY <1>1, <3>1 DEF JobAsked
  <2>5. CASE k = Idle
    BY <2>5, IdleSaved
  <2> QED BY <1>1, <2>1, <2>2, <2>3, <2>4, <2>5 DEF Outcome, Answers
<1> QED BY <1>1, <1>2, AskedHere

LEMMA ReplaysAsked ==
    ASSUME SyncType, AskedInv, NEW d \in Devices, NEW t \in Threads,
           NEW e, NEW answer, NEW k, Replays(d, t, e, answer, k)
    PROVE  AskedInv'
<1>1. /\ Moves(d, t, k) /\ outbox' = outbox /\ log'.acked = log.acked /\ log'.killed = log.killed
      /\ log'.asked = log.asked
  BY DEF Replays, Called, localVars
<1>2. JobAsked(log.asked, k)
  <2>1. RemoveEntry(e.id).do = "remove" /\ MarkConflict(e.id).do = "status"
    BY DEF RemoveEntry, MarkConflict
  <2>2. CASE answer \in {"ok", "conflict"}
    <3>1. k.at = "replay" /\ \A st \in ToSet(k.todo) : st \in Clean(e.op) \cup {RemoveEntry(e.id), MarkConflict(e.id)}
      BY <2>2 DEF Replays, ReplayJobs
    <3> QED BY <2>1, <3>1, CleanDo DEF JobAsked
  <2>3. CASE k = Idle
    BY <2>3, IdleSaved
  <2> QED BY <2>2, <2>3 DEF Replays
<1> QED BY <1>1, <1>2, AskedHere

LEMMA StatementAsked ==
    ASSUME SyncType, AskedInv, NEW d \in Devices, NEW t \in Threads, NEW st, NEW k, Steps(d, t, st, k)
    PROVE  AskedInv'
<1> DEFINE j == job[d][t]
<1>1. /\ Moves(d, t, k) /\ st \in ToSet(j.todo) /\ JobAsked(log.asked, j)
  BY DEF Steps, AskedInv
<1>2. /\ log'.asked = log.asked /\ log'.killed = log.killed
      /\ \/ log'.acked = log.acked
         \/ log'.acked = log.acked \cup {j.w} /\ j.at = "finish"
  BY StepLog
<1>3. log'.acked \subseteq log'.asked
  BY <1>1, <1>2 DEF AskedInv, JobAsked
<1>4. JobAsked(log'.asked, k)
  <2>1. ASSUME NEW rest, Leaves(j, st, rest, k) PROVE JobAsked(log.asked, k)
    <3>1. CASE k = Idle
      BY <3>1, IdleSaved
    <3>2. CASE k # Idle
      <4>1. /\ k.at = j.at /\ (j.at = "requeue" => k.op = j.op) /\ (j.at = "finish" => k.w = j.w)
            /\ \A x \in ToSet(k.todo) : x \in ToSet(j.todo) \/ x.do = "index"
            /\ j.at \in {"requeue", "finish", "stmts", "replay"}
        BY <2>1, <3>2 DEF Leaves, Continues
      <4> QED BY <1>1, <4>1 DEF JobAsked
    <3> QED BY <3>1, <3>2
  <2>2. CASE st.do = "enqueue" /\ k.at = "open" /\ k.op = st.op /\ k.todo = <<>>
    <3>1. ToSet(k.todo) = {}
      BY <2>2, EmptyTodo
    <3> QED BY <1>1, <1>2, <2>2, <3>1 DEF JobAsked
  <2>3. CASE k = Idle
    BY <2>3, IdleSaved
  <2> QED BY <1>2, <2>1, <2>2, <2>3, StepLeaves
<1>5. ASSUME NEW e \in Devices, NEW x \in outbox'[e] PROVE x.op.enc.w \in log'.asked
  <2>1. CASE e # d
    <3>1. outbox'[e] = outbox[e]
      BY <2>1, StepOutbox
    <3> QED BY <1>2, <3>1 DEF AskedInv
  <2>2. CASE e = d
    <3>1. OutboxAfter(d, st)
      BY StepOutbox
    <3>2. \/ \E y \in outbox[d] : y.id = x.id /\ y.op.enc.w = x.op.enc.w
          \/ st.do = "enqueue" /\ x.op = st.op
      BY <2>2, <3>1, OutboxRows
    <3> QED BY <1>1, <1>2, <3>2 DEF AskedInv, JobAsked
  <2> QED BY <2>1, <2>2
<1>6. ASSUME NEW e \in Devices, NEW u \in Threads PROVE JobAsked(log'.asked, job'[e][u])
  BY <1>1, <1>2, <1>4 DEF Moves, AskedInv
<1> QED BY <1>2, <1>3, <1>5, <1>6 DEF AskedInv

LEMMA AskedNext == ASSUME SyncType, AskedInv, [Next]_vars PROVE AskedInv'
<1>1. CASE Next
  <2>1. PICK d \in Devices :
             \/ Kills(d)
             \/ \E t \in Threads :
                 \/ \E op : Submits(d, t, op)
                 \/ \E e, k : Opens(d, t, e, k)
                 \/ \E k : Starts(d, t, k) \/ Reads(d, t, k) \/ Decides(d, t, k)
                 \/ \E op, id, answer, k : Asks(d, t, op, id, answer, k)
                 \/ \E e, answer, k : Replays(d, t, e, answer, k)
                 \/ \E st, k : Steps(d, t, st, k)
    BY <1>1, StepKinds
  <2>2. CASE Kills(d)
    <3>1. /\ outbox' = outbox /\ log'.asked = log.asked /\ log'.acked = log.acked /\ MaxCrashes # 0
          /\ \A e \in Devices, t \in Threads : job'[e][t] = Idle \/ job'[e][t] = job[e][t]
      BY <2>2 DEF Kills, localVars
    <3> QED BY <3>1, IdleSaved DEF AskedInv
  <2>3. ASSUME NEW t \in Threads, NEW op, Submits(d, t, op) PROVE AskedInv'
    <3> DEFINE k == Sending(op, 0)
    <3>1. k.at = "send" /\ k.op = op /\ ToSet(k.todo) = {}
      BY EmptyTodo DEF Sending
    <3>2. /\ Moves(d, t, k) /\ outbox' = outbox /\ log'.acked = log.acked /\ log'.killed = log.killed
          /\ log'.asked = log.asked \cup {op.enc.w}
      BY <2>3 DEF Submits, localVars
    <3> HIDE DEF k
    <3>3. JobAsked(log'.asked, k)
      BY <3>1, <3>2 DEF JobAsked
    <3> QED BY <3>2, <3>3, AskedHere
  <2>4. ASSUME NEW t \in Threads, NEW e, NEW k, Opens(d, t, e, k) PROVE AskedInv'
    <3>1. JobAsked(log.asked, k)
      BY <2>4, EmptyTodo DEF Opens, JobAsked, AskedInv
    <3> QED BY <2>4, <3>1, AskedHere DEF Opens, localVars
  <2>5. ASSUME NEW t \in Threads, NEW k, Starts(d, t, k) PROVE AskedInv'
    <3>1. JobAsked(log.asked, k)
      BY <2>5, EmptyTodo DEF Starts, JobAsked
    <3> QED BY <2>5, <3>1, AskedHere DEF Starts, localVars
  <2>6. ASSUME NEW t \in Threads, NEW k, Reads(d, t, k) PROVE AskedInv'
    <3>1. JobAsked(log.asked, k)
      BY <2>6 DEF Reads, Reading, JobAsked
    <3> QED BY <2>6, <3>1, AskedHere DEF Reads, localVars
  <2>7. ASSUME NEW t \in Threads, NEW k, Decides(d, t, k) PROVE AskedInv'
    <3> DEFINE j == job[d][t]
    <3>1. /\ j.at = "card" /\ Moves(d, t, k) /\ outbox' = outbox /\ JobAsked(log.asked, j)
          /\ (log' = log \/ Refused(j.op.enc.w)) /\ log \in LogSet
      BY <2>7 DEF Decides, localVars, AskedInv, SyncType
    <3>2. log'.acked = log.acked /\ log'.killed = log.killed /\ log'.asked = log.asked
      BY <3>1 DEF Refused, LogSet
    <3>3. JobAsked(log.asked, k)
      <4>1. CASE k.at = "send" /\ k.op.enc.w = j.op.enc.w /\ k.todo = <<>>
        BY <3>1, <4>1, EmptyTodo DEF JobAsked
      <4>2. CASE /\ k.at = "stmts"
                 /\ ToSet(k.todo) = {Upsert(j.op.s, j.theirs, j.theirs, j.version, FALSE),
                              SetIndex(j.op.s, j.theirs, j.version),
                              SetPayload(j.op.s, j.theirs, j.version)}
        <5>1. \A st \in ToSet(k.todo) : st.do \in {"upsert", "index", "payload"}
          BY <4>2 DEF Upsert, SetIndex, SetPayload
        <5> QED BY <4>2, <5>1 DEF JobAsked
      <4>3. CASE k = Idle
        BY <4>3, IdleSaved
      <4> QED BY <2>7, <4>1, <4>2, <4>3 DEF Decides
    <3> QED BY <3>1, <3>2, <3>3, AskedHere
  <2> QED BY <2>1, <2>2, <2>3, <2>4, <2>5, <2>6, <2>7, AsksAsked, ReplaysAsked, StatementAsked
<1>2. CASE UNCHANGED vars
  BY <1>2 DEF vars, serverVars, localVars, AskedInv
<1> QED BY <1>1, <1>2

LEMMA AskedInvariance == Spec => []AskedInv
<1>1. ASSUME Init PROVE AskedInv
  BY <1>1, IdleSaved DEF Init, AskedInv
<1> QED BY <1>1, AskedNext, SyncTypeInvariance, PTL DEF Spec

\* What is durable stays durable, and what is new in the outbox has a new id.
LEMMA SavedStep ==
    ASSUME SyncType, KeptInv, SavedInv, NEW d \in Devices, NEW t \in Threads, NEW k, Moves(d, t, k),
           log.applied \subseteq log'.applied, log.refused \subseteq log'.refused,
           \A e \in Devices : e # d => outbox'[e] = outbox[e],
           \A w : DurableOn(outbox[d], log, w) => DurableOn(outbox'[d], log', w),
           \A x \in outbox'[d] :
             \/ \E y \in outbox[d] : y.id = x.id /\ y.op.enc.w = x.op.enc.w
             \/ x.id = nextId[d],
           JobSaved(outbox'[d], log', k),
           \A w \in log'.acked : w \in log.acked \/ DurableOn(outbox'[d], log', w)
    PROVE  SavedInv'
<1>1. ASSUME NEW e \in Devices, NEW w, DurableOn(outbox[e], log, w)
      PROVE  DurableOn(outbox'[e], log', w)
  BY <1>1 DEF DurableOn
<1>2. ASSUME NEW e \in Devices, NEW u \in Threads PROVE JobSaved(outbox'[e], log', job'[e][u])
  <2>1. CASE e = d /\ u = t
    BY <2>1 DEF Moves
  <2>2. CASE e # d \/ u # t
    <3>1. job'[e][u] = job[e][u] /\ JobSaved(outbox[e], log, job[e][u])
      BY <2>2 DEF Moves, SavedInv
    <3>2. ASSUME NEW st \in ToSet(job[e][u].todo), st.do = "remove", NEW x \in outbox'[e], x.id = st.id
          PROVE  x.op.enc.w \in log'.applied
      <4>1. job[e][u] \in JobSet /\ nextId[e] \in Nat
        BY DeviceFacts
      <4>2. st.id \in Nat /\ st.id < nextId[e]
        <5>1. st \in Statements
          BY <4>1, JobKinds, TodoStatements
        <5> QED BY <3>2, <5>1, StatementKinds DEF KeptInv, JobKept
      <4>3. x.id # nextId[e]
        BY <3>2, <4>1, <4>2
      <4>4. \E y \in outbox[e] : y.id = x.id /\ y.op.enc.w = x.op.enc.w
        BY <4>3
      <4>5. PICK y \in outbox[e] : y.id = x.id /\ y.op.enc.w = x.op.enc.w
        BY <4>4
      <4>6. y.op.enc.w \in log.applied
        BY <3>1, <3>2, <4>5 DEF JobSaved
      <4> QED BY <4>5, <4>6
    <3>3. job[e][u].at = "finish" =>
             DurableOn(outbox'[e], log', job[e][u].w) \/ Enqueues(job[e][u], job[e][u].w)
      BY <1>1, <3>1 DEF JobSaved
    <3> QED BY <3>1, <3>2, <3>3 DEF JobSaved
  <2> QED BY <2>1, <2>2
<1>3. ASSUME NEW w \in log'.acked PROVE \E e \in Devices : DurableOn(outbox'[e], log', w)
  BY <1>1 DEF SavedInv
<1> QED BY <1>2, <1>3 DEF SavedInv

\* The same for a step that leaves the outboxes alone.
LEMMA SavedHere ==
    ASSUME SyncType, KeptInv, SavedInv, NEW d \in Devices, NEW t \in Threads, NEW k, Moves(d, t, k),
           log.applied \subseteq log'.applied, log.refused \subseteq log'.refused,
           outbox' = outbox, log'.acked = log.acked, JobSaved(outbox[d], log', k)
    PROVE  SavedInv'
<1>1. \A w : DurableOn(outbox[d], log, w) => DurableOn(outbox'[d], log', w)
  BY DEF DurableOn
<1> QED BY <1>1, SavedStep

LEMMA AsksSaved ==
    ASSUME SyncType, KeptInv, SavedInv, NEW d \in Devices, NEW t \in Threads,
           NEW op, NEW id, NEW answer, NEW k, Asks(d, t, op, id, answer, k)
    PROVE  SavedInv'
<1>1. /\ Moves(d, t, k) /\ outbox' = outbox /\ log'.acked = log.acked /\ answer \in Answers
      /\ Outcome(op, id, answer, k)
      /\ log.applied \subseteq log'.applied /\ log.refused \subseteq log'.refused
      /\ answer = "ok" => op.enc.w \in log'.applied
  BY DEF Asks, Called, Executed, Rejected, localVars
<1>2. id = 0
  BY DEF Asks, SavedInv, JobSaved
<1>3. JobSaved(outbox[d], log', k)
  <2>1. CASE answer = "ok"
    <3>1. k.at = "finish" /\ k.w = op.enc.w /\ ToSet(k.todo) \subseteq Clean(op)
      BY <1>1, <1>2, <2>1 DEF Outcome, Applies, FinishJobs, Removal
    <3> QED BY <1>1, <2>1, <3>1, CleanDo DEF JobSaved, DurableOn
  <2>2. CASE answer = "offline"
    <3>1. /\ k.at = "finish" /\ k.w = op.enc.w /\ ToSet(k.todo) \subseteq Dirty(op)
          /\ Enqueue(op, "pending") \in ToSet(k.todo)
      BY <1>1, <1>2, <2>2 DEF Outcome, Defers, FinishJobs, Removal
    <3>2. Enqueue(op, "pending").do = "enqueue" /\ Enqueue(op, "pending").op = op
      BY DEF Enqueue
    <3>3. Enqueues(k, k.w)
      BY <3>1, <3>2 DEF Enqueues
    <3>4. \A st \in ToSet(k.todo) : st.do # "remove"
      BY <3>1, DirtyDo
    <3> QED BY <3>1, <3>3, <3>4 DEF JobSaved
  <2>3. CASE answer = "conflict"
    <3>1. k = Card(op, 0)
      BY <1>1, <1>2, <2>3 DEF Outcome, Requeues
    <3>2. k.at = "card" /\ k.id = 0 /\ ToSet(k.todo) = {}
      BY <3>1, EmptyTodo DEF Card
    <3> QED BY <3>2 DEF JobSaved
  <2>4. CASE k = Idle
    BY <2>4, IdleSaved
  <2> QED BY <1>1, <2>1, <2>2, <2>3, <2>4 DEF Outcome, Answers
<1> QED BY <1>1, <1>3, SavedHere

LEMMA ReplaysSaved ==
    ASSUME SyncType, KeptInv, SavedInv, NEW d \in Devices, NEW t \in Threads,
           NEW e, NEW answer, NEW k, Replays(d, t, e, answer, k)
    PROVE  SavedInv'
<1>1. /\ Moves(d, t, k) /\ outbox' = outbox /\ log'.acked = log.acked
      /\ log.applied \subseteq log'.applied /\ log.refused \subseteq log'.refused
      /\ answer = "ok" => e.op.enc.w \in log'.applied
  BY DEF Replays, Called, Executed, Rejected, localVars
<1>2. Tied(outbox[d], nextId[d], e.id, e.op.enc.w)
  BY DEF Replays, KeptInv, JobKept
<1>3. /\ RemoveEntry(e.id).do = "remove" /\ RemoveEntry(e.id).id = e.id
      /\ MarkConflict(e.id).do = "status"
  BY DEF RemoveEntry, MarkConflict
<1>4. JobSaved(outbox[d], log', k)
  <2>1. CASE answer = "ok"
    <3>1. k.at = "replay" /\ ToSet(k.todo) \subseteq Clean(e.op) \cup {RemoveEntry(e.id)}
      BY <2>1 DEF Replays, ReplayJobs
    <3>2. \A st \in ToSet(k.todo) : st.do = "remove" => st.id = e.id
      BY <1>3, <3>1, CleanDo
    <3> QED BY <1>1, <1>2, <2>1, <3>1, <3>2 DEF JobSaved, Tied
  <2>2. CASE answer = "conflict"
    <3>1. k.at = "replay" /\ ToSet(k.todo) = {MarkConflict(e.id)}
      BY <2>2 DEF Replays, ReplayJobs
    <3> QED BY <1>3, <3>1 DEF JobSaved
  <2>3. CASE k = Idle
    BY <2>3, IdleSaved
  <2> QED BY <2>1, <2>2, <2>3 DEF Replays
<1> QED BY <1>1, <1>4, SavedHere

LEMMA StatementSaved ==
    ASSUME SyncType, SyncType', KeptInv, SavedInv, NEW d \in Devices, NEW t \in Threads,
           NEW st, NEW k, Steps(d, t, st, k)
    PROVE  SavedInv'
<1> DEFINE j == job[d][t]
           es == outbox[d]
           es2 == outbox'[d]
<1>1. /\ Moves(d, t, k) /\ st \in ToSet(j.todo) /\ JobSaved(es, log, j)
      /\ JobKept(job[d], es, nextId[d], log, j)
  BY DEF Steps, SavedInv, KeptInv
<1>2. /\ log'.applied = log.applied /\ log'.refused = log.refused
      /\ \/ log'.acked = log.acked
         \/ log'.acked = log.acked \cup {j.w} /\ j.at = "finish" /\ Tail(j.todo) = <<>>
  BY StepLog
<1>3. OutboxAfter(d, st) /\ \A e \in Devices : e # d => outbox'[e] = outbox[e]
  BY StepOutbox
<1>4. /\ \A e \in es :
           \/ \E x \in es2 : x.id = e.id /\ x.op.enc.w = e.op.enc.w
           \/ st.do = "remove" /\ e.id = st.id
      /\ \A x \in es2 :
           \/ \E y \in es : y.id = x.id /\ y.op.enc.w = x.op.enc.w
           \/ st.do = "enqueue" /\ x.id = nextId[d] /\ x.op = st.op
      /\ st.do = "enqueue" => \E x \in es2 : x.id = nextId[d] /\ x.op = st.op
  BY <1>3, OutboxRows
<1> HIDE DEF es, es2
<1>5. ASSUME NEW w, DurableOn(es, log, w) PROVE DurableOn(es2, log', w)
  <2>1. CASE w \in log.applied \cup log.refused
    BY <1>2, <2>1 DEF DurableOn
  <2>2. CASE \E e \in es : e.op.enc.w = w
    <3>1. PICK e \in es : e.op.enc.w = w
      BY <2>2
    <3>2. st.do = "remove" /\ e.id = st.id => w \in log.applied
      BY <1>1, <3>1 DEF JobSaved
    <3> QED BY <1>2, <1>4, <3>1, <3>2 DEF DurableOn
  <2> QED BY <1>5, <2>1, <2>2 DEF DurableOn
<1>6. (\E rest : Leaves(j, st, rest, k)) \/ k = Idle
  <2>1. j.at # "requeue"
    BY <1>1 DEF JobSaved
  <2> QED BY <2>1, StepLeaves
<1>7. ASSUME NEW w, Enqueues(j, w), NEW rest, Leaves(j, st, rest, k) PROVE Enqueues(k, w) \/ DurableOn(es2, log', w)
  <2>1. Owns(k, w) \/ (st.do = "enqueue" /\ st.op.enc.w = w)
    BY <1>1, <1>7, RestOwns
  <2>2. CASE Owns(k, w)
    <3>1. k.at \notin {"send", "card"}
      BY <1>7, IdleKept DEF Leaves, Continues
    <3> QED BY <2>2, <3>1 DEF Owns
  <2>3. CASE st.do = "enqueue" /\ st.op.enc.w = w
    BY <1>4, <2>3 DEF DurableOn
  <2> QED BY <2>1, <2>2, <2>3
<1>8. JobSaved(es2, log', k)
  <2>1. CASE k = Idle
    BY <2>1, IdleSaved
  <2>2. CASE k # Idle
    <3>0. PICK rest : Leaves(j, st, rest, k)
      BY <1>6, <2>2
    <3>1. /\ k.at = j.at /\ k.todo = rest /\ (j.at = "finish" => k.w = j.w)
          /\ \A x \in ToSet(rest) : x \in ToSet(j.todo) \/ x.do = "index"
          /\ j.at \in {"requeue", "finish", "stmts", "replay"}
      BY <2>2, <3>0 DEF Leaves, Continues
    <3>2. ASSUME NEW x \in ToSet(k.todo), x.do = "remove", NEW e \in es2, e.id = x.id
          PROVE  e.op.enc.w \in log'.applied
      <4>1. x \in ToSet(j.todo)
        BY <3>1, <3>2
      <4>2. x.id # nextId[d]
        <5>1. x.id < nextId[d] /\ nextId[d] \in Nat
          BY <1>1, <3>2, <4>1, DeviceFacts DEF JobKept
        <5> QED BY <5>1
      <4>3. PICK y \in es : y.id = e.id /\ y.op.enc.w = e.op.enc.w
        BY <1>4, <3>2, <4>2
      <4>4. y.op.enc.w \in log.applied
        BY <1>1, <3>2, <4>1, <4>3 DEF JobSaved
      <4> QED BY <1>2, <4>3, <4>4
    <3>3. k.at = "finish" => DurableOn(es2, log', k.w) \/ Enqueues(k, k.w)
      BY <1>1, <1>5, <1>7, <3>0, <3>1 DEF JobSaved
    <3> QED BY <1>1, <3>1, <3>2, <3>3 DEF JobSaved
  <2> QED BY <2>1, <2>2
<1>9. ASSUME j.at = "finish", Tail(j.todo) = <<>> PROVE DurableOn(es2, log', j.w)
  <2>1. CASE DurableOn(es, log, j.w)
    BY <1>5, <2>1
  <2>2. CASE Enqueues(j, j.w)
    <3>1. PICK x \in ToSet(j.todo) : x.do = "enqueue" /\ x.op.enc.w = j.w
      BY <2>2 DEF Enqueues
    <3>2. ToSet(j.todo) = {st} \cup ToSet(Tail(j.todo)) /\ ToSet(Tail(j.todo)) = {}
      BY <1>9, EmptyTodo DEF Steps
    <3>3. st.do = "enqueue" /\ st.op.enc.w = j.w
      BY <3>1, <3>2
    <3> QED BY <1>4, <3>3 DEF DurableOn
  <2> QED BY <1>1, <1>9, <2>1, <2>2 DEF JobSaved
<1>10. \A w \in log'.acked : w \in log.acked \/ DurableOn(es2, log', w)
  BY <1>2, <1>9
<1>11. \A x \in es2 : (\E y \in es : y.id = x.id /\ y.op.enc.w = x.op.enc.w) \/ x.id = nextId[d]
  BY <1>4
<1> QED BY <1>1, <1>2, <1>3, <1>5, <1>8, <1>10, <1>11, SavedStep DEF es, es2

LEMMA SavedNext ==
    ASSUME MaxResolves = 0, SyncType, SyncType', KeptInv, SavedInv, [Next]_vars
    PROVE  SavedInv'
<1>1. CASE Next
  <2>1. PICK d \in Devices :
             \/ Kills(d)
             \/ \E t \in Threads :
                 \/ \E op : Submits(d, t, op)
                 \/ \E e, k : Opens(d, t, e, k)
                 \/ \E k : Starts(d, t, k) \/ Reads(d, t, k) \/ Decides(d, t, k)
                 \/ \E op, id, answer, k : Asks(d, t, op, id, answer, k)
                 \/ \E e, answer, k : Replays(d, t, e, answer, k)
                 \/ \E st, k : Steps(d, t, st, k)
    BY <1>1, StepKinds
  <2>2. CASE Kills(d)
    <3>1. /\ outbox' = outbox /\ log'.applied = log.applied /\ log'.refused = log.refused
          /\ log'.acked = log.acked
          /\ \A e \in Devices, t \in Threads : job'[e][t] = Idle \/ job'[e][t] = job[e][t]
      BY <2>2 DEF Kills, localVars
    <3>2. \A es, w : DurableOn(es, log', w) <=> DurableOn(es, log, w)
      BY <3>1 DEF DurableOn
    <3>3. ASSUME NEW e \in Devices, NEW t \in Threads PROVE JobSaved(outbox'[e], log', job'[e][t])
      <4>1. CASE job'[e][t] = Idle
        BY <4>1, IdleSaved
      <4>2. CASE job'[e][t] = job[e][t]
        BY <3>1, <3>2, <4>2 DEF SavedInv, JobSaved
      <4> QED BY <3>1, <4>1, <4>2
    <3> QED BY <3>1, <3>2, <3>3 DEF SavedInv
  <2>3. ASSUME NEW t \in Threads, NEW op, Submits(d, t, op) PROVE SavedInv'
    <3> DEFINE k == Sending(op, 0)
    <3>1. k.at = "send" /\ k.id = 0 /\ ToSet(k.todo) = {}
      BY EmptyTodo DEF Sending
    <3>2. /\ Moves(d, t, k) /\ outbox' = outbox /\ log'.acked = log.acked
          /\ log'.applied = log.applied /\ log'.refused = log.refused
      BY <2>3 DEF Submits, localVars
    <3> HIDE DEF k
    <3>3. JobSaved(outbox[d], log', k)
      BY <3>1 DEF JobSaved
    <3> QED BY <3>2, <3>3, SavedHere
  <2>4. ASSUME NEW t \in Threads, NEW e, NEW k, Opens(d, t, e, k) PROVE FALSE
    BY <2>4 DEF Opens
  <2>5. ASSUME NEW t \in Threads, NEW k, Starts(d, t, k) PROVE SavedInv'
    <3>1. JobSaved(outbox[d], log, k)
      BY <2>5, EmptyTodo DEF Starts, JobSaved
    <3> QED BY <2>5, <3>1, SavedHere DEF Starts, localVars
  <2>6. ASSUME NEW t \in Threads, NEW k, Reads(d, t, k) PROVE SavedInv'
    <3>1. JobSaved(outbox[d], log, k)
      BY <2>6 DEF Reads, Reading, JobSaved
    <3> QED BY <2>6, <3>1, SavedHere DEF Reads, localVars
  <2>7. ASSUME NEW t \in Threads, NEW k, Decides(d, t, k) PROVE SavedInv'
    <3> DEFINE j == job[d][t]
    <3>1. /\ j.at = "card" /\ Moves(d, t, k) /\ outbox' = outbox /\ JobSaved(outbox[d], log, j)
          /\ (log' = log \/ Refused(j.op.enc.w)) /\ log \in LogSet
      BY <2>7 DEF Decides, localVars, SavedInv, SyncType
    <3>2. log'.acked = log.acked /\ log'.applied = log.applied /\ log.refused \subseteq log'.refused
      BY <3>1 DEF Refused, LogSet
    <3>3. JobSaved(outbox[d], log', k)
      <4>1. CASE k.at = "send" /\ k.id = j.id /\ k.todo = <<>>
        BY <3>1, <4>1, EmptyTodo DEF JobSaved
      <4>2. CASE /\ k.at = "stmts"
                 /\ ToSet(k.todo) = {Upsert(j.op.s, j.theirs, j.theirs, j.version, FALSE),
                              SetIndex(j.op.s, j.theirs, j.version),
                              SetPayload(j.op.s, j.theirs, j.version)}
        <5>1. \A st \in ToSet(k.todo) : st.do \in {"upsert", "index", "payload"}
          BY <4>2 DEF Upsert, SetIndex, SetPayload
        <5> QED BY <4>2, <5>1 DEF JobSaved
      <4>3. CASE k = Idle
        BY <4>3, IdleSaved
      <4> QED BY <2>7, <4>1, <4>2, <4>3 DEF Decides
    <3> QED BY <3>1, <3>2, <3>3, SavedHere
  <2> QED BY <2>1, <2>2, <2>3, <2>4, <2>5, <2>6, <2>7, AsksSaved, ReplaysSaved, StatementSaved
<1>2. CASE UNCHANGED vars
  BY <1>2 DEF vars, serverVars, localVars, SavedInv
<1> QED BY <1>1, <1>2

\* A change reported as saved outlives every kill as long as no conflict of an outbox is
\* opened, and every opened conflict as long as nothing is killed.  retryOutboxUpdate removes
\* the entry before it creates it anew, so the two together can lose it (conflict_from_outbox.go).
THEOREM SavedStaysDurable ==
    ASSUME MaxResolves = 0 \/ MaxCrashes = 0
    PROVE  Spec => []SavedIsDurable
<1>1. ASSUME MaxResolves = 0 PROVE Spec => []SavedIsDurable
  <2>1. ASSUME Init PROVE SavedInv
    BY <2>1, IdleSaved DEF Init, SavedInv
  <2>2. SavedInv => SavedIsDurable
    BY DEF SavedInv, DurableOn, SavedIsDurable, Queued
  <2>3. SyncType /\ SyncType' /\ KeptInv /\ SavedInv /\ [Next]_vars => SavedInv'
    BY <1>1, SavedNext
  <2> QED BY <2>1, <2>2, <2>3, SyncTypeInvariance, KeptInvariance, PTL DEF Spec
<1>2. ASSUME MaxCrashes = 0 PROVE Spec => []SavedIsDurable
  <2>1. AskedInv /\ NothingLost => SavedIsDurable
    BY <1>2 DEF AskedInv, NothingLost, SavedIsDurable
  <2> QED BY <2>1, AskedInvariance, NoChangeLost, PTL
<1> QED BY <1>1, <1>2

----------------------------------------------------------------------------
(* A pull is complete.  With one thread per device, what the device has of the vault's
   version v is Current: each live secret is cached as the server has it or is kept by an
   entry, the statements still to run keep it so, and a card shows the server's row.  While
   it pulls, synced is behind v, and the rows on their way are the server's as long as the
   version of the pull is v. *)

LiveIn(S) == {s \in Secrets : Exists(S[s]) /\ ~S[s].deleted}

\* The job will enqueue a change of s, or does not remove an entry of s.
Keeps(es, j, s) ==
    \/ \E st \in ToSet(j.todo) : st.do = "enqueue" /\ st.op.s = s
    \/ \E e \in es :
        e.op.s = s /\ \A st \in ToSet(j.todo) : st.do = "remove" => st.id # e.id

Current(S, c, es, j) ==
    /\ \A s \in LiveIn(S) : Same(S, s, c[s].version, c[s].row) \/ Keeps(es, j, s)
    /\ \A st \in ToSet(j.todo) :
        st.do \in {"upsert", "deleterow"} /\ st.s \in LiveIn(S) =>
            \/ st.do = "upsert" /\ Same(S, st.s, st.version, st.enc)
            \/ Keeps(es, j, st.s)
    /\ j.at = "card" /\ j.op.s \in LiveIn(S) => Same(S, j.op.s, j.version, j.theirs)

\* The entry id is there, and of the secret s.
About(es, id, s) == HasEntry(es, id) /\ \A e \in es : e.id = id => e.op.s = s

Tracked(es, j) ==
    /\ \A e, f \in es : e.id = f.id => e.op.s = f.op.s
    /\ j.at \in {"send", "card", "open"} /\ j.id # 0 => About(es, j.id, j.op.s)
    /\ j.at = "requeue" => \A st \in ToSet(j.todo) : st.do = "status" => HasEntry(es, st.id)

Pulling(S, v, c, es, sy, j) ==
    /\ j.at = "fresh" => j.version <= v
    /\ j.at \in {"pull", "rows", "pending"} => sy < j.version /\ j.version <= v
    /\ j.at \in {"rows", "pending"} /\ j.version = v =>
        /\ \A r \in j.rows : Same(S, r.s, r.version, r.enc)
        /\ \A s \in LiveIn(S) :
            (\E r \in j.rows : r.s = s) \/ (j.at = "pending" /\ Waiting(es, s))
    /\ \A st \in ToSet(j.todo) : st.do = "synced" =>
        /\ j.at = "stmts" /\ sy < st.version /\ st.version <= v /\ SyncedLast(j.todo)
        /\ \A x \in ToSet(j.todo) :
            /\ x.do \in {"upsert", "synced"}
            /\ x.do = "upsert" /\ st.version = v => Same(S, x.s, x.version, x.enc)
        /\ st.version = v => \A s \in LiveIn(S) :
            Same(S, s, c[s].version, c[s].row) \/ Written(j.todo, s) \/ Waiting(es, s)

Pulled(S, v, c, es, sy, killed, j) ==
    /\ sy <= v
    /\ killed = {} /\ sy = v => Current(S, c, es, j)
    /\ Tracked(es, j) /\ Pulling(S, v, c, es, sy, j)

PulledInv ==
    \A d \in Devices, t \in Threads :
        Pulled(sec, vaultVersion[Vault], cache[d], outbox[d], synced[d], log.killed, job[d][t])

\* The versions in a job are numbers.
LEMMA JobVersions ==
    ASSUME NEW j \in JobSet
    PROVE  /\ j.at \in {"fresh", "pull", "rows", "pending"} => j.version \in Nat
           /\ \A st \in ToSet(j.todo) : st.do = "synced" => st.version \in Nat
<1>1. ToSet(j.todo) \subseteq Statements
  BY JobKinds, TodoStatements
<1> QED BY <1>1, JobKinds, StatementKinds DEF FreshJobs, RowsJobs

\* A write of whoever moves the version of the vault beyond everything the device has.
LEMMA PulledElsewhere ==
    ASSUME NEW S, NEW S2, NEW v \in Nat, NEW v2 \in Nat, NEW c, NEW es, NEW sy \in Nat,
           NEW killed, NEW killed2, NEW j \in JobSet, Pulled(S, v, c, es, sy, killed, j),
           (S2 = S /\ v2 = v) \/ v2 = v + 1, killed2 = {} => killed = {}
    PROVE  Pulled(S2, v2, c, es, sy, killed2, j)
<1>1. CASE S2 = S /\ v2 = v
  BY <1>1 DEF Pulled
<1>2. CASE v2 = v + 1
  <2>1. sy <= v2 /\ sy # v2 /\ Tracked(es, j)
    BY <1>2 DEF Pulled
  <2>2. Pulling(S, v, c, es, sy, j)
    BY DEF Pulled
  <2>3. j.at \in {"fresh", "pull", "rows", "pending"} => j.version <= v2 /\ j.version # v2
    BY <1>2, <2>2, JobVersions DEF Pulling
  <2>4. ASSUME NEW st \in ToSet(j.todo), st.do = "synced"
        PROVE  st.version <= v2 /\ st.version # v2
    <3>1. st.version \in Nat /\ st.version <= v
      BY <2>2, <2>4, JobVersions DEF Pulling
    <3> QED BY <1>2, <3>1
  <2>5. Pulling(S2, v2, c, es, sy, j)
    BY <2>2, <2>3, <2>4 DEF Pulling
  <2> QED BY <2>1, <2>5 DEF Pulled
<1> QED BY <1>1, <1>2

ServerMoves ==
    \/ sec' = sec /\ vaultVersion' = vaultVersion
    \/ vaultVersion'[Vault] = vaultVersion[Vault] + 1

\* A step of the only thread of the device d.
LEMMA PulledStep ==
    ASSUME SyncType, SyncType', PulledInv, NEW t, Threads = {t}, NEW d \in Devices, NEW k,
           Moves(d, t, k), ServerMoves, log.killed \subseteq log'.killed,
           \A e \in Devices : e # d =>
             cache'[e] = cache[e] /\ outbox'[e] = outbox[e] /\ synced'[e] = synced[e],
           Pulled(sec', vaultVersion'[Vault], cache'[d], outbox'[d], synced'[d], log'.killed, k)
    PROVE  PulledInv'
<1>1. ASSUME NEW e \in Devices, e # d
      PROVE  Pulled(sec', vaultVersion'[Vault], cache'[e], outbox'[e], synced'[e], log'.killed, job'[e][t])
  <2>1. job'[e][t] = job[e][t] /\ job[e][t] \in JobSet
    BY <1>1 DEF Moves, SyncType
  <2>2. /\ vaultVersion[Vault] \in Nat /\ vaultVersion'[Vault] \in Nat /\ synced[e] \in Nat
        /\ log'.killed = {} => log.killed = {}
        /\ \/ sec' = sec /\ vaultVersion'[Vault] = vaultVersion[Vault]
           \/ vaultVersion'[Vault] = vaultVersion[Vault] + 1
    BY DEF SyncType, ServerMoves
  <2>3. Pulled(sec, vaultVersion[Vault], cache[e], outbox[e], synced[e], log.killed, job[e][t])
    BY DEF PulledInv
  <2>4. cache'[e] = cache[e] /\ outbox'[e] = outbox[e] /\ synced'[e] = synced[e]
    BY <1>1
  <2>5. Pulled(sec', vaultVersion'[Vault], cache[e], outbox[e], synced[e], log'.killed, job[e][t])
    BY <2>1, <2>2, <2>3, PulledElsewhere
  <2> QED BY <2>1, <2>4, <2>5
<1>2. job'[d][t] = k
  BY DEF Moves
<1> QED BY <1>1, <1>2 DEF PulledInv

\* The same for a step that leaves the local database alone.
LEMMA PulledHere ==
    ASSUME SyncType, SyncType', PulledInv, NEW t, Threads = {t}, NEW d \in Devices, NEW k,
           Moves(d, t, k), UNCHANGED localVars, log'.killed = log.killed,
           \/ vaultVersion'[Vault] = vaultVersion[Vault] + 1
           \/ /\ sec' = sec /\ vaultVersion' = vaultVersion
              /\ log.killed = {} /\ synced[d] = vaultVersion[Vault] =>
                   Current(sec, cache[d], outbox[d], k),
           Tracked(outbox[d], k),
           Pulling(sec', vaultVersion'[Vault], cache[d], outbox[d], synced[d], k)
    PROVE  PulledInv'
<1>1. vaultVersion[Vault] \in Nat /\ vaultVersion'[Vault] \in Nat /\ synced[d] \in Nat
  BY DEF SyncType
<1>2. synced[d] <= vaultVersion[Vault]
  BY DEF PulledInv, Pulled
<1>3. cache' = cache /\ outbox' = outbox /\ synced' = synced
  BY DEF localVars
<1>4. Pulled(sec', vaultVersion'[Vault], cache[d], outbox[d], synced[d], log'.killed, k)
  <2>1. CASE vaultVersion'[Vault] = vaultVersion[Vault] + 1
    <3>1. synced[d] <= vaultVersion'[Vault] /\ synced[d] # vaultVersion'[Vault]
      BY <1>1, <1>2, <2>1
    <3> QED BY <3>1 DEF Pulled
  <2>2. CASE /\ sec' = sec /\ vaultVersion' = vaultVersion
             /\ log.killed = {} /\ synced[d] = vaultVersion[Vault] =>
                  Current(sec, cache[d], outbox[d], k)
    BY <1>2, <2>2 DEF Pulled
  <2> QED BY <2>1, <2>2
<1>5. ServerMoves /\ log.killed \subseteq log'.killed
  BY DEF ServerMoves
<1> QED BY <1>3, <1>4, <1>5, PulledStep

\* A job without statements that goes on without removing an entry.
LEMMA CurrentAfter ==
    ASSUME NEW S, NEW c, NEW es, NEW j, NEW k, Current(S, c, es, j), ToSet(j.todo) = {},
           \A st \in ToSet(k.todo) :
             /\ st.do # "remove" /\ st.do # "deleterow"
             /\ st.do = "upsert" /\ st.s \in LiveIn(S) => Same(S, st.s, st.version, st.enc),
           k.at = "card" /\ k.op.s \in LiveIn(S) => Same(S, k.op.s, k.version, k.theirs)
    PROVE  Current(S, c, es, k)
<1>1. ASSUME NEW s, Keeps(es, j, s) PROVE Keeps(es, k, s)
  BY <1>1 DEF Keeps
<1> QED BY <1>1 DEF Current

\* A job that enqueues op and may remove the entry id of the same secret.
LEMMA CurrentDeferred ==
    ASSUME NEW S, NEW c, NEW es, NEW j, NEW k, NEW op, NEW id, Current(S, c, es, j),
           ToSet(j.todo) = {}, k.at # "card",
           \A st \in ToSet(k.todo) :
             /\ st.do = "remove" => st.id = id /\ \A e \in es : e.id = id => e.op.s = op.s
             /\ st.do \in {"upsert", "deleterow"} => st.s = op.s,
           \E st \in ToSet(k.todo) : st.do = "enqueue" /\ st.op = op
    PROVE  Current(S, c, es, k)
<1>1. Keeps(es, k, op.s)
  BY DEF Keeps
<1>2. ASSUME NEW s, Keeps(es, j, s) PROVE Keeps(es, k, s)
  <2>1. PICK e \in es : e.op.s = s
    BY <1>2 DEF Keeps
  <2>2. CASE s = op.s
    BY <1>1, <2>2
  <2>3. CASE s # op.s
    <3>1. \A st \in ToSet(k.todo) : st.do = "remove" => st.id # e.id
      BY <2>1, <2>3
    <3> QED BY <2>1, <3>1 DEF Keeps
  <2> QED BY <2>2, <2>3
<1> QED BY <1>1, <1>2 DEF Current

LEMMA NotPulling ==
    ASSUME NEW S, NEW v, NEW c, NEW es, NEW sy, NEW k,
           k.at \notin {"fresh", "pull", "rows", "pending"},
           \A st \in ToSet(k.todo) : st.do # "synced"
    PROVE  Pulling(S, v, c, es, sy, k)
BY DEF Pulling

LEMMA LiveNow == LiveIn(sec) = Live
BY DEF LiveIn, Live

\* What the invariant says of the device of a step, for the lemmas above.
LEMMA PulledNow ==
    ASSUME SyncType, PulledInv, NEW d \in Devices, NEW t \in Threads
    PROVE  /\ log.killed = {} /\ synced[d] = vaultVersion[Vault] =>
                Current(sec, cache[d], outbox[d], job[d][t])
           /\ Tracked(outbox[d], job[d][t])
           /\ Pulling(sec, vaultVersion[Vault], cache[d], outbox[d], synced[d], job[d][t])
           /\ synced[d] <= vaultVersion[Vault]
           /\ synced[d] \in Nat /\ vaultVersion[Vault] \in Nat
           /\ \A e, f \in outbox[d] : e.id = f.id => e.op.s = f.op.s
BY DEF SyncType, PulledInv, Pulled, Tracked

\* Create, UpdateOrDelete, OpenEntry and StartReplay.
LEMMA UserPulled ==
    ASSUME SyncType, SyncType', PulledInv, NEW t, Threads = {t}, NEW d \in Devices, NEW k,
           \/ \E op : Submits(d, t, op) /\ k = Sending(op, 0)
           \/ \E e : Opens(d, t, e, k)
           \/ Starts(d, t, k)
    PROVE  PulledInv'
<1>1. /\ Moves(d, t, k) /\ UNCHANGED localVars /\ log'.killed = log.killed
      /\ sec' = sec /\ vaultVersion' = vaultVersion /\ job[d][t] = Idle
  BY DEF Submits, Opens, Starts, serverVars
<1>2. /\ k.at \in {"send", "open", "replay"} /\ ToSet(k.todo) = {}
      /\ k.at \in {"send", "open"} /\ k.id # 0 => \E e \in outbox[d] : k.op = e.op /\ k.id = e.id
  <2>1. ASSUME NEW op, Submits(d, t, op), k = Sending(op, 0)
        PROVE  k.at = "send" /\ k.id = 0 /\ k.todo = <<>>
    BY <2>1 DEF Sending
  <2> QED BY <2>1, EmptyTodo DEF Opens, Starts
<1>3. t \in Threads
  OBVIOUS
<1>4. log.killed = {} /\ synced[d] = vaultVersion[Vault] => Current(sec, cache[d], outbox[d], k)
  BY <1>1, <1>2, <1>3, PulledNow, CurrentAfter, IdleKept
<1>5. Tracked(outbox[d], k)
  BY <1>2, <1>3, PulledNow DEF Tracked, About, HasEntry
<1>6. Pulling(sec', vaultVersion'[Vault], cache[d], outbox[d], synced[d], k)
  BY <1>2, NotPulling
<1> QED BY <1>1, <1>4, <1>5, <1>6, PulledHere

\* The reads of a pull: what is still to be written is what the server has.
LEMMA ReadsPulling ==
    ASSUME SyncType, PulledInv, NEW d \in Devices, NEW t \in Threads, NEW k, Reads(d, t, k)
    PROVE  Pulling(sec, vaultVersion[Vault], cache[d], outbox[d], synced[d], k)
<1> DEFINE j == job[d][t]
           v == vaultVersion[Vault]
           es == outbox[d]
           sy == synced[d]
<1>1. Fetched(d, j, k) /\ Pulling(sec, v, cache[d], es, sy, j) /\ v \in Nat /\ sy \in Nat
  BY PulledNow DEF Reads
<1>2. k \in JobSet /\ k.at \in {"idle", "fresh", "pull", "rows", "pending", "stmts", "payload"}
  BY DEF Reads, Reading
<1>3. k.at # "stmts" => ToSet(k.todo) = {}
  BY <1>2, BusyKinds, EmptyTodo
<1>4. CASE k.at \in {"idle", "payload"}
  BY <1>3, <1>4, NotPulling
<1>5. CASE k.at = "fresh"
  BY <1>1, <1>3, <1>5 DEF Pulling, Fetched
<1>6. CASE k.at = "pull"
  BY <1>1, <1>3, <1>6 DEF Pulling, Fetched
<1>7. CASE k.at = "rows"
  <2>1. sy < k.version /\ k.version <= v
    BY <1>1, <1>7 DEF Pulling, Fetched
  <2>2. /\ \A r \in k.rows : Same(sec, r.s, r.version, r.enc)
        /\ \A s \in LiveIn(sec) : \E r \in k.rows : r.s = s
    BY <1>1, <1>7, LiveNow DEF Fetched
  <2> QED BY <1>3, <1>7, <2>1, <2>2 DEF Pulling
<1>8. CASE k.at = "pending"
  <2>1. /\ j.at = "rows" /\ k.version = j.version /\ k.rows \subseteq j.rows
        /\ \A r \in j.rows \ k.rows : Waiting(es, r.s)
    BY <1>1, <1>8 DEF Fetched
  <2>2. sy < k.version /\ k.version <= v
    BY <1>1, <2>1 DEF Pulling
  <2>3. ASSUME k.version = v
        PROVE  /\ \A r \in k.rows : Same(sec, r.s, r.version, r.enc)
               /\ \A s \in LiveIn(sec) : (\E r \in k.rows : r.s = s) \/ Waiting(es, s)
    <3>1. /\ \A r \in j.rows : Same(sec, r.s, r.version, r.enc)
          /\ \A s \in LiveIn(sec) : \E r \in j.rows : r.s = s
      BY <1>1, <2>1, <2>3 DEF Pulling
    <3> QED BY <2>1, <3>1
  <2> QED BY <1>3, <1>8, <2>2, <2>3 DEF Pulling
<1>9. CASE k.at = "stmts" /\ \A st \in ToSet(k.todo) : st.do \in {"index", "payload", "load"}
  BY <1>9, NotPulling
<1>10. CASE k.at = "stmts" /\ ~\A st \in ToSet(k.todo) : st.do \in {"index", "payload", "load"}
  <2>1. /\ j.at = "pending" /\ SyncedLast(k.todo)
        /\ \A st \in ToSet(k.todo) :
            \/ st.do = "synced" /\ st.version = j.version
            \/ /\ st.do = "upsert"
               /\ \E r \in j.rows : st.s = r.s /\ st.version = r.version /\ st.enc = r.enc
        /\ \A r \in j.rows : Written(k.todo, r.s) \/ Waiting(es, r.s)
    BY <1>1, <1>10 DEF Fetched
  <2>2. sy < j.version /\ j.version <= v
    BY <1>1, <2>1 DEF Pulling
  <2>3. ASSUME j.version = v
        PROVE  /\ \A x \in ToSet(k.todo) : x.do = "upsert" => Same(sec, x.s, x.version, x.enc)
               /\ \A s \in LiveIn(sec) : Written(k.todo, s) \/ Waiting(es, s)
    <3>1. /\ \A r \in j.rows : Same(sec, r.s, r.version, r.enc)
          /\ \A s \in LiveIn(sec) : (\E r \in j.rows : r.s = s) \/ Waiting(es, s)
      BY <1>1, <2>1, <2>3 DEF Pulling
    <3>2. ASSUME NEW x \in ToSet(k.todo), x.do = "upsert" PROVE Same(sec, x.s, x.version, x.enc)
      <4>1. PICK r \in j.rows : x.s = r.s /\ x.version = r.version /\ x.enc = r.enc
        BY <2>1, <3>2
      <4> QED BY <3>1, <4>1
    <3> QED BY <2>1, <3>1, <3>2
  <2>4. ASSUME NEW st \in ToSet(k.todo), st.do = "synced"
        PROVE  /\ st.version = j.version
               /\ \A x \in ToSet(k.todo) : x.do \in {"upsert", "synced"}
    BY <2>1, <2>4
  <2> QED BY <1>10, <2>1, <2>2, <2>3, <2>4 DEF Pulling
<1> QED BY <1>2, <1>4, <1>5, <1>6, <1>7, <1>8, <1>9, <1>10

LEMMA ReadsPulled ==
    ASSUME SyncType, SyncType', PulledInv, NEW t, Threads = {t}, NEW d \in Devices, NEW k,
           Reads(d, t, k)
    PROVE  PulledInv'
<1> DEFINE j == job[d][t]
<1>1. /\ Moves(d, t, k) /\ UNCHANGED localVars /\ log' = log
      /\ sec' = sec /\ vaultVersion' = vaultVersion /\ ToSet(j.todo) = {} /\ t \in Threads
  BY EmptyTodo DEF Reads, serverVars
<1>2. Pulling(sec', vaultVersion'[Vault], cache[d], outbox[d], synced[d], k)
  BY <1>1, ReadsPulling
<1>3. /\ k \in JobSet /\ k.at \in {"idle", "fresh", "pull", "rows", "pending", "stmts", "payload"}
      /\ k.at # "stmts" => ToSet(k.todo) = {}
  BY BusyKinds, EmptyTodo DEF Reads, Reading
<1>4. Tracked(outbox[d], k)
  BY <1>1, <1>3, PulledNow DEF Tracked
<1>5. ASSUME log.killed = {}, synced[d] = vaultVersion[Vault]
      PROVE  Current(sec, cache[d], outbox[d], k)
  <2>1. j.at # "pending"
    <3>1. /\ Pulling(sec, vaultVersion[Vault], cache[d], outbox[d], synced[d], j)
          /\ synced[d] \in Nat /\ j \in JobSet
      BY <1>1, PulledNow DEF SyncType
    <3>2. j.at = "pending" => j.version \in Nat /\ synced[d] < j.version /\ j.version <= synced[d]
      BY <1>5, <3>1, JobVersions DEF Pulling
    <3> QED BY <3>1, <3>2
  <2>2. \A st \in ToSet(k.todo) : st.do \in {"index", "payload", "load"}
    BY <1>3, <2>1 DEF Reads, Fetched
  <2>3. k.at # "card" /\ \A st \in ToSet(k.todo) : st.do # "remove" /\ st.do # "deleterow" /\ st.do # "upsert"
    BY <1>3, <2>2
  <2>4. Current(sec, cache[d], outbox[d], j)
    BY <1>1, <1>5, PulledNow
  <2> QED BY <1>1, <2>3, <2>4, CurrentAfter
<1> QED BY <1>1, <1>2, <1>4, <1>5, PulledHere

LEMMA DecidesPulled ==
    ASSUME SyncType, SyncType', PulledInv, NEW t, Threads = {t}, NEW d \in Devices, NEW k,
           Decides(d, t, k)
    PROVE  PulledInv'
<1> DEFINE j == job[d][t]
<1>1. /\ Moves(d, t, k) /\ UNCHANGED localVars /\ t \in Threads /\ j \in CardJobs /\ j.at = "card"
      /\ sec' = sec /\ vaultVersion' = vaultVersion /\ j.todo = <<>>
      /\ log \in LogSet /\ (log' = log \/ Refused(j.op.enc.w))
  BY DEF Decides, serverVars, CardJobs, SyncType
<1>2. log'.killed = log.killed /\ ToSet(j.todo) = {}
  BY <1>1, EmptyTodo DEF Refused, LogSet
<1>3. \/ k.at = "send" /\ k.id = j.id /\ k.op.s = j.op.s /\ ToSet(k.todo) = {}
      \/ /\ k.at = "stmts"
         /\ ToSet(k.todo) = {Upsert(j.op.s, j.theirs, j.theirs, j.version, FALSE),
                             SetIndex(j.op.s, j.theirs, j.version),
                             SetPayload(j.op.s, j.theirs, j.version)}
      \/ k.at = "idle" /\ ToSet(k.todo) = {}
  BY EmptyTodo, IdleKept DEF Decides
<1>4. /\ k.at \in {"send", "stmts", "idle"}
      /\ \A st \in ToSet(k.todo) :
          /\ st.do \in {"upsert", "index", "payload"}
          /\ st.do = "upsert" => st.s = j.op.s /\ st.version = j.version /\ st.enc = j.theirs
  BY <1>3 DEF Upsert, SetIndex, SetPayload
<1>5. Tracked(outbox[d], k)
  BY <1>1, <1>3, PulledNow DEF Tracked
<1>6. Pulling(sec', vaultVersion'[Vault], cache[d], outbox[d], synced[d], k)
  BY <1>4, NotPulling
<1>7. ASSUME log.killed = {}, synced[d] = vaultVersion[Vault]
      PROVE  Current(sec, cache[d], outbox[d], k)
  <2>1. Current(sec, cache[d], outbox[d], j)
    BY <1>1, <1>7, PulledNow
  <2>2. j.op.s \in LiveIn(sec) => Same(sec, j.op.s, j.version, j.theirs)
    BY <1>1, <2>1 DEF Current
  <2>3. ASSUME NEW st \in ToSet(k.todo)
        PROVE  /\ st.do # "remove" /\ st.do # "deleterow"
               /\ st.do = "upsert" /\ st.s \in LiveIn(sec) => Same(sec, st.s, st.version, st.enc)
    BY <1>4, <2>2
  <2> QED BY <1>2, <1>4, <2>1, <2>3, CurrentAfter
<1> QED BY <1>1, <1>2, <1>5, <1>6, <1>7, PulledHere

\* Send and ConflictFromOutbox: a write that is executed moves the version of the vault,
\* one that is deferred is enqueued, and a conflict shows the row the server has.
LEMMA AsksPulled ==
    ASSUME SyncType, SyncType', PulledInv, NEW t, Threads = {t}, NEW d \in Devices,
           NEW op, NEW id, NEW answer, NEW k, Asks(d, t, op, id, answer, k)
    PROVE  PulledInv'
<1> DEFINE j == job[d][t]
           es == outbox[d]
<1>1. /\ Moves(d, t, k) /\ UNCHANGED localVars /\ t \in Threads /\ k \in JobSet
      /\ j.at \in {"send", "open"} /\ op = j.op /\ id = j.id /\ op \in Ops /\ id \in Nat
      /\ ToSet(j.todo) = {} /\ answer \in Answers /\ Outcome(op, id, answer, k)
      /\ log'.killed = log.killed
      /\ Executed(op) \/ Rejected(Refuses(j, answer))
      /\ answer = "ok" => Executed(op)
      /\ answer = "conflict" => Rejected(Refuses(j, answer))
  BY EmptyTodo DEF Asks, Called
<1>2. \/ vaultVersion'[Vault] = vaultVersion[Vault] + 1
      \/ sec' = sec /\ vaultVersion' = vaultVersion /\ answer # "ok"
  BY <1>1 DEF Executed, Rejected
<1>3. id # 0 => About(es, id, op.s)
  BY <1>1, PulledNow DEF Tracked
<1> DEFINE Goes ==
             /\ Tracked(es, k)
             /\ k.at \notin {"fresh", "pull", "rows", "pending"}
             /\ \A st \in ToSet(k.todo) : st.do # "synced"
             /\ answer # "ok" => \A c : Current(sec, c, es, j) => Current(sec, c, es, k)
<1>4. \A e, f \in es : e.id = f.id => e.op.s = f.op.s
  BY <1>1, PulledNow
<1>5. ASSUME answer = "ok"
      PROVE  Goes
  <2>1. /\ k.at = "finish"
        /\ \A st \in ToSet(k.todo) : st \in Clean(op) \/ st = RemoveEntry(id)
    BY <1>1, <1>5 DEF Outcome, Applies, FinishJobs, Removal
  <2>2. RemoveEntry(id).do = "remove"
    BY DEF RemoveEntry
  <2>3. \A st \in ToSet(k.todo) : st.do # "synced"
    BY <2>1, <2>2, CleanDo
  <2> QED BY <1>4, <1>5, <2>1, <2>3 DEF Tracked
<1>6. ASSUME answer = "offline", Defers(op, id, k)
      PROVE  Goes
  <2>1. /\ k.at = "finish" /\ Enqueue(op, "pending") \in ToSet(k.todo)
        /\ \A st \in ToSet(k.todo) : st \in Dirty(op) \/ (id # 0 /\ st = RemoveEntry(id))
    BY <1>6 DEF Defers, FinishJobs, Removal
  <2>2. /\ RemoveEntry(id).do = "remove" /\ RemoveEntry(id).id = id
        /\ Enqueue(op, "pending").do = "enqueue" /\ Enqueue(op, "pending").op = op
    BY DEF RemoveEntry, Enqueue
  <2>3. ASSUME NEW st \in Dirty(op)
        PROVE  /\ st.do \in {"upsert", "index", "payload", "deleterow", "enqueue"}
               /\ st.do \in {"upsert", "deleterow"} => st.s = op.s
    BY <2>3 DEF Dirty, Upsert, SetIndex, SetPayload, DeleteRow, Enqueue
  <2>4. ASSUME NEW st \in ToSet(k.todo)
        PROVE  /\ st.do # "synced"
               /\ st.do = "remove" => st.id = id /\ \A e \in es : e.id = id => e.op.s = op.s
               /\ st.do \in {"upsert", "deleterow"} => st.s = op.s
    BY <1>3, <2>1, <2>2, <2>3 DEF About
  <2>5. \E st \in ToSet(k.todo) : st.do = "enqueue" /\ st.op = op
    BY <2>1, <2>2
  <2>6. ASSUME NEW c, Current(sec, c, es, j) PROVE Current(sec, c, es, k)
    <3>1. ToSet(j.todo) = {} /\ k.at # "card"
      BY <1>1, <2>1
    <3>2. \A st \in ToSet(k.todo) :
            /\ st.do = "remove" => st.id = id /\ \A e \in es : e.id = id => e.op.s = op.s
            /\ st.do \in {"upsert", "deleterow"} => st.s = op.s
      BY <2>4
    <3> HIDE DEF j, es
    <3> QED BY <2>5, <2>6, <3>1, <3>2, CurrentDeferred
  <2> QED BY <1>4, <2>1, <2>4, <2>6 DEF Tracked
<1>7. ASSUME answer = "conflict", Requeues(op, id, k)
      PROVE  Goes
  <2>1. /\ k.at = "requeue" /\ id # 0 /\ k.todo \in Todos /\ k.todo # <<>>
        /\ Head(k.todo) = MarkConflict(id)
        /\ ToSet(Tail(k.todo)) = {RemoveEntry(id), Enqueue(op, "conflict")}
    BY <1>7 DEF Requeues, RequeueJobs
  <2>2. ToSet(k.todo) = {MarkConflict(id), RemoveEntry(id), Enqueue(op, "conflict")}
    BY <2>1, HeadTail DEF Todos
  <2>3. /\ RemoveEntry(id).do = "remove" /\ RemoveEntry(id).id = id
        /\ Enqueue(op, "conflict").do = "enqueue" /\ Enqueue(op, "conflict").op = op
        /\ MarkConflict(id).do = "status" /\ MarkConflict(id).id = id
    BY DEF RemoveEntry, Enqueue, MarkConflict
  <2>4. ASSUME NEW st \in ToSet(k.todo)
        PROVE  /\ st.do # "synced"
               /\ st.do = "status" => HasEntry(es, st.id)
               /\ st.do = "remove" => st.id = id /\ \A e \in es : e.id = id => e.op.s = op.s
               /\ st.do \in {"upsert", "deleterow"} => st.s = op.s
    BY <1>3, <2>1, <2>2, <2>3 DEF About
  <2>5. \E st \in ToSet(k.todo) : st.do = "enqueue" /\ st.op = op
    BY <2>2, <2>3
  <2>6. ASSUME NEW c, Current(sec, c, es, j) PROVE Current(sec, c, es, k)
    <3>1. ToSet(j.todo) = {} /\ k.at # "card"
      BY <1>1, <2>1
    <3>2. \A st \in ToSet(k.todo) :
            /\ st.do = "remove" => st.id = id /\ \A e \in es : e.id = id => e.op.s = op.s
            /\ st.do \in {"upsert", "deleterow"} => st.s = op.s
      BY <2>4
    <3> HIDE DEF j, es
    <3> QED BY <2>5, <2>6, <3>1, <3>2, CurrentDeferred
  <2> QED BY <1>4, <2>1, <2>4, <2>6 DEF Tracked
<1>8. ASSUME answer = "conflict", k \in {Card(op, 0), Card(op, id)}
      PROVE  Goes
  <2>1. /\ k.at = "card" /\ k.op = op /\ k.id \in {0, id} /\ k.todo = <<>>
        /\ k.theirs = sec[op.s].enc /\ k.version = sec[op.s].version
    BY <1>8 DEF Card
  <2>2. ToSet(k.todo) = {}
    BY <2>1, EmptyTodo
  <2>3. Same(sec, k.op.s, k.version, k.theirs)
    BY <2>1 DEF Same
  <2>4. ASSUME NEW c, Current(sec, c, es, j) PROVE Current(sec, c, es, k)
    BY <1>1, <2>2, <2>3, <2>4, CurrentAfter
  <2> QED BY <1>3, <1>4, <2>1, <2>2, <2>4 DEF Tracked
<1>9. ASSUME k = Idle
      PROVE  Goes
  <2>1. k.at = "idle" /\ ToSet(k.todo) = {}
    BY <1>9, IdleKept
  <2>2. ASSUME NEW c, Current(sec, c, es, j) PROVE Current(sec, c, es, k)
    BY <1>1, <2>1, <2>2, CurrentAfter
  <2> QED BY <1>4, <2>1, <2>2 DEF Tracked
<1>10. Goes
  BY <1>1, <1>5, <1>6, <1>7, <1>8, <1>9 DEF Outcome, Answers
<1>11. Pulling(sec', vaultVersion'[Vault], cache[d], es, synced[d], k)
  BY <1>10, NotPulling
<1>12. \/ vaultVersion'[Vault] = vaultVersion[Vault] + 1
       \/ /\ sec' = sec /\ vaultVersion' = vaultVersion
          /\ log.killed = {} /\ synced[d] = vaultVersion[Vault] => Current(sec, cache[d], es, k)
  BY <1>1, <1>2, <1>10, PulledNow
<1> QED BY <1>1, <1>10, <1>11, <1>12, PulledHere

LEMMA ReplaysPulled ==
    ASSUME SyncType, SyncType', PulledInv, NEW t, Threads = {t}, NEW d \in Devices,
           NEW e, NEW answer, NEW k, Replays(d, t, e, answer, k)
    PROVE  PulledInv'
<1> DEFINE j == job[d][t]
<1>1. /\ Moves(d, t, k) /\ UNCHANGED localVars /\ t \in Threads /\ ToSet(j.todo) = {}
      /\ log'.killed = log.killed
      /\ Executed(e.op) \/ Rejected({})
      /\ answer = "ok" => Executed(e.op)
  BY EmptyTodo DEF Replays, Called
<1>2. \/ vaultVersion'[Vault] = vaultVersion[Vault] + 1
      \/ sec' = sec /\ vaultVersion' = vaultVersion /\ answer # "ok"
  BY <1>1 DEF Executed, Rejected
<1>3. /\ k.at \in {"replay", "idle"}
      /\ \A st \in ToSet(k.todo) : st \in Clean(e.op) \cup {RemoveEntry(e.id), MarkConflict(e.id)}
      /\ answer # "ok" => \A st \in ToSet(k.todo) : st = MarkConflict(e.id)
  <2>1. CASE answer \in {"ok", "conflict"}
    BY <2>1 DEF Replays, ReplayJobs
  <2>2. CASE answer \notin {"ok", "conflict"}
    BY <2>2, IdleKept DEF Replays
  <2> QED BY <2>1, <2>2
<1>4. RemoveEntry(e.id).do = "remove" /\ MarkConflict(e.id).do = "status"
  BY DEF RemoveEntry, MarkConflict
<1>5. Tracked(outbox[d], k)
  BY <1>1, <1>3, PulledNow DEF Tracked
<1>6. \A st \in ToSet(k.todo) : st.do # "synced"
  BY <1>3, <1>4, CleanDo
<1>7. Pulling(sec', vaultVersion'[Vault], cache[d], outbox[d], synced[d], k)
  BY <1>3, <1>6, NotPulling
<1>8. ASSUME answer # "ok", log.killed = {}, synced[d] = vaultVersion[Vault]
      PROVE  Current(sec, cache[d], outbox[d], k)
  <2>1. Current(sec, cache[d], outbox[d], j)
    BY <1>1, <1>8, PulledNow
  <2>2. \A st \in ToSet(k.todo) : st.do = "status"
    BY <1>3, <1>4, <1>8
  <2> QED BY <1>1, <1>3, <2>1, <2>2, CurrentAfter
<1>9. \/ vaultVersion'[Vault] = vaultVersion[Vault] + 1
      \/ /\ sec' = sec /\ vaultVersion' = vaultVersion
         /\ log.killed = {} /\ synced[d] = vaultVersion[Vault] => Current(sec, cache[d], outbox[d], k)
  BY <1>2, <1>8
<1> QED BY <1>1, <1>5, <1>7, <1>9, PulledHere

\* The list of statements that is left.
LEMMA RestList ==
    ASSUME NEW j, NEW st, NEW rest, NEW k, Leaves(j, st, rest, k)
    PROVE  /\ ToSet(k.todo) = ToSet(rest)
           /\ \A x \in ToSet(k.todo) : x \in ToSet(j.todo) \/ x.do = "index"
           /\ \A x \in ToSet(j.todo) : x = st \/ x \in ToSet(k.todo)
<1>1. ToSet(k.todo) = ToSet(rest)
  <2>1. CASE k = Idle /\ rest = <<>>
    BY <2>1, EmptyTodo, IdleKept
  <2>2. CASE k.todo = rest
    BY <2>2
  <2> QED BY <2>1, <2>2 DEF Leaves, Continues
<1> QED BY <1>1 DEF Leaves

\* Whatever was kept is kept after a statement.
LEMMA StatementKeeps ==
    ASSUME SyncType, KeptInv, NEW d \in Devices, NEW t \in Threads, NEW st, NEW k,
           Steps(d, t, st, k), Tracked(outbox[d], job[d][t]),
           NEW s, Keeps(outbox[d], job[d][t], s)
    PROVE  Keeps(outbox'[d], k, s)
<1> DEFINE j == job[d][t]
           n == nextId[d]
<1>1. /\ j.todo # <<>> /\ st = Head(j.todo) /\ st \in ToSet(j.todo) /\ j \in JobSet
      /\ JobKept(job[d], outbox[d], n, log, j) /\ Numbered(outbox[d], n)
  BY DEF Steps, KeptInv, SyncType
<1>2. n \in Nat /\ OutboxAfter(d, st) /\ ToSet(j.todo) \subseteq Statements
  BY <1>1, DeviceFacts, StepOutbox, JobKinds, TodoStatements
<1>3. \A x \in ToSet(j.todo) : x.do = "remove" => x.id \in Nat /\ x.id < n
  BY <1>1, <1>2, StatementKinds DEF JobKept
<1>4. \A e \in outbox[d] :
        \/ \E x \in outbox'[d] : x.id = e.id /\ x.op = e.op
        \/ st.do = "remove" /\ e.id = st.id
  BY <1>2, OutboxRows
<1>5. st.do = "enqueue" => \E x \in outbox'[d] : x.id = n /\ x.op = st.op
  BY <1>2, OutboxRows
<1>6. ASSUME \A x \in ToSet(k.todo) : x \in ToSet(j.todo) \/ x.do = "index"
      PROVE  /\ st.do = "enqueue" /\ st.op.s = s => Keeps(outbox'[d], k, s)
             /\ \A e \in outbox[d] :
                  /\ e.op.s = s
                  /\ \A x \in ToSet(j.todo) : x.do = "remove" => x.id # e.id
                  => Keeps(outbox'[d], k, s)
  <2>1. ASSUME st.do = "enqueue", st.op.s = s PROVE Keeps(outbox'[d], k, s)
    <3>1. PICK x \in outbox'[d] : x.id = n /\ x.op.s = s
      BY <1>5, <2>1
    <3>2. \A y \in ToSet(k.todo) : y.do = "remove" => y.id # x.id
      BY <1>2, <1>3, <1>6, <3>1
    <3> QED BY <3>1, <3>2 DEF Keeps
  <2>2. ASSUME NEW e \in outbox[d], e.op.s = s,
               \A x \in ToSet(j.todo) : x.do = "remove" => x.id # e.id
        PROVE  Keeps(outbox'[d], k, s)
    <3>1. PICK x \in outbox'[d] : x.id = e.id /\ x.op = e.op
      BY <1>1, <1>4, <2>2
    <3>2. \A y \in ToSet(k.todo) : y.do = "remove" => y.id # x.id
      BY <1>6, <2>2, <3>1
    <3> QED BY <2>2, <3>1, <3>2 DEF Keeps
  <2> QED BY <2>1, <2>2
<1>7. CASE \E e \in outbox[d] :
             e.op.s = s /\ \A x \in ToSet(j.todo) : x.do = "remove" => x.id # e.id
  <2>1. \A x \in ToSet(k.todo) : x \in ToSet(j.todo) \/ x.do = "index"
    <3>1. CASE \E rest : Leaves(j, st, rest, k)
      BY <3>1, RestList
    <3>2. CASE k.todo = <<>> \/ k = Idle
      BY <3>2, EmptyTodo, IdleKept
    <3> QED BY <3>1, <3>2, StepLeaves
  <2> QED BY <1>6, <1>7, <2>1
<1>8. CASE \E x \in ToSet(j.todo) : x.do = "enqueue" /\ x.op.s = s
  <2>1. PICK x \in ToSet(j.todo) : x.do = "enqueue" /\ x.op.s = s
    BY <1>8
  <2>2. ASSUME NEW rest, Leaves(j, st, rest, k) PROVE Keeps(outbox'[d], k, s)
    <3>1. /\ \A y \in ToSet(k.todo) : y \in ToSet(j.todo) \/ y.do = "index"
          /\ x = st \/ x \in ToSet(k.todo)
      BY <2>2, RestList
    <3>2. CASE x = st
      BY <1>6, <2>1, <3>1, <3>2
    <3>3. CASE x \in ToSet(k.todo)
      BY <2>1, <3>3 DEF Keeps
    <3> QED BY <3>1, <3>2, <3>3
  <2>3. CASE st.do = "enqueue" /\ j.at = "requeue" /\ k.todo = <<>>
    <3>1. x.op = st.op
      BY <1>1, <2>1, <2>3, JobKinds DEF RequeueJobs
    <3>2. \A y \in ToSet(k.todo) : y \in ToSet(j.todo) \/ y.do = "index"
      BY <2>3, EmptyTodo
    <3> QED BY <1>6, <2>1, <2>3, <3>1, <3>2
  <2>4. ASSUME st.do = "status", ~HasEntry(outbox[d], st.id) PROVE FALSE
    <3>1. j.at \in {"replay", "requeue"}
      BY <1>1, <2>4 DEF JobKept
    <3>2. j.at # "replay"
      BY <1>1, <2>1 DEF JobKept
    <3>3. j.at # "requeue"
      BY <1>1, <2>4 DEF Tracked
    <3> QED BY <3>1, <3>2, <3>3
  <2> QED BY <2>2, <2>3, <2>4, StepLeaves
<1> QED BY <1>7, <1>8 DEF Keeps

\* What a statement leaves of a row of the cache, and of the version synced last.
LEMMA StatementCache ==
    ASSUME SyncType, NEW d \in Devices, NEW t \in Threads, NEW st, NEW k, Steps(d, t, st, k)
    PROVE  /\ \A e \in Devices : e # d => cache'[e] = cache[e] /\ synced'[e] = synced[e]
           /\ \A s \in Secrets :
               \/ cache'[d][s].version = cache[d][s].version /\ cache'[d][s].row = cache[d][s].row
               \/ st.do = "deleterow" /\ st.s = s
               \/ /\ st.do = "upsert" /\ st.s = s
                  /\ cache'[d][s].version = st.version /\ cache'[d][s].row = st.enc
           /\ st.do = "upsert" =>
               cache'[d][st.s].version = st.version /\ cache'[d][st.s].row = st.enc
           /\ st.do # "synced" => synced'[d] = synced[d]
           /\ st.do = "synced" => synced'[d] = st.version /\ cache' = cache
<1>1. st \in Statements /\ Performs(d, t, st, k)
  BY DEF Steps
<1>2. cache \in [Devices -> [Secrets -> CacheRows]] /\ synced \in [Devices -> Nat]
  BY DEF SyncType
<1>3. CASE st.do \in {"upsert", "index", "payload", "deleterow"}
  <2>1. st.s \in Secrets
    BY <1>1, <1>3, StatementKinds DEF Upserts, Tiers
  <2>2. cache' = [cache EXCEPT ![d][st.s] = RowAfter(@, st)] /\ synced' = synced
    BY <1>1, <1>3 DEF Performs
  <2>3. /\ cache'[d][st.s] = RowAfter(cache[d][st.s], st)
        /\ \A s \in Secrets : s # st.s => cache'[d][s] = cache[d][s]
        /\ \A e \in Devices : e # d => cache'[e] = cache[e]
    BY <1>2, <2>1, <2>2
  <2>4. st.do = "upsert" =>
          /\ RowAfter(cache[d][st.s], st).version = st.version
          /\ RowAfter(cache[d][st.s], st).row = st.enc
    BY DEF RowAfter, UpsertSecretRow
  <2>5. st.do \in {"index", "payload"} =>
          /\ RowAfter(cache[d][st.s], st).version = cache[d][st.s].version
          /\ RowAfter(cache[d][st.s], st).row = cache[d][st.s].row
    <3>1. cache[d][st.s] \in CacheRows
      BY <1>2, <2>1
    <3> QED BY <3>1 DEF RowAfter, SetSecretIndex, SetSecretPayload, CacheRows
  <2> QED BY <1>3, <2>2, <2>3, <2>4, <2>5
<1>4. CASE st.do \notin {"upsert", "index", "payload", "deleterow", "synced"}
  <2>1. cache' = cache /\ synced' = synced
    BY <1>1, <1>4 DEF Performs, localVars
  <2> QED BY <1>4, <2>1
<1>5. CASE st.do = "synced"
  <2>1. cache' = cache /\ synced' = [synced EXCEPT ![d] = st.version]
    BY <1>1, <1>5 DEF Performs
  <2> QED BY <1>2, <1>5, <2>1
<1> QED BY <1>1, <1>3, <1>4, <1>5, StatementKinds

\* The version is stored by the last statement of the list.
LEMMA SyncedAlone ==
    ASSUME NEW L \in Todos, L # <<>>, SyncedLast(L)
    PROVE  /\ Head(L).do = "synced" => Tail(L) = <<>>
           /\ SyncedLast(Tail(L))
<1>1. /\ Len(L) \in Nat \ {0} /\ Head(L) = L[1] /\ Tail(L) \in Seq(Statements)
      /\ Len(Tail(L)) = Len(L) - 1 /\ \A i \in 1 .. Len(L) - 1 : Tail(L)[i] = L[i + 1]
  BY DEF Todos
<1>2. ASSUME Head(L).do = "synced" PROVE Tail(L) = <<>>
  <2>1. 1 \in 1 .. Len(L) /\ L[1].do = "synced"
    BY <1>1, <1>2
  <2>2. Len(L) = 1
    BY <2>1 DEF SyncedLast
  <2>3. Tail(L) \in Seq(Statements) /\ Len(Tail(L)) = 0
    BY <1>1, <2>2
  <2> QED BY <2>3, EmptySeq
<1>3. ASSUME NEW i \in 1 .. Len(Tail(L)), Tail(L)[i].do = "synced" PROVE i = Len(Tail(L))
  <2>1. /\ i + 1 \in 1 .. Len(L) /\ L[i + 1].do = "synced"
        /\ i \in Nat /\ Len(L) \in Nat /\ Len(Tail(L)) = Len(L) - 1
    BY <1>1, <1>3
  <2>2. i + 1 = Len(L)
    BY <2>1 DEF SyncedLast
  <2>3. Len(L) - 1 = i
    <3>1. \A n \in Nat : i + 1 = n => n - 1 = i
      BY <2>1
    <3> QED BY <2>1, <2>2, <3>1
  <2> QED BY <2>1, <2>3, Zenon
<1> QED BY <1>2, <1>3 DEF SyncedLast

\* The job after a statement.
LEMMA StatementJob ==
    ASSUME SyncType, KeptInv, NEW d \in Devices, NEW t \in Threads, NEW st, NEW k,
           Steps(d, t, st, k)
    PROVE  /\ \A x \in ToSet(k.todo) : x \in ToSet(job[d][t].todo) \/ x.do = "index"
           /\ k.at \in {"idle", "requeue", "finish", "stmts", "replay", "open"}
           /\ k.at = "requeue" => \A x \in ToSet(k.todo) : x.do # "status"
           /\ k.at = "open" => st.do = "enqueue" /\ k.op = st.op /\ k.id = nextId[d]
<1> DEFINE j == job[d][t]
<1>1. JobKept(job[d], outbox[d], nextId[d], log, j)
  BY DEF KeptInv
<1>2. ASSUME NEW rest, Leaves(j, st, rest, k)
      PROVE  /\ \A x \in ToSet(k.todo) : x \in ToSet(j.todo) \/ x.do = "index"
             /\ k.at \in {"idle", "requeue", "finish", "stmts", "replay"}
             /\ k.at = "requeue" => \A x \in ToSet(k.todo) : x.do # "status"
  <2>1. ToSet(k.todo) = ToSet(rest)
    BY <1>2, RestList
  <2>2. (k.at = "idle" /\ k = Idle) \/ (k.at = j.at /\ j.at \in {"requeue", "finish", "stmts", "replay"})
    BY <1>2, IdleKept DEF Leaves, Continues
  <2>3. ASSUME k.at = "requeue", NEW x \in ToSet(k.todo) PROVE x.do # "status"
    <3>1. j.at = "requeue" /\ (x \in ToSet(Tail(j.todo)) \/ x.do = "index")
      BY <1>2, <2>1, <2>2, <2>3 DEF Leaves
    <3> QED BY <1>1, <3>1 DEF JobKept
  <2> QED BY <1>2, <2>2, <2>3, RestList
<1>3. CASE st.do = "enqueue" /\ k.at = "open" /\ k.op = st.op /\ k.id = nextId[d] /\ k.todo = <<>>
  BY <1>3, EmptyTodo
<1>4. CASE k = Idle
  BY <1>4, IdleKept
<1> QED BY <1>2, <1>3, <1>4, StepLeaves

LEMMA StatementTracked ==
    ASSUME SyncType, KeptInv, PulledInv, NEW d \in Devices, NEW t \in Threads, NEW st, NEW k,
           Steps(d, t, st, k)
    PROVE  Tracked(outbox'[d], k)
<1> DEFINE n == nextId[d]
<1>1. \A e \in outbox[d] : e.id \in Nat /\ e.id < n
  BY DeviceFacts DEF KeptInv, Numbered, Entries
<1>2. n \in Nat /\ OutboxAfter(d, st) /\ \A e, f \in outbox[d] : e.id = f.id => e.op.s = f.op.s
  BY DeviceFacts, StepOutbox, PulledNow
<1>3. /\ \A x \in outbox'[d] :
           \/ \E y \in outbox[d] : y.id = x.id /\ y.op = x.op
           \/ st.do = "enqueue" /\ x.id = n /\ x.op = st.op
      /\ st.do = "enqueue" => \E x \in outbox'[d] : x.id = n /\ x.op = st.op
  BY <1>2, OutboxRows
<1>4. \A x \in outbox'[d] : x.id = n => x.op = st.op
  BY <1>1, <1>2, <1>3
<1>5. ASSUME NEW x \in outbox'[d], NEW z \in outbox'[d], x.id = z.id PROVE x.op.s = z.op.s
  <2>1. CASE x.id = n
    BY <1>4, <1>5, <2>1
  <2>2. CASE x.id # n
    <3>1. PICK y \in outbox[d] : y.id = x.id /\ y.op = x.op
      BY <1>3, <2>2
    <3>2. PICK u \in outbox[d] : u.id = z.id /\ u.op = z.op
      BY <1>3, <1>5, <2>2
    <3> QED BY <1>2, <1>5, <3>1, <3>2
  <2> QED BY <2>1, <2>2
<1>6. k.at = "open" => About(outbox'[d], k.id, k.op.s)
  BY <1>3, <1>4, StatementJob DEF About, HasEntry
<1>7. k.at \notin {"send", "card"} /\ (k.at = "requeue" => \A x \in ToSet(k.todo) : x.do # "status")
  BY StatementJob
<1> QED BY <1>5, <1>6, <1>7 DEF Tracked

LEMMA StatementPulling ==
    ASSUME SyncType, KeptInv, PulledInv, NEW d \in Devices, NEW t \in Threads, NEW st, NEW k,
           Steps(d, t, st, k)
    PROVE  Pulling(sec, vaultVersion[Vault], cache'[d], outbox'[d], synced'[d], k)
<1> DEFINE j == job[d][t]
           v == vaultVersion[Vault]
           c2 == cache'[d]
           es2 == outbox'[d]
           sy2 == synced'[d]
<1>1. /\ Pulling(sec, v, cache[d], outbox[d], synced[d], j) /\ j \in JobSet
      /\ j.todo # <<>> /\ st = Head(j.todo) /\ j.todo \in Todos
      /\ ToSet(j.todo) = {st} \cup ToSet(Tail(j.todo)) /\ Performs(d, t, st, k)
  BY PulledNow, JobKinds DEF Steps, SyncType
<1>2. k.at \notin {"fresh", "pull", "rows", "pending"}
  BY StatementJob
<1>3. ASSUME NEW x \in ToSet(k.todo), x.do = "synced"
      PROVE  /\ k.at = "stmts" /\ sy2 < x.version /\ x.version <= v /\ SyncedLast(k.todo)
             /\ \A y \in ToSet(k.todo) :
                 /\ y.do \in {"upsert", "synced"}
                 /\ y.do = "upsert" /\ x.version = v => Same(sec, y.s, y.version, y.enc)
             /\ x.version = v => \A s \in LiveIn(sec) :
                 Same(sec, s, c2[s].version, c2[s].row) \/ Written(k.todo, s) \/ Waiting(es2, s)
  <2>1. x \in ToSet(j.todo)
    BY <1>3, StatementJob
  <2>2. /\ j.at = "stmts" /\ synced[d] < x.version /\ x.version <= v /\ SyncedLast(j.todo)
        /\ \A y \in ToSet(j.todo) :
            /\ y.do \in {"upsert", "synced"}
            /\ y.do = "upsert" /\ x.version = v => Same(sec, y.s, y.version, y.enc)
        /\ x.version = v => \A s \in LiveIn(sec) :
            Same(sec, s, cache[d][s].version, cache[d][s].row) \/ Written(j.todo, s) \/ Waiting(outbox[d], s)
    BY <1>1, <1>3, <2>1 DEF Pulling
  <2>3. st.do \in {"upsert", "synced"} /\ st \in ToSet(j.todo)
    BY <1>1, <2>2
  <2>4. Continues(j, Tail(j.todo), k) /\ outbox' = outbox
    BY <1>1, <2>3 DEF Performs
  <2>5. ToSet(k.todo) # {} /\ k # Idle
    BY <1>3, IdleKept
  <2>6. k.at = "stmts" /\ k.todo = Tail(j.todo)
    BY <2>2, <2>4, <2>5 DEF Continues
  <2>7. st.do = "upsert" /\ SyncedLast(k.todo)
    BY <1>1, <2>2, <2>3, <2>5, <2>6, SyncedAlone, EmptyTodo
  <2>8. /\ sy2 = synced[d] /\ c2[st.s].version = st.version /\ c2[st.s].row = st.enc
        /\ \A s \in Secrets : s # st.s => /\ c2[s].version = cache[d][s].version
                                         /\ c2[s].row = cache[d][s].row
    BY <2>7, StatementCache
  <2>9. ASSUME x.version = v, NEW s \in LiveIn(sec)
        PROVE  Same(sec, s, c2[s].version, c2[s].row) \/ Written(k.todo, s) \/ Waiting(es2, s)
    <3>1. CASE s = st.s
      <4>1. Same(sec, st.s, st.version, st.enc)
        BY <2>2, <2>3, <2>7, <2>9
      <4> QED BY <2>8, <3>1, <4>1
    <3>2. CASE s # st.s
      <4>1. s \in Secrets
        BY DEF LiveIn
      <4>2. Same(sec, s, cache[d][s].version, cache[d][s].row) \/ Written(j.todo, s) \/ Waiting(outbox[d], s)
        BY <2>2, <2>9
      <4>3. Written(j.todo, s) => Written(k.todo, s)
        BY <1>1, <2>6, <3>2 DEF Written
      <4> QED BY <2>4, <2>8, <3>2, <4>1, <4>2, <4>3
    <3> QED BY <3>1, <3>2
  <2>10. \A y \in ToSet(k.todo) : y \in ToSet(j.todo)
    BY <1>1, <2>6
  <2> QED BY <2>2, <2>6, <2>7, <2>8, <2>9, <2>10
<1> QED BY <1>2, <1>3 DEF Pulling

LEMMA StatementPulled ==
    ASSUME SyncType, SyncType', KeptInv, PulledInv, NEW t, Threads = {t}, NEW d \in Devices,
           NEW st, NEW k, Steps(d, t, st, k)
    PROVE  PulledInv'
<1> DEFINE j == job[d][t]
           v == vaultVersion[Vault]
<1>0. t \in Threads
  OBVIOUS
<1>1. /\ Moves(d, t, k) /\ sec' = sec /\ vaultVersion' = vaultVersion /\ log'.killed = log.killed
      /\ j \in JobSet /\ j.todo # <<>> /\ st = Head(j.todo) /\ j.todo \in Todos
      /\ ToSet(j.todo) = {st} \cup ToSet(Tail(j.todo)) /\ Performs(d, t, st, k)
  <2>1. log'.killed = log.killed
    BY <1>0, StepLog
  <2>2. j \in JobSet /\ j.todo \in Todos
    BY <1>0, JobKinds DEF SyncType
  <2> QED BY <2>1, <2>2 DEF Steps, serverVars
<1>2. /\ log.killed = {} /\ synced[d] = v => Current(sec, cache[d], outbox[d], j)
      /\ Tracked(outbox[d], j) /\ Pulling(sec, v, cache[d], outbox[d], synced[d], j)
      /\ synced[d] <= v
  BY <1>0, PulledNow
<1>3. \A x \in ToSet(k.todo) : x \in ToSet(j.todo) \/ x.do = "index"
  BY <1>0, StatementJob
<1>4. k.at # "card"
  BY <1>0, StatementJob
<1>5. \A s : Keeps(outbox[d], j, s) => Keeps(outbox'[d], k, s)
  BY <1>0, <1>2, StatementKeeps
<1>6. ASSUME st.do # "synced"
      PROVE  /\ synced'[d] <= v
             /\ log.killed = {} /\ synced'[d] = v => Current(sec, cache'[d], outbox'[d], k)
  <2>1. /\ synced'[d] = synced[d]
        /\ \A s \in Secrets :
            \/ cache'[d][s].version = cache[d][s].version /\ cache'[d][s].row = cache[d][s].row
            \/ st.do = "deleterow" /\ st.s = s
            \/ /\ st.do = "upsert" /\ st.s = s
               /\ cache'[d][s].version = st.version /\ cache'[d][s].row = st.enc
    BY <1>0, <1>6, StatementCache
  <2>2. ASSUME log.killed = {}, synced[d] = v PROVE Current(sec, cache'[d], outbox'[d], k)
    <3>1. /\ \A s \in LiveIn(sec) : \/ Same(sec, s, cache[d][s].version, cache[d][s].row)
                                    \/ Keeps(outbox[d], j, s)
          /\ \A x \in ToSet(j.todo) :
              x.do \in {"upsert", "deleterow"} /\ x.s \in LiveIn(sec) =>
                  \/ x.do = "upsert" /\ Same(sec, x.s, x.version, x.enc)
                  \/ Keeps(outbox[d], j, x.s)
      BY <1>2, <2>2 DEF Current
    <3>2. ASSUME NEW s \in LiveIn(sec)
          PROVE  Same(sec, s, cache'[d][s].version, cache'[d][s].row) \/ Keeps(outbox'[d], k, s)
      <4>1. s \in Secrets /\ st \in ToSet(j.todo)
        BY <1>1 DEF LiveIn
      <4>2. CASE cache'[d][s].version = cache[d][s].version /\ cache'[d][s].row = cache[d][s].row
        BY <1>5, <3>1, <4>2
      <4>3. CASE st.do \in {"upsert", "deleterow"} /\ st.s = s
        BY <1>5, <2>1, <3>1, <4>1, <4>3
      <4> QED BY <2>1, <4>1, <4>2, <4>3
    <3>3. ASSUME NEW x \in ToSet(k.todo), x.do \in {"upsert", "deleterow"}, x.s \in LiveIn(sec)
          PROVE  \/ x.do = "upsert" /\ Same(sec, x.s, x.version, x.enc)
                 \/ Keeps(outbox'[d], k, x.s)
      BY <1>3, <1>5, <3>1, <3>3
    <3> QED BY <1>4, <3>2, <3>3 DEF Current
  <2> QED BY <1>2, <2>1, <2>2
<1>7. ASSUME st.do = "synced"
      PROVE  /\ synced'[d] <= v
             /\ log.killed = {} /\ synced'[d] = v => Current(sec, cache'[d], outbox'[d], k)
  <2>1. st \in ToSet(j.todo)
    BY <1>1
  <2>2. /\ st.version <= v /\ SyncedLast(j.todo)
        /\ st.version = v => \A s \in LiveIn(sec) :
             \/ Same(sec, s, cache[d][s].version, cache[d][s].row)
             \/ Written(j.todo, s) \/ Waiting(outbox[d], s)
    BY <1>2, <1>7, <2>1 DEF Pulling
  <2>3. Tail(j.todo) = <<>>
    BY <1>1, <1>7, <2>2, SyncedAlone
  <2>4. ToSet(j.todo) = {st} /\ Continues(j, <<>>, k) /\ outbox' = outbox
    BY <1>1, <1>7, <2>3, EmptyTodo DEF Performs
  <2>5. ToSet(k.todo) = {}
    BY <2>4, EmptyTodo, IdleKept DEF Continues
  <2>6. synced'[d] = st.version /\ cache' = cache
    BY <1>0, <1>7, StatementCache
  <2>7. ASSUME NEW s \in LiveIn(sec), st.version = v
        PROVE  Same(sec, s, cache[d][s].version, cache[d][s].row) \/ Keeps(outbox[d], k, s)
    <3>1. ~Written(j.todo, s)
      BY <1>7, <2>4 DEF Written
    <3>2. Waiting(outbox[d], s) => Keeps(outbox[d], k, s)
      BY <2>5 DEF Waiting, Keeps
    <3> QED BY <2>2, <2>7, <3>1, <3>2
  <2>8. st.version = v => Current(sec, cache[d], outbox[d], k)
    BY <1>4, <2>5, <2>7 DEF Current
  <2> QED BY <2>2, <2>4, <2>6, <2>8
<1>8. /\ synced'[d] <= v
      /\ log.killed = {} /\ synced'[d] = v => Current(sec, cache'[d], outbox'[d], k)
  <2>1. CASE st.do # "synced"
    BY <1>6, <2>1
  <2>2. CASE st.do = "synced"
    BY <1>7, <2>2
  <2> QED BY <2>1, <2>2
<1>9. Tracked(outbox'[d], k) /\ Pulling(sec, v, cache'[d], outbox'[d], synced'[d], k)
  BY <1>0, StatementTracked, StatementPulling
<1>10. Pulled(sec', vaultVersion'[Vault], cache'[d], outbox'[d], synced'[d], log'.killed, k)
  BY <1>1, <1>8, <1>9 DEF Pulled
<1>11. \A e \in Devices : e # d =>
         cache'[e] = cache[e] /\ outbox'[e] = outbox[e] /\ synced'[e] = synced[e]
  BY <1>0, StatementCache, StepOutbox
<1>12. ServerMoves /\ log.killed \subseteq log'.killed
  BY <1>1 DEF ServerMoves
<1> QED BY <1>1, <1>10, <1>11, <1>12, PulledStep

LEMMA KillsPulled ==
    ASSUME SyncType, SyncType', AskedInv, PulledInv, NEW t, Threads = {t}, NEW d \in Devices,
           Kills(d)
    PROVE  PulledInv'
<1> DEFINE j == job[d][t]
           es == outbox[d]
<1>1. /\ sec' = sec /\ vaultVersion' = vaultVersion /\ t \in Threads
      /\ cache' = cache /\ outbox' = outbox /\ synced' = synced /\ job'[d][t] = Idle
      /\ \A e \in Devices : e # d => job'[e][t] = job[e][t]
      /\ log'.killed = log.killed \cup {w \in log.asked : Holds(d, w)}
  BY DEF Kills, serverVars, localVars
<1>2. ASSUME NEW e \in Devices, e # d
      PROVE  Pulled(sec', vaultVersion'[Vault], cache'[e], outbox'[e], synced'[e], log'.killed, job'[e][t])
  <2>1. job'[e][t] = job[e][t] /\ job[e][t] \in JobSet
    BY <1>1, <1>2 DEF SyncType
  <2>2. vaultVersion[Vault] \in Nat /\ synced[e] \in Nat /\ (log'.killed = {} => log.killed = {})
    BY <1>1 DEF SyncType
  <2>3. Pulled(sec, vaultVersion[Vault], cache[e], outbox[e], synced[e], log.killed, job[e][t])
    BY <1>1 DEF PulledInv
  <2>4. Pulled(sec, vaultVersion[Vault], cache[e], outbox[e], synced[e], log'.killed, job[e][t])
    BY <2>1, <2>2, <2>3, PulledElsewhere
  <2> QED BY <1>1, <2>1, <2>4
<1>3. Idle.at = "idle" /\ ToSet(Idle.todo) = {}
  BY EmptyTodo DEF Idle
<1>4. ASSUME log'.killed = {}, synced[d] = vaultVersion[Vault]
      PROVE  Current(sec, cache[d], es, Idle)
  <2>1. log.killed = {} /\ \A w \in log.asked : ~Holds(d, w)
    BY <1>1, <1>4
  <2>2. \A x \in ToSet(j.todo) : x.do # "enqueue"
    <3>1. ASSUME NEW x \in ToSet(j.todo), x.do = "enqueue" PROVE FALSE
      <4>1. x.op.enc.w \in log.asked
        BY <1>1, <3>1 DEF AskedInv, JobAsked
      <4>2. Holds(d, x.op.enc.w)
        BY <1>1, <3>1, EnqueuesHolds DEF Enqueues
      <4> QED BY <2>1, <4>1, <4>2
    <3> QED BY <3>1
  <2>3. Current(sec, cache[d], es, j)
    BY <1>1, <1>4, <2>1, PulledNow
  <2>4. \A s : Keeps(es, j, s) => Keeps(es, Idle, s)
    BY <1>3, <2>2 DEF Keeps
  <2> QED BY <1>3, <2>3, <2>4 DEF Current
<1>5. Tracked(es, Idle)
  BY <1>1, <1>3, PulledNow DEF Tracked
<1>6. Pulling(sec, vaultVersion[Vault], cache[d], es, synced[d], Idle)
  BY <1>3, NotPulling
<1>7. synced[d] <= vaultVersion[Vault]
  BY <1>1, PulledNow
<1>8. Pulled(sec', vaultVersion'[Vault], cache'[d], outbox'[d], synced'[d], log'.killed, job'[d][t])
  BY <1>1, <1>4, <1>5, <1>6, <1>7 DEF Pulled
<1> QED BY <1>2, <1>8 DEF PulledInv

LEMMA PulledInit == ASSUME Init PROVE PulledInv
<1>1. /\ vaultVersion[Vault] = 1
      /\ \A d \in Devices : outbox[d] = {} /\ synced[d] = 0
      /\ \A d \in Devices, t \in Threads : job[d][t] = Idle
  BY DEF Init, StoreInit
<1>2. Idle.at = "idle" /\ ToSet(Idle.todo) = {}
  BY EmptyTodo DEF Idle
<1>3. ASSUME NEW d \in Devices, NEW t \in Threads
      PROVE  Pulled(sec, 1, cache[d], {}, 0, log.killed, Idle)
  <2>1. Tracked({}, Idle)
    BY <1>2 DEF Tracked
  <2>2. Pulling(sec, 1, cache[d], {}, 0, Idle)
    BY <1>2, NotPulling
  <2> QED BY <2>1, <2>2 DEF Pulled
<1> QED BY <1>1, <1>3 DEF PulledInv

LEMMA PulledNext ==
    ASSUME NEW t, Threads = {t}, SyncType, SyncType', KeptInv, AskedInv, PulledInv, [Next]_vars
    PROVE  PulledInv'
<1>1. CASE Next
  <2>1. PICK d \in Devices :
             \/ Kills(d)
             \/ \E u \in Threads :
                 \/ \E op : Submits(d, u, op)
                 \/ \E e, k : Opens(d, u, e, k)
                 \/ \E k : Starts(d, u, k) \/ Reads(d, u, k) \/ Decides(d, u, k)
                 \/ \E op, id, answer, k : Asks(d, u, op, id, answer, k)
                 \/ \E e, answer, k : Replays(d, u, e, answer, k)
                 \/ \E st, k : Steps(d, u, st, k)
    BY <1>1, StepKinds
  <2>2. ASSUME NEW op, Submits(d, t, op) PROVE PulledInv'
    <3>1. PICK k : k = Sending(op, 0)
      OBVIOUS
    <3>2. \E o : Submits(d, t, o) /\ k = Sending(o, 0)
      BY <2>2, <3>1
    <3> QED BY <3>2, UserPulled
  <2>3. ASSUME NEW e, NEW k, Opens(d, t, e, k) PROVE PulledInv'
    BY <2>3, UserPulled
  <2>4. ASSUME NEW k, Starts(d, t, k) PROVE PulledInv'
    BY <2>4, UserPulled
  <2>5. CASE Kills(d)
    BY <2>5, KillsPulled
  <2>6. ASSUME NEW k, Reads(d, t, k) PROVE PulledInv'
    BY <2>6, ReadsPulled
  <2>7. ASSUME NEW k, Decides(d, t, k) PROVE PulledInv'
    BY <2>7, DecidesPulled
  <2>8. ASSUME NEW op, NEW id, NEW answer, NEW k, Asks(d, t, op, id, answer, k) PROVE PulledInv'
    BY <2>8, AsksPulled
  <2>9. ASSUME NEW e, NEW answer, NEW k, Replays(d, t, e, answer, k) PROVE PulledInv'
    BY <2>9, ReplaysPulled
  <2>10. ASSUME NEW st, NEW k, Steps(d, t, st, k) PROVE PulledInv'
    BY <2>10, StatementPulled
  <2> QED BY <2>1, <2>2, <2>3, <2>4, <2>5, <2>6, <2>7, <2>8, <2>9, <2>10
<1>2. CASE UNCHANGED vars
  BY <1>2 DEF vars, serverVars, localVars, PulledInv
<1> QED BY <1>1, <1>2

\* What a pull has fetched, written or left to the outbox is all the vault had at the version
\* the pull is about to store, as long as the version stands (engine.go).
THEOREM PulledInvariance ==
    ASSUME NEW t, Threads = {t}
    PROVE  Spec => []PulledInv
<1>1. SyncType /\ SyncType' /\ KeptInv /\ AskedInv /\ PulledInv /\ [Next]_vars => PulledInv'
  BY PulledNext
<1> QED BY <1>1, PulledInit, SyncTypeInvariance, KeptInvariance, AskedInvariance, PTL DEF Spec

\* A quiet device that has stored the version the vault is at has every live secret as the
\* server has it, except those its outbox still owes the server: no order of pulls, replays,
\* resolved conflicts, refused or lost requests and answers makes it store a version it has
\* not seen the rows of, when one thread at a time works on it (engine.go, outbox_replay.go).
THEOREM PullIsComplete ==
    ASSUME NEW t, Threads = {t}
    PROVE  Spec => []PullComplete
<1>1. ASSUME PulledInv PROVE PullComplete
  <2>1. ASSUME NEW d \in Devices, Quiet(d), log.killed = {}, synced[d] = vaultVersion[Vault],
               NEW s \in Live \ OutstandingSecretIDs(outbox[d])
        PROVE  cache[d][s].version = sec[s].version /\ cache[d][s].row = sec[s].enc
    <3>1. job[d][t] = Idle /\ ToSet(Idle.todo) = {} /\ s \in LiveIn(sec)
      BY <2>1, EmptyTodo, LiveNow DEF Quiet, Idle
    <3>2. Current(sec, cache[d], outbox[d], Idle)
      BY <1>1, <2>1, <3>1 DEF PulledInv, Pulled
    <3>3. ~Keeps(outbox[d], Idle, s)
      BY <2>1, <3>1 DEF Keeps, OutstandingSecretIDs
    <3> QED BY <3>1, <3>2, <3>3 DEF Current, Same
  <2> QED BY <2>1 DEF PullComplete
<1>2. Spec => []PulledInv
  BY PulledInvariance
<1> QED BY <1>1, <1>2, PTL
=============================================================================
