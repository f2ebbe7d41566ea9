--------------------------- MODULE TokenStoreProofs ---------------------------
(***************************************************************************)
(* For every number of handlers, hash slots, goroutines and processes, and *)
(* however many faults: the semaphore around Argon2 is exact, and the      *)
(* refreshes of one process are saved in the order they were issued.       *)
(***************************************************************************)
EXTENDS TokenStore, FiniteSetTheorems, TLAPS

HandlerStates == {Idle} \cup [at : {"answered"}, res : Results] \cup Calls

Hashing == {h \in Handlers : handler[h].at = "hash"}

\* What a handler relies on in the call it serves, and its caller in the answer.
CallOK(c) ==
    /\ c.at \notin {"idle", "answered"} =>
          /\ IF c.method \in {"Login", "Register"} THEN c.who \in Users ELSE c.token.pair \in Pairs
          /\ c.at \in {"queue", "hash", "create", "lookup"} => c.method \in {"Login", "Register"}
          /\ c.at = "user" => c.method = "RefreshToken"
          /\ c.at \in {"query", "recv"} => c.method \in {"Unary", "UploadBlob"}
    /\ c.at = "answered" /\ c.res.code = "OK" => c.res.pair \in Pairs

\* Where a goroutine is tells which pair and which call it holds.
JobOK(n) ==
    /\ n.kind = "none" => n = NoJob
    /\ n.at = "idle" => n.kind = "none"
    /\ n.at = "send" => n.kind \in {"login", "register"}
    /\ n.kind \in {"login", "register"} => n.who \in Users
    /\ n.kind \in {"login", "register"} => n.at \in {"send", "calling", "store"}
    /\ n.at \in {"renew", "renewing", "save", "loaded", "store"} => n.pair \in Pairs
    /\ n.call # None <=> n.at \in {"renewing", "calling"}

\* The call a goroutine waits for is its own, not given up and not forgotten.
Waited(j) ==
    LET c == handler[job[j].call] IN
    job[j].call # None =>
        /\ \A k \in Jobs : k # j => job[k].call # job[j].call
        /\ c # Idle
        /\ c.at # "answered" => ~c.cancelled
        /\ c.at # "answered" /\ job[j].at = "renewing" => c.method = "RefreshToken"

\* AutoRefreshStore.mu is held from the read of the pair to the save of its successor.
Holds(n) == n.at \in {"load", "renew", "renewing", "save"}
Locked(j) == Holds(job[j]) => mu[procOf[j]] = j

\* What a refresh obtained is not older than anything saved before it.
Newer(j, pair) == renewed[procOf[j]] <= pair.iat /\ pair.iat <= now
RenewedInOrder(j) ==
    /\ job[j].at = "save" => Newer(j, job[j].pair)
    /\ LET c == handler[job[j].call] IN
       job[j].at = "renewing" /\ c.at = "answered" /\ c.res.code = "OK" => Newer(j, c.res.pair)

\* The inductive invariant of the semaphore and the server's side of a call.
SlotsInv ==
    /\ handler \in [Handlers -> HandlerStates]
    /\ IsFiniteSet(Hashing)
    /\ hashing = Cardinality(Hashing)

\* The inductive invariant.
TokenInv ==
    /\ TypeOK
    /\ SlotsInv
    /\ \A h \in Handlers : CallOK(handler[h])
    /\ \A j \in Jobs : JobOK(job[j]) /\ Waited(j) /\ Locked(j) /\ RenewedInOrder(j)
    /\ \A p \in Procs : renewed[p] <= now

\* What a step of a handler may do to its call: c takes the place of the call.
HandlerMoves(h, c) ==
    LET old == handler[h] IN
    /\ old.at \notin {"idle", "answered"}
    /\ c \in HandlerStates /\ CallOK(c)
    /\ handler' = [handler EXCEPT ![h] = c]
    /\ c.at = "idle" => old.cancelled
    /\ c.at = "answered" =>
          /\ ~old.cancelled
          /\ c.res.code = "OK" /\ old.method = "RefreshToken" => c.res.pair.iat = now
    /\ c.at \notin {"idle", "answered"} => c.method = old.method /\ c.cancelled = old.cancelled
    /\ hashing' = hashing + (IF c.at = "hash" THEN 1 ELSE 0) - (IF old.at = "hash" THEN 1 ELSE 0)
    /\ c.at = "hash" => hashing < HashSlots

----------------------------------------------------------------------------
\* A call is one of three kinds of record, told apart by its field at.
LEMMA HandlerStatesFacts ==
    ASSUME NEW c \in HandlerStates
    PROVE  /\ c.at = "idle" <=> c = Idle
           /\ c.at = "answered" => c = [at |-> "answered", res |-> c.res] /\ c.res \in Results
           /\ c.at \notin {"idle", "answered"} => c \in Calls
BY DEF HandlerStates, Idle, Calls

\* hashing keeps counting the hashing handlers when one handler's call changes.
LEMMA CountHashing ==
    ASSUME SlotsInv, NEW h \in Handlers, NEW c \in HandlerStates,
           handler' = [handler EXCEPT ![h] = c],
           hashing' = hashing + (IF c.at = "hash" THEN 1 ELSE 0)
                              - (IF handler[h].at = "hash" THEN 1 ELSE 0)
    PROVE  SlotsInv'
<1>1. handler' \in [Handlers -> HandlerStates]
  BY DEF SlotsInv
<1>2. Hashing' = IF c.at = "hash" THEN Hashing \cup {h} ELSE Hashing \ {h}
  BY DEF SlotsInv, Hashing
<1>3. h \in Hashing <=> handler[h].at = "hash"
  BY DEF Hashing
<1>4. Cardinality(Hashing) \in Nat
  BY FS_CardinalityType DEF SlotsInv
<1>5. CASE c.at = "hash"
  BY <1>1, <1>2, <1>3, <1>4, <1>5, FS_AddElement DEF SlotsInv
<1>6. CASE c.at # "hash"
  BY <1>1, <1>2, <1>3, <1>4, <1>6, FS_RemoveElement DEF SlotsInv
<1> QED BY <1>5, <1>6

\* The count is a number of slots when it is at most the capacity.
LEMMA CountIsNat == SlotsInv => hashing \in Nat
BY FS_CardinalityType DEF SlotsInv

\* A handler that answers, answers its caller or nobody.
LEMMA AnswerMoves ==
    ASSUME TokenInv, NEW h \in Handlers, NEW res \in Results,
           handler[h].at \notin {"idle", "answered"},
           res.code = "OK" => res.pair \in Pairs,
           res.code = "OK" /\ handler[h].method = "RefreshToken" => res.pair.iat = now,
           Answer(h, res),
           hashing' = hashing - (IF handler[h].at = "hash" THEN 1 ELSE 0)
    PROVE  \E c : HandlerMoves(h, c)
<1> DEFINE c == IF handler[h].cancelled THEN Idle ELSE [at |-> "answered", res |-> res]
<1>1. handler[h] \in Calls /\ handler \in [Handlers -> HandlerStates]
  BY HandlerStatesFacts DEF TokenInv, SlotsInv
<1>2. handler' = [handler EXCEPT ![h] = c]
  BY <1>1 DEF Answer
<1>3. c \in HandlerStates /\ CallOK(c)
  BY DEF HandlerStates, CallOK, Idle
<1>4. hashing \in Nat
  BY CountIsNat DEF TokenInv
<1>5. HandlerMoves(h, c)
  <2>1. CASE handler[h].cancelled
    BY <1>2, <1>3, <1>4, <2>1 DEF HandlerMoves, Idle
  <2>2. CASE ~handler[h].cancelled
    BY <1>2, <1>3, <1>4, <2>2 DEF HandlerMoves, Idle
  <2> QED BY <2>1, <2>2
<1> QED BY <1>5

\* A handler that goes on keeps its call.
LEMMA GotoMoves ==
    ASSUME TokenInv, NEW h \in Handlers,
           NEW at \in {"lookup", "queue", "hash", "create", "user", "query", "recv"},
           handler[h].at \notin {"idle", "answered"},
           Goto(h, at),
           at \in {"queue", "hash", "create", "lookup"} => handler[h].method \in {"Login", "Register"},
           at = "user" => handler[h].method = "RefreshToken",
           at = "hash" => hashing < HashSlots,
           at \in {"query", "recv"} => handler[h].method \in {"Unary", "UploadBlob"},
           hashing' = hashing + (IF at = "hash" THEN 1 ELSE 0)
                              - (IF handler[h].at = "hash" THEN 1 ELSE 0)
    PROVE  \E c : HandlerMoves(h, c)
<1> DEFINE old == handler[h]
           c == [old EXCEPT !.at = at]
<1>1. old \in Calls /\ handler \in [Handlers -> HandlerStates] /\ CallOK(old)
  BY HandlerStatesFacts DEF TokenInv, SlotsInv
<1>2. /\ c \in Calls /\ c.at = at
      /\ c.method = old.method /\ c.who = old.who /\ c.token = old.token
      /\ c.cancelled = old.cancelled
  BY <1>1 DEF Calls
<1>3. CallOK(c)
  BY <1>1, <1>2 DEF CallOK
<1>4. handler' = [handler EXCEPT ![h] = c]
  BY <1>1 DEF Goto
<1>5. HandlerMoves(h, c)
  BY <1>2, <1>3, <1>4 DEF HandlerMoves, HandlerStates
<1> QED BY <1>5

\* The answers of the handlers are answers.
LEMMA ResultsFacts ==
    /\ Failed \in Results /\ Failed.code = "error"
    /\ Denied \in Results /\ Denied.code = "Unauthenticated"
    /\ \A pair \in Pairs : /\ Granted(pair) \in Results
                           /\ Granted(pair).code = "OK" /\ Granted(pair).pair = pair
    /\ TypeOK => \A u \in Users : Issue(u) \in Pairs /\ Issue(u).iat = now
BY DEF Failed, Denied, Granted, Results, PairOrNone, Pairs, Issue, TypeOK

\* Every step of a handler moves its own call, and only Register adds an account.
LEMMA ServeMoves ==
    ASSUME TokenInv, NEW h \in Handlers, Serve(h) \/ RecvChunk(h)
    PROVE  /\ \E c : HandlerMoves(h, c)
           /\ users' \subseteq Users /\ UNCHANGED phase
<1> DEFINE c == handler[h]
<1> USE ResultsFacts
<1>0. /\ handler \in [Handlers -> HandlerStates]
      /\ hashing \in Nat /\ TypeOK /\ CallOK(c)
      /\ c.at \notin {"idle", "answered"} => c \in Calls
  BY CountIsNat, HandlerStatesFacts DEF TokenInv, SlotsInv
<1>u. users \subseteq Users
  BY <1>0 DEF TypeOK
<1>1. CASE Auth(h)
  <2>1. c \in Calls /\ c.at = "new" /\ c.method # "RefreshToken"
    BY <1>0, <1>1 DEF Auth
  <2>2. CASE Admitted(c)
    <3>1. c.method \in {"Login", "Register", "Unary", "UploadBlob"}
      BY <2>1 DEF Calls, Methods, methodsWithoutAuth
    <3>2. /\ First(c.method) \in {"lookup", "queue", "query", "recv"}
          /\ First(c.method) \in {"queue", "lookup"} => c.method \in {"Login", "Register"}
          /\ First(c.method) \in {"query", "recv"} => c.method \in {"Unary", "UploadBlob"}
      BY <3>1 DEF First
    <3> QED BY <1>0, <1>1, <1>u, <2>1, <2>2, <3>2, GotoMoves DEF Auth
  <2>3. CASE ~Admitted(c)
    BY <1>0, <1>1, <1>u, <2>1, <2>3, AnswerMoves DEF Auth
  <2> QED BY <2>2, <2>3
<1>2. CASE QueryFails(h)
  BY <1>0, <1>u, <1>2, AnswerMoves DEF QueryFails
<1>3. CASE GetByLogin(h)
  <2>1. CASE c.who \in users
    BY <1>0, <1>u, <1>3, <2>1, GotoMoves DEF GetByLogin, Query, CallOK
  <2>2. CASE c.who \notin users
    BY <1>0, <1>u, <1>3, <2>2, AnswerMoves DEF GetByLogin, Query
  <2> QED BY <2>1, <2>2
<1>4. CASE AcquireSlot(h)
  BY <1>0, <1>u, <1>4, GotoMoves DEF AcquireSlot, CallOK
<1>5. CASE LeaveQueue(h)
  BY <1>0, <1>u, <1>5, AnswerMoves DEF LeaveQueue
<1>6. ASSUME NEW ok \in BOOLEAN, Hashed(h, ok)
      PROVE  /\ \E d : HandlerMoves(h, d)
             /\ users' \subseteq Users /\ UNCHANGED phase
  <2>1. c.at = "hash" /\ c.method \in {"Login", "Register"} /\ c.who \in Users
    BY <1>0, <1>6 DEF Hashed, CallOK
  <2>2. CASE Answer(h, Failed)
    BY <1>0, <1>u, <1>6, <2>1, <2>2, AnswerMoves DEF Hashed, releaseHashSlot
  <2>3. CASE c.method = "Register" /\ Goto(h, "create")
    BY <1>0, <1>u, <1>6, <2>1, <2>3, GotoMoves DEF Hashed, releaseHashSlot
  <2>4. CASE Answer(h, Granted(Issue(c.who)))
    BY <1>0, <1>u, <1>6, <2>1, <2>4, AnswerMoves DEF Hashed, releaseHashSlot
  <2>5. CASE Answer(h, Denied)
    BY <1>0, <1>u, <1>6, <2>1, <2>5, AnswerMoves DEF Hashed, releaseHashSlot
  <2> QED BY <1>6, <2>2, <2>3, <2>4, <2>5 DEF Hashed
<1>7. CASE CreateUser(h)
  <2>1. c.at = "create" /\ c.who \in Users
    BY <1>0, <1>7 DEF CreateUser, Query, CallOK
  <2>2. CASE Answer(h, Failed) /\ UNCHANGED users
    BY <1>0, <1>u, <1>7, <2>1, <2>2, AnswerMoves DEF CreateUser
  <2>3. CASE users' = users \cup {c.who} /\ Answer(h, Granted(Issue(c.who)))
    BY <1>0, <1>u, <1>7, <2>1, <2>3, AnswerMoves DEF CreateUser
  <2> QED BY <1>7, <2>2, <2>3 DEF CreateUser
<1>8. CASE CheckRefresh(h)
  <2>1. CASE Goto(h, "user")
    BY <1>0, <1>u, <1>8, <2>1, GotoMoves DEF CheckRefresh
  <2>2. CASE Answer(h, Denied)
    BY <1>0, <1>u, <1>8, <2>2, AnswerMoves DEF CheckRefresh
  <2> QED BY <1>8, <2>1, <2>2 DEF CheckRefresh
<1>9. CASE RefreshToken(h)
  <2> DEFINE u == c.token.pair.user
  <2>1. c.at = "user" /\ c.method = "RefreshToken"
    BY <1>0, <1>9 DEF RefreshToken, Query, CallOK
  <2>2. CASE u \in users
    BY <1>0, <1>u, <1>9, <2>1, <2>2, AnswerMoves DEF RefreshToken
  <2>3. CASE u \notin users
    BY <1>0, <1>u, <1>9, <2>1, <2>3, AnswerMoves DEF RefreshToken
  <2> QED BY <2>2, <2>3
<1>10. CASE ServeUnary(h)
  <2>1. c.at = "query" /\ c.method \in {"Unary", "UploadBlob"} /\ c.token.pair \in Pairs
    BY <1>0, <1>10 DEF ServeUnary, Query, CallOK
  <2> QED BY <1>0, <1>u, <1>10, <2>1, AnswerMoves DEF ServeUnary
<1>11. CASE RecvError(h)
  BY <1>0, <1>u, <1>11, AnswerMoves DEF RecvError
<1>12. CASE RecvChunk(h)
  BY <1>0, <1>u, <1>12, GotoMoves DEF RecvChunk, CallOK
<1> QED BY <1>1, <1>2, <1>3, <1>4, <1>5, <1>6, <1>7, <1>8, <1>9, <1>10, <1>11, <1>12 DEF Serve

\* A step of a handler keeps the invariant.
LEMMA HandlerInv ==
    ASSUME TokenInv, NEW h \in Handlers, NEW c, HandlerMoves(h, c),
           users' \subseteq Users, UNCHANGED <<now, clientVars, phase>>
    PROVE  TokenInv'
<1>0. handler \in [Handlers -> HandlerStates] /\ handler[h] \in HandlerStates
  BY DEF TokenInv, SlotsInv
<1>1. SlotsInv'
  BY CountHashing DEF HandlerMoves, TokenInv
<1>2. TypeOK'
  <2>1. hashing' \in Nat
    BY <1>1, FS_CardinalityType DEF SlotsInv
  <2>2. hashing' <= HashSlots
    BY <2>1, ServerAssumption DEF HandlerMoves, TokenInv, TypeOK
  <2>3. \A k \in Handlers : handler'[k] \in {Idle} \cup [at : {"answered"}, res : Results] \cup Calls
    BY <1>1 DEF SlotsInv, HandlerStates
  <2> QED BY <2>1, <2>2, <2>3, ServerAssumption DEF TokenInv, TypeOK, clientVars, storeVars
<1>3. \A k \in Handlers : CallOK(handler[k])'
  BY <1>0 DEF HandlerMoves, TokenInv, CallOK
<1>4. ASSUME NEW j \in Jobs
      PROVE  (JobOK(job[j]) /\ Waited(j) /\ Locked(j) /\ RenewedInOrder(j))'
  <2>1. UNCHANGED <<job, mu, renewed, now>>
    BY DEF clientVars
  <2>2. JobOK(job[j])' /\ Locked(j)'
    BY <2>1 DEF TokenInv, JobOK, Locked, Holds, NoJob
  <2>3. job[j].call \in Handlers \cup {None}
    BY DEF TokenInv, TypeOK, JobStates
  <2>4. Waited(j) /\ RenewedInOrder(j) /\ JobOK(job[j])
    BY DEF TokenInv
  <2>5. CASE job[j].call # h
    <3>1. job[j].call # None => handler'[job[j].call] = handler[job[j].call]
      BY <1>0, <2>3, <2>5 DEF HandlerMoves
    <3> QED BY <2>1, <2>2, <2>4, <3>1 DEF Waited, RenewedInOrder, Newer, JobOK
  <2>6. CASE job[j].call = h
    <3>1. handler'[h] = c /\ c \in HandlerStates
      BY <1>0 DEF HandlerMoves
    <3>2. h # None
      BY ServerAssumption
    <3>3. /\ handler[h].at \notin {"idle", "answered"} /\ ~handler[h].cancelled
          /\ job[j].at = "renewing" => handler[h].method = "RefreshToken"
      BY <2>4, <2>6, <3>2 DEF Waited, HandlerMoves
    <3>4. c # Idle /\ c.at # "idle"
      BY <3>1, <3>3, HandlerStatesFacts DEF HandlerMoves
    <3>5. Waited(j)'
      BY <2>1, <2>4, <2>6, <3>1, <3>2, <3>3, <3>4 DEF Waited, HandlerMoves
    <3>6. RenewedInOrder(j)'
      <4>1. \A p \in Procs : renewed[p] <= now
        BY DEF TokenInv
      <4>2. renewed[procOf[j]] <= now /\ now \in Int
        BY <4>1, TokenAssumption DEF TokenInv, TypeOK
      <4>3. job[j].at = "renewing" /\ c.at = "answered" /\ c.res.code = "OK" => c.res.pair.iat = now
        BY <3>3 DEF HandlerMoves
      <4> QED BY <2>1, <2>4, <2>6, <3>1, <4>2, <4>3 DEF RenewedInOrder, Newer
    <3> QED BY <2>2, <3>5, <3>6
  <2> QED BY <2>5, <2>6
<1>5. \A p \in Procs : renewed'[p] <= now'
  BY DEF TokenInv, clientVars
<1> QED BY <1>1, <1>2, <1>3, <1>4, <1>5 DEF TokenInv

----------------------------------------------------------------------------
\* What a step of goroutine j, which becomes n, may do to calls: nothing when it has
\* none, end the wait for its own, or send a new one.
CallMoves(j, n) ==
    LET old == job[j].call IN
    /\ UNCHANGED <<users, hashing, phase>>
    /\ \/ old = None /\ n.call = None /\ UNCHANGED handler
       \/ /\ old # None /\ n.call = None
          /\ handler' = [handler EXCEPT ![old] = Idle] \/ handler' = [handler EXCEPT ![old] = Abandoned(@)]
          /\ handler'[old].at = "hash" <=> handler[old].at = "hash"
       \/ \E h \in Handlers, c \in Calls :
             /\ old = None /\ n.call = h /\ handler[h] = Idle
             /\ c.at = "new" /\ ~c.cancelled /\ CallOK(c)
             /\ n.at = "renewing" => c.method = "RefreshToken"
             /\ handler' = [handler EXCEPT ![h] = c]

\* What it may do to the mutex: keep what it holds, take it when it is free, release it.
MutexMoves(j, n) ==
    LET p == procOf[j] IN
    \/ UNCHANGED mu /\ (Holds(n) => Holds(job[j]))
    \/ mu[p] = None /\ mu' = [mu EXCEPT ![p] = j]
    \/ Holds(job[j]) /\ ~Holds(n) /\ mu' = [mu EXCEPT ![p] = None]

\* What it may save.
SaveMoves(j, n) ==
    /\ keyring' \in PairOrNone /\ file' \in PairOrNone /\ keyringUp' \in BOOLEAN
    /\ \/ UNCHANGED renewed
       \/ /\ job[j].at = "save" /\ ~Holds(n)
          /\ renewed' = [renewed EXCEPT ![procOf[j]] = job[j].pair.iat]
    /\ n.at = "save" => Newer(j, n.pair)

JobMoves(j, n) ==
    /\ job' = [job EXCEPT ![j] = n] /\ n \in JobStates /\ JobOK(n)
    /\ CallMoves(j, n) /\ MutexMoves(j, n) /\ SaveMoves(j, n)
    /\ acts' \in 0 .. MaxActs /\ UNCHANGED now

\* The client's side of a call keeps the semaphore exact and every call its caller's.
LEMMA ClientCalls ==
    ASSUME TokenInv, NEW j \in Jobs, NEW n, JobMoves(j, n)
    PROVE  /\ SlotsInv'
           /\ \A h \in Handlers : CallOK(handler[h])'
           /\ \A k \in Jobs : Waited(k)'
           /\ \A k \in Jobs \ {j} : job[k].call # None => handler'[job[k].call] = handler[job[k].call]
           /\ n.call # None => handler'[n.call].at = "new"
<1> DEFINE old == job[j].call
<1>0. /\ handler \in [Handlers -> HandlerStates] /\ SlotsInv
      /\ hashing \in Nat
      /\ job \in [Jobs -> JobStates]
      /\ \A h \in Handlers : CallOK(handler[h])
      /\ \A k \in Jobs : job[k].call \in Handlers \cup {None} /\ Waited(k)
      /\ None \notin Handlers
  BY CountIsNat, ServerAssumption DEF TokenInv, SlotsInv, TypeOK, JobStates
<1>1. job' = [job EXCEPT ![j] = n] /\ CallMoves(j, n)
  BY DEF JobMoves
<1>2. job'[j] = n /\ \A k \in Jobs \ {j} : job'[k] = job[k]
  BY <1>0, <1>1
<1>3. CASE old = None /\ n.call = None /\ UNCHANGED handler
  <2>1. UNCHANGED <<handler, hashing>>
    BY <1>1, <1>3 DEF CallMoves
  <2>2. Hashing' = Hashing
    BY <2>1 DEF Hashing
  <2>3. SlotsInv'
    BY <1>0, <2>1, <2>2 DEF SlotsInv
  <2>4. \A h \in Handlers : CallOK(handler[h])'
    BY <1>0, <2>1 DEF CallOK
  <2>5. ASSUME NEW k \in Jobs PROVE Waited(k)'
    <3>1. CASE k = j
      BY <1>2, <1>3, <3>1 DEF Waited
    <3>2. CASE k # j
      <4>1. \A i \in Jobs : i # k => job'[i].call # job[k].call \/ job[k].call = None
        BY <1>0, <1>2, <1>3, <3>2 DEF Waited
      <4> QED BY <1>0, <1>2, <1>3, <2>1, <3>2, <4>1 DEF Waited
    <3> QED BY <3>1, <3>2
  <2> QED BY <1>3, <2>1, <2>3, <2>4, <2>5
<1>4. CASE /\ old # None /\ n.call = None
           /\ handler' = [handler EXCEPT ![old] = Idle] \/ handler' = [handler EXCEPT ![old] = Abandoned(@)]
           /\ handler'[old].at = "hash" <=> handler[old].at = "hash"
  <2>1. old \in Handlers /\ handler[old] \in HandlerStates /\ handler[old] # Idle
    BY <1>0, <1>4 DEF Waited
  <2>2. handler[old].at # "answered" => handler[old] \in Calls
    BY <2>1, HandlerStatesFacts
  <2> DEFINE c == handler'[old]
  <2>3. c = Idle \/ (c \in Calls /\ CallOK(c))
    <3>1. c = Idle \/ c = Abandoned(handler[old])
      BY <1>0, <1>4, <2>1
    <3>2. CASE c = Abandoned(handler[old]) /\ handler[old].at # "answered"
      <4>1. c = [handler[old] EXCEPT !.cancelled = TRUE]
        BY <3>2 DEF Abandoned
      <4>2. /\ c \in Calls /\ c.at = handler[old].at /\ c.method = handler[old].method
            /\ c.who = handler[old].who /\ c.token = handler[old].token
        BY <2>2, <3>2, <4>1 DEF Calls
      <4>3. CallOK(handler[old]) /\ c.at # "answered" /\ c.at # "idle"
        BY <1>0, <2>1, <3>2, <4>2 DEF Calls
      <4> QED BY <4>2, <4>3 DEF CallOK
    <3> QED BY <3>1, <3>2 DEF Abandoned
  <2>4. c \in HandlerStates /\ CallOK(c)
    BY <2>3 DEF HandlerStates, CallOK, Idle
  <2>5. handler' = [handler EXCEPT ![old] = c]
    BY <1>0, <1>4, <2>1
  <2>6. hashing' = hashing + (IF c.at = "hash" THEN 1 ELSE 0) - (IF handler[old].at = "hash" THEN 1 ELSE 0)
    <3>1. hashing' = hashing
      BY <1>1 DEF CallMoves
    <3> QED BY <1>0, <1>4, <3>1
  <2>7. SlotsInv'
    <3> HIDE DEF c
    <3> QED BY <1>0, <2>1, <2>4, <2>5, <2>6, CountHashing
  <2>8. \A h \in Handlers : CallOK(handler[h])'
    <3>1. \A h \in Handlers : handler'[h] = c \/ handler'[h] = handler[h]
      BY <1>0, <2>5
    <3> QED BY <1>0, <2>4, <3>1 DEF CallOK
  <2>9. \A k \in Jobs \ {j} : job[k].call # None => handler'[job[k].call] = handler[job[k].call]
    BY <1>0, <1>4, <2>1, <2>5 DEF Waited
  <2>10. ASSUME NEW k \in Jobs PROVE Waited(k)'
    <3>1. CASE k = j
      BY <1>2, <1>4, <3>1 DEF Waited
    <3>2. CASE k # j
      <4>1. \A i \in Jobs : i # k => job'[i].call # job[k].call \/ job[k].call = None
        BY <1>0, <1>2, <1>4, <3>2 DEF Waited
      <4> QED BY <1>0, <1>2, <1>4, <2>9, <3>2, <4>1 DEF Waited
    <3> QED BY <3>1, <3>2
  <2> QED BY <1>4, <2>7, <2>8, <2>9, <2>10
<1>5. ASSUME NEW h \in Handlers, NEW c \in Calls,
             old = None, n.call = h, handler[h] = Idle,
             c.at = "new", ~c.cancelled, CallOK(c),
             n.at = "renewing" => c.method = "RefreshToken",
             handler' = [handler EXCEPT ![h] = c]
      PROVE  /\ SlotsInv'
             /\ \A g \in Handlers : CallOK(handler[g])'
             /\ \A k \in Jobs : Waited(k)'
             /\ \A k \in Jobs \ {j} : job[k].call # None => handler'[job[k].call] = handler[job[k].call]
             /\ n.call # None => handler'[n.call].at = "new"
  <2>1. c \in HandlerStates
    BY DEF HandlerStates
  <2>2. SlotsInv'
    <3>1. hashing' = hashing + (IF c.at = "hash" THEN 1 ELSE 0) - (IF handler[h].at = "hash" THEN 1 ELSE 0)
      BY <1>0, <1>1, <1>5 DEF CallMoves, Idle
    <3> QED BY <1>0, <1>5, <2>1, <3>1, CountHashing
  <2>3. \A g \in Handlers : CallOK(handler[g])'
    <3>1. \A g \in Handlers : handler'[g] = c \/ handler'[g] = handler[g]
      BY <1>0, <1>5
    <3> QED BY <1>0, <1>5, <3>1 DEF CallOK
  <2>4. \A k \in Jobs : job[k].call # h
    BY <1>0, <1>5 DEF Waited
  <2>5. \A k \in Jobs \ {j} : job[k].call # None => handler'[job[k].call] = handler[job[k].call]
    BY <1>0, <1>5, <2>4
  <2>6. handler'[h] = c /\ c # Idle
    BY <1>0, <1>5 DEF Idle
  <2>7. ASSUME NEW k \in Jobs PROVE Waited(k)'
    <3>1. CASE k = j
      BY <1>2, <1>5, <2>4, <2>6, <3>1 DEF Waited
    <3>2. CASE k # j
      <4>1. \A i \in Jobs : i # k => job'[i].call # job[k].call \/ job[k].call = None
        BY <1>0, <1>2, <1>5, <2>4, <3>2 DEF Waited
      <4> QED BY <1>0, <1>2, <1>5, <2>5, <3>2, <4>1 DEF Waited
    <3> QED BY <3>1, <3>2
  <2> QED BY <1>5, <2>2, <2>3, <2>5, <2>6, <2>7
<1> QED BY <1>1, <1>3, <1>4, <1>5 DEF CallMoves

\* A step of a goroutine that moves as JobMoves says keeps the invariant.
LEMMA JobInv ==
    ASSUME TokenInv, NEW j \in Jobs, NEW n, JobMoves(j, n)
    PROVE  TokenInv'
<1>0. /\ job \in [Jobs -> JobStates] /\ mu \in [Procs -> Jobs \cup {None}]
      /\ renewed \in [Procs -> 0 .. MaxTime] /\ now \in 0 .. MaxTime
      /\ procOf[j] \in Procs /\ None \notin Jobs
      /\ \A k \in Jobs : Locked(k) /\ JobOK(job[k]) /\ RenewedInOrder(k)
      /\ \A p \in Procs : renewed[p] <= now
      /\ now' = now
  BY TokenAssumption DEF TokenInv, TypeOK, JobMoves
<1>1. /\ job' = [job EXCEPT ![j] = n] /\ n \in JobStates /\ JobOK(n)
      /\ CallMoves(j, n) /\ MutexMoves(j, n) /\ SaveMoves(j, n)
  BY DEF JobMoves
<1>2. job'[j] = n /\ \A k \in Jobs \ {j} : job'[k] = job[k]
  BY <1>0, <1>1
<1>3. /\ SlotsInv'
      /\ \A h \in Handlers : CallOK(handler[h])'
      /\ \A k \in Jobs : Waited(k)'
      /\ \A k \in Jobs \ {j} : job[k].call # None => handler'[job[k].call] = handler[job[k].call]
      /\ n.call # None => handler'[n.call].at = "new"
  BY ClientCalls
<1>4. renewed' = renewed
      \/ /\ job[j].at = "save" /\ ~Holds(n) /\ mu[procOf[j]] = j
         /\ renewed' = [renewed EXCEPT ![procOf[j]] = job[j].pair.iat]
         /\ renewed'[procOf[j]] = job[j].pair.iat
         /\ job[j].pair \in Pairs /\ renewed[procOf[j]] <= job[j].pair.iat /\ job[j].pair.iat <= now
  BY <1>0, <1>1 DEF SaveMoves, Locked, Holds, RenewedInOrder, Newer, JobOK
<1>5. renewed' \in [Procs -> 0 .. MaxTime] /\ \A p \in Procs : renewed'[p] <= now
  BY <1>0, <1>4 DEF Pairs
<1>6. mu' \in [Procs -> Jobs \cup {None}]
  BY <1>0, <1>1 DEF MutexMoves
<1>7. TypeOK'
  <2>1. hashing' \in 0 .. HashSlots /\ users' \subseteq Users /\ UNCHANGED phase
    BY <1>1 DEF CallMoves, TokenInv, TypeOK
  <2>2. \A k \in Handlers : handler'[k] \in {Idle} \cup [at : {"answered"}, res : Results] \cup Calls
    BY <1>3 DEF SlotsInv, HandlerStates
  <2> QED BY <1>0, <1>1, <1>5, <1>6, <2>1, <2>2 DEF TokenInv, TypeOK, JobMoves, SaveMoves
<1>8. ASSUME NEW k \in Jobs PROVE JobOK(job[k])' /\ Locked(k)'
  <2>1. JobOK(job'[k])
    BY <1>0, <1>1, <1>2
  <2>2. JobOK(job[k])'
    BY <2>1 DEF JobOK, NoJob
  <2>3. Locked(k)'
    <3>1. CASE k = j
      <4>1. Holds(n) => mu'[procOf[j]] = j
        BY <1>0, <1>1 DEF MutexMoves, Locked
      <4> QED BY <1>2, <3>1, <4>1 DEF Locked, Holds
    <3>2. CASE k # j
      <4>1. procOf[k] \in Procs
        BY TokenAssumption
      <4>2. Holds(job[k]) => mu'[procOf[k]] = mu[procOf[k]]
        BY <1>0, <1>1, <3>2, <4>1 DEF MutexMoves, Locked
      <4> QED BY <1>0, <1>2, <3>2, <4>2 DEF Locked, Holds
    <3> QED BY <3>1, <3>2
  <2> QED BY <2>2, <2>3
<1>9. ASSUME NEW k \in Jobs PROVE RenewedInOrder(k)'
  <2>1. CASE k = j
    <3>1. n.at = "save" => Newer(j, n.pair) /\ UNCHANGED renewed
      BY <1>1, <1>4 DEF SaveMoves, Holds
    <3>2. job'[j].at = "save" => (renewed[procOf[j]] <= job[j].pair.iat /\ job[j].pair.iat <= now)'
      BY <1>0, <1>2, <3>1 DEF Newer
    <3>3. job'[j].at = "renewing" => handler'[job'[j].call].at = "new"
      BY <1>1, <1>2, <1>3 DEF JobOK
    <3> QED BY <2>1, <3>2, <3>3 DEF RenewedInOrder, Newer
  <2>2. CASE k # j
    <3>1. job'[k] = job[k] /\ procOf[k] \in Procs
      BY <1>2, <2>2, TokenAssumption
    <3>2. Holds(job[k]) => renewed'[procOf[k]] = renewed[procOf[k]]
      <4>1. Holds(job[k]) => mu[procOf[k]] = k
        BY <1>0 DEF Locked
      <4> QED BY <1>0, <1>4, <2>2, <3>1, <4>1
    <3>3. job[k].at = "renewing" => handler'[job[k].call] = handler[job[k].call]
      BY <1>0, <1>3, <2>2 DEF JobOK
    <3> QED BY <1>0, <3>1, <3>2, <3>3 DEF RenewedInOrder, Newer, Holds
  <2> QED BY <2>1, <2>2
<1>10. \A p \in Procs : renewed'[p] <= now'
  BY <1>0, <1>5
<1> QED BY <1>3, <1>7, <1>8, <1>9, <1>10 DEF TokenInv

\* A goroutine that ends holds nothing.
LEMMA NoJobFacts ==
    /\ NoJob \in JobStates /\ JobOK(NoJob) /\ ~Holds(NoJob)
    /\ NoJob.call = None /\ NoJob.at = "idle" /\ NoJob.kind = "none"
BY DEF NoJob, JobStates, JobOK, Holds, PairOrNone

\* A call that is sent is a call the handlers can rely on.
LEMMA SendMoves ==
    ASSUME TokenInv, NEW j \in Jobs, NEW at \in {"renewing", "calling"},
           NEW method \in Methods, NEW type \in {"access", "refresh"},
           job[j].at \notin {"renewing", "calling"},
           Send(j, at, method, Token(job[j].pair, type)),
           at = "renewing" => method = "RefreshToken",
           IF method \in {"Login", "Register"} THEN job[j].who \in Users ELSE job[j].pair \in Pairs
    PROVE  \E n \in JobStates :
              /\ job' = [job EXCEPT ![j] = n] /\ CallMoves(j, n)
              /\ n.at = at /\ n.call \in Handlers
              /\ n.kind = job[j].kind /\ n.who = job[j].who /\ n.pair = job[j].pair
<1>1. job \in [Jobs -> JobStates] /\ JobOK(job[j])
  BY DEF TokenInv, TypeOK
<1>2. PICK h \in Handlers :
         /\ handler[h] = Idle
         /\ handler' = [handler EXCEPT ![h] = Call(method, job[j].who, Token(job[j].pair, type))]
         /\ job' = [job EXCEPT ![j] = [@ EXCEPT !.at = at, !.call = h]]
  BY DEF Send
<1> DEFINE n == [job[j] EXCEPT !.at = at, !.call = h]
           c == Call(method, job[j].who, Token(job[j].pair, type))
<1>3. job' = [job EXCEPT ![j] = n]
  BY <1>1, <1>2
<1>4. /\ n \in JobStates /\ n.at = at /\ n.call = h
      /\ n.kind = job[j].kind /\ n.who = job[j].who /\ n.pair = job[j].pair
  BY <1>1 DEF JobStates
<1>5. /\ c \in Calls /\ c.at = "new" /\ c.cancelled = FALSE /\ c.method = method
      /\ c.who = job[j].who /\ c.token.pair = job[j].pair
  BY <1>1 DEF Call, Calls, Token, JobStates
<1>6. CallOK(c)
  BY <1>5 DEF CallOK
<1>7. job[j].call = None
  BY <1>1 DEF JobOK
<1>8. UNCHANGED <<users, hashing, phase>>
  BY DEF Send
<1>9. CallMoves(j, n)
  <2> HIDE DEF n, c
  <2> QED BY <1>2, <1>4, <1>5, <1>6, <1>7, <1>8 DEF CallMoves, c
<1> QED BY <1>3, <1>4, <1>9

\* The end of a call, taken, refused or given up, is a move of calls.
LEMMA EndOfCall ==
    ASSUME TokenInv, NEW j \in Jobs, NEW n, n.call = None,
           UNCHANGED <<users, hashing, phase>>,
           \/ handler' = [handler EXCEPT ![job[j].call] = Idle]
              /\ job[j].call # None /\ handler[job[j].call].at = "answered"
           \/ Unavailable(j)
    PROVE  CallMoves(j, n)
<1> DEFINE old == job[j].call
<1>0. /\ handler \in [Handlers -> HandlerStates]
      /\ old \in Handlers \cup {None} /\ Waited(j)
  BY DEF TokenInv, SlotsInv, TypeOK, JobStates
<1>1. CASE old = None
  BY <1>1 DEF CallMoves, Unavailable
<1>2. CASE old # None /\ handler' = [handler EXCEPT ![old] = Idle]
           /\ handler[old].at = "answered"
  <2>1. handler'[old] = Idle
    BY <1>0, <1>2
  <2> QED BY <1>2, <2>1 DEF CallMoves, Idle
<1>3. CASE old # None /\ handler' = [handler EXCEPT ![old] = Abandoned(@)]
  <2>1. handler'[old] = Abandoned(handler[old])
    BY <1>0, <1>3
  <2>2. handler[old] \in HandlerStates /\ handler[old] # Idle
    BY <1>0, <1>3 DEF Waited
  <2>3. Abandoned(handler[old]).at = "hash" <=> handler[old].at = "hash"
    <3>1. CASE handler[old].at = "answered"
      BY <3>1 DEF Abandoned, Idle
    <3>2. CASE handler[old].at # "answered"
      <4>1. handler[old] \in Calls
        BY <2>2, <3>2, HandlerStatesFacts
      <4> QED BY <3>2, <4>1 DEF Abandoned, Calls
    <3> QED BY <3>1, <3>2
  <2> QED BY <1>3, <2>1, <2>3 DEF CallMoves
<1> QED BY <1>1, <1>2, <1>3 DEF Unavailable

\* Every step of a use case moves as JobMoves says.
LEMMA ClientMoves ==
    ASSUME TokenInv, NEW j \in Jobs,
           ClientStep(j) \/ \E kind \in UseCases, who \in Users \cup {None} : Begin(j, kind, who)
    PROVE  \E n : JobMoves(j, n)
<1> DEFINE c == job[j]
<1>0. /\ job \in [Jobs -> JobStates] /\ c \in JobStates /\ JobOK(c)
      /\ mu \in [Procs -> Jobs \cup {None}] /\ procOf[j] \in Procs
      /\ keyring \in PairOrNone /\ file \in PairOrNone /\ keyringUp \in BOOLEAN
      /\ acts \in 0 .. MaxActs /\ innerLoad \in PairOrNone
      /\ Locked(j) /\ RenewedInOrder(j) /\ Waited(j)
      /\ \A h \in Handlers : CallOK(handler[h]) /\ handler[h] \in HandlerStates
      /\ c.call \in Handlers \cup {None}
      /\ None \notin Jobs \cup Pairs \cup Handlers \cup Users /\ MaxActs \in Nat
  BY TokenAssumption, ServerAssumption
     DEF TokenInv, SlotsInv, HandlerStates, TypeOK, JobStates, innerLoad
<1>a. ASSUME acts' = acts \/ Act PROVE acts' \in 0 .. MaxActs
  BY <1>0, <1>a DEF Act
<1>1. CASE Lock(j)
  <2> DEFINE n == [c EXCEPT !.at = "load"]
  <2>1. job' = [job EXCEPT ![j] = n]
    BY <1>0, <1>1 DEF Lock, Step
  <2>2. /\ n \in JobStates /\ n.at = "load" /\ n.kind = c.kind /\ n.who = c.who
        /\ n.pair = c.pair /\ n.call = c.call /\ c.at = "lock"
    BY <1>0, <1>1 DEF JobStates, Lock
  <2>3. JobOK(n)
    BY <1>0, <2>2 DEF JobOK, NoJob
  <2>4. CallMoves(j, n)
    BY <1>0, <1>1, <2>2 DEF Lock, CallMoves, serverVars, JobOK
  <2>5. MutexMoves(j, n) /\ SaveMoves(j, n)
    BY <1>0, <1>1, <2>2 DEF Lock, MutexMoves, SaveMoves, storeVars
  <2> QED BY <1>0, <1>1, <2>1, <2>2, <2>3, <2>4, <2>5 DEF JobMoves, Lock
<1>2. CASE LoadPair(j)
  <2>0. c.at = "load" /\ UNCHANGED <<now, serverVars, storeVars, renewed, acts>>
    BY <1>2 DEF LoadPair
  <2>1. CASE Unlock(j) /\ End(j)
    <3>1. CallMoves(j, NoJob)
      BY <1>0, <2>0, NoJobFacts DEF CallMoves, JobOK, serverVars
    <3>2. MutexMoves(j, NoJob) /\ SaveMoves(j, NoJob)
      BY <1>0, <2>0, <2>1, NoJobFacts DEF MutexMoves, SaveMoves, Unlock, Holds, storeVars
    <3> QED BY <1>0, <2>0, <2>1, <3>1, <3>2, NoJobFacts DEF JobMoves, End
  <2>2. ASSUME NEW at \in {"loaded", "renew"}, innerLoad # None,
               IF at = "loaded" THEN Unlock(j) ELSE UNCHANGED mu,
               job' = [job EXCEPT ![j] = [@ EXCEPT !.at = at, !.pair = innerLoad]]
        PROVE  \E n : JobMoves(j, n)
    <3> DEFINE n == [c EXCEPT !.at = at, !.pair = innerLoad]
    <3>1. job' = [job EXCEPT ![j] = n]
      BY <1>0, <2>2
    <3>2. /\ n \in JobStates /\ n.at = at /\ n.kind = c.kind /\ n.who = c.who
          /\ n.pair = innerLoad /\ n.call = c.call /\ n.pair \in Pairs
      BY <1>0, <2>2 DEF JobStates, PairOrNone
    <3>3. JobOK(n)
      BY <1>0, <2>0, <3>2 DEF JobOK, NoJob
    <3>4. CallMoves(j, n)
      BY <1>0, <2>0, <3>2 DEF CallMoves, serverVars, JobOK
    <3>5. MutexMoves(j, n) /\ SaveMoves(j, n)
      BY <1>0, <2>0, <2>2, <3>2 DEF MutexMoves, SaveMoves, Unlock, Holds, storeVars
    <3> QED BY <1>0, <2>0, <3>1, <3>2, <3>3, <3>4, <3>5 DEF JobMoves
  <2> QED BY <1>2, <2>1, <2>2 DEF LoadPair
<1>3. CASE Renew(j)
  <2>0. c.at = "renew" /\ UNCHANGED <<now, storeVars, mu, renewed, acts>> /\ c.pair \in Pairs
    BY <1>0, <1>3 DEF Renew, JobOK
  <2>1. Send(j, "renewing", "RefreshToken", Token(c.pair, "refresh"))
    BY <1>3 DEF Renew
  <2>2. PICK n \in JobStates :
              /\ job' = [job EXCEPT ![j] = n] /\ CallMoves(j, n)
              /\ n.at = "renewing" /\ n.call \in Handlers
              /\ n.kind = c.kind /\ n.who = c.who /\ n.pair = c.pair
    BY <2>0, <2>1, SendMoves DEF Methods, methodsWithoutAuth
  <2>3. JobOK(n)
    BY <1>0, <2>0, <2>2 DEF JobOK, NoJob
  <2>4. MutexMoves(j, n) /\ SaveMoves(j, n)
    BY <1>0, <2>0, <2>2 DEF MutexMoves, SaveMoves, Holds, storeVars
  <2> QED BY <1>0, <2>0, <2>2, <2>3, <2>4 DEF JobMoves
<1>4. ASSUME NEW at \in {"save", "store"}, c.at \in {"renewing", "calling"},
             at = "save" <=> c.at = "renewing",
             at = "store" => c.kind \in {"login", "register", "refresh"},
             Answered(j, "OK"), Take(j, at), UNCHANGED <<now, storeVars, mu, renewed, acts>>
      PROVE  \E n : JobMoves(j, n)
  <2> DEFINE pair == handler[c.call].res.pair
             n == [c EXCEPT !.at = at, !.call = None, !.pair = pair]
  <2>1. /\ job' = [job EXCEPT ![j] = n]
        /\ handler' = [handler EXCEPT ![c.call] = Idle]
        /\ UNCHANGED <<users, hashing, phase>>
    BY <1>0, <1>4 DEF Take
  <2>2. /\ c.call \in Handlers /\ c.call # None /\ handler[c.call].at = "answered"
        /\ handler[c.call].res.code = "OK" /\ pair \in Pairs
    BY <1>0, <1>4 DEF Answered, CallOK
  <2>3. /\ n \in JobStates /\ n.at = at /\ n.kind = c.kind /\ n.who = c.who
        /\ n.pair = pair /\ n.call = None
    BY <1>0, <2>2 DEF JobStates, PairOrNone
  <2>4. JobOK(n)
    BY <1>0, <1>4, <2>2, <2>3 DEF JobOK, NoJob
  <2>5. CallMoves(j, n)
    BY <2>1, <2>2, <2>3, EndOfCall
  <2>6. MutexMoves(j, n)
    BY <1>0, <1>4, <2>3 DEF MutexMoves, Holds
  <2>7. SaveMoves(j, n)
    BY <1>0, <1>4, <2>2, <2>3 DEF SaveMoves, storeVars, RenewedInOrder, Newer
  <2> QED BY <1>0, <1>4, <2>1, <2>3, <2>4, <2>5, <2>6, <2>7 DEF JobMoves
<1>5. CASE Renewed(j)
  BY <1>4, <1>5 DEF Renewed
<1>6. CASE reconcileAccount(j)
  BY <1>4, <1>6 DEF reconcileAccount
<1>7. CASE RenewFails(j)
  <2> DEFINE n == [c EXCEPT !.at = "loaded", !.call = None]
  <2>1. /\ job' = [job EXCEPT ![j] = n] /\ c.at \in {"renew", "renewing"}
        /\ UNCHANGED <<now, storeVars, renewed, acts>> /\ Unlock(j)
    BY <1>0, <1>7 DEF RenewFails
  <2>2. /\ n \in JobStates /\ n.at = "loaded" /\ n.kind = c.kind /\ n.who = c.who
        /\ n.pair = c.pair /\ n.call = None
    BY <1>0 DEF JobStates
  <2>3. JobOK(n)
    BY <1>0, <2>1, <2>2 DEF JobOK, NoJob
  <2>4. CallMoves(j, n)
    <3>1. UNCHANGED <<users, hashing, phase>>
      BY <1>7 DEF RenewFails, Refused, Unavailable
    <3>2. \/ handler' = [handler EXCEPT ![c.call] = Idle]
             /\ c.call # None /\ handler[c.call].at = "answered"
          \/ Unavailable(j)
      BY <1>7 DEF RenewFails, Refused, Answered
    <3> QED BY <2>2, <3>1, <3>2, EndOfCall
  <2>5. MutexMoves(j, n) /\ SaveMoves(j, n)
    BY <1>0, <2>1, <2>2 DEF MutexMoves, SaveMoves, Unlock, Holds, storeVars
  <2> QED BY <1>0, <2>1, <2>2, <2>3, <2>4, <2>5 DEF JobMoves
<1>8. CASE SaveRenewed(j)
  <2> DEFINE n == [c EXCEPT !.at = "loaded"]
  <2>1. /\ job' = [job EXCEPT ![j] = n] /\ c.at = "save" /\ Unlock(j)
        /\ UNCHANGED <<now, serverVars, acts>>
    BY <1>0, <1>8 DEF SaveRenewed, Step
  <2>2. /\ n \in JobStates /\ n.at = "loaded" /\ n.kind = c.kind /\ n.who = c.who
        /\ n.pair = c.pair /\ n.call = c.call /\ c.pair \in Pairs
    BY <1>0, <2>1 DEF JobStates, JobOK
  <2>3. JobOK(n)
    BY <1>0, <2>1, <2>2 DEF JobOK, NoJob
  <2>4. CallMoves(j, n)
    BY <1>0, <2>1, <2>2 DEF CallMoves, serverVars, JobOK
  <2>5. MutexMoves(j, n)
    BY <1>0, <2>1, <2>2 DEF MutexMoves, Unlock, Holds
  <2>6. SaveMoves(j, n)
    BY <1>0, <1>8, <2>1, <2>2
       DEF SaveRenewed, SaveMoves, Holds, innerSave, innerSaveFails, storeVars, PairOrNone
  <2> QED BY <1>0, <2>1, <2>2, <2>3, <2>4, <2>5, <2>6 DEF JobMoves
<1>9. CASE SendCall(j)
  <2> DEFINE method == MethodOf(c.kind)
             type == IF c.kind = "refresh" THEN "refresh" ELSE "access"
  <2>0. /\ c.at \in {"send", "loaded"} /\ UNCHANGED <<now, storeVars, mu, renewed, acts>>
        /\ Send(j, "calling", method, Token(c.pair, type))
    BY <1>9 DEF SendCall
  <2>1. c.kind \in UseCases /\ (c.kind \in {"login", "register"} <=> c.at = "send")
    BY <1>0, <2>0 DEF JobOK, NoJob, JobStates
  <2>2. /\ method \in Methods
        /\ method \in {"Login", "Register"} <=> c.kind \in {"login", "register"}
    BY <2>1 DEF MethodOf, UseCases, Methods, methodsWithoutAuth
  <2>3. IF method \in {"Login", "Register"} THEN c.who \in Users ELSE c.pair \in Pairs
    BY <1>0, <2>0, <2>1, <2>2 DEF JobOK
  <2>4. PICK n \in JobStates :
              /\ job' = [job EXCEPT ![j] = n] /\ CallMoves(j, n)
              /\ n.at = "calling" /\ n.call \in Handlers
              /\ n.kind = c.kind /\ n.who = c.who /\ n.pair = c.pair
    <3> HIDE DEF method
    <3> QED BY <2>0, <2>2, <2>3, SendMoves
  <2>5. JobOK(n)
    BY <1>0, <2>0, <2>4 DEF JobOK, NoJob
  <2>6. MutexMoves(j, n) /\ SaveMoves(j, n)
    BY <1>0, <2>0, <2>4 DEF MutexMoves, SaveMoves, Holds, storeVars
  <2> QED BY <1>0, <2>0, <2>4, <2>5, <2>6 DEF JobMoves
<1>10. ASSUME c.at \in {"send", "loaded", "calling"}, End(j),
              UNCHANGED <<users, hashing, phase>>,
              \/ handler' = [handler EXCEPT ![c.call] = Idle]
                 /\ c.call # None /\ handler[c.call].at = "answered"
              \/ Unavailable(j),
              UNCHANGED <<now, storeVars, mu, renewed>>, acts' = acts \/ Act
       PROVE  \E n : JobMoves(j, n)
  <2>1. CallMoves(j, NoJob)
    BY <1>10, NoJobFacts, EndOfCall
  <2>2. MutexMoves(j, NoJob) /\ SaveMoves(j, NoJob)
    BY <1>0, <1>10, NoJobFacts DEF MutexMoves, SaveMoves, storeVars
  <2> QED BY <1>a, <1>10, <2>1, <2>2, NoJobFacts DEF JobMoves, End
<1>11. CASE CallRefused(j)
  BY <1>10, <1>11 DEF CallRefused, Refused, Answered
<1>12. CASE CallUnavailable(j)
  BY <1>10, <1>12 DEF CallUnavailable, Unavailable
<1>13. CASE CallReturns(j)
  BY <1>10, <1>13 DEF CallReturns, Answered
<1>14. CASE Save(j)
  <2>1. c.at = "store" /\ c.pair \in Pairs /\ c.call = None /\ UNCHANGED <<now, serverVars, mu, renewed, acts>>
    BY <1>0, <1>14 DEF Save, JobOK
  <2>2. CallMoves(j, NoJob)
    BY <2>1, NoJobFacts DEF CallMoves, serverVars
  <2>3. MutexMoves(j, NoJob)
    BY <2>1, NoJobFacts DEF MutexMoves
  <2>4. SaveMoves(j, NoJob)
    BY <1>0, <1>14, <2>1, NoJobFacts DEF Save, SaveMoves, innerSave, innerSaveFails, storeVars, PairOrNone
  <2> QED BY <1>0, <1>14, <2>1, <2>2, <2>3, <2>4, NoJobFacts DEF JobMoves, End, Save
<1>15. ASSUME NEW kind \in UseCases, NEW who \in Users \cup {None}, Begin(j, kind, who)
       PROVE  \E n : JobMoves(j, n)
  <2> DEFINE n == [NoJob EXCEPT !.kind = kind, !.who = who, !.at = IF who # None THEN "send" ELSE "lock"]
  <2>1. /\ job' = [job EXCEPT ![j] = n] /\ c = NoJob /\ Act
        /\ (kind \in {"login", "register"}) = (who # None)
        /\ UNCHANGED <<now, serverVars, storeVars, mu, renewed>>
    BY <1>15 DEF Begin
  <2>2. /\ n \in JobStates /\ n.kind = kind /\ n.who = who /\ n.call = None
        /\ n.at = IF who # None THEN "send" ELSE "lock"
    BY DEF JobStates, NoJob, UseCases, PairOrNone
  <2>3. JobOK(n)
    BY <1>0, <2>1, <2>2 DEF JobOK, UseCases
  <2>4. CallMoves(j, n)
    BY <2>1, <2>2, NoJobFacts DEF CallMoves, serverVars
  <2>5. MutexMoves(j, n) /\ SaveMoves(j, n)
    BY <1>0, <2>1, <2>2 DEF MutexMoves, SaveMoves, Holds, storeVars
  <2> QED BY <1>a, <2>1, <2>2, <2>3, <2>4, <2>5 DEF JobMoves
<1> QED BY <1>1, <1>2, <1>3, <1>5, <1>6, <1>7, <1>8, <1>9, <1>11, <1>12, <1>13, <1>14, <1>15
        DEF ClientStep, Load

----------------------------------------------------------------------------
\* The invariant holds before the first call.
LEMMA InitInv == Init => TokenInv
<1> SUFFICES ASSUME Init PROVE TokenInv
  OBVIOUS
<1>0. /\ users \subseteq Users /\ hashing = 0 /\ phase = "serving"
      /\ handler = [h \in Handlers |-> Idle] /\ now = 1 /\ keyringUp = TRUE
      /\ keyring \in {None} \cup [user : users, iat : {0}] /\ file = None
      /\ mu = [p \in Procs |-> None] /\ job = [j \in Jobs |-> NoJob]
      /\ renewed = [p \in Procs |-> 0] /\ acts = 0
  BY DEF Init, ServerInit
<1>1. Hashing = {}
  BY <1>0 DEF Hashing, Idle
<1>2. SlotsInv
  BY <1>0, <1>1, FS_EmptySet DEF SlotsInv, HandlerStates
<1>3. TypeOK
  BY <1>0, NoJobFacts, ServerAssumption, TokenAssumption DEF TypeOK, PairOrNone, Pairs
<1>4. \A h \in Handlers : CallOK(handler[h])
  BY <1>0 DEF CallOK, Idle
<1>5. \A j \in Jobs : JobOK(job[j]) /\ Waited(j) /\ Locked(j) /\ RenewedInOrder(j)
  BY <1>0, NoJobFacts DEF Waited, Locked, RenewedInOrder
<1>6. \A p \in Procs : renewed[p] <= now
  BY <1>0
<1> QED BY <1>2, <1>3, <1>4, <1>5, <1>6 DEF TokenInv

\* What neither a handler nor a goroutine does leaves both alone.
LEMMA QuietInv ==
    ASSUME TokenInv, UNCHANGED <<users, hashing, handler, mu, job, renewed, keyring, file>>,
           phase' \in {"serving", "stopping", "drained", "closed", "exited"},
           keyringUp' \in BOOLEAN, acts' \in 0 .. MaxActs,
           now' = now \/ now' = now + 1, now' <= MaxTime
    PROVE  TokenInv'
<1>1. Hashing' = Hashing
  BY DEF Hashing
<1>2. SlotsInv'
  BY <1>1 DEF TokenInv, SlotsInv
<1>3. TypeOK'
  BY ServerAssumption DEF TokenInv, TypeOK
<1>4. \A h \in Handlers : CallOK(handler[h])'
  BY DEF TokenInv, CallOK
<1>5. now \in Int /\ now' \in Int /\ now <= now'
  BY DEF TokenInv, TypeOK
<1>6. ASSUME NEW j \in Jobs
      PROVE  JobOK(job[j])' /\ Waited(j)' /\ Locked(j)'
  BY DEF TokenInv, JobOK, NoJob, Waited, Locked, Holds
<1>7. ASSUME NEW j \in Jobs PROVE RenewedInOrder(j)'
  <2> DEFINE c == handler[job[j].call]
  <2>1. (RenewedInOrder(j) /\ JobOK(job[j]) /\ CallOK(c)) \/ job[j].call = None
    BY DEF TokenInv, TypeOK, JobStates
  <2>2. job[j].at = "save" => job[j].pair \in Pairs
    BY DEF TokenInv, JobOK
  <2>3. job[j].at = "renewing" => job[j].call \in Handlers
    BY DEF TokenInv, JobOK, TypeOK, JobStates
  <2>4. job[j].at = "renewing" /\ c.at = "answered" /\ c.res.code = "OK" => c.res.pair \in Pairs
    BY <2>3 DEF TokenInv, CallOK
  <2>5. RenewedInOrder(j)
    BY DEF TokenInv
  <2> QED BY <1>5, <2>2, <2>4, <2>5 DEF RenewedInOrder, Newer, Pairs
<1>8. \A p \in Procs : renewed'[p] <= now'
  BY <1>5 DEF TokenInv, TypeOK
<1> QED BY <1>2, <1>3, <1>4, <1>6, <1>7, <1>8 DEF TokenInv

\* Every step keeps the invariant.
LEMMA NextInv == TokenInv /\ [Next]_vars => TokenInv'
<1> SUFFICES ASSUME TokenInv, [Next]_vars PROVE TokenInv'
  OBVIOUS
<1>0. /\ now \in 0 .. MaxTime /\ MaxTime \in Nat /\ keyringUp \in BOOLEAN
      /\ acts \in 0 .. MaxActs /\ MaxActs \in Nat
      /\ phase \in {"serving", "stopping", "drained", "closed", "exited"}
  BY ServerAssumption, TokenAssumption DEF TokenInv, TypeOK
<1>1. CASE Tick
  BY <1>0, <1>1, QuietInv DEF Tick, serverVars, clientVars, storeVars
<1>2. CASE KeyringChanges
  BY <1>0, <1>2, QuietInv DEF KeyringChanges, Act, serverVars
<1>3. CASE ShutDown
  BY <1>0, <1>3, QuietInv DEF ShutDown, Stop, CloseDB, Exit, clientVars, storeVars
<1>4. CASE Told
  BY <1>0, <1>4, QuietInv DEF Told, Signal, Act, storeVars
<1>5. ASSUME NEW h \in Handlers, Serving(h) \/ Fed(h)
      PROVE  TokenInv'
  <2>1. (Serve(h) \/ RecvChunk(h)) /\ UNCHANGED <<now, clientVars>>
    BY <1>5 DEF Serving, Fed
  <2>2. (\E c : HandlerMoves(h, c)) /\ users' \subseteq Users /\ UNCHANGED phase
    BY <2>1, ServeMoves
  <2> QED BY <2>1, <2>2, HandlerInv
<1>6. ASSUME NEW j \in Jobs,
             ClientStep(j) \/ \E kind \in UseCases, who \in Users \cup {None} : Begin(j, kind, who)
      PROVE  TokenInv'
  BY <1>6, ClientMoves, JobInv
<1>7. CASE UNCHANGED vars
  BY <1>0, <1>7, QuietInv DEF vars, serverVars, clientVars, storeVars
<1> QED BY <1>1, <1>2, <1>3, <1>4, <1>5, <1>6, <1>7 DEF Next

\* Whatever the server and the user's processes do, TokenInv holds.
THEOREM TokenInvariance == Spec => []TokenInv
<1> QED BY InitInv, NextInv, PTL DEF Spec

\* autorefresh.go, password_hash.go: the state keeps its shape; no step takes more slots
\* than passwordHashSem has or gives one back that nobody held.
THEOREM TokenTypeOK == Spec => []TypeOK
<1>1. TokenInv => TypeOK
  BY DEF TokenInv
<1> QED BY <1>1, TokenInvariance, PTL

\* password_hash.go: slots are occupied exactly by the handlers that hash, also when
\* callers are gone, Argon2 fails or the server drains.
THEOREM SemaphoreExact == Spec => []SlotsExact
<1>1. TokenInv => SlotsExact
  BY DEF TokenInv, SlotsInv, SlotsExact, Hashing
<1> QED BY <1>1, TokenInvariance, PTL

\* autorefresh.go: what AutoRefreshStore saves was issued no earlier than what the
\* process saved before it.
THEOREM RefreshesInOrder == Spec => []LoadsInOrder
<1>1. TokenInv => LoadsInOrder
  BY DEF TokenInv, RenewedInOrder, Newer, LoadsInOrder, TypeOK, JobStates, JobOK, Pairs
<1> QED BY <1>1, TokenInvariance, PTL
=============================================================================
