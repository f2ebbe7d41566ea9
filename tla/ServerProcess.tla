---------------------------- MODULE ServerProcess ----------------------------
(***************************************************************************)
(* The server process as its callers meet it: the interceptors that check  *)
(* a token, the authentication handlers with the semaphore around Argon2,  *)
(* every other unary call as one database access, a blob upload as a       *)
(* stream its client feeds, and the shutdown that waits for all of them.   *)
(* A token is the pair it came with and its type; its signature is ideal.  *)
(***************************************************************************)
EXTENDS Integers, FiniteSets

CONSTANTS
    Users,          \* accounts
    None,           \* no user, no pair, no job
    Handlers,       \* goroutines of the gRPC server, one per call in progress
    HashSlots,      \* capacity of passwordHashSem
    AccessTTL,      \* life time of an access token
    RefreshTTL,     \* life time of a refresh token
    MaxTime         \* bound: the last instant a behaviour reaches

ASSUME ServerAssumption ==
    /\ None \notin Users \cup Handlers
    /\ HashSlots \in Nat \ {0, 1}
    /\ {AccessTTL, RefreshTTL} \subseteq Nat \ {0} /\ MaxTime \in Nat \ {0}

VARIABLES
    now,        \* the clock
    users,      \* rows of the table users
    hashing,    \* occupied slots of passwordHashSem
    phase,      \* of Run: "serving", "stopping", "drained", "closed", "exited"
    handler     \* [Handlers -> the call a goroutine serves]

serverVars == <<users, hashing, phase, handler>>

----------------------------------------------------------------------------
(* pkg/jwt: a pair is issued at one instant for one user. *)

Pairs == [user : Users, iat : 0 .. MaxTime]
Issue(u) == [user |-> u, iat |-> now]
Token(pair, type) == [pair |-> pair, type |-> type]
TTL(type) == IF type = "access" THEN AccessTTL ELSE RefreshTTL

\* parse accepts a token of the expected type before it expires.
parse(token, expected) ==
    /\ token.type = expected
    /\ now < token.pair.iat + TTL(token.type)
Verify(token) == parse(token, "access")
VerifyRefresh(token) == parse(token, "refresh")

----------------------------------------------------------------------------
(* A call on its way: what was asked, where its handler is, what it answers. *)

methodsWithoutAuth == {"Login", "Register", "RefreshToken"}
Methods == methodsWithoutAuth \cup {"Unary", "UploadBlob"}

Failed == [code |-> "error", pair |-> None]
Denied == [code |-> "Unauthenticated", pair |-> None]
Granted(pair) == [code |-> "OK", pair |-> pair]

Idle == [at |-> "idle"]
Call(method, who, token) ==
    [at |-> "new", method |-> method, who |-> who, token |-> token,
     cancelled |-> FALSE]

Running(h) == handler[h].at \notin {"idle", "answered"}
Goto(h, at) == handler' = [handler EXCEPT ![h].at = at]

\* Nobody reads the answer to a call its client gave up.
Answer(h, res) ==
    handler' = [handler EXCEPT ![h] = IF @.cancelled THEN Idle ELSE [at |-> "answered", res |-> res]]

\* Auth and StreamAuth: every other method needs a valid access token.
Admitted(c) == c.method \in methodsWithoutAuth \/ Verify(c.token)
First(method) ==
    CASE method = "Login" -> "lookup"
      [] method = "Register" -> "queue"
      [] method = "Unary" -> "query"
      [] method = "UploadBlob" -> "recv"

Auth(h) ==
    /\ handler[h].at = "new"
    /\ handler[h].method # "RefreshToken"
    /\ IF Admitted(handler[h]) THEN Goto(h, First(handler[h].method)) ELSE Answer(h, Denied)
    /\ UNCHANGED <<users, hashing, phase>>

\* Mutant: the query is not bound to the context of the call, and outlasts it.
QueryFailsUnbound(h) ==
    /\ handler[h].at \in {"lookup", "create", "user", "query"}
    /\ ~handler[h].cancelled
    /\ Answer(h, Failed)
    /\ UNCHANGED <<users, hashing, phase>>

\* A query fails under a cancelled context, and may fail for its own reasons.
QueryFails(h) ==
    /\ handler[h].at \in {"lookup", "create", "user", "query"}
    /\ Answer(h, Failed)
    /\ UNCHANGED <<users, hashing, phase>>
Query(h, at) == handler[h].at = at /\ ~handler[h].cancelled

\* Login: GetByLogin, and the password is compared only for a known user.
GetByLogin(h) ==
    /\ Query(h, "lookup")
    /\ IF handler[h].who \in users THEN Goto(h, "queue") ELSE Answer(h, Denied)
    /\ UNCHANGED <<users, hashing, phase>>

\* acquireHashSlot: the select takes a free slot even under a cancelled context.
AcquireSlot(h) ==
    /\ handler[h].at = "queue"
    /\ hashing < HashSlots
    /\ hashing' = hashing + 1
    /\ Goto(h, "hash")
    /\ UNCHANGED <<users, phase>>

\* ctx.Done(): the client has gone.
LeaveQueue(h) ==
    /\ handler[h].at = "queue"
    /\ handler[h].cancelled
    /\ Answer(h, Failed)
    /\ UNCHANGED <<users, hashing, phase>>

\* Mutant: the slot is given back only when Argon2 succeeded.
releaseHashSlotOnSuccess(ok) == hashing' = IF ok THEN hashing - 1 ELSE hashing

\* releaseHashSlot is deferred: it runs whatever Argon2 returned.
releaseHashSlot(ok) == hashing' = hashing - 1

\* comparePassword and hashPassword return.
Hashed(h, ok) ==
    /\ handler[h].at = "hash"
    /\ releaseHashSlot(ok)
    /\ \/ ~ok /\ Answer(h, Failed)
       \/ ok /\ handler[h].method = "Register" /\ Goto(h, "create")
       \/ ok /\ handler[h].method = "Login" /\ \/ Answer(h, Granted(Issue(handler[h].who)))
                                               \/ Answer(h, Denied)
    /\ UNCHANGED <<users, phase>>

\* Register: the unique index on the login refuses a second account.
CreateUser(h) ==
    /\ Query(h, "create")
    /\ IF handler[h].who \in users
          THEN Answer(h, Failed) /\ UNCHANGED users
          ELSE /\ users' = users \cup {handler[h].who}
               /\ Answer(h, Granted(Issue(handler[h].who)))
    /\ UNCHANGED <<hashing, phase>>

\* RefreshToken: the token names the user, whose row is read before a new pair is issued.
CheckRefresh(h) ==
    /\ handler[h].at = "new"
    /\ handler[h].method = "RefreshToken"
    /\ IF VerifyRefresh(handler[h].token) THEN Goto(h, "user") ELSE Answer(h, Denied)
    /\ UNCHANGED <<users, hashing, phase>>
RefreshToken(h) ==
    /\ Query(h, "user")
    /\ LET u == handler[h].token.pair.user
       IN  Answer(h, IF u \in users THEN Granted(Issue(u)) ELSE Denied)
    /\ UNCHANGED <<users, hashing, phase>>

\* Every other unary handler, as far as this module goes: one database access.
ServeUnary(h) ==
    /\ Query(h, "query")
    /\ Answer(h, Granted(handler[h].token.pair))
    /\ UNCHANGED <<users, hashing, phase>>

\* UploadBlob waits for its client: chunks, the end of the stream, or a broken one.
RecvChunk(h) ==
    /\ handler[h].at = "recv"
    /\ ~handler[h].cancelled
    /\ Goto(h, "query")
    /\ UNCHANGED <<users, hashing, phase>>
RecvError(h) ==
    /\ handler[h].at = "recv"
    /\ handler[h].cancelled
    /\ Answer(h, Failed)
    /\ UNCHANGED <<users, hashing, phase>>

----------------------------------------------------------------------------
(* Run and shutdown. *)

\* A signal, or a listener that failed: groupCtx ends and GracefulStop refuses new calls.
Signal ==
    /\ phase = "serving"
    /\ phase' = "stopping"
    /\ UNCHANGED <<users, hashing, handler>>

\* Stop returns when no handler is left.
Stop ==
    /\ phase = "stopping"
    /\ \A h \in Handlers : ~Running(h)
    /\ phase' = "drained"
    /\ UNCHANGED <<users, hashing, handler>>

\* pprofSrv.Shutdown, bounded by shutdownTimeout, and DB.Close.
CloseDB ==
    /\ phase = "drained"
    /\ phase' = "closed"
    /\ UNCHANGED <<users, hashing, handler>>

\* g.Wait returns and the process ends.
Exit ==
    /\ phase = "closed"
    /\ phase' = "exited"
    /\ UNCHANGED <<users, hashing, handler>>

Serve(h) ==
    \/ Auth(h) \/ QueryFails(h)
    \/ GetByLogin(h) \/ AcquireSlot(h) \/ LeaveQueue(h)
    \/ \E ok \in BOOLEAN : Hashed(h, ok)
    \/ CreateUser(h) \/ CheckRefresh(h) \/ RefreshToken(h)
    \/ ServeUnary(h) \/ RecvError(h)

ServerInit ==
    /\ users \in SUBSET Users
    /\ hashing = 0
    /\ phase = "serving"
    /\ handler = [h \in Handlers |-> Idle]
=============================================================================
