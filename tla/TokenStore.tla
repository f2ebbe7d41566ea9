----------------------------- MODULE TokenStore -----------------------------
(***************************************************************************)
(* The tokens of one device and everyone who reads or replaces them.       *)
(* Use cases load a pair, which AutoRefreshStore renews first when its     *)
(* access token is about to expire; Login, Register and the refresh of the *)
(* CLI store the pair they are given.  The mutex of AutoRefreshStore       *)
(* serialises the loads of one process and nothing else; the OS keyring    *)
(* and the file behind it are shared by all processes of the user.         *)
(***************************************************************************)
EXTENDS ServerProcess

CONSTANTS
    Jobs,               \* goroutines of the client
    Procs,              \* client processes
    procOf,             \* [Jobs -> Procs]: whose AutoRefreshStore a goroutine uses
    CLI,                \* the processes that may run the use case Refresh
    RefreshThreshold,   \* renew when less than this is left of an access token
    Flaky,              \* TRUE: the keyring comes and goes, and the file may not be writable
    MaxActs             \* bound: use cases, broken calls, keyring changes and signals in one behaviour

ASSUME TokenAssumption ==
    /\ None \notin Jobs \cup Pairs
    /\ procOf \in [Jobs -> Procs]
    /\ CLI \subseteq Procs
    /\ RefreshThreshold \in Nat
    /\ Flaky \in BOOLEAN
    /\ MaxActs \in Nat

VARIABLES
    keyring,    \* the entry of the OS keyring
    keyringUp,  \* the keyring answers
    file,       \* token.json
    mu,         \* [Procs -> the job that holds the mutex]
    job,        \* [Jobs -> what it runs, where it is, the pair it holds, its call]
    renewed,    \* history: [Procs -> when the newest pair saved by a Load was issued]
    acts        \* what is spent of MaxActs

storeVars == <<keyring, keyringUp, file>>
clientVars == <<storeVars, mu, job, renewed, acts>>
vars == <<now, serverVars, clientVars>>

Act == acts < MaxActs /\ acts' = acts + 1

UseCases == {"use", "upload", "login", "register", "refresh"}
NoJob == [kind |-> "none", at |-> "idle", who |-> None, pair |-> None, call |-> None]

Step(j, at) == job' = [job EXCEPT ![j].at = at]
End(j) == job' = [job EXCEPT ![j] = NoJob]

----------------------------------------------------------------------------
(* Store: the keyring first, the file when the keyring does not answer. *)

innerLoad == IF keyringUp /\ keyring # None THEN keyring ELSE file

innerSave(pair) ==
    \/ /\ keyringUp
       /\ keyring' = pair
       /\ UNCHANGED <<keyringUp, file>>
    \/ /\ ~keyringUp
       /\ file' = pair
       /\ UNCHANGED <<keyring, keyringUp>>
innerSaveFails ==
    /\ Flaky
    /\ ~keyringUp
    /\ UNCHANGED storeVars

KeyringChanges ==
    /\ Flaky
    /\ Act
    /\ keyringUp' = ~keyringUp
    /\ UNCHANGED <<now, serverVars, keyring, file, mu, job, renewed>>

----------------------------------------------------------------------------
(* A call: sent to a serving server, answered, or given up by the client. *)

Send(j, at, method, token) ==
    /\ phase = "serving"
    /\ \E h \in Handlers :
          /\ handler[h] = Idle
          /\ handler' = [handler EXCEPT ![h] = Call(method, job[j].who, token)]
          /\ job' = [job EXCEPT ![j] = [@ EXCEPT !.at = at, !.call = h]]
    /\ UNCHANGED <<users, hashing, phase>>

Answered(j, code) ==
    /\ job[j].call # None
    /\ handler[job[j].call].at = "answered"
    /\ (handler[job[j].call].res.code = "OK") = (code = "OK")

\* The job takes the answer to its call and goes on with it.
Take(j, at) ==
    /\ job' = [job EXCEPT ![j] = [@ EXCEPT !.at = at, !.call = None,
                                           !.pair = handler[job[j].call].res.pair]]
    /\ handler' = [handler EXCEPT ![job[j].call] = Idle]
    /\ UNCHANGED <<users, hashing, phase>>

Abandoned(c) == IF c.at = "answered" THEN Idle ELSE [c EXCEPT !.cancelled = TRUE]

\* The server refuses the call.
Refused(j) ==
    /\ Answered(j, "error")
    /\ handler' = [handler EXCEPT ![job[j].call] = Idle]
    /\ UNCHANGED <<users, hashing, phase>>

\* The server cannot be reached, the connection breaks or the deadline expires.  A
\* handler learns that its client is gone, after its work or before.
Unavailable(j) ==
    /\ \/ job[j].call = None /\ UNCHANGED handler
       \/ job[j].call # None /\ handler' = [handler EXCEPT ![job[j].call] = Abandoned(@)]
    /\ UNCHANGED <<users, hashing, phase>>

----------------------------------------------------------------------------
(* AutoRefreshStore.Load. *)

Fresh(pair) == pair.iat + AccessTTL - now > RefreshThreshold

\* Mutant: the mutex is not taken.
LockNothing(j) ==
    /\ job[j].at = "lock"
    /\ Step(j, "load")
    /\ UNCHANGED <<now, serverVars, storeVars, mu, renewed, acts>>

\* mu.Lock.
Lock(j) ==
    /\ job[j].at = "lock"
    /\ mu[procOf[j]] = None
    /\ mu' = [mu EXCEPT ![procOf[j]] = j]
    /\ Step(j, "load")
    /\ UNCHANGED <<now, serverVars, storeVars, renewed, acts>>

Unlock(j) == mu' = [mu EXCEPT ![procOf[j]] = None]

LoadPair(j) ==
    /\ job[j].at = "load"
    /\ LET pair == innerLoad IN
       \/ /\ pair = None
          /\ Unlock(j) /\ End(j)
       \/ /\ pair # None /\ Fresh(pair)
          /\ Unlock(j) /\ job' = [job EXCEPT ![j] = [@ EXCEPT !.at = "loaded", !.pair = pair]]
       \/ /\ pair # None /\ ~Fresh(pair)
          /\ UNCHANGED mu /\ job' = [job EXCEPT ![j] = [@ EXCEPT !.at = "renew", !.pair = pair]]
    /\ UNCHANGED <<now, serverVars, storeVars, renewed, acts>>

\* RefreshToken under a deadline of its own.
Renew(j) ==
    /\ job[j].at = "renew"
    /\ Send(j, "renewing", "RefreshToken", Token(job[j].pair, "refresh"))
    /\ UNCHANGED <<now, storeVars, mu, renewed, acts>>
Renewed(j) ==
    /\ job[j].at = "renewing"
    /\ Answered(j, "OK")
    /\ Take(j, "save")
    /\ UNCHANGED <<now, storeVars, mu, renewed, acts>>

\* Mutant: the call of the refresh has no deadline.
RenewFailsNoDeadline(j) ==
    /\ \/ job[j].at = "renew" /\ Unavailable(j)
       \/ job[j].at = "renewing" /\ Refused(j)
    /\ job' = [job EXCEPT ![j] = [@ EXCEPT !.at = "loaded", !.call = None]]
    /\ Unlock(j)
    /\ UNCHANGED <<now, storeVars, renewed, acts>>

\* The old pair serves when the refresh fails or its deadline passes.
RenewFails(j) ==
    /\ job[j].at \in {"renew", "renewing"}
    /\ Refused(j) \/ Unavailable(j)
    /\ job' = [job EXCEPT ![j] = [@ EXCEPT !.at = "loaded", !.call = None]]
    /\ Unlock(j)
    /\ UNCHANGED <<now, storeVars, renewed, acts>>

\* A failing Save is logged only: the new pair is used and forgotten.
SaveRenewed(j) ==
    /\ job[j].at = "save"
    /\ \/ innerSave(job[j].pair) /\ renewed' = [renewed EXCEPT ![procOf[j]] = job[j].pair.iat]
       \/ innerSaveFails /\ UNCHANGED renewed
    /\ Unlock(j)
    /\ Step(j, "loaded")
    /\ UNCHANGED <<now, serverVars, acts>>

----------------------------------------------------------------------------
(* The use cases. *)

\* The login screen takes Enter again while a login is running.
Begin(j, kind, who) ==
    /\ job[j] = NoJob
    /\ Act
    /\ kind = "refresh" => procOf[j] \in CLI
    /\ (kind \in {"login", "register"}) = (who # None)
    /\ job' = [job EXCEPT ![j] = [NoJob EXCEPT !.kind = kind, !.who = who,
                                              !.at = IF who # None THEN "send" ELSE "lock"]]
    /\ UNCHANGED <<now, serverVars, storeVars, mu, renewed>>

MethodOf(kind) ==
    CASE kind = "login" -> "Login"
      [] kind = "register" -> "Register"
      [] kind = "refresh" -> "RefreshToken"
      [] kind = "use" -> "Unary"
      [] kind = "upload" -> "UploadBlob"

\* The call the use case is about, with the token its Load returned.
SendCall(j) ==
    /\ job[j].at \in {"send", "loaded"}
    /\ Send(j, "calling", MethodOf(job[j].kind),
            Token(job[j].pair, IF job[j].kind = "refresh" THEN "refresh" ELSE "access"))
    /\ UNCHANGED <<now, storeVars, mu, renewed, acts>>
CallRefused(j) ==
    /\ job[j].at = "calling"
    /\ Refused(j)
    /\ End(j)
    /\ UNCHANGED <<now, storeVars, mu, renewed, acts>>
CallUnavailable(j) ==
    /\ job[j].at \in {"send", "loaded", "calling"}
    /\ Act
    /\ Unavailable(j)
    /\ End(j)
    /\ UNCHANGED <<now, storeVars, mu, renewed>>
CallReturns(j) ==
    /\ job[j].at = "calling"
    /\ job[j].kind \in {"use", "upload"}
    /\ Answered(j, "OK")
    /\ handler' = [handler EXCEPT ![job[j].call] = Idle]
    /\ End(j)
    /\ UNCHANGED <<now, users, hashing, phase, storeVars, mu, renewed, acts>>

\* Login, Register and Refresh: reconcileAccount takes the cache over, then the
\* tokens are stored, without the mutex of AutoRefreshStore.
reconcileAccount(j) ==
    /\ job[j].at = "calling"
    /\ job[j].kind \in {"login", "register", "refresh"}
    /\ Answered(j, "OK")
    /\ Take(j, "store")
    /\ UNCHANGED <<now, storeVars, mu, renewed, acts>>
Save(j) ==
    /\ job[j].at = "store"
    /\ innerSave(job[j].pair) \/ innerSaveFails
    /\ End(j)
    /\ UNCHANGED <<now, serverVars, mu, renewed, acts>>

Load(j) == Lock(j) \/ LoadPair(j) \/ Renew(j) \/ Renewed(j) \/ RenewFails(j) \/ SaveRenewed(j)

ClientStep(j) ==
    \/ Load(j)
    \/ SendCall(j) \/ CallRefused(j) \/ CallUnavailable(j) \/ CallReturns(j)
    \/ reconcileAccount(j) \/ Save(j)

----------------------------------------------------------------------------
(* The specification. *)

Tick ==
    /\ now < MaxTime
    /\ now' = now + 1
    /\ UNCHANGED <<serverVars, clientVars>>

Serving(h) == Serve(h) /\ UNCHANGED <<now, clientVars>>
ShutDown == (Stop \/ CloseDB \/ Exit) /\ UNCHANGED <<now, clientVars>>
Fed(h) == RecvChunk(h) /\ UNCHANGED <<now, clientVars>>
Told == Signal /\ Act /\ UNCHANGED <<now, storeVars, mu, job, renewed>>

Init ==
    /\ ServerInit
    /\ now = 1
    /\ keyringUp = TRUE
    /\ keyring \in {None} \cup [user : users, iat : {0}]
    /\ file = None
    /\ mu = [p \in Procs |-> None]
    /\ job = [j \in Jobs |-> NoJob]
    /\ renewed = [p \in Procs |-> 0]
    /\ acts = 0

Next ==
    \/ Tick
    \/ KeyringChanges
    \/ ShutDown
    \/ Told
    \/ \E h \in Handlers : Serving(h) \/ Fed(h)
    \/ \E j \in Jobs : ClientStep(j)
    \/ \E j \in Jobs, kind \in UseCases, who \in Users \cup {None} : Begin(j, kind, who)

Spec == Init /\ [][Next]_vars

----------------------------------------------------------------------------
(* Properties. *)

PairOrNone == Pairs \cup {None}
Results == [code : {"OK", "error", "Unauthenticated"}, pair : PairOrNone]
Calls == [at : {"new", "lookup", "queue", "hash", "create", "user", "query", "recv"},
          method : Methods, who : Users \cup {None},
          token : [pair : PairOrNone, type : {"access", "refresh"}],
          cancelled : BOOLEAN]
JobStates == [kind : UseCases \cup {"none"},
              at : {"idle", "lock", "load", "renew", "renewing", "save", "loaded", "send",
                    "calling", "store"},
              who : Users \cup {None}, pair : PairOrNone, call : Handlers \cup {None}]

\* The shape of the state; a slot count never leaves the capacity of the channel.
TypeOK ==
    /\ now \in 0 .. MaxTime
    /\ users \subseteq Users
    /\ hashing \in 0 .. HashSlots
    /\ phase \in {"serving", "stopping", "drained", "closed", "exited"}
    /\ \A h \in Handlers : handler[h] \in {Idle} \cup [at : {"answered"}, res : Results] \cup Calls
    /\ {keyring, file} \subseteq PairOrNone
    /\ keyringUp \in BOOLEAN
    /\ mu \in [Procs -> Jobs \cup {None}]
    /\ job \in [Jobs -> JobStates]
    /\ renewed \in [Procs -> 0 .. MaxTime]
    /\ acts \in 0 .. MaxActs

\* The pairs the loads of one process save were issued in the order in which they are
\* saved: a slow refresh never puts an older pair over the one a later load obtained.
LoadsInOrder ==
    \A j \in Jobs : job[j].at = "save" => job[j].pair.iat >= renewed[procOf[j]]

\* Whoever holds the mutex of AutoRefreshStore can take a step of its own, whatever the
\* server does: no use case of the process waits for a server that does not answer.
HolderMoves ==
    \A p \in Procs : mu[p] # None => ENABLED Load(mu[p])

\* A slot of passwordHashSem is occupied exactly while a handler hashes: neither a cancelled
\* waiter nor a failing hash leaks one or gives back one it never had.
SlotsExact ==
    hashing = Cardinality({h \in Handlers : handler[h].at = "hash"})

\* Whoever the server waits for once it was told to stop comes to an end by itself, but
\* for a stream its client neither ends nor breaks: no queue for a slot, no query and no
\* step of shutdown blocks it.
StopNotStuck ==
    phase \notin {"serving", "exited"} =>
        \/ ENABLED ShutDown
        \/ \E h \in Handlers : Running(h) /\ (handler[h].at = "recv" \/ ENABLED Serving(h))
=============================================================================
