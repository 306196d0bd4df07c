------------------------------ MODULE SessionAuth ------------------------------
(***************************************************************************)
(* One ServiceNowRequest: its NowSDKAuthenticationHandler, which logs in   *)
(* and renews, and its RequestHandler, which holds the session the         *)
(* requests are sent with.  Several callers use it concurrently.           *)
(*                                                                         *)
(* An action is what runs between two awaits.  A login is a promise that   *)
(* any number of callers may await: when it settles, all of them are       *)
(* released, and ensureSession's `finally` has cleared `_pending`.  (The   *)
(* microtasks between the two can only join the settled promise, which is  *)
(* the same as having joined it just before it settled.)                   *)
(*                                                                         *)
(* Sources: src/src/auth/NowSDKAuthenticationHandler.ts,                   *)
(* src/src/comm/http/RequestHandler.ts, ServiceNowRequest.ts.              *)
(***************************************************************************)
EXTENDS PolicyRules

CONSTANTS
    Callers,            \* concurrent users of the request object
    Requests,           \* the requests they may make
    Ladder,             \* the installed policy's layers
    Origins,            \* origins a credential provider may answer with
    NoOrigin,           \* `_origin` before the first login
    ConfiguredOrigin,   \* origin of instance.credential, or NoOrigin without one
    LoginIds,           \* identities of login promises
    EmbedderOwners,     \* owners of the sessions an embedder may bring along
    MaxSessions         \* bound: user sessions the instance hands out

ASSUME SessionAuthAssumption ==
    /\ Requests \subseteq Request
    /\ NoOrigin \notin Origins
    /\ ConfiguredOrigin \in Origins \cup {NoOrigin}
    /\ LoginIds \subseteq Nat \ {0}
    /\ EmbedderOwners \subseteq {"other", "unknown"}
    /\ MaxSessions \in Nat

VARIABLES
    loggedIn,   \* auth._isLoggedIn
    session,    \* auth._session: NoSession, or the ordinal of a minted session
    life,       \* auth._credentials: how long the token they hold still lives
    origin,     \* auth._origin
    pinned,     \* auth._pinned
    pending,    \* auth._pending: a login, or NoLogin
    hSession,   \* handler._session
    hOwner,     \* handler._sessionInstanceId against _boundInstanceId
    login,      \* the login promises, running or not
    caller,     \* what each caller is doing
    minted,     \* user sessions handed out so far
    originOf,   \* the instance each of them belongs to
    workflows   \* sessions that carry impersonation, debugger or tracer state

authVars == <<loggedIn, session, life, origin, pinned, pending>>
handlerVars == <<hSession, hOwner>>
serverVars == <<minted, originOf, workflows>>
vars == <<loggedIn, session, life, origin, pinned, pending, hSession, hOwner,
          login, caller, minted, originOf, workflows>>

NoLogin == 0
NoSession == 0
Foreign == MaxSessions + 1          \* a session an embedder brought along

(* Remaining life of a credential: "basic" ones do not expire, "due" is at  *)
(* most 15 minutes.                                                         *)
Life == {"basic", "fresh", "due", "expired"}

Owner == {"self", "other", "unknown"}

(* caller[c].await: a running login's identity, or how it settled. *)
Settled == 0
Failed == -1

(* The request of a caller that has none. *)
NoRequest == [paths |-> {}, method |-> "get", query |-> {}, requires |-> NotDeclared]

(* `refused` is the session a 401 came back on; `sends` counts how often    *)
(* the request went out.                                                    *)
CallerState ==
    [pc : {"idle", "login", "config", "sent", "renew", "session"}, req : Request,
     retried : BOOLEAN, await : LoginIds \cup {Settled, Failed},
     sentOn : 0..Foreign, sentFor : Owner, refused : 0..Foreign, sends : Nat]

(* Mutant: ending a login drops the credentials it had. *)
NotRunningCleared == [phase |-> "none", life |-> "none", origin |-> NoOrigin]

Idle == [pc |-> "idle", req |-> NoRequest, retried |-> FALSE, await |-> Settled,
         sentOn |-> NoSession, sentFor |-> "unknown", refused |-> NoSession, sends |-> 0]

NotRunning == [phase |-> "none", life |-> "basic", origin |-> NoOrigin]

running(id) == login[id].phase # "none"

(* /\/(?:impersonate|debugger|scripttracer)(?:\/|$)/ in doRequest *)
stateful(r) == "workflow" \in r.paths

Init ==
    /\ loggedIn = FALSE /\ session = NoSession /\ life = "none" /\ origin = NoOrigin
    /\ pinned = FALSE /\ pending = NoLogin
    /\ hSession = NoSession /\ hOwner = "unknown"
    /\ login = [id \in LoginIds |-> NotRunning]
    /\ caller = [c \in Callers |-> Idle]
    /\ minted = 0 /\ originOf = [s \in 1..MaxSessions |-> NoOrigin] /\ workflows = {}

--------------------------------------------------------------------------------
(* ensureSession(force), its synchronous part.  It leaves the caller in     *)
(* state st awaiting the outcome: a running login it joins, the session it  *)
(* has, a refusal, or a login it starts.                                    *)

due == life \in {"due", "expired"}

await(c, st, outcome) == caller' = [caller EXCEPT ![c] = [st EXCEPT !.await = outcome]]

(* Mutant: a caller that finds a login running starts one of its own. *)
joinNothing(c, st) ==
    /\ pending # NoLogin
    /\ \E id \in LoginIds :
         /\ ~running(id)
         /\ login' = [login EXCEPT ![id].phase = "provider"]
         /\ pending' = id
         /\ await(c, st, id)

joinLogin(c, st) ==
    /\ pending # NoLogin
    /\ await(c, st, pending)
    /\ UNCHANGED <<pending, login>>

keepSession(c, st, force) ==
    /\ pending = NoLogin
    /\ ~force
    /\ \/ loggedIn /\ ~due
       \/ pinned /\ session # NoSession /\ life \in {"fresh", "due"}
    /\ await(c, st, Settled)
    /\ UNCHANGED <<pending, login>>

(* Mutant: a pinned session is renewed like any other. *)
startLoginPinned(c, st, force) ==
    /\ pending = NoLogin
    /\ force \/ ~loggedIn \/ due
    /\ \E id \in LoginIds :
         /\ ~running(id)
         /\ login' = [login EXCEPT ![id].phase = "provider"]
         /\ pending' = id
         /\ await(c, st, id)

refusePinned(c, st, force) ==
    /\ pending = NoLogin
    /\ force \/ ~loggedIn \/ due
    /\ pinned /\ session # NoSession
    /\ force \/ life \notin {"fresh", "due"}
    /\ await(c, st, Failed)
    /\ UNCHANGED <<pending, login>>

startLogin(c, st, force) ==
    /\ pending = NoLogin
    /\ force \/ ~loggedIn \/ due
    /\ ~(pinned /\ session # NoSession)
    /\ \E id \in LoginIds :
         /\ ~running(id)
         /\ login' = [login EXCEPT ![id].phase = "provider"]
         /\ pending' = id
         /\ await(c, st, id)

ensureSession(c, st, force) ==
    /\ \/ joinLogin(c, st)
       \/ keepSession(c, st, force)
       \/ refusePinned(c, st, force)
       \/ startLogin(c, st, force)
    /\ UNCHANGED <<loggedIn, session, life, origin, pinned, handlerVars, serverVars>>

--------------------------------------------------------------------------------
(* login() *)

(* The promise of login id settles: everyone awaiting it is released.       *)
release(id, outcome) ==
    /\ login' = [login EXCEPT ![id] = NotRunning]
    /\ pending' = IF pending = id THEN NoLogin ELSE pending
    /\ caller' = [c \in Callers |->
                    IF caller[c].await = id
                    THEN [caller[c] EXCEPT !.await = outcome] ELSE caller[c]]

(* Mutant: the origin of the first login is forgotten.                      *)
expectedOriginForgotten(o) == IF ConfiguredOrigin # NoOrigin THEN ConfiguredOrigin ELSE o

(* The catch of login(): the session it had stays where it was. *)
loginFails(id) ==
    /\ running(id)
    /\ release(id, Failed)
    /\ loggedIn' = FALSE
    /\ UNCHANGED <<session, life, origin, pinned, handlerVars, serverVars>>

expectedOrigin(o) ==
    CASE origin # NoOrigin -> origin
      [] origin = NoOrigin /\ ConfiguredOrigin # NoOrigin -> ConfiguredOrigin
      [] OTHER -> o

(* The credentials arrive.  Another origin, or a token that is already      *)
(* expired, ends the login; otherwise getUserSession is called with them.   *)
credentialsArrive(id, o, l) ==
    /\ login[id].phase = "provider"
    /\ IF o = expectedOrigin(o) /\ l # "expired"
       THEN /\ login' = [login EXCEPT ![id] = [phase |-> "getUserSession", life |-> l, origin |-> o]]
            /\ UNCHANGED <<authVars, handlerVars, caller, serverVars>>
       ELSE loginFails(id)

(* A user session is minted and, when the instance asks for roles, elevated; *)
(* then it is installed in handler and auth.                                *)
sessionEstablished(id) ==
    /\ login[id].phase = "getUserSession"
    /\ minted < MaxSessions
    /\ minted' = minted + 1
    /\ originOf' = [originOf EXCEPT ![minted + 1] = login[id].origin]
    /\ hSession' = minted + 1 /\ hOwner' = "self"
    /\ session' = minted + 1
    /\ life' = login[id].life
    /\ origin' = login[id].origin
    /\ loggedIn' = TRUE
    /\ release(id, Settled)
    /\ UNCHANGED <<pinned, workflows>>

--------------------------------------------------------------------------------
(* ServiceNowRequest and RequestHandler *)

(* The caller has its answer, or its error. *)
finish(c) == caller' = [caller EXCEPT ![c] = Idle]

matchesBoundInstance == hOwner # "other"

permitted(r) ==
    classify(r).verbs = {} \/ checkRequirement(TRUE, Ladder, classify(r)).allowed

(* getRequestConfig up to `await ensureSession()`: both assertions first.   *)
getRequestConfig(c, st) ==
    IF matchesBoundInstance /\ permitted(st.req)
    THEN ensureSession(c, [st EXCEPT !.pc = "config"], FALSE)
    ELSE finish(c) /\ UNCHANGED <<authVars, handlerVars, login, serverVars>>

(* get/post/put/delete: log in first if need be. *)
request(c, r) ==
    /\ caller[c].pc = "idle"
    /\ IF loggedIn
       THEN getRequestConfig(c, [Idle EXCEPT !.req = r])
       ELSE ensureSession(c, [Idle EXCEPT !.req = r, !.pc = "login"], TRUE)

getUserSession(c) ==
    /\ caller[c].pc = "idle"
    /\ ensureSession(c, [Idle EXCEPT !.pc = "session"], FALSE)

(* doLogin, or the renewal after a 401, has a session: build the request.   *)
sessionReady(c) ==
    /\ caller[c].pc \in {"login", "renew"}
    /\ caller[c].await = Settled
    /\ getRequestConfig(c, caller[c])

(* Mutant: a renewal that fails leaves its caller waiting. *)
loginRejectedOnce(c) ==
    /\ caller[c].pc \in {"login", "config", "session"}
    /\ caller[c].await = Failed
    /\ finish(c)
    /\ UNCHANGED <<authVars, handlerVars, login, serverVars>>

sessionReturned(c) ==
    /\ caller[c].pc = "session"
    /\ caller[c].await = Settled
    /\ finish(c)
    /\ UNCHANGED <<authVars, handlerVars, login, serverVars>>

loginRejected(c) ==
    /\ caller[c].pc \in {"login", "renew", "config", "session"}
    /\ caller[c].await = Failed
    /\ finish(c)
    /\ UNCHANGED <<authVars, handlerVars, login, serverVars>>

(* Mutant: the binding is asserted before the await only. *)
makeRequestUnchecked(c) ==
    /\ caller[c].pc = "config"
    /\ caller[c].await = Settled
    /\ caller' = [caller EXCEPT ![c] =
                     [caller[c] EXCEPT !.pc = "sent", !.sentOn = hSession,
                                       !.sentFor = hOwner, !.sends = caller[c].sends + 1]]
    /\ UNCHANGED <<authVars, handlerVars, login, serverVars>>

(* The rest of getRequestConfig and makeRequest: the session is read only   *)
(* now, and the binding is asserted again just before.                      *)
makeRequest(c) ==
    /\ caller[c].pc = "config"
    /\ caller[c].await = Settled
    /\ IF matchesBoundInstance
       THEN caller' = [caller EXCEPT ![c] =
                         [caller[c] EXCEPT !.pc = "sent", !.sentOn = hSession,
                                           !.sentFor = hOwner, !.sends = caller[c].sends + 1]]
       ELSE finish(c)
    /\ UNCHANGED <<authVars, handlerVars, login, serverVars>>

(* Mutant: any GET is replayed, stateful ones too. *)
ordinaryReadStateful(r) == classify(r).verbs = {} /\ classify(r).target = "instance"

(* A 401 on an ordinary read renews and sends once more; on anything else,  *)
(* or the second time, it is an error.                                      *)
ordinaryRead(r) ==
    /\ ~stateful(r)
    /\ classify(r).verbs = {}
    /\ classify(r).target = "instance"

unauthorized(c) ==
    /\ caller[c].pc = "sent"
    /\ IF ~caller[c].retried /\ ordinaryRead(caller[c].req)
       THEN ensureSession(c, [caller[c] EXCEPT !.pc = "renew", !.retried = TRUE,
                                               !.refused = caller[c].sentOn], TRUE)
       ELSE finish(c) /\ UNCHANGED <<authVars, handlerVars, login, serverVars>>

(* A good answer to a stateful request pins the session. *)
succeeded(c) ==
    /\ caller[c].pc = "sent"
    /\ finish(c)
    /\ pinned' = (pinned \/ stateful(caller[c].req))
    /\ workflows' = IF stateful(caller[c].req)
                    THEN workflows \cup {caller[c].sentOn} ELSE workflows
    /\ UNCHANGED <<loggedIn, session, life, origin, pending, handlerVars, login, minted, originOf>>

(* Any other status, or no answer at all. *)
failed(c) ==
    /\ caller[c].pc = "sent"
    /\ finish(c)
    /\ UNCHANGED <<authVars, handlerVars, login, serverVars>>

--------------------------------------------------------------------------------
(* The environment *)

age(l) == CASE l = "fresh" -> "due" [] l = "due" -> "expired" [] OTHER -> l

(* Time passes for the credentials of the session. *)
credentialsAge ==
    /\ life \in {"fresh", "due"}
    /\ life' = age(life)
    /\ UNCHANGED <<loggedIn, session, origin, pinned, pending, handlerVars, login, caller, serverVars>>

(* Time passes for the credentials a login is using. *)
loginAges(id) ==
    /\ login[id].phase = "getUserSession"
    /\ login[id].life \in {"fresh", "due"}
    /\ login' = [login EXCEPT ![id].life = age(@)]
    /\ UNCHANGED <<authVars, handlerVars, caller, serverVars>>

(* An embedder calls setSession with a session of its own, minted for       *)
(* another instance or without saying for which.                            *)
setSession(owner) ==
    /\ hSession # Foreign
    /\ hSession' = Foreign /\ hOwner' = owner
    /\ UNCHANGED <<authVars, login, caller, serverVars>>

--------------------------------------------------------------------------------
loginStep(id) ==
    \/ \E o \in Origins, l \in Life : credentialsArrive(id, o, l)
    \/ sessionEstablished(id)
    \/ loginFails(id)

proceed(c) == sessionReady(c) \/ sessionReturned(c) \/ loginRejected(c) \/ makeRequest(c)

answered(c) == unauthorized(c) \/ succeeded(c) \/ failed(c)

Next ==
    \/ \E id \in LoginIds : loginStep(id) \/ loginAges(id)
    \/ \E c \in Callers, r \in Requests : request(c, r)
    \/ \E c \in Callers : getUserSession(c) \/ proceed(c) \/ answered(c)
    \/ credentialsAge
    \/ \E owner \in EmbedderOwners : setSession(owner)

Spec == Init /\ [][Next]_vars

(* A login ends, by a session or by an error; a continuation whose promise  *)
(* has settled runs; a request that was sent is answered or fails.          *)
FairSpec ==
    /\ Spec
    /\ \A id \in LoginIds : WF_vars(loginStep(id))
    /\ \A c \in Callers : WF_vars(proceed(c)) /\ WF_vars(answered(c))

--------------------------------------------------------------------------------
TypeOK ==
    /\ loggedIn \in BOOLEAN
    /\ session \in 0..MaxSessions
    /\ life \in Life \cup {"none"}
    /\ origin \in Origins \cup {NoOrigin}
    /\ pinned \in BOOLEAN
    /\ pending \in LoginIds \cup {NoLogin}
    /\ hSession \in 0..Foreign
    /\ hOwner \in Owner
    /\ login \in [LoginIds -> [phase : {"none", "provider", "getUserSession"},
                               life : Life, origin : Origins \cup {NoOrigin}]]
    /\ caller \in [Callers -> CallerState]
    /\ minted \in 0..MaxSessions
    /\ originOf \in [1..MaxSessions -> Origins \cup {NoOrigin}]
    /\ workflows \subseteq 0..Foreign

(* Concurrent callers share one login: `_pending` is the login that runs,   *)
(* and nobody awaits a login that has ended (ensureSession's join and its   *)
(* `finally`).                                                              *)
LoginsCoalesced ==
    /\ \A id \in LoginIds : running(id) <=> pending = id
    /\ \A c \in Callers : caller[c].await \in LoginIds => caller[c].await = pending

(* The logins of this object keep the promises of SharedFlights, for the    *)
(* one session it has: a caller awaits a login until it settles, all who    *)
(* await it learn the same outcome, and nobody starts another meanwhile or  *)
(* is given the outcome of one that had ended before.                       *)
loggingIn == [id \in LoginIds |-> IF running(id) THEN Settled ELSE Failed]

awaiting == [c \in Callers |-> IF caller[c].await \in LoginIds THEN caller[c].await ELSE NoLogin]

learned == [c \in Callers |-> IF caller[c].await \in LoginIds THEN Failed ELSE caller[c].await]

Shared == INSTANCE SharedFlights WITH
    Clients <- Callers,
    Flights <- LoginIds,
    Resources <- {Settled},
    NoFlight <- NoLogin,
    Nothing <- Failed,
    flight <- loggingIn,
    aboard <- awaiting,
    brought <- learned

SharesLogins == Shared!Spec

(* Writes and stateful requests go out at most once, an ordinary read at    *)
(* most twice, and the second time on another session than the one that     *)
(* was refused (doRequest after a 401), whatever other callers renew        *)
(* meanwhile.  A session an embedder puts back is its own affair.           *)
ReplaySafe ==
    \A c \in Callers :
        /\ caller[c].sends <= 2
        /\ stateful(caller[c].req) \/ classify(caller[c].req).verbs # {} => caller[c].sends <= 1
        /\ caller[c].pc = "sent" /\ caller[c].sends = 2 =>
               caller[c].sentOn \notin {caller[c].refused} \ {Foreign}

(* No request goes out on a session known to belong to another instance,    *)
(* although the session may be replaced while ensureSession is awaited.     *)
NeverSentForAnother ==
    \A c \in Callers : caller[c].pc = "sent" => caller[c].sentFor # "other"

(* Every session this object ever gets is of the one instance: the          *)
(* configured one, or the one of the first successful login.                *)
OriginFixed ==
    \A s \in 1..minted :
        /\ originOf[s] = origin
        /\ ConfiguredOrigin # NoOrigin => originOf[s] = ConfiguredOrigin

(* A session that was pinned while no login was running is there for good:  *)
(* every later 401 and expiry is reported and none of them renews.          *)
PinnedForGood ==
    [][pinned /\ session # NoSession /\ pending = NoLogin =>
         pinned' /\ session' = session /\ pending' = NoLogin]_vars

(* Every request and every getUserSession settles: no caller is left        *)
(* awaiting a login that nobody runs.                                       *)
EveryCallSettles ==
    \A c \in Callers : caller[c].pc # "idle" ~> caller[c].pc = "idle"

(* README.md of the repository on impersonation and debugger sessions: once *)
(* a session is pinned, it is the one that carries the workflow's state.    *)
WorkflowStateKept == pinned => session \in workflows
================================================================================
