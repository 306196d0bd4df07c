----------------------------- MODULE SessionManager -----------------------------
(***************************************************************************)
(* The process-wide registry of authenticated ServiceNowRequest objects,   *)
(* src/src/comm/http/SessionManager.ts, used by concurrent callers while   *)
(* connections are rebuilt (a new ServiceNowInstance under the same alias) *)
(* and aliases are cleared.                                                *)
(*                                                                         *)
(* An action is what runs between two awaits.  The login inside a          *)
(* ServiceNowRequest is module SessionAuth; here getUserSession() takes    *)
(* some time and then succeeds or fails.  ServiceNowRequest objects and    *)
(* authentication promises are numbered in the order they are created.     *)
(***************************************************************************)
EXTENDS Naturals, FiniteSets

CONSTANTS
    Callers,        \* concurrent users of the registry
    Instances,      \* ServiceNowInstance objects
    Unidentified,   \* those among them that have no getInstanceId()
    Aliases,        \* aliases (or hosts) of instances
    Elevations,     \* sets of elevated roles, normalised
    NoInstance,     \* what a caller without a call holds
    NoKey,          \* ... and a promise that was never made
    Alias,          \* Alias[i]: the alias of instance i
    Elevated,       \* Elevated[i]: the roles its sessions are elevated to
    MaxRequests,    \* bound: ServiceNowRequest objects created
    MaxPromises     \* bound: authentication promises created

ASSUME SessionManagerAssumption ==
    /\ Unidentified \subseteq Instances
    /\ NoInstance \notin Instances
    /\ NoKey \notin Aliases \X Elevations
    /\ Alias \in [Instances -> Aliases]
    /\ Elevated \in [Instances -> Elevations]
    /\ MaxRequests \in Nat /\ MaxPromises \in Nat

VARIABLES
    sessions,       \* _sessions: a request per key, or None
    authPromises,   \* _authPromises: a promise per key, or None
    created,        \* ServiceNowRequest objects created so far
    boundTo,        \* the instance each of them was built for
    loggedIn,       \* the requests that are logged in
    promised,       \* authentication promises created so far
    promise,        \* what each of them is doing: for which request, under which key
    caller,         \* what each caller is doing
    clearedAt       \* the requests that existed when an alias was last cleared

registry == <<sessions, authPromises>>
vars == <<sessions, authPromises, created, boundTo, loggedIn, promised, promise, caller, clearedAt>>

None == 0

Key == Aliases \X Elevations

(* Mutant: a plain and an elevated instance of an alias share a key. *)
getKeyPlain(i) == <<Alias[i], Elevated[CHOOSE j \in Instances : Alias[j] = Alias[i]]>>

(* The code joins alias and sorted roles in a string and refuses an alias   *)
(* that holds the separator: the pair is what the string stands for.        *)
getKey(i) == <<Alias[i], Elevated[i]>>

(* A caller is done, awaits promise p, or awaits getUserSession() of the    *)
(* logged-in request it holds.  `floor` is clearedAt of its alias when it   *)
(* called.                                                                  *)
Done == [pc |-> "done", inst |-> NoInstance, on |-> None, got |-> None, floor |-> 0]

Settled == [req |-> None, key |-> NoKey, running |-> FALSE]

Init ==
    /\ sessions = [k \in Key |-> None]
    /\ authPromises = [k \in Key |-> None]
    /\ created = 0 /\ boundTo = [r \in 1..MaxRequests |-> NoInstance]
    /\ loggedIn = {}
    /\ promised = 0
    /\ promise = [p \in 1..MaxPromises |-> Settled]
    /\ caller = [c \in Callers |-> Done]
    /\ clearedAt = [a \in Aliases |-> 0]

--------------------------------------------------------------------------------
(* Same instance, or identity unknown on one side. *)
isBoundTo(r, i) ==
    boundTo[r] = i \/ boundTo[r] \in Unidentified \/ i \in Unidentified

(* The cached request can be given to instance i. *)
usable(i) == sessions[getKey(i)] # None /\ isBoundTo(sessions[getKey(i)], i)

(* Mutant: a new request is handed out although one is cached. *)
requestForUncached(i) == created + 1

requestFor(i) == IF usable(i) THEN sessions[getKey(i)] ELSE created + 1

(* Mutant: a replaced instance keeps the authentication that is in flight. *)
promisesKept(i) == authPromises

(* `_authPromises` after getRequest: what was in flight for a request built *)
(* for another instance goes with that request.                             *)
promisesFor(i) ==
    IF sessions[getKey(i)] # None /\ ~usable(i)
    THEN [authPromises EXCEPT ![getKey(i)] = None] ELSE authPromises

(* getRequest but for `_authPromises`: the cached request, or a new one.    *)
getRequest(i) ==
    IF usable(i)
    THEN UNCHANGED <<sessions, created, boundTo>>
    ELSE /\ created < MaxRequests
         /\ created' = created + 1
         /\ boundTo' = [boundTo EXCEPT ![created + 1] = i]
         /\ sessions' = [sessions EXCEPT ![getKey(i)] = created + 1]

(* The caller's next state, having called for instance i. *)
calling(i, pc, on, got) ==
    [pc |-> pc, inst |-> i, on |-> on, got |-> got, floor |-> clearedAt[Alias[i]]]

callGetRequest(c, i) ==
    /\ caller[c].pc = "done"
    /\ getRequest(i)
    /\ authPromises' = promisesFor(i)
    /\ caller' = [caller EXCEPT ![c] = calling(i, "done", None, requestFor(i))]
    /\ UNCHANGED <<loggedIn, promised, promise, clearedAt>>

--------------------------------------------------------------------------------
(* getAuthenticatedRequest up to its await: on the session of a request     *)
(* that is logged in, on the promise in flight, or on a new one.            *)

awaitSession(c, i) ==
    /\ requestFor(i) \in loggedIn
    /\ authPromises' = promisesFor(i)
    /\ caller' = [caller EXCEPT ![c] = calling(i, "session", requestFor(i), None)]
    /\ UNCHANGED <<promised, promise>>

joinPromise(c, i) ==
    /\ requestFor(i) \notin loggedIn
    /\ promisesFor(i)[getKey(i)] # None
    /\ authPromises' = promisesFor(i)
    /\ caller' = [caller EXCEPT ![c] = calling(i, "promise", promisesFor(i)[getKey(i)], None)]
    /\ UNCHANGED <<promised, promise>>

startPromise(c, i) ==
    /\ requestFor(i) \notin loggedIn
    /\ promisesFor(i)[getKey(i)] = None
    /\ promised < MaxPromises
    /\ promised' = promised + 1
    /\ promise' = [promise EXCEPT ![promised + 1] =
                      [req |-> requestFor(i), key |-> getKey(i), running |-> TRUE]]
    /\ authPromises' = [promisesFor(i) EXCEPT ![getKey(i)] = promised + 1]
    /\ caller' = [caller EXCEPT ![c] = calling(i, "promise", promised + 1, None)]

getAuthenticatedRequest(c, i) ==
    /\ caller[c].pc = "done"
    /\ getRequest(i)
    /\ awaitSession(c, i) \/ joinPromise(c, i) \/ startPromise(c, i)
    /\ UNCHANGED <<loggedIn, clearedAt>>

(* The outcome of getUserSession() of request r. *)
outcome(r, ok) == IF ok THEN loggedIn \cup {r} ELSE loggedIn \ {r}

(* Mutant: the entry of the key is cleared, whoever's it is. *)
clearAnyEntry(p) == [authPromises EXCEPT ![promise[p].key] = None]

(* The `finally` of a promise: it clears its own entry only. *)
clearOwnEntry(p) ==
    IF authPromises[promise[p].key] = p
    THEN [authPromises EXCEPT ![promise[p].key] = None] ELSE authPromises

(* Promise p settles; everyone awaiting it has the request, or its error.   *)
promiseSettles(p, ok) ==
    /\ promise[p].running
    /\ promise' = [promise EXCEPT ![p] = Settled]
    /\ authPromises' = clearOwnEntry(p)
    /\ loggedIn' = outcome(promise[p].req, ok)
    /\ caller' = [c \in Callers |->
                     IF caller[c].pc = "promise" /\ caller[c].on = p
                     THEN [caller[c] EXCEPT !.pc = "done", !.on = None,
                                            !.got = IF ok THEN promise[p].req ELSE None]
                     ELSE caller[c]]
    /\ UNCHANGED <<sessions, created, boundTo, promised, clearedAt>>

(* getUserSession() of the logged-in request a caller holds returns. *)
sessionSettles(c, ok) ==
    /\ caller[c].pc = "session"
    /\ loggedIn' = outcome(caller[c].on, ok)
    /\ caller' = [caller EXCEPT ![c].pc = "done", ![c].on = None,
                                ![c].got = IF ok THEN caller[c].on ELSE None]
    /\ UNCHANGED <<registry, created, boundTo, promised, promise, clearedAt>>

(* Whoever holds the cached request r uses it, which may log it in or fail  *)
(* to renew.  (Nobody reads whether a request no longer cached is.)         *)
requestUsed(r, ok) ==
    /\ \E k \in Key : sessions[k] = r
    /\ loggedIn' = outcome(r, ok)
    /\ UNCHANGED <<registry, created, boundTo, promised, promise, caller, clearedAt>>

--------------------------------------------------------------------------------
(* Mutant: clearing an alias forgets its elevated sessions. *)
keysOfPlain(a) == { k \in Key : k[1] = a /\ k[2] = {} }

(* The keys clearSession(a) filters out: the plain one, every elevated one. *)
keysOf(a) == { k \in Key : k[1] = a }

without(map, keys) == [k \in Key |-> IF k \in keys THEN None ELSE map[k]]

clearSession(a) ==
    /\ sessions' = without(sessions, keysOf(a))
    /\ authPromises' = without(authPromises, keysOf(a))
    /\ clearedAt' = [clearedAt EXCEPT ![a] = created]
    /\ UNCHANGED <<created, boundTo, loggedIn, promised, promise, caller>>

clearAll ==
    /\ sessions' = without(sessions, Key)
    /\ authPromises' = without(authPromises, Key)
    /\ clearedAt' = [a \in Aliases |-> created]
    /\ UNCHANGED <<created, boundTo, loggedIn, promised, promise, caller>>

--------------------------------------------------------------------------------
Next ==
    \/ \E c \in Callers, i \in Instances : callGetRequest(c, i) \/ getAuthenticatedRequest(c, i)
    \/ \E p \in 1..MaxPromises, ok \in BOOLEAN : promiseSettles(p, ok)
    \/ \E c \in Callers, ok \in BOOLEAN : sessionSettles(c, ok)
    \/ \E r \in 1..MaxRequests, ok \in BOOLEAN : requestUsed(r, ok)
    \/ \E a \in Aliases : clearSession(a)
    \/ clearAll

Spec == Init /\ [][Next]_vars

--------------------------------------------------------------------------------
TypeOK ==
    /\ sessions \in [Key -> 0..created]
    /\ authPromises \in [Key -> 0..promised]
    /\ created \in 0..MaxRequests
    /\ boundTo \in [1..MaxRequests -> Instances \cup {NoInstance}]
    /\ loggedIn \subseteq 1..created
    /\ promised \in 0..MaxPromises
    /\ promise \in [1..MaxPromises -> [req : 0..created, key : Key \cup {NoKey}, running : BOOLEAN]]
    /\ caller \in [Callers -> [pc : {"done", "promise", "session"}, inst : Instances \cup {NoInstance},
                               on : Nat, got : 0..created, floor : 0..created]]
    /\ clearedAt \in [Aliases -> 0..created]

(* The request that a caller holding a request for instance i is given is   *)
(* one built for i, whenever both can be told apart, and in any case for    *)
(* an instance of the same alias and the same elevated roles: neither a     *)
(* rebuilt connection nor a join of an authentication in flight hands out   *)
(* another's session (getRequest, isBoundTo, getKey).                       *)
OwnRequest ==
    \A c \in Callers : caller[c].got # None =>
        /\ isBoundTo(caller[c].got, caller[c].inst)
        /\ getKey(boundTo[caller[c].got]) = getKey(caller[c].inst)

(* Nobody who calls after clearSession or clearAll is given a request that  *)
(* existed before, however long an authentication of it is still in flight  *)
(* (the comment in clearSession).                                           *)
NothingFromBeforeClear ==
    \A c \in Callers : caller[c].got # None => caller[c].got > caller[c].floor

(* At most one authentication is in flight for a request, although entries  *)
(* of `_authPromises` are replaced and dropped under it: a `finally` that   *)
(* took another's entry away would cost a second login.                     *)
SingleFlight ==
    \A p, q \in 1..MaxPromises :
        promise[p].running /\ promise[q].running /\ promise[p].req = promise[q].req => p = q

(* Whoever waits on a promise waits on one that is still running: nobody is *)
(* handed the outcome of an authentication that had ended before the call,  *)
(* and a failed one is tried again by the next caller.                      *)
WaitersServed ==
    \A c \in Callers : caller[c].pc = "promise" =>
        caller[c].on \in 1..MaxPromises /\ promise[caller[c].on].running

(* The registry keeps the promises of SharedFlights: an authentication is a *)
(* flight for the request it logs in.  Whoever awaits one is aboard until   *)
(* it settles, everyone who awaits it has the same outcome then, and none   *)
(* is started or joined past this, however entries of `_authPromises` are   *)
(* replaced, dropped and cleared under it.                                  *)
authenticating == [p \in 1..MaxPromises |-> IF promise[p].running THEN promise[p].req ELSE None]

awaiting == [c \in Callers |-> IF caller[c].pc = "promise" THEN caller[c].on ELSE None]

given == [c \in Callers |-> caller[c].got]

Shared == INSTANCE SharedFlights WITH
    Clients <- Callers,
    Flights <- 1..MaxPromises,
    Resources <- 1..MaxRequests,
    NoFlight <- None,
    Nothing <- None,
    flight <- authenticating,
    aboard <- awaiting,
    brought <- given

SharesAuthentications == Shared!Spec
================================================================================
