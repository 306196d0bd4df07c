-------------------------- MODULE SessionManagerProofs --------------------------
(***************************************************************************)
(* The properties of SessionManager for any callers, instances, aliases    *)
(* and elevations.  RegistryInv ties the two maps together: a promise      *)
(* stands in `_authPromises` under a key exactly while it authenticates    *)
(* the request that stands in `_sessions` under that key.                  *)
(***************************************************************************)
EXTENDS SessionManager, TLAPS

(* Request r was built for inst, or for one that cannot be told from it, of *)
(* the same alias and elevation, and after the clear the caller came after. *)
Serves(r, inst, floor, n, b) ==
    /\ r \in 1..n /\ r > floor
    /\ b[r] \in Instances /\ inst \in Instances
    /\ b[r] = inst \/ b[r] \in Unidentified \/ inst \in Unidentified
    /\ getKey(b[r]) = getKey(inst)

SessionsInv ==
    \A k \in Key : sessions[k] # None =>
        /\ boundTo[sessions[k]] \in Instances
        /\ getKey(boundTo[sessions[k]]) = k
        /\ sessions[k] > clearedAt[k[1]]

PromisesInv ==
    \A p \in 1..MaxPromises : promise[p].running =>
        /\ p <= promised
        /\ promise[p].req \in 1..created
        /\ boundTo[promise[p].req] \in Instances
        /\ getKey(boundTo[promise[p].req]) = promise[p].key
        /\ promise[p].key \in Key
        /\ promise[p].req = sessions[promise[p].key] => authPromises[promise[p].key] = p

EntriesInv ==
    \A k \in Key : authPromises[k] # None =>
        /\ promise[authPromises[k]].running
        /\ promise[authPromises[k]].key = k
        /\ promise[authPromises[k]].req = sessions[k]

(* What holds of a caller in state st, n requests and promises pr given. *)
CallerInv(st, n, b, pr) ==
    /\ st.got # None => Serves(st.got, st.inst, st.floor, n, b)
    /\ st.pc = "session" => Serves(st.on, st.inst, st.floor, n, b)
    /\ st.pc = "promise" =>
         /\ st.on \in 1..MaxPromises /\ pr[st.on].running
         /\ Serves(pr[st.on].req, st.inst, st.floor, n, b)

RegistryInv ==
    /\ TypeOK
    /\ SessionsInv
    /\ PromisesInv
    /\ EntriesInv
    /\ SingleFlight
    /\ \A c \in Callers : CallerInv(caller[c], created, boundTo, promise)

CallerState(n) ==
    [pc : {"done", "promise", "session"}, inst : Instances \cup {NoInstance},
     on : Nat, got : 0..n, floor : 0..n]

Promise(n) == [req : 0..n, key : Key \cup {NoKey}, running : BOOLEAN]

--------------------------------------------------------------------------------
USE SessionManagerAssumption DEF None

(* The parts of TypeOK the proofs use most, by name. *)
LEMMA Typed ==
    ASSUME TypeOK
    PROVE  /\ created \in 0..MaxRequests /\ promised \in 0..MaxPromises
           /\ promise \in [1..MaxPromises -> Promise(created)]
           /\ caller \in [Callers -> CallerState(created)]
  BY DEF TypeOK, Promise, CallerState

(* A key is an alias and a set of roles, the alias being the instance's own. *)
LEMMA KeyTyped == \A i \in Instances : getKey(i) \in Key /\ getKey(i)[1] = Alias[i]
  BY DEF getKey, Key

(* The initial state. *)
LEMMA InitRegistry == Init => RegistryInv
<1> SUFFICES ASSUME Init PROVE RegistryInv
  OBVIOUS
<1>1. TypeOK
  <2>1. caller \in [Callers -> CallerState(created)]
    BY DEF Init, Done, CallerState
  <2>2. promise \in [1..MaxPromises -> Promise(created)]
    BY DEF Init, Settled, Promise
  <2>3. sessions \in [Key -> 0..created] /\ authPromises \in [Key -> 0..promised]
    BY DEF Init
  <2>4. /\ boundTo \in [1..MaxRequests -> Instances \cup {NoInstance}]
        /\ clearedAt \in [Aliases -> 0..created]
    BY DEF Init
  <2>5. created \in 0..MaxRequests /\ promised \in 0..MaxPromises /\ loggedIn \subseteq 1..created
    BY DEF Init
  <2> QED
    BY <2>1, <2>2, <2>3, <2>4, <2>5 DEF TypeOK, CallerState, Promise
<1>2. SessionsInv /\ EntriesInv
  BY DEF Init, SessionsInv, EntriesInv
<1>3. PromisesInv /\ SingleFlight
  BY DEF Init, PromisesInv, SingleFlight, Settled
<1>4. \A c \in Callers : CallerInv(caller[c], created, boundTo, promise)
  BY DEF Init, CallerInv, Done
<1> QED
  BY <1>1, <1>2, <1>3, <1>4 DEF RegistryInv

--------------------------------------------------------------------------------
(* What getRequest does to the registry, the promises of the key being      *)
(* dropped with the request they were for.                                  *)
LEMMA GetRequestEffect ==
    ASSUME RegistryInv, NEW i \in Instances, getRequest(i), UNCHANGED clearedAt
    PROVE  /\ created' \in 0..MaxRequests /\ created <= created'
           /\ boundTo' \in [1..MaxRequests -> Instances \cup {NoInstance}]
           /\ \A r \in 1..created : boundTo'[r] = boundTo[r]
           /\ sessions' \in [Key -> 0..created']
           /\ SessionsInv'
           /\ sessions'[getKey(i)] = requestFor(i)
           /\ Serves(requestFor(i), i, clearedAt[Alias[i]], created', boundTo')
           /\ \A k \in Key \ {getKey(i)} : sessions'[k] = sessions[k]
           /\ usable(i) => sessions'[getKey(i)] = sessions[getKey(i)]
           /\ ~usable(i) => requestFor(i) = created + 1
<1> DEFINE k == getKey(i)
<1>0. k \in Key /\ k[1] = Alias[i]
  BY KeyTyped
<1>1. CASE usable(i)
  <2>1. UNCHANGED <<sessions, created, boundTo>> /\ requestFor(i) = sessions[k]
    BY <1>1 DEF getRequest, requestFor
  <2>2. Serves(requestFor(i), i, clearedAt[Alias[i]], created', boundTo')
    <3>1. sessions[k] # None /\ isBoundTo(sessions[k], i)
      BY <1>1 DEF usable
    <3> QED
      BY <1>0, <2>1, <3>1 DEF RegistryInv, TypeOK, SessionsInv, Serves, isBoundTo
  <2>3. SessionsInv'
    BY <2>1 DEF RegistryInv, SessionsInv
  <2> QED
    BY <1>1, <2>1, <2>2, <2>3 DEF RegistryInv, TypeOK
<1>2. CASE ~usable(i)
  <2>1. /\ created < MaxRequests /\ created' = created + 1
        /\ boundTo' = [boundTo EXCEPT ![created + 1] = i]
        /\ sessions' = [sessions EXCEPT ![k] = created + 1]
        /\ requestFor(i) = created + 1
    BY <1>2 DEF getRequest, requestFor
  <2>2. created \in Nat /\ created' \in 0..MaxRequests /\ created + 1 \in 1..MaxRequests
    BY <2>1 DEF RegistryInv, TypeOK
  <2>3. boundTo' \in [1..MaxRequests -> Instances \cup {NoInstance}]
    BY <2>1, <2>2 DEF RegistryInv, TypeOK
  <2>4. \A r \in 1..created : boundTo'[r] = boundTo[r]
    BY <2>1, <2>2 DEF RegistryInv, TypeOK
  <2>5. boundTo'[created + 1] = i
    BY <2>1, <2>2 DEF RegistryInv, TypeOK
  <2>6. sessions' \in [Key -> 0..created']
    BY <1>0, <2>1, <2>2 DEF RegistryInv, TypeOK
  <2>7. sessions'[k] = created + 1 /\ \A j \in Key \ {k} : sessions'[j] = sessions[j]
    BY <1>0, <2>1 DEF RegistryInv, TypeOK
  <2>8. clearedAt[Alias[i]] <= created /\ clearedAt[Alias[i]] \in Nat
    BY <2>2 DEF RegistryInv, TypeOK
  <2>9. SessionsInv'
    <3> SUFFICES ASSUME NEW j \in Key, sessions'[j] # None
                 PROVE  /\ boundTo'[sessions'[j]] \in Instances
                        /\ getKey(boundTo'[sessions'[j]]) = j
                        /\ sessions'[j] > clearedAt[j[1]]
      BY DEF SessionsInv
    <3>1. CASE j = k
      BY <1>0, <2>2, <2>5, <2>7, <2>8, <3>1
    <3>2. CASE j # k
      <4>1. sessions'[j] = sessions[j] /\ sessions[j] \in 1..created
        BY <2>2, <2>7, <3>2 DEF RegistryInv, TypeOK
      <4> QED
        BY <2>4, <4>1 DEF RegistryInv, SessionsInv
    <3> QED
      BY <3>1, <3>2
  <2>10. Serves(requestFor(i), i, clearedAt[Alias[i]], created', boundTo')
    BY <2>1, <2>2, <2>5, <2>8 DEF Serves
  <2> QED
    BY <1>2, <2>1, <2>2, <2>3, <2>4, <2>6, <2>7, <2>9, <2>10
<1> QED
  BY <1>1, <1>2

(* The promises left by getRequest fit the sessions left by it. *)
LEMMA PromisesForEffect ==
    ASSUME RegistryInv, NEW i \in Instances, getRequest(i), UNCHANGED clearedAt
    PROVE  /\ promisesFor(i) \in [Key -> 0..promised]
           /\ \A k \in Key : promisesFor(i)[k] # None =>
                /\ promise[promisesFor(i)[k]].running
                /\ promise[promisesFor(i)[k]].key = k
                /\ promise[promisesFor(i)[k]].req = sessions'[k]
           /\ \A p \in 1..MaxPromises :
                promise[p].running /\ promise[p].req = sessions'[promise[p].key] =>
                    promisesFor(i)[promise[p].key] = p
<1> DEFINE k == getKey(i)
           A == promisesFor(i)
<1>0. k \in Key
  BY KeyTyped
<1>1. /\ \A j \in Key \ {k} : sessions'[j] = sessions[j]
      /\ usable(i) => sessions'[k] = sessions[k]
      /\ ~usable(i) => sessions'[k] = created + 1
  BY GetRequestEffect
<1>2. A \in [Key -> 0..promised]
  BY <1>0 DEF promisesFor, RegistryInv, TypeOK
<1>3. \A j \in Key \ {k} : A[j] = authPromises[j]
  BY <1>0 DEF promisesFor, RegistryInv, TypeOK
<1>4. \A j \in Key : authPromises[j] # None =>
         authPromises[j] \in 1..MaxPromises /\ promise[authPromises[j]].req \in 1..created
  BY DEF RegistryInv, TypeOK, EntriesInv, PromisesInv
<1>5. usable(i) => A[k] = authPromises[k]
  BY DEF promisesFor
<1>6. ~usable(i) => A[k] = None
  <2>1. CASE sessions[k] # None
    BY <1>0, <2>1 DEF promisesFor, RegistryInv, TypeOK
  <2>2. CASE sessions[k] = None
    <3>1. A = authPromises
      BY <2>2 DEF promisesFor
    <3>2. authPromises[k] # None => promise[authPromises[k]].req = None
      BY <1>0, <2>2 DEF RegistryInv, EntriesInv
    <3> QED
      BY <1>0, <1>4, <3>1, <3>2
  <2> QED
    BY <2>1, <2>2
<1> HIDE DEF A
<1>7. ASSUME NEW j \in Key, A[j] # None
      PROVE  promise[A[j]].running /\ promise[A[j]].key = j /\ promise[A[j]].req = sessions'[j]
  BY <1>0, <1>1, <1>3, <1>5, <1>6, <1>7 DEF RegistryInv, EntriesInv
<1>8. ASSUME NEW p \in 1..MaxPromises, promise[p].running,
             promise[p].req = sessions'[promise[p].key]
      PROVE  A[promise[p].key] = p
  <2>1. /\ promise[p].key \in Key /\ promise[p].req \in 1..created
        /\ promise[p].req = sessions[promise[p].key] => authPromises[promise[p].key] = p
    BY <1>8 DEF RegistryInv, PromisesInv
  <2>2. created \in Nat
    BY DEF RegistryInv, TypeOK
  <2>3. CASE promise[p].key = k /\ ~usable(i)
    BY <1>1, <1>8, <2>1, <2>2, <2>3
  <2>4. CASE promise[p].key # k \/ usable(i)
    BY <1>1, <1>3, <1>5, <1>8, <2>1, <2>4
  <2> QED
    BY <2>3, <2>4
<1> QED
  BY <1>2, <1>7, <1>8 DEF A

(* A caller keeps what it has while requests and promises are added. *)
LEMMA CallerInvKept ==
    ASSUME NEW st, NEW n \in Nat, NEW m \in Nat, n <= m, NEW b, NEW b2, NEW pr, NEW pr2,
           \A r \in 1..n : b2[r] = b[r],
           \A p \in 1..MaxPromises : pr[p].running => pr2[p] = pr[p],
           CallerInv(st, n, b, pr)
    PROVE  CallerInv(st, m, b2, pr2)
<1>1. ASSUME NEW r, Serves(r, st.inst, st.floor, n, b) PROVE Serves(r, st.inst, st.floor, m, b2)
  BY <1>1 DEF Serves
<1> QED
  BY <1>1 DEF CallerInv

(* A call for instance i that leaves its caller in state st. *)
LEMMA CallSafe ==
    ASSUME RegistryInv, NEW c \in Callers, NEW i \in Instances, getRequest(i),
           UNCHANGED <<loggedIn, clearedAt, promised, promise>>,
           authPromises' = promisesFor(i),
           NEW st \in CallerState(created'), CallerInv(st, created', boundTo', promise),
           caller' = [caller EXCEPT ![c] = st]
    PROVE  RegistryInv'
<1>1. /\ created \in Nat /\ created' \in 0..MaxRequests /\ created <= created'
      /\ boundTo' \in [1..MaxRequests -> Instances \cup {NoInstance}]
      /\ \A r \in 1..created : boundTo'[r] = boundTo[r]
      /\ sessions' \in [Key -> 0..created']
      /\ SessionsInv'
  BY Typed, GetRequestEffect DEF RegistryInv
<1>2. /\ authPromises' \in [Key -> 0..promised]
      /\ EntriesInv'
      /\ \A p \in 1..MaxPromises :
            promise[p].running /\ promise[p].req = sessions'[promise[p].key] =>
                authPromises'[promise[p].key] = p
  BY PromisesForEffect DEF EntriesInv
<1>3. caller \in [Callers -> CallerState(created)] /\ promise \in [1..MaxPromises -> Promise(created)]
  BY DEF RegistryInv, TypeOK, CallerState, Promise
<1>4. caller' \in [Callers -> CallerState(created')]
  BY <1>1, <1>3 DEF CallerState
<1>5. promise' \in [1..MaxPromises -> Promise(created')]
  BY <1>1, <1>3 DEF Promise
<1>6. TypeOK'
  <2>1. loggedIn' \subseteq 1..created' /\ clearedAt' \in [Aliases -> 0..created']
    BY <1>1 DEF RegistryInv, TypeOK
  <2>2. promised' \in 0..MaxPromises /\ promised' = promised
    BY DEF RegistryInv, TypeOK
  <2> QED
    BY <1>1, <1>2, <1>4, <1>5, <2>1, <2>2 DEF TypeOK, CallerState, Promise
<1>7. PromisesInv'
  <2> SUFFICES ASSUME NEW p \in 1..MaxPromises, promise[p].running
               PROVE  /\ p <= promised
                      /\ promise[p].req \in 1..created'
                      /\ boundTo'[promise[p].req] \in Instances
                      /\ getKey(boundTo'[promise[p].req]) = promise[p].key
                      /\ promise[p].key \in Key
                      /\ promise[p].req = sessions'[promise[p].key] =>
                             authPromises'[promise[p].key] = p
    BY DEF PromisesInv
  <2>1. /\ p <= promised /\ promise[p].req \in 1..created /\ promise[p].key \in Key
        /\ boundTo[promise[p].req] \in Instances
        /\ getKey(boundTo[promise[p].req]) = promise[p].key
    BY DEF RegistryInv, PromisesInv
  <2>2. boundTo'[promise[p].req] = boundTo[promise[p].req] /\ promise[p].req \in 1..created'
    BY <1>1, <2>1
  <2> QED
    BY <1>2, <2>1, <2>2
<1>8. SingleFlight'
  BY DEF RegistryInv, SingleFlight
<1>9. ASSUME NEW d \in Callers PROVE CallerInv(caller'[d], created', boundTo', promise')
  <2>1. CallerInv(caller[d], created', boundTo', promise)
    BY <1>1, CallerInvKept DEF RegistryInv
  <2> QED
    BY <1>3, <2>1
<1> QED
  BY <1>1, <1>2, <1>6, <1>7, <1>8, <1>9 DEF RegistryInv

--------------------------------------------------------------------------------
(* getRequest, and the ends of getAuthenticatedRequest that start nothing. *)
LEMMA CallsSafe ==
    ASSUME RegistryInv, NEW c \in Callers, NEW i \in Instances, getRequest(i),
           UNCHANGED <<loggedIn, clearedAt>>
    PROVE  /\ callGetRequest(c, i) => RegistryInv'
           /\ awaitSession(c, i) => RegistryInv'
           /\ joinPromise(c, i) => RegistryInv'
<1> DEFINE k == getKey(i)
           f == clearedAt[Alias[i]]
           r == requestFor(i)
<1>0. k \in Key
  BY KeyTyped
<1>1. /\ Serves(r, i, f, created', boundTo') /\ r \in 1..created' /\ r \in Nat
      /\ sessions'[k] = r
      /\ f \in 0..created' /\ created' \in Nat
  BY GetRequestEffect, SMTT(30) DEF Serves, RegistryInv, TypeOK
<1> HIDE DEF k, f, r
<1>2. CASE callGetRequest(c, i)
  <2> DEFINE st == calling(i, "done", None, r)
  <2>1. st \in CallerState(created') /\ CallerInv(st, created', boundTo', promise)
    BY <1>1 DEF calling, CallerState, CallerInv, f
  <2>2. /\ caller' = [caller EXCEPT ![c] = st] /\ authPromises' = promisesFor(i)
        /\ UNCHANGED <<promised, promise>>
    BY <1>2 DEF callGetRequest, r
  <2> HIDE DEF st
  <2> QED
    BY <2>1, <2>2, CallSafe
<1>3. CASE awaitSession(c, i)
  <2> DEFINE st == calling(i, "session", r, None)
  <2>1. st \in CallerState(created') /\ CallerInv(st, created', boundTo', promise)
    BY <1>1 DEF calling, CallerState, CallerInv, f
  <2>2. /\ caller' = [caller EXCEPT ![c] = st] /\ authPromises' = promisesFor(i)
        /\ UNCHANGED <<promised, promise>>
    BY <1>3 DEF awaitSession, r
  <2> HIDE DEF st
  <2> QED
    BY <2>1, <2>2, CallSafe
<1>4. CASE joinPromise(c, i)
  <2> DEFINE q == promisesFor(i)[k]
             st == calling(i, "promise", q, None)
  <2>1. q # None /\ q \in 1..promised /\ promised \in 0..MaxPromises
    BY <1>0, <1>4, PromisesForEffect DEF joinPromise, RegistryInv, TypeOK, k
  <2>2. promise[q].running /\ promise[q].req = r
    BY <1>0, <1>1, <2>1, PromisesForEffect
  <2>3. /\ caller' = [caller EXCEPT ![c] = st] /\ authPromises' = promisesFor(i)
        /\ UNCHANGED <<promised, promise>>
    BY <1>4 DEF joinPromise, k
  <2> HIDE DEF q
  <2>4. st \in CallerState(created') /\ CallerInv(st, created', boundTo', promise)
    BY <1>1, <2>1, <2>2 DEF calling, CallerState, CallerInv, f
  <2> HIDE DEF st
  <2> QED
    BY <2>3, <2>4, CallSafe
<1> QED
  BY <1>2, <1>3, <1>4

(* Where no authentication is found for the key, none is under way for the  *)
(* request that is found there.                                             *)
LEMMA NobodyLogsIn ==
    ASSUME RegistryInv, NEW i \in Instances, getRequest(i), UNCHANGED clearedAt,
           promisesFor(i)[getKey(i)] = None
    PROVE  \A p \in 1..MaxPromises : promise[p].running => promise[p].req # requestFor(i)
<1> SUFFICES ASSUME NEW p \in 1..MaxPromises, promise[p].running, promise[p].req = requestFor(i)
             PROVE  FALSE
  OBVIOUS
<1>1. /\ promise[p].req \in 1..created /\ boundTo[promise[p].req] \in Instances
      /\ getKey(boundTo[promise[p].req]) = promise[p].key
  BY DEF RegistryInv, PromisesInv
<1>2. /\ \A r \in 1..created : boundTo'[r] = boundTo[r]
      /\ sessions'[getKey(i)] = requestFor(i)
      /\ Serves(requestFor(i), i, clearedAt[Alias[i]], created', boundTo')
  BY GetRequestEffect
<1>3. promise[p].key = getKey(i)
  BY <1>1, <1>2 DEF Serves
<1>4. promisesFor(i)[promise[p].key] = p
  BY <1>2, <1>3, PromisesForEffect
<1> QED
  BY <1>3, <1>4

(* A new authentication: nobody else authenticates the same request. *)
LEMMA StartPromiseSafe ==
    ASSUME RegistryInv, NEW c \in Callers, NEW i \in Instances, getRequest(i),
           UNCHANGED <<loggedIn, clearedAt>>, startPromise(c, i)
    PROVE  RegistryInv'
<1> DEFINE k == getKey(i)
           f == clearedAt[Alias[i]]
           r == requestFor(i)
           q == promised + 1
           st == calling(i, "promise", q, None)
           A == promisesFor(i)
<1>0. k \in Key
  BY KeyTyped
<1>1. /\ created \in Nat /\ created' \in 0..MaxRequests /\ created <= created'
      /\ boundTo' \in [1..MaxRequests -> Instances \cup {NoInstance}]
      /\ \A x \in 1..created : boundTo'[x] = boundTo[x]
      /\ sessions' \in [Key -> 0..created']
      /\ SessionsInv'
      /\ sessions'[k] = r
      /\ Serves(r, i, f, created', boundTo')
      /\ ~usable(i) => r = created + 1
  BY GetRequestEffect, SMTT(30) DEF RegistryInv, TypeOK
<1>2. /\ A \in [Key -> 0..promised]
      /\ \A j \in Key : A[j] # None =>
           promise[A[j]].running /\ promise[A[j]].key = j /\ promise[A[j]].req = sessions'[j]
      /\ \A p \in 1..MaxPromises :
           promise[p].running /\ promise[p].req = sessions'[promise[p].key] =>
               A[promise[p].key] = p
  BY PromisesForEffect
<1>3. /\ A[k] = None /\ promised < MaxPromises /\ promised' = q
      /\ promise' = [promise EXCEPT ![q] = [req |-> r, key |-> k, running |-> TRUE]]
      /\ authPromises' = [A EXCEPT ![k] = q]
      /\ caller' = [caller EXCEPT ![c] = st]
  BY DEF startPromise
<1>4. q \in 1..MaxPromises /\ promised \in Nat /\ r \in 1..created' /\ created' \in Nat
  BY <1>1, <1>3 DEF RegistryInv, TypeOK, Serves
<1>5. /\ caller \in [Callers -> CallerState(created)]
      /\ promise \in [1..MaxPromises -> Promise(created)]
      /\ f \in 0..created'
  <2>1. f \in 0..created
    BY DEF RegistryInv, TypeOK
  <2> QED
    BY <1>1, <2>1, Typed DEF RegistryInv
<1> HIDE DEF k, f, r, A
<1>6. promise' \in [1..MaxPromises -> Promise(created')]
  BY <1>0, <1>1, <1>3, <1>4, <1>5 DEF Promise
<1>7. /\ promise'[q] = [req |-> r, key |-> k, running |-> TRUE]
      /\ \A p \in 1..MaxPromises \ {q} : promise'[p] = promise[p]
  BY <1>3, <1>4, <1>5
<1>8. \A p \in 1..MaxPromises : promise[p].running => p # q /\ promise'[p] = promise[p]
  BY <1>4, <1>7 DEF RegistryInv, PromisesInv
<1>9. st \in CallerState(created') /\ CallerInv(st, created', boundTo', promise')
  BY <1>1, <1>4, <1>5, <1>7 DEF calling, CallerState, CallerInv, f
<1>10. authPromises' \in [Key -> 0..promised'] /\ authPromises'[k] = q
       /\ \A j \in Key \ {k} : authPromises'[j] = A[j]
  BY <1>0, <1>2, <1>3, <1>4
<1>11. TypeOK'
  <2>1. loggedIn' \subseteq 1..created' /\ clearedAt' \in [Aliases -> 0..created']
    BY <1>1 DEF RegistryInv, TypeOK
  <2>2. promised' \in 0..MaxPromises
    BY <1>3, <1>4
  <2> HIDE DEF st
  <2>3. caller' \in [Callers -> CallerState(created')]
    BY <1>1, <1>3, <1>5, <1>9, SMTT(30) DEF CallerState
  <2> QED
    BY <1>1, <1>6, <1>10, <2>1, <2>2, <2>3 DEF TypeOK, CallerState, Promise
<1>12. \A p \in 1..MaxPromises : promise[p].running => promise[p].req # r
  BY <1>3, NobodyLogsIn DEF A, k, r
<1>13. SingleFlight'
  <2> SUFFICES ASSUME NEW p \in 1..MaxPromises, NEW p2 \in 1..MaxPromises,
                      promise'[p].running, promise'[p2].running,
                      promise'[p].req = promise'[p2].req
               PROVE  p = p2
    BY DEF SingleFlight
  <2>1. CASE p = q
    BY <1>7, <1>12, <2>1
  <2>2. CASE p2 = q
    BY <1>7, <1>12, <2>2
  <2>3. CASE p # q /\ p2 # q
    BY <1>7, <2>3 DEF RegistryInv, SingleFlight
  <2> QED
    BY <2>1, <2>2, <2>3
<1>14. PromisesInv'
  <2> SUFFICES ASSUME NEW p \in 1..MaxPromises, promise'[p].running
               PROVE  /\ p <= promised'
                      /\ promise'[p].req \in 1..created'
                      /\ boundTo'[promise'[p].req] \in Instances
                      /\ getKey(boundTo'[promise'[p].req]) = promise'[p].key
                      /\ promise'[p].key \in Key
                      /\ promise'[p].req = sessions'[promise'[p].key] =>
                             authPromises'[promise'[p].key] = p
    BY DEF PromisesInv
  <2>1. CASE p = q
    BY <1>0, <1>1, <1>3, <1>4, <1>7, <1>10, <2>1 DEF Serves, k
  <2>2. CASE p # q
    <3>1. promise'[p] = promise[p]
      BY <1>7, <2>2
    <3>2. /\ p <= promised /\ promise[p].req \in 1..created /\ promise[p].key \in Key
          /\ boundTo[promise[p].req] \in Instances
          /\ getKey(boundTo[promise[p].req]) = promise[p].key
      BY <3>1 DEF RegistryInv, PromisesInv
    <3>3. boundTo'[promise[p].req] = boundTo[promise[p].req] /\ promise[p].req \in 1..created'
      BY <1>1, <3>2
    <3>4. promise[p].req = sessions'[promise[p].key] => promise[p].key # k
      BY <1>1, <1>12, <3>1
    <3> QED
      BY <1>2, <1>3, <1>4, <1>10, <3>1, <3>2, <3>3, <3>4
  <2> QED
    BY <2>1, <2>2
<1>15. EntriesInv'
  <2> SUFFICES ASSUME NEW j \in Key, authPromises'[j] # None
               PROVE  /\ promise'[authPromises'[j]].running
                      /\ promise'[authPromises'[j]].key = j
                      /\ promise'[authPromises'[j]].req = sessions'[j]
    BY DEF EntriesInv
  <2>1. CASE j = k
    BY <1>1, <1>7, <1>10, <2>1
  <2>2. CASE j # k
    <3>1. authPromises'[j] = A[j] /\ A[j] \in 1..promised
      BY <1>2, <1>4, <1>10, <2>2
    <3>2. A[j] \in 1..MaxPromises
      BY <1>4, <3>1
    <3> QED
      BY <1>2, <1>8, <3>1, <3>2
  <2> QED
    BY <2>1, <2>2
<1>16. ASSUME NEW d \in Callers PROVE CallerInv(caller'[d], created', boundTo', promise')
  <2>1. CallerInv(caller[d], created', boundTo', promise')
    BY <1>1, <1>4, <1>8, CallerInvKept DEF RegistryInv
  <2> HIDE DEF st
  <2> QED
    BY <1>3, <1>5, <1>9, <2>1
<1> QED
  BY <1>1, <1>11, <1>13, <1>14, <1>15, <1>16 DEF RegistryInv

--------------------------------------------------------------------------------
(* A caller that has its answer. *)
finished(st, g) == [st EXCEPT !.pc = "done", !.on = None, !.got = g]

(* ... still has the type of a caller. *)
LEMMA FinishTyped ==
    ASSUME NEW n, NEW st \in CallerState(n), NEW g, g \in 0..n
    PROVE  /\ finished(st, g) \in CallerState(n)
           /\ finished(st, g).pc = "done" /\ finished(st, g).got = g
           /\ finished(st, g).inst = st.inst /\ finished(st, g).floor = st.floor
  BY DEF CallerState, finished

(* A promise settles. *)
LEMMA PromiseSettlesSafe ==
    ASSUME RegistryInv, NEW q \in 1..MaxPromises, NEW ok \in BOOLEAN, promiseSettles(q, ok)
    PROVE  RegistryInv'
<1>1. /\ promise[q].running
      /\ promise' = [promise EXCEPT ![q] = Settled]
      /\ authPromises' = clearOwnEntry(q)
      /\ UNCHANGED <<sessions, created, boundTo, promised, clearedAt>>
  BY DEF promiseSettles
<1>2. promise[q].req \in 1..created /\ promise[q].key \in Key /\ created \in Nat
  BY <1>1 DEF RegistryInv, TypeOK, PromisesInv
<1>3. /\ ~promise'[q].running
      /\ \A p \in 1..MaxPromises \ {q} : promise'[p] = promise[p]
  BY <1>1 DEF RegistryInv, TypeOK, Settled
<1>4. /\ authPromises' \in [Key -> 0..promised]
      /\ authPromises'[promise[q].key] # q
      /\ \A k \in Key : authPromises'[k] # None => authPromises'[k] = authPromises[k]
      /\ \A k \in Key : authPromises[k] # q => authPromises'[k] = authPromises[k]
  <2>1. CASE authPromises[promise[q].key] = q
    BY <1>1, <1>2, <2>1 DEF clearOwnEntry, RegistryInv, TypeOK
  <2>2. CASE authPromises[promise[q].key] # q
    BY <1>1, <1>2, <2>2 DEF clearOwnEntry, RegistryInv, TypeOK
  <2> QED
    BY <2>1, <2>2
<1>5. /\ caller \in [Callers -> CallerState(created)]
      /\ promise \in [1..MaxPromises -> Promise(created)]
  BY DEF RegistryInv, TypeOK, CallerState, Promise
<1>6. ASSUME NEW d \in Callers
      PROVE  /\ caller'[d] \in CallerState(created)
             /\ CallerInv(caller'[d], created, boundTo, promise')
  <2>1. caller[d] \in CallerState(created) /\ CallerInv(caller[d], created, boundTo, promise)
    BY <1>5 DEF RegistryInv
  <2>2. CASE caller[d].pc = "promise" /\ caller[d].on = q
    <3> DEFINE g == IF ok THEN promise[q].req ELSE None
    <3>1. caller'[d] = finished(caller[d], g)
      BY <2>2 DEF promiseSettles, finished
    <3>2. Serves(promise[q].req, caller[d].inst, caller[d].floor, created, boundTo)
      BY <2>1, <2>2 DEF CallerInv
    <3>3. g \in 0..created /\ (g # None => g = promise[q].req)
      BY <1>2
    <3> HIDE DEF g
    <3>4. /\ caller'[d] \in CallerState(created)
          /\ caller'[d].pc = "done" /\ caller'[d].got = g
          /\ caller'[d].inst = caller[d].inst /\ caller'[d].floor = caller[d].floor
      BY <1>2, <2>1, <3>1, <3>3, FinishTyped
    <3> QED
      BY <3>2, <3>3, <3>4 DEF CallerInv
  <2>3. CASE ~(caller[d].pc = "promise" /\ caller[d].on = q)
    <3>1. caller'[d] = caller[d]
      BY <2>3 DEF promiseSettles
    <3> QED
      BY <1>3, <2>1, <2>3, <3>1 DEF CallerInv
  <2> QED
    BY <2>2, <2>3
<1>7. TypeOK'
  <2>1. caller' \in [Callers -> CallerState(created)]
    BY <1>6 DEF promiseSettles
  <2>2. promise' \in [1..MaxPromises -> Promise(created)]
    BY <1>1, <1>2, <1>5 DEF Promise, Settled
  <2>3. loggedIn' \subseteq 1..created
    BY <1>2 DEF promiseSettles, outcome, RegistryInv, TypeOK
  <2> QED
    BY <1>1, <1>4, <2>1, <2>2, <2>3 DEF RegistryInv, TypeOK, CallerState, Promise
<1>8. SessionsInv'
  BY <1>1 DEF RegistryInv, SessionsInv
<1>9. SingleFlight'
  BY <1>3 DEF RegistryInv, SingleFlight
<1>10. PromisesInv'
  <2> SUFFICES ASSUME NEW p \in 1..MaxPromises, promise'[p].running
               PROVE  /\ p <= promised
                      /\ promise'[p].req \in 1..created
                      /\ boundTo[promise'[p].req] \in Instances
                      /\ getKey(boundTo[promise'[p].req]) = promise'[p].key
                      /\ promise'[p].key \in Key
                      /\ promise'[p].req = sessions[promise'[p].key] =>
                             authPromises'[promise'[p].key] = p
    BY <1>1 DEF PromisesInv
  <2>1. p # q /\ promise'[p] = promise[p]
    BY <1>3
  <2> QED
    BY <1>4, <2>1 DEF RegistryInv, PromisesInv
<1>11. EntriesInv'
  <2> SUFFICES ASSUME NEW j \in Key, authPromises'[j] # None
               PROVE  /\ promise'[authPromises'[j]].running
                      /\ promise'[authPromises'[j]].key = j
                      /\ promise'[authPromises'[j]].req = sessions[j]
    BY <1>1 DEF EntriesInv
  <2>1. authPromises'[j] = authPromises[j] /\ authPromises[j] \in 1..MaxPromises
    BY <1>4 DEF RegistryInv, TypeOK
  <2>2. promise[authPromises[j]].key = j
    BY <2>1 DEF RegistryInv, EntriesInv
  <2>3. authPromises[j] # q
    BY <1>4, <2>1, <2>2
  <2> QED
    BY <1>3, <2>1, <2>3 DEF RegistryInv, EntriesInv
<1> QED
  BY <1>1, <1>6, <1>7, <1>8, <1>9, <1>10, <1>11 DEF RegistryInv

(* Clearing the keys of some aliases. *)
LEMMA ClearSafe ==
    ASSUME RegistryInv, NEW keys \in SUBSET Key, NEW as \in SUBSET Aliases,
           keys = { k \in Key : k[1] \in as },
           sessions' = without(sessions, keys),
           authPromises' = without(authPromises, keys),
           clearedAt' = [a \in Aliases |-> IF a \in as THEN created ELSE clearedAt[a]],
           UNCHANGED <<created, boundTo, loggedIn, promised, promise, caller>>
    PROVE  RegistryInv'
<1>1. \A k \in Key : IF k \in keys THEN sessions'[k] = None /\ authPromises'[k] = None
                      ELSE sessions'[k] = sessions[k] /\ authPromises'[k] = authPromises[k]
  BY DEF without
<1>2. TypeOK'
  <2>1. sessions' \in [Key -> 0..created] /\ authPromises' \in [Key -> 0..promised]
    BY DEF RegistryInv, TypeOK, without
  <2>2. created \in 0..created /\ clearedAt \in [Aliases -> 0..created]
    BY DEF RegistryInv, TypeOK
  <2>3. clearedAt' \in [Aliases -> 0..created]
    BY <2>2
  <2> QED
    BY <2>1, <2>3 DEF RegistryInv, TypeOK
<1>3. SessionsInv'
  <2> SUFFICES ASSUME NEW k \in Key, sessions'[k] # None
               PROVE  /\ boundTo[sessions'[k]] \in Instances
                      /\ getKey(boundTo[sessions'[k]]) = k
                      /\ sessions'[k] > clearedAt'[k[1]]
    BY DEF SessionsInv
  <2>1. sessions'[k] = sessions[k] /\ k[1] \in Aliases \ as
    BY <1>1 DEF Key
  <2> QED
    BY <2>1 DEF RegistryInv, SessionsInv
<1>4. EntriesInv' /\ SingleFlight'
  BY <1>1 DEF RegistryInv, EntriesInv, SingleFlight
<1>5. PromisesInv'
  <2> SUFFICES ASSUME NEW p \in 1..MaxPromises, promise[p].running,
                      promise[p].req = sessions'[promise[p].key]
               PROVE  authPromises'[promise[p].key] = p
    <3>1. PromisesInv
      BY DEF RegistryInv
    <3> QED
      BY <3>1 DEF PromisesInv
  <2>1. promise[p].key \in Key /\ promise[p].req \in 1..created
    BY DEF RegistryInv, PromisesInv
  <2>2. promise[p].key \notin keys
    BY <1>1, <2>1
  <2> QED
    BY <1>1, <2>1, <2>2 DEF RegistryInv, PromisesInv
<1>6. \A c \in Callers : CallerInv(caller'[c], created', boundTo', promise')
  BY DEF RegistryInv
<1> QED
  BY <1>2, <1>3, <1>4, <1>5, <1>6 DEF RegistryInv

(* RegistryInv is inductive. *)
THEOREM StepRegistry == RegistryInv /\ [Next]_vars => RegistryInv'
<1> SUFFICES ASSUME RegistryInv, [Next]_vars PROVE RegistryInv'
  OBVIOUS
<1>1. ASSUME NEW c \in Callers, NEW i \in Instances, callGetRequest(c, i) PROVE RegistryInv'
  BY <1>1, CallsSafe DEF callGetRequest
<1>2. ASSUME NEW c \in Callers, NEW i \in Instances, getAuthenticatedRequest(c, i)
      PROVE  RegistryInv'
  BY <1>2, CallsSafe, StartPromiseSafe DEF getAuthenticatedRequest
<1>3. ASSUME NEW p \in 1..MaxPromises, NEW ok \in BOOLEAN, promiseSettles(p, ok)
      PROVE  RegistryInv'
  BY <1>3, PromiseSettlesSafe
<1>4. ASSUME NEW c \in Callers, NEW ok \in BOOLEAN, sessionSettles(c, ok) PROVE RegistryInv'
  <2> DEFINE me == caller[c]
             g == IF ok THEN me.on ELSE None
             st == finished(me, g)
  <2>1. /\ me.pc = "session" /\ caller' = [caller EXCEPT ![c] = st]
        /\ loggedIn' = outcome(me.on, ok)
        /\ UNCHANGED <<sessions, authPromises, created, boundTo, promised, promise, clearedAt>>
    BY <1>4 DEF sessionSettles, registry, finished
  <2>2. /\ me \in CallerState(created) /\ CallerInv(me, created, boundTo, promise)
        /\ Serves(me.on, me.inst, me.floor, created, boundTo) /\ me.on \in 1..created
        /\ caller \in [Callers -> CallerState(created)] /\ created \in Nat
    BY <2>1 DEF RegistryInv, TypeOK, CallerState, CallerInv, Serves
  <2>3. g \in 0..created /\ (g # None => g = me.on)
    BY <2>2
  <2> HIDE DEF g
  <2>4. /\ st \in CallerState(created) /\ st.pc = "done" /\ st.got = g
        /\ st.inst = me.inst /\ st.floor = me.floor
    BY <2>2, <2>3, FinishTyped
  <2> HIDE DEF st
  <2>5. CallerInv(st, created, boundTo, promise)
    BY <2>2, <2>3, <2>4 DEF CallerInv
  <2>6. caller' \in [Callers -> CallerState(created)]
    BY <2>1, <2>2, <2>4
  <2>7. loggedIn' \subseteq 1..created
    BY <2>1, <2>2 DEF outcome, RegistryInv, TypeOK
  <2>8. TypeOK'
    BY <2>1, <2>6, <2>7 DEF RegistryInv, TypeOK, CallerState
  <2>9. SessionsInv' /\ PromisesInv' /\ EntriesInv' /\ SingleFlight'
    BY <2>1 DEF RegistryInv, SessionsInv, PromisesInv, EntriesInv, SingleFlight
  <2>10. \A d \in Callers : CallerInv(caller'[d], created', boundTo', promise')
    BY <2>1, <2>2, <2>5 DEF RegistryInv
  <2> QED
    BY <2>8, <2>9, <2>10 DEF RegistryInv
<1>5. ASSUME NEW r \in 1..MaxRequests, NEW ok \in BOOLEAN, requestUsed(r, ok) PROVE RegistryInv'
  <2>1. r \in 1..created
    BY <1>5 DEF requestUsed, RegistryInv, TypeOK
  <2>2. TypeOK'
    BY <1>5, <2>1 DEF requestUsed, outcome, registry, RegistryInv, TypeOK
  <2>3. SessionsInv' /\ PromisesInv' /\ EntriesInv' /\ SingleFlight'
    BY <1>5 DEF requestUsed, registry, RegistryInv, SessionsInv, PromisesInv, EntriesInv, SingleFlight
  <2> QED
    BY <1>5, <2>2, <2>3 DEF requestUsed, registry, RegistryInv
<1>6. ASSUME NEW a \in Aliases, clearSession(a) PROVE RegistryInv'
  <2>1. keysOf(a) = { k \in Key : k[1] \in {a} } /\ keysOf(a) \in SUBSET Key
    BY DEF keysOf
  <2>2. clearedAt' = [b \in Aliases |-> IF b \in {a} THEN created ELSE clearedAt[b]]
    BY <1>6 DEF clearSession, RegistryInv, TypeOK
  <2> QED
    BY <1>6, <2>1, <2>2, ClearSafe, ZenonT(60) DEF clearSession
<1>7. CASE clearAll
  <2>1. Key = { k \in Key : k[1] \in Aliases }
    BY DEF Key
  <2>2. clearedAt' = [b \in Aliases |-> IF b \in Aliases THEN created ELSE clearedAt[b]]
    BY <1>7 DEF clearAll
  <2> QED
    BY <1>7, <2>1, <2>2, ClearSafe DEF clearAll
<1>8. CASE UNCHANGED vars
  <2>1. TypeOK'
    BY <1>8 DEF vars, RegistryInv, TypeOK
  <2>2. SessionsInv' /\ PromisesInv' /\ EntriesInv' /\ SingleFlight'
    BY <1>8 DEF vars, RegistryInv, SessionsInv, PromisesInv, EntriesInv, SingleFlight
  <2> QED
    BY <1>8, <2>1, <2>2 DEF vars, RegistryInv
<1> QED
  BY <1>1, <1>2, <1>3, <1>4, <1>5, <1>6, <1>7, <1>8 DEF Next

(* ... and so always true. *)
THEOREM Registry == Spec => []RegistryInv
  BY InitRegistry, StepRegistry, PTL DEF Spec

(* Every variable keeps its type. *)
THEOREM RegistryTyped == Spec => []TypeOK
<1>1. RegistryInv => TypeOK
  BY DEF RegistryInv
<1> QED
  BY <1>1, Registry, PTL

(* A caller only ever gets a request of its own instance, alias and roles. *)
THEOREM OwnRequestAlways == Spec => []OwnRequest
<1>1. RegistryInv => OwnRequest
  BY DEF RegistryInv, CallerInv, Serves, OwnRequest, isBoundTo
<1> QED
  BY <1>1, Registry, PTL

(* Nothing from before a clear is given to those who call after it. *)
THEOREM ClearIsFinal == Spec => []NothingFromBeforeClear
<1>1. RegistryInv => NothingFromBeforeClear
  BY DEF RegistryInv, CallerInv, Serves, NothingFromBeforeClear
<1> QED
  BY <1>1, Registry, PTL

(* One authentication at a time for a request. *)
THEOREM OneFlight == Spec => []SingleFlight
<1>1. RegistryInv => SingleFlight
  BY DEF RegistryInv
<1> QED
  BY <1>1, Registry, PTL

(* Nobody awaits a promise that has settled. *)
THEOREM NobodyForgotten == Spec => []WaitersServed
<1>1. RegistryInv => WaitersServed
  BY DEF RegistryInv, CallerInv, WaitersServed
<1> QED
  BY <1>1, Registry, PTL

--------------------------------------------------------------------------------
(* The registry implements SharedFlights. *)

(* Two functions that differ in one place. *)
LEMMA OneChanges ==
    ASSUME NEW S, NEW f, NEW g, NEW c \in S,
           f = [x \in S |-> f[x]], g = [x \in S |-> g[x]], \A d \in S \ {c} : g[d] = f[d]
    PROVE  g = [f EXCEPT ![c] = g[c]]
  OBVIOUS

(* One caller that waits for nothing comes to state st. *)
LEMMA CallerShown ==
    ASSUME RegistryInv, RegistryInv', NEW c \in Callers, NEW st,
           caller[c].pc # "promise", caller' = [caller EXCEPT ![c] = st]
    PROVE  /\ ~Shared!Waiting(c) /\ Shared!Given(c)
           /\ awaiting' = [awaiting EXCEPT ![c] = IF st.pc = "promise" THEN st.on ELSE None]
<1>1. caller'[c] = st /\ \A d \in Callers \ {c} : caller'[d] = caller[d]
  BY DEF RegistryInv, TypeOK
<1>2. \A d \in Callers : caller'[d].got \in 0..MaxRequests
  <2>1. created' \in 0..MaxRequests /\ caller' \in [Callers -> CallerState(created')]
    BY DEF RegistryInv, TypeOK, CallerState
  <2> QED
    BY <2>1 DEF CallerState
<1>3. given' = [given EXCEPT ![c] = given'[c]]
  <2>1. \A d \in Callers \ {c} : given'[d] = given[d]
    BY <1>1 DEF given
  <2>2. given = [d \in Callers |-> given[d]] /\ given' = [d \in Callers |-> given'[d]]
    BY DEF given
  <2> QED
    BY <2>1, <2>2, OneChanges
<1>4. given'[c] \in 1..MaxRequests \cup {None}
  BY <1>2 DEF given
<1>5. awaiting' = [awaiting EXCEPT ![c] = IF st.pc = "promise" THEN st.on ELSE None]
  <2>1. \A d \in Callers \ {c} : awaiting'[d] = awaiting[d]
    BY <1>1 DEF awaiting
  <2>2. awaiting'[c] = IF st.pc = "promise" THEN st.on ELSE None
    BY <1>1 DEF awaiting
  <2>3. awaiting = [d \in Callers |-> awaiting[d]] /\ awaiting' = [d \in Callers |-> awaiting'[d]]
    BY DEF awaiting
  <2>4. awaiting' = [awaiting EXCEPT ![c] = awaiting'[c]]
    BY <2>1, <2>3, OneChanges
  <2> QED
    BY <2>2, <2>4
<1>6. awaiting[c] = None
  BY DEF awaiting
<1> QED
  BY <1>3, <1>4, <1>5, <1>6 DEF Shared!Waiting, Shared!Given

(* ... that is not to wait, either, while no promise starts or settles. *)
LEMMA OtherwiseShown ==
    ASSUME RegistryInv, RegistryInv', NEW c \in Callers, NEW st,
           caller[c].pc # "promise", st.pc # "promise", caller' = [caller EXCEPT ![c] = st],
           promise' = promise
    PROVE  Shared!Next
<1>1. /\ ~Shared!Waiting(c) /\ Shared!Given(c)
      /\ awaiting' = [awaiting EXCEPT ![c] = None]
  BY CallerShown
<1>2. awaiting' = awaiting
  BY <1>1 DEF awaiting
<1>3. authenticating' = authenticating
  BY DEF authenticating
<1>4. Shared!Otherwise(c)
  BY <1>1, <1>2, <1>3 DEF Shared!Otherwise
<1> QED
  BY <1>4 DEF Shared!Next

LEMMA JoinShown ==
    ASSUME RegistryInv, RegistryInv', NEW c \in Callers, NEW i \in Instances,
           caller[c].pc = "done", joinPromise(c, i)
    PROVE  Shared!Next
<1> DEFINE q == promisesFor(i)[getKey(i)]
           st == calling(i, "promise", q, None)
<1>1. caller' = [caller EXCEPT ![c] = st] /\ promise' = promise
  BY DEF joinPromise
<1>2. st.pc = "promise" /\ st.on = q
  BY DEF calling
<1> HIDE DEF q, st
<1>3. /\ ~Shared!Waiting(c) /\ Shared!Given(c)
      /\ awaiting' = [awaiting EXCEPT ![c] = q]
  BY <1>1, <1>2, CallerShown
<1>4. q \in 1..MaxPromises /\ promise[q].running
  <2>1. caller'[c].pc = "promise" /\ caller'[c].on = q
    BY <1>1, <1>2 DEF RegistryInv, TypeOK
  <2> QED
    BY <1>1, <2>1 DEF RegistryInv, CallerInv
<1>5. Shared!UnderWay(q)
  <2>1. promise[q].req \in 1..created /\ created \in Nat
    BY <1>4 DEF RegistryInv, PromisesInv, TypeOK
  <2> QED
    BY <1>4, <2>1 DEF Shared!UnderWay, authenticating
<1>6. authenticating' = authenticating
  BY <1>1 DEF authenticating
<1>7. Shared!Join(c, q)
  BY <1>3, <1>5, <1>6 DEF Shared!Join, Shared!Boards
<1> QED
  BY <1>4, <1>7 DEF Shared!Next

LEMMA StartShown ==
    ASSUME RegistryInv, RegistryInv', NEW c \in Callers, NEW i \in Instances,
           caller[c].pc = "done", getRequest(i), UNCHANGED clearedAt, startPromise(c, i)
    PROVE  Shared!Next
<1> DEFINE q == promised + 1
           r == requestFor(i)
           st == calling(i, "promise", q, None)
<1>1. /\ promisesFor(i)[getKey(i)] = None /\ promised < MaxPromises
      /\ promise' = [promise EXCEPT ![q] = [req |-> r, key |-> getKey(i), running |-> TRUE]]
      /\ caller' = [caller EXCEPT ![c] = st]
  BY DEF startPromise
<1>2. st.pc = "promise" /\ st.on = q
  BY DEF calling
<1>3. r \in 1..MaxRequests
  <2>1. r \in 1..created' /\ created' \in 0..MaxRequests
    BY GetRequestEffect DEF Serves
  <2> QED
    BY <2>1
<1>4. \A p \in 1..MaxPromises : promise[p].running => promise[p].req # r
  BY <1>1, NobodyLogsIn
<1>5. q \in 1..MaxPromises /\ ~promise[q].running
  <2>1. promised \in 0..MaxPromises /\ q \in 1..MaxPromises
    BY <1>1, Typed DEF RegistryInv
  <2> QED
    BY <2>1 DEF RegistryInv, PromisesInv
<1> HIDE DEF q, r, st
<1>6. /\ ~Shared!Waiting(c) /\ Shared!Given(c)
      /\ awaiting' = [awaiting EXCEPT ![c] = q]
  BY <1>1, <1>2, CallerShown
<1>7. ~Shared!UnderWay(q) /\ \A p \in 1..MaxPromises : authenticating[p] # r
  BY <1>3, <1>4, <1>5 DEF Shared!UnderWay, authenticating
<1>8. authenticating' = [authenticating EXCEPT ![q] = r]
  <2>1. /\ promise'[q].req = r /\ promise'[q].running
        /\ \A p \in 1..MaxPromises \ {q} : promise'[p] = promise[p]
    BY <1>1, <1>5 DEF RegistryInv, TypeOK
  <2> QED
    BY <2>1 DEF authenticating
<1>9. Shared!Start(c, q, r)
  BY <1>6, <1>7, <1>8 DEF Shared!Start, Shared!Boards
<1> QED
  BY <1>3, <1>5, <1>9 DEF Shared!Next

(* Everyone aboard is released, with the request or without. *)
LEMMA SettleShown ==
    ASSUME RegistryInv, NEW p \in 1..MaxPromises, NEW ok \in BOOLEAN, promiseSettles(p, ok)
    PROVE  Shared!Next
<1> DEFINE g == IF ok THEN promise[p].req ELSE None
<1>1. /\ promise[p].running /\ promise[p].req \in 1..created
      /\ promise' = [promise EXCEPT ![p] = Settled]
  BY DEF promiseSettles, RegistryInv, PromisesInv
<1>2. p # None /\ authenticating[p] = promise[p].req
  BY <1>1 DEF authenticating
<1>3. Shared!UnderWay(p)
  BY <1>1, <1>2 DEF Shared!UnderWay, RegistryInv, TypeOK
<1>4. authenticating' = [authenticating EXCEPT ![p] = None]
  <2>1. ~promise'[p].running /\ \A q \in 1..MaxPromises \ {p} : promise'[q] = promise[q]
    BY <1>1 DEF RegistryInv, TypeOK, Settled
  <2> QED
    BY <2>1 DEF authenticating
<1>5. \A c \in Callers : awaiting[c] = p <=> caller[c].pc = "promise" /\ caller[c].on = p
  BY <1>2 DEF awaiting
<1>6. \A c \in Callers : IF awaiting[c] = p
                          THEN caller'[c].pc = "done" /\ caller'[c].got = g
                          ELSE caller'[c] = caller[c]
  <2> SUFFICES ASSUME NEW c \in Callers
               PROVE  IF awaiting[c] = p
                      THEN caller'[c].pc = "done" /\ caller'[c].got = g
                      ELSE caller'[c] = caller[c]
    OBVIOUS
  <2>1. CASE awaiting[c] = p
    <3>1. caller'[c] = finished(caller[c], g)
      BY <1>5, <2>1 DEF promiseSettles, finished
    <3>2. caller[c] \in CallerState(created)
      BY DEF RegistryInv, TypeOK, CallerState
    <3> HIDE DEF g
    <3>3. finished(caller[c], g).pc = "done" /\ finished(caller[c], g).got = g
      BY <3>2 DEF finished, CallerState
    <3> QED
      BY <2>1, <3>1, <3>3
  <2>2. CASE awaiting[c] # p
    BY <1>5, <2>2 DEF promiseSettles
  <2> QED
    BY <2>1, <2>2
<1>7. awaiting' = [c \in Callers |-> IF awaiting[c] = p THEN None ELSE awaiting[c]]
  BY <1>6 DEF awaiting
<1>8. given' = [c \in Callers |-> IF awaiting[c] = p THEN g ELSE given[c]]
  BY <1>6 DEF given
<1>9. Shared!Land(p, g)
  BY <1>3, <1>4, <1>7, <1>8 DEF Shared!Land
<1>10. g \in {authenticating[p], None}
  BY <1>2
<1> HIDE DEF g
<1> QED
  BY <1>9, <1>10 DEF Shared!Next

LEMMA Unshown ==
    ASSUME promise' = promise, caller' = caller
    PROVE  UNCHANGED Shared!vars
  BY DEF Shared!vars, authenticating, awaiting, given

(* SessionManager.ts shares what it authenticates: every step of the        *)
(* registry is one of SharedFlights or none of its business, for any number *)
(* of callers, instances, aliases and elevations.                           *)
THEOREM AuthenticationsShared == Spec => SharesAuthentications
<1>1. Init => Shared!Init
  <2> SUFFICES ASSUME Init PROVE Shared!Init
    OBVIOUS
  <2>1. authenticating = [p \in 1..MaxPromises |-> None] /\ awaiting = [c \in Callers |-> None]
    BY DEF Init, authenticating, awaiting, Settled, Done
  <2>2. given \in [Callers -> 1..MaxRequests \cup {None}]
    BY DEF Init, given, Done
  <2> QED
    BY <2>1, <2>2 DEF Shared!Init
<1>2. RegistryInv /\ RegistryInv' /\ [Next]_vars => [Shared!Next]_(Shared!vars)
  <2> SUFFICES ASSUME RegistryInv, RegistryInv', [Next]_vars
               PROVE  Shared!Next \/ UNCHANGED Shared!vars
    OBVIOUS
  <2>1. ASSUME NEW c \in Callers, NEW i \in Instances, callGetRequest(c, i) PROVE Shared!Next
    <3> DEFINE st == calling(i, "done", None, requestFor(i))
    <3>1. caller[c].pc = "done" /\ caller' = [caller EXCEPT ![c] = st] /\ promise' = promise
      BY <2>1 DEF callGetRequest
    <3>2. st.pc # "promise"
      BY DEF calling
    <3> HIDE DEF st
    <3> QED
      BY <3>1, <3>2, OtherwiseShown
  <2>2. ASSUME NEW c \in Callers, NEW i \in Instances, getAuthenticatedRequest(c, i) PROVE Shared!Next
    <3>1. caller[c].pc = "done" /\ getRequest(i) /\ UNCHANGED clearedAt
      BY <2>2 DEF getAuthenticatedRequest
    <3>2. CASE awaitSession(c, i)
      <4> DEFINE st == calling(i, "session", requestFor(i), None)
      <4>1. caller' = [caller EXCEPT ![c] = st] /\ promise' = promise
        BY <3>2 DEF awaitSession
      <4>2. st.pc # "promise"
        BY DEF calling
      <4> HIDE DEF st
      <4> QED
        BY <3>1, <4>1, <4>2, OtherwiseShown
    <3> QED
      BY <2>2, <3>1, <3>2, JoinShown, StartShown DEF getAuthenticatedRequest
  <2>3. ASSUME NEW p \in 1..MaxPromises, NEW ok \in BOOLEAN, promiseSettles(p, ok) PROVE Shared!Next
    BY <2>3, SettleShown
  <2>4. ASSUME NEW c \in Callers, NEW ok \in BOOLEAN, sessionSettles(c, ok) PROVE Shared!Next
    <3> DEFINE st == finished(caller[c], IF ok THEN caller[c].on ELSE None)
    <3>1. caller[c].pc = "session" /\ caller' = [caller EXCEPT ![c] = st] /\ promise' = promise
      BY <2>4 DEF sessionSettles, finished
    <3>2. st.pc # "promise"
      BY DEF finished, RegistryInv, TypeOK
    <3> HIDE DEF st
    <3> QED
      BY <3>1, <3>2, OtherwiseShown
  <2>5. CASE \/ \E r \in 1..MaxRequests, ok \in BOOLEAN : requestUsed(r, ok)
             \/ \E a \in Aliases : clearSession(a)
             \/ clearAll
             \/ UNCHANGED vars
    <3>1. promise' = promise /\ caller' = caller
      BY <2>5 DEF requestUsed, clearSession, clearAll, vars
    <3> QED
      BY <3>1, Unshown
  <2> QED
    BY <2>1, <2>2, <2>3, <2>4, <2>5 DEF Next
<1> QED
  BY <1>1, <1>2, Registry, PTL DEF Spec, SharesAuthentications, Shared!Spec
================================================================================
