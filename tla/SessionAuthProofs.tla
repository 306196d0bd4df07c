--------------------------- MODULE SessionAuthProofs ---------------------------
(***************************************************************************)
(* The safety of SessionAuth for any number of callers, requests, origins  *)
(* and sessions.  SafetyInv is inductive; it adds to the properties what   *)
(* their proof needs: how far each caller is, that sessions are numbered   *)
(* in the order they are minted, and where a running login will lead.      *)
(***************************************************************************)
EXTENDS SessionAuth, TLAPS

(* A session this instance has minted by now, m of them, or an embedder's. *)
Known(m) == 0..m \cup {Foreign}

(* The session that was refused has been replaced since. *)
renewed(st, m) == st.refused = Foreign \/ st.refused < m

(* What holds of a caller in state st when m sessions have been minted. *)
CallerInv(st, m) ==
    /\ st.pc \in {"idle", "login", "session"} => st.sends = 0 /\ ~st.retried
    /\ st.pc = "config" => st.sends = (IF st.retried THEN 1 ELSE 0)
    /\ st.pc = "renew" => st.sends = 1 /\ st.retried
    /\ st.pc = "sent" => st.sends = (IF st.retried THEN 2 ELSE 1)
    /\ st.retried => ordinaryRead(st.req)
    /\ st.sentOn \in Known(m) /\ st.refused \in Known(m)
    /\ st.retried /\ (st.pc = "config" \/ (st.pc = "renew" /\ st.await = Settled)) => renewed(st, m)
    /\ st.pc = "sent" => st.sentFor # "other"
    /\ st.pc = "sent" /\ st.retried => st.sentOn \notin {st.refused} \ {Foreign}
    /\ st.pc \in {"idle", "sent"} => st.await = Settled

(* A login may only lead to the origin the object is tied to. *)
LoginInv ==
    /\ minted > 0 <=> origin # NoOrigin
    /\ \A id \in LoginIds : login[id].phase = "getUserSession" =>
         /\ login[id].origin \in Origins
         /\ origin # NoOrigin => login[id].origin = origin
         /\ origin = NoOrigin /\ ConfiguredOrigin # NoOrigin =>
                login[id].origin = ConfiguredOrigin

SafetyInv ==
    /\ TypeOK
    /\ LoginsCoalesced
    /\ OriginFixed
    /\ LoginInv
    /\ hSession \in {minted, Foreign}
    /\ \A c \in Callers : CallerInv(caller[c], minted)

--------------------------------------------------------------------------------
USE SessionAuthAssumption DEF NoLogin, NoSession, Settled, Failed, Foreign

(* The state of a caller that has nothing to do. *)
LEMMA IdleOK ==
    /\ Idle \in CallerState
    /\ Idle.await = Settled
    /\ \A m \in Nat : CallerInv(Idle, m)
<1>1. NoRequest \in Request
  BY DEF NoRequest, Request, Declaration, NotDeclared, Method
<1>2. Idle \in CallerState
  BY <1>1 DEF Idle, CallerState, Owner
<1>3. \A m \in Nat : CallerInv(Idle, m)
  BY DEF CallerInv, Idle, Known
<1>4. Idle.await = Settled
  BY DEF Idle
<1> QED
  BY <1>2, <1>3, <1>4

(* Minting sessions takes nothing away from a caller. *)
LEMMA CallerInvMonotone ==
    ASSUME NEW st \in CallerState, NEW m \in Nat, NEW n \in Nat, m <= n, CallerInv(st, m)
    PROVE  CallerInv(st, n)
<1>1. \A x : x \in Known(m) => x \in Known(n)
  BY DEF Known
<1>2. renewed(st, m) => renewed(st, n)
  BY DEF renewed, CallerState
<1> QED
  BY <1>1, <1>2 DEF CallerInv

(* A step that moves one caller, and starts or ends no login, is safe when  *)
(* the caller's new state is.                                               *)
LEMMA CallerStepSafe ==
    ASSUME SafetyInv, NEW c \in Callers, NEW st \in CallerState,
           CallerInv(st, minted), st.await \in LoginIds => st.await = pending,
           caller' = [caller EXCEPT ![c] = st],
           UNCHANGED <<authVars, handlerVars, login, minted, originOf>>
    PROVE  /\ caller' \in [Callers -> CallerState]
           /\ LoginsCoalesced' /\ OriginFixed' /\ LoginInv'
           /\ hSession' \in {minted', Foreign}
           /\ \A d \in Callers : CallerInv(caller'[d], minted')
<1> USE DEF SafetyInv, authVars, handlerVars
<1>1. caller' \in [Callers -> CallerState]
  BY DEF TypeOK
<1>2. LoginsCoalesced'
  BY <1>1 DEF LoginsCoalesced, running, TypeOK
<1>3. OriginFixed' /\ LoginInv'
  BY DEF OriginFixed, LoginInv
<1>4. \A d \in Callers : CallerInv(caller'[d], minted')
  BY DEF TypeOK
<1> QED
  BY <1>1, <1>2, <1>3, <1>4

(* The initial state. *)
LEMMA InitSafe == Init => SafetyInv
<1> SUFFICES ASSUME Init PROVE SafetyInv
  OBVIOUS
<1>2. Idle \in CallerState
  BY IdleOK
<1>3. TypeOK
  <2>1. login \in [LoginIds -> [phase : {"none", "provider", "getUserSession"},
                               life : Life, origin : Origins \cup {NoOrigin}]]
    BY DEF Init, NotRunning, Life
  <2>2. caller \in [Callers -> CallerState]
    BY <1>2 DEF Init
  <2>3. originOf \in [1..MaxSessions -> Origins \cup {NoOrigin}]
    BY DEF Init
  <2>4. /\ session \in 0..MaxSessions /\ minted \in 0..MaxSessions /\ hSession \in 0..Foreign
        /\ workflows \subseteq 0..Foreign
    BY DEF Init
  <2>5. /\ loggedIn \in BOOLEAN /\ pinned \in BOOLEAN /\ hOwner \in Owner
        /\ life \in Life \cup {"none"} /\ origin \in Origins \cup {NoOrigin}
        /\ pending \in LoginIds \cup {NoLogin}
    BY DEF Init, Owner
  <2> QED
    BY <2>1, <2>2, <2>3, <2>4, <2>5 DEF TypeOK
<1>4. LoginsCoalesced
  BY DEF Init, LoginsCoalesced, running, NotRunning, Idle
<1>5. OriginFixed /\ LoginInv
  BY DEF Init, OriginFixed, LoginInv, NotRunning
<1>6. CallerInv(Idle, 0)
  BY IdleOK
<1> QED
  BY <1>3, <1>4, <1>5, <1>6 DEF Init, SafetyInv

--------------------------------------------------------------------------------
(* ensureSession leaves a caller awaiting the login that is pending, or     *)
(* with an outcome; a forced one never ends with the session as it is.      *)
LEMMA EnsureSessionSafe ==
    ASSUME SafetyInv, NEW c \in Callers, NEW st \in CallerState, NEW force \in BOOLEAN,
           CallerInv([st EXCEPT !.await = Failed], minted),
           st.pc # "sent", st.pc = "renew" => force,
           ensureSession(c, st, force)
    PROVE  SafetyInv'
<1> DEFINE at(o) == [st EXCEPT !.await = o]
<1> USE DEF handlerVars, serverVars
<1>1. ASSUME NEW o \in LoginIds \cup {Settled, Failed}, st.pc = "renew" => o # Settled
      PROVE  at(o) \in CallerState /\ CallerInv(at(o), minted) /\ at(o).await = o
  BY <1>1 DEF CallerState, CallerInv, renewed
<1>2. ASSUME NEW o \in LoginIds \cup {Settled, Failed}, st.pc = "renew" => o # Settled,
             o \in LoginIds => o = pending, await(c, st, o), UNCHANGED <<pending, login>>
      PROVE  SafetyInv'
  <2>1. caller' = [caller EXCEPT ![c] = at(o)]
    BY <1>2 DEF await
  <2> HIDE DEF at
  <2>2. UNCHANGED <<authVars, handlerVars, login, minted, originOf, workflows>>
    BY <1>2 DEF ensureSession, authVars
  <2>3. /\ caller' \in [Callers -> CallerState]
        /\ LoginsCoalesced' /\ OriginFixed' /\ LoginInv'
        /\ hSession' \in {minted', Foreign}
        /\ \A d \in Callers : CallerInv(caller'[d], minted')
    BY <1>1, <1>2, <2>1, <2>2, CallerStepSafe
  <2>4. TypeOK'
    BY <2>2, <2>3 DEF SafetyInv, TypeOK, authVars
  <2> QED
    BY <2>3, <2>4 DEF SafetyInv
<1>3. CASE joinLogin(c, st)
  BY <1>2, <1>3 DEF joinLogin, SafetyInv, TypeOK
<1>4. CASE keepSession(c, st, force)
  BY <1>2, <1>4 DEF keepSession
<1>5. CASE refusePinned(c, st, force)
  BY <1>2, <1>5 DEF refusePinned
<1>6. CASE startLogin(c, st, force)
  <2>1. PICK id \in LoginIds :
          /\ ~running(id)
          /\ login' = [login EXCEPT ![id].phase = "provider"]
          /\ pending' = id
          /\ await(c, st, id)
    BY <1>6 DEF startLogin
  <2>2. caller' = [caller EXCEPT ![c] = at(id)]
    BY <2>1 DEF await
  <2>3. /\ pending = NoLogin
        /\ UNCHANGED <<loggedIn, session, life, origin, pinned, hSession, hOwner,
                       minted, originOf, workflows>>
    BY <1>6 DEF startLogin, ensureSession
  <2>4. at(id) \in CallerState /\ CallerInv(at(id), minted) /\ at(id).await = id
    BY <1>1
  <2> HIDE DEF at
  <2>5. TypeOK'
    <3>1. caller' \in [Callers -> CallerState]
      BY <2>2, <2>4 DEF SafetyInv, TypeOK
    <3>2. login' \in [LoginIds -> [phase : {"none", "provider", "getUserSession"},
                                  life : Life, origin : Origins \cup {NoOrigin}]]
      BY <2>1, ZenonT(60) DEF SafetyInv, TypeOK
    <3> QED
      BY <2>1, <2>3, <3>1, <3>2 DEF SafetyInv, TypeOK
  <2>6. LoginsCoalesced'
    BY <2>1, <2>2, <2>3, <2>4 DEF SafetyInv, TypeOK, LoginsCoalesced, running
  <2>7. OriginFixed' /\ LoginInv'
    BY <2>1, <2>3 DEF SafetyInv, TypeOK, OriginFixed, LoginInv
  <2>8. \A d \in Callers : CallerInv(caller'[d], minted')
    BY <2>2, <2>3, <2>4 DEF SafetyInv, TypeOK
  <2> QED
    BY <2>3, <2>5, <2>6, <2>7, <2>8 DEF SafetyInv
<1> QED
  BY <1>3, <1>4, <1>5, <1>6 DEF ensureSession

(* A caller that goes back to idle. *)
LEMMA FinishSafe ==
    ASSUME SafetyInv, NEW c \in Callers, finish(c),
           UNCHANGED <<authVars, handlerVars, login, serverVars>>
    PROVE  SafetyInv'
<1>1. CallerInv(Idle, minted) /\ Idle \in CallerState /\ Idle.await \notin LoginIds
  BY IdleOK DEF SafetyInv, TypeOK
<1>2. caller' = [caller EXCEPT ![c] = Idle]
  BY DEF finish
<1>3. /\ caller' \in [Callers -> CallerState]
      /\ LoginsCoalesced' /\ OriginFixed' /\ LoginInv'
      /\ hSession' \in {minted', Foreign}
      /\ \A d \in Callers : CallerInv(caller'[d], minted')
  BY <1>1, <1>2, CallerStepSafe DEF serverVars
<1>4. TypeOK'
  BY <1>3 DEF SafetyInv, TypeOK, authVars, handlerVars, serverVars
<1> QED
  BY <1>3, <1>4 DEF SafetyInv

(* getRequestConfig *)
LEMMA GetRequestConfigSafe ==
    ASSUME SafetyInv, NEW c \in Callers, NEW st \in CallerState,
           CallerInv([st EXCEPT !.pc = "config"], minted), getRequestConfig(c, st)
    PROVE  SafetyInv'
<1> DEFINE cfg == [st EXCEPT !.pc = "config"]
<1>1. CASE ensureSession(c, cfg, FALSE)
  <2>1. /\ cfg \in CallerState /\ cfg.pc = "config"
        /\ CallerInv([cfg EXCEPT !.await = Failed], minted)
    BY DEF CallerState, CallerInv, renewed
  <2> HIDE DEF cfg
  <2> QED
    BY <1>1, <2>1, EnsureSessionSafe
<1>2. CASE finish(c) /\ UNCHANGED <<authVars, handlerVars, login, serverVars>>
  BY <1>2, FinishSafe
<1> QED
  BY <1>1, <1>2 DEF getRequestConfig

--------------------------------------------------------------------------------
(* Releasing the callers of login id: they are left with the outcome, and   *)
(* no login runs.  A caller that is told of success finds the session it    *)
(* was refused on replaced.                                                 *)
LEMMA ReleaseSafe ==
    ASSUME SafetyInv, NEW id \in LoginIds, running(id),
           NEW outcome \in {Settled, Failed}, release(id, outcome),
           minted' \in Nat, minted <= minted', minted' < Foreign,
           outcome = Settled => minted' = minted + 1
    PROVE  /\ login' = [login EXCEPT ![id] = NotRunning] /\ pending' = NoLogin
           /\ caller' \in [Callers -> CallerState]
           /\ LoginsCoalesced'
           /\ \A k \in LoginIds : login'[k].phase = "none"
           /\ \A c \in Callers : CallerInv(caller'[c], minted')
<1>1. /\ pending = id
      /\ login' = [login EXCEPT ![id] = NotRunning] /\ pending' = NoLogin
  BY DEF release, SafetyInv, LoginsCoalesced
<1>2. \A k \in LoginIds : login'[k].phase = "none"
  BY <1>1 DEF SafetyInv, LoginsCoalesced, running, NotRunning, TypeOK
<1>3. ASSUME NEW c \in Callers
      PROVE  /\ caller'[c] \in CallerState /\ caller'[c].await \notin LoginIds
             /\ CallerInv(caller'[c], minted')
  <2>1. caller[c] \in CallerState /\ CallerInv(caller[c], minted) /\ minted \in Nat
    BY DEF SafetyInv, TypeOK
  <2>2. CallerInv(caller[c], minted')
    BY <2>1, CallerInvMonotone
  <2>3. CASE caller[c].await = id
    <3>1. caller'[c] = [caller[c] EXCEPT !.await = outcome]
      BY <2>3 DEF release
    <3>2. outcome = Settled => renewed(caller[c], minted')
      BY <2>1 DEF CallerInv, Known, renewed, CallerState
    <3>3. id # Settled /\ outcome \notin LoginIds
      OBVIOUS
    <3>4. caller[c].pc \notin {"idle", "sent"}
      BY <2>1, <2>3, <3>3 DEF CallerInv
    <3> QED
      BY <2>1, <2>2, <3>1, <3>2, <3>3, <3>4 DEF CallerState, CallerInv, renewed
  <2>4. CASE caller[c].await # id
    <3>1. caller'[c] = caller[c]
      BY <2>4 DEF release
    <3> QED
      BY <1>1, <2>1, <2>2, <2>4, <3>1 DEF SafetyInv, LoginsCoalesced
  <2> QED
    BY <2>3, <2>4
<1>4. caller' \in [Callers -> CallerState]
  BY <1>3 DEF release
<1>5. LoginsCoalesced'
  BY <1>1, <1>2, <1>3 DEF LoginsCoalesced, running
<1> QED
  BY <1>1, <1>2, <1>3, <1>4, <1>5

(* login() ends in its catch. *)
LEMMA LoginFailsSafe ==
    ASSUME SafetyInv, NEW id \in LoginIds, loginFails(id)
    PROVE  SafetyInv'
<1> USE DEF handlerVars, serverVars
<1>1. minted' = minted /\ minted \in Nat /\ minted < Foreign
  BY DEF loginFails, SafetyInv, TypeOK
<1>2. /\ login' = [login EXCEPT ![id] = NotRunning] /\ pending' = NoLogin
      /\ caller' \in [Callers -> CallerState]
      /\ LoginsCoalesced'
      /\ \A k \in LoginIds : login'[k].phase = "none"
      /\ \A c \in Callers : CallerInv(caller'[c], minted')
  BY <1>1, ReleaseSafe DEF loginFails
<1>3. login' \in [LoginIds -> [phase : {"none", "provider", "getUserSession"},
                              life : Life, origin : Origins \cup {NoOrigin}]]
  BY <1>2 DEF SafetyInv, TypeOK, NotRunning, Life
<1>4. TypeOK'
  BY <1>2, <1>3 DEF loginFails, SafetyInv, TypeOK
<1>5. OriginFixed' /\ LoginInv'
  BY <1>2 DEF loginFails, SafetyInv, OriginFixed, LoginInv
<1> QED
  BY <1>2, <1>4, <1>5 DEF loginFails, SafetyInv

(* The provider answers. *)
LEMMA CredentialsArriveSafe ==
    ASSUME SafetyInv, NEW id \in LoginIds, NEW o \in Origins, NEW l \in Life,
           credentialsArrive(id, o, l)
    PROVE  SafetyInv'
<1>1. CASE loginFails(id)
  BY <1>1, LoginFailsSafe
<1>2. CASE /\ o = expectedOrigin(o)
           /\ login' = [login EXCEPT ![id] = [phase |-> "getUserSession", life |-> l, origin |-> o]]
           /\ UNCHANGED <<authVars, handlerVars, caller, serverVars>>
  <2> USE <1>2 DEF authVars, handlerVars, serverVars
  <2>1. login' \in [LoginIds -> [phase : {"none", "provider", "getUserSession"},
                                life : Life, origin : Origins \cup {NoOrigin}]]
    BY DEF SafetyInv, TypeOK
  <2>2. TypeOK'
    BY <2>1 DEF SafetyInv, TypeOK
  <2>3. LoginsCoalesced'
    BY DEF SafetyInv, TypeOK, LoginsCoalesced, running, credentialsArrive
  <2>4. OriginFixed'
    BY DEF SafetyInv, OriginFixed
  <2>5. LoginInv'
    BY DEF SafetyInv, TypeOK, LoginInv, expectedOrigin
  <2> QED
    BY <2>2, <2>3, <2>4, <2>5 DEF SafetyInv
<1> QED
  BY <1>1, <1>2 DEF credentialsArrive

(* A session is minted and installed. *)
LEMMA SessionEstablishedSafe ==
    ASSUME SafetyInv, NEW id \in LoginIds, sessionEstablished(id)
    PROVE  SafetyInv'
<1>1. /\ minted' = minted + 1 /\ minted \in Nat /\ minted' \in 1..MaxSessions
      /\ running(id) /\ login[id].phase = "getUserSession"
  BY DEF sessionEstablished, SafetyInv, TypeOK, running
<1>2. /\ login' = [login EXCEPT ![id] = NotRunning] /\ pending' = NoLogin
      /\ caller' \in [Callers -> CallerState]
      /\ LoginsCoalesced'
      /\ \A k \in LoginIds : login'[k].phase = "none"
      /\ \A c \in Callers : CallerInv(caller'[c], minted')
  BY <1>1, ReleaseSafe DEF sessionEstablished
<1>3. login' \in [LoginIds -> [phase : {"none", "provider", "getUserSession"},
                              life : Life, origin : Origins \cup {NoOrigin}]]
  BY <1>2 DEF SafetyInv, TypeOK, NotRunning, Life
<1>4. login[id].life \in Life /\ login[id].origin \in Origins
  BY <1>1 DEF SafetyInv, TypeOK, LoginInv
<1>5. originOf' \in [1..MaxSessions -> Origins \cup {NoOrigin}]
  BY <1>1, <1>4 DEF SafetyInv, TypeOK, sessionEstablished
<1>6. TypeOK'
  BY <1>1, <1>2, <1>3, <1>4, <1>5 DEF sessionEstablished, SafetyInv, TypeOK, Owner
<1>7. OriginFixed'
  <2>1. /\ originOf' = [originOf EXCEPT ![minted + 1] = login[id].origin]
        /\ origin' = login[id].origin
    BY DEF sessionEstablished
  <2>2. \A s \in 1..minted : originOf[s] = origin
    BY DEF SafetyInv, OriginFixed
  <2>3. minted > 0 => origin' = origin
    BY <1>1, <2>1 DEF SafetyInv, LoginInv
  <2>4. \A s \in 1..minted' : originOf'[s] = origin'
    BY <1>1, <2>1, <2>2, <2>3 DEF SafetyInv, TypeOK
  <2>5. ConfiguredOrigin # NoOrigin => origin' = ConfiguredOrigin
    BY <1>1, <2>1, <2>3 DEF SafetyInv, TypeOK, LoginInv, OriginFixed
  <2> QED
    BY <2>4, <2>5 DEF OriginFixed
<1>8. LoginInv'
  <2>1. origin' = login[id].origin
    BY DEF sessionEstablished
  <2>2. minted' > 0 /\ origin' # NoOrigin
    BY <1>1, <1>4, <2>1, SessionAuthAssumption
  <2>3. \A k \in LoginIds : login'[k].phase # "getUserSession"
    BY <1>2
  <2> QED
    BY <2>2, <2>3 DEF LoginInv
<1> QED
  BY <1>2, <1>6, <1>7, <1>8 DEF sessionEstablished, SafetyInv

--------------------------------------------------------------------------------
(* What a caller does between two awaits. *)
LEMMA CallerSafe ==
    ASSUME SafetyInv, NEW c \in Callers,
           \/ \E r \in Requests : request(c, r)
           \/ getUserSession(c) \/ proceed(c) \/ answered(c)
    PROVE  SafetyInv'
<1> DEFINE me == caller[c]
<1>0. me \in CallerState /\ CallerInv(me, minted) /\ minted \in Nat
  BY DEF SafetyInv, TypeOK
<1>1. ASSUME NEW r \in Requests, request(c, r) PROVE SafetyInv'
  <2> DEFINE st == [Idle EXCEPT !.req = r]
             lg == [Idle EXCEPT !.req = r, !.pc = "login"]
  <2>1. st \in CallerState /\ lg \in CallerState /\ lg.pc = "login"
    <3>1. r \in Request /\ Idle \in CallerState
      BY IdleOK
    <3> QED
      BY <3>1 DEF CallerState
  <2>4. CallerInv([st EXCEPT !.pc = "config"], minted)
    BY <1>0 DEF Idle, CallerInv, Known
  <2>5. CallerInv([lg EXCEPT !.await = Failed], minted)
    BY <1>0 DEF Idle, CallerInv, Known
  <2>2. CASE getRequestConfig(c, st)
    <3> HIDE DEF st
    <3> QED BY <2>1, <2>4, <2>2, GetRequestConfigSafe
  <2>3. CASE ensureSession(c, lg, TRUE)
    <3> HIDE DEF lg
    <3> QED BY <2>1, <2>5, <2>3, EnsureSessionSafe
  <2> QED
    BY <1>1, <2>2, <2>3 DEF request
<1>2. CASE getUserSession(c)
  <2> DEFINE st == [Idle EXCEPT !.pc = "session"]
  <2>1. /\ st \in CallerState /\ st.pc = "session"
        /\ CallerInv([st EXCEPT !.await = Failed], minted)
    BY <1>0, IdleOK DEF Idle, CallerState, CallerInv, Known
  <2>2. ensureSession(c, st, FALSE)
    BY <1>2 DEF getUserSession
  <2> HIDE DEF st
  <2> QED
    BY <2>1, <2>2, EnsureSessionSafe
<1>3. CASE sessionReady(c)
  <2>1. getRequestConfig(c, me) /\ me.pc \in {"login", "renew"} /\ me.await = Settled
    BY <1>3 DEF sessionReady
  <2>2. CallerInv([me EXCEPT !.pc = "config"], minted)
    BY <1>0, <2>1 DEF CallerInv, CallerState, renewed
  <2> HIDE DEF me
  <2> QED
    BY <1>0, <2>1, <2>2, GetRequestConfigSafe
<1>4. CASE sessionReturned(c) \/ loginRejected(c) \/ failed(c)
  BY <1>4, FinishSafe DEF sessionReturned, loginRejected, failed
<1>5. CASE makeRequest(c)
  <2>1. CASE matchesBoundInstance
    <3> DEFINE st == [me EXCEPT !.pc = "sent", !.sentOn = hSession,
                                !.sentFor = hOwner, !.sends = me.sends + 1]
    <3>1. /\ caller' = [caller EXCEPT ![c] = st]
          /\ me.pc = "config" /\ me.await = Settled
      BY <1>5, <2>1 DEF makeRequest
    <3>2. st \in CallerState /\ st.await = Settled
      <4>1. hSession \in 0..Foreign /\ hOwner \in Owner
        BY DEF SafetyInv, TypeOK
      <4>2. me.sends + 1 \in Nat /\ me.await = Settled
        BY <1>0, <3>1 DEF CallerState
      <4>3. st \in CallerState
        BY <1>0, <4>1, <4>2 DEF CallerState
      <4> QED
        BY <1>0, <4>2, <4>3 DEF CallerState
    <3>3. CallerInv(st, minted)
      <4>1. hOwner # "other" /\ hSession \in {minted, Foreign} /\ hSession \in Known(minted)
        BY <1>0, <2>1 DEF matchesBoundInstance, SafetyInv, Known
      <4>2. me.retried => renewed(me, minted)
        BY <1>0, <3>1 DEF CallerInv
      <4> QED
        BY <1>0, <3>1, <4>1, <4>2 DEF CallerInv, CallerState, renewed
    <3> HIDE DEF st
    <3>4. UNCHANGED <<authVars, handlerVars, login, serverVars>>
      BY <1>5 DEF makeRequest
    <3>5. /\ caller' \in [Callers -> CallerState]
          /\ LoginsCoalesced' /\ OriginFixed' /\ LoginInv'
          /\ hSession' \in {minted', Foreign}
          /\ \A d \in Callers : CallerInv(caller'[d], minted')
      BY <3>1, <3>2, <3>3, <3>4, CallerStepSafe DEF serverVars
    <3>6. TypeOK'
      BY <3>4, <3>5 DEF SafetyInv, TypeOK, authVars, handlerVars, serverVars
    <3> QED
      BY <3>5, <3>6 DEF SafetyInv
  <2>2. CASE ~matchesBoundInstance
    BY <1>5, <2>2, FinishSafe DEF makeRequest
  <2> QED
    BY <2>1, <2>2
<1>6. CASE unauthorized(c)
  <2>1. CASE ~me.retried /\ ordinaryRead(me.req)
    <3> DEFINE st == [me EXCEPT !.pc = "renew", !.retried = TRUE, !.refused = me.sentOn]
    <3>1. ensureSession(c, st, TRUE) /\ me.pc = "sent"
      BY <1>6, <2>1 DEF unauthorized
    <3>2. st \in CallerState /\ st.pc = "renew"
      BY <1>0 DEF CallerState
    <3>3. CallerInv([st EXCEPT !.await = Failed], minted)
      BY <1>0, <2>1, <3>1 DEF CallerState, CallerInv
    <3> HIDE DEF st
    <3> QED
      BY <3>1, <3>2, <3>3, EnsureSessionSafe
  <2>2. CASE ~(~me.retried /\ ordinaryRead(me.req))
    BY <1>6, <2>2, FinishSafe DEF unauthorized
  <2> QED
    BY <2>1, <2>2
<1>7. CASE succeeded(c)
  <2>1. caller' = [caller EXCEPT ![c] = Idle]
    BY <1>7 DEF succeeded, finish
  <2>2. UNCHANGED <<loggedIn, session, life, origin, pending, hSession, hOwner,
                    login, minted, originOf>>
    BY <1>7 DEF succeeded, handlerVars
  <2>3. caller' \in [Callers -> CallerState]
    BY <2>1, IdleOK DEF SafetyInv, TypeOK
  <2>4. pinned' \in BOOLEAN
    BY <1>7 DEF succeeded
  <2>5. workflows' \subseteq 0..Foreign
    BY <1>0, <1>7 DEF succeeded, SafetyInv, TypeOK, CallerState
  <2>6. TypeOK'
    BY <2>2, <2>3, <2>4, <2>5 DEF SafetyInv, TypeOK
  <2>7. LoginsCoalesced'
    BY <2>1, <2>2, IdleOK DEF SafetyInv, TypeOK, LoginsCoalesced, running
  <2>8. OriginFixed' /\ LoginInv'
    BY <2>2 DEF SafetyInv, OriginFixed, LoginInv
  <2>9. \A d \in Callers : CallerInv(caller'[d], minted')
    BY <1>0, <2>1, <2>2, IdleOK DEF SafetyInv, TypeOK
  <2> QED
    BY <2>2, <2>6, <2>7, <2>8, <2>9 DEF SafetyInv
<1> QED
  BY <1>1, <1>2, <1>3, <1>4, <1>5, <1>6, <1>7 DEF proceed, answered

(* Time and the embedder. *)
LEMMA EnvironmentSafe ==
    ASSUME SafetyInv,
           \/ \E id \in LoginIds : loginAges(id)
           \/ credentialsAge
           \/ \E owner \in EmbedderOwners : setSession(owner)
    PROVE  SafetyInv'
<1> USE DEF authVars, handlerVars, serverVars
<1>1. ASSUME NEW id \in LoginIds, loginAges(id) PROVE SafetyInv'
  <2>1. /\ login' = [login EXCEPT ![id].life = age(login[id].life)]
        /\ age(login[id].life) \in Life
        /\ UNCHANGED <<authVars, handlerVars, caller, serverVars>>
    BY <1>1 DEF loginAges, age, Life, SafetyInv, TypeOK
  <2>2. login' \in [LoginIds -> [phase : {"none", "provider", "getUserSession"},
                                life : Life, origin : Origins \cup {NoOrigin}]]
    BY <2>1, ZenonT(60) DEF SafetyInv, TypeOK
  <2>3. \A k \in LoginIds : login'[k].phase = login[k].phase /\ login'[k].origin = login[k].origin
    BY <2>1 DEF SafetyInv, TypeOK
  <2>4. TypeOK'
    BY <2>1, <2>2 DEF SafetyInv, TypeOK
  <2>5. LoginsCoalesced' /\ OriginFixed' /\ LoginInv'
    BY <2>1, <2>3 DEF SafetyInv, LoginsCoalesced, running, OriginFixed, LoginInv
  <2> QED
    BY <2>1, <2>4, <2>5 DEF SafetyInv
<1>2. CASE credentialsAge
  <2>1. TypeOK'
    BY <1>2 DEF credentialsAge, age, Life, SafetyInv, TypeOK
  <2>2. LoginsCoalesced' /\ OriginFixed' /\ LoginInv'
    BY <1>2 DEF credentialsAge, SafetyInv, LoginsCoalesced, running, OriginFixed, LoginInv
  <2> QED
    BY <1>2, <2>1, <2>2 DEF credentialsAge, SafetyInv
<1>3. ASSUME NEW owner \in EmbedderOwners, setSession(owner) PROVE SafetyInv'
  <2>1. TypeOK'
    BY <1>3 DEF setSession, Owner, SafetyInv, TypeOK
  <2>2. LoginsCoalesced' /\ OriginFixed' /\ LoginInv'
    BY <1>3 DEF setSession, SafetyInv, LoginsCoalesced, running, OriginFixed, LoginInv
  <2> QED
    BY <1>3, <2>1, <2>2 DEF setSession, SafetyInv
<1> QED
  BY <1>1, <1>2, <1>3

(* SafetyInv is inductive. *)
THEOREM StepSafe == SafetyInv /\ [Next]_vars => SafetyInv'
<1> SUFFICES ASSUME SafetyInv, [Next]_vars PROVE SafetyInv'
  OBVIOUS
<1>1. ASSUME NEW id \in LoginIds, loginStep(id) PROVE SafetyInv'
  BY <1>1, CredentialsArriveSafe, SessionEstablishedSafe, LoginFailsSafe DEF loginStep
<1>2. ASSUME NEW c \in Callers,
             \/ \E r \in Requests : request(c, r)
             \/ getUserSession(c) \/ proceed(c) \/ answered(c)
      PROVE  SafetyInv'
  BY <1>2, CallerSafe
<1>3. CASE \/ \E id \in LoginIds : loginAges(id)
           \/ credentialsAge
           \/ \E owner \in EmbedderOwners : setSession(owner)
  BY <1>3, EnvironmentSafe
<1>4. CASE UNCHANGED vars
  <2>1. TypeOK'
    BY <1>4 DEF vars, SafetyInv, TypeOK
  <2>2. LoginsCoalesced' /\ OriginFixed' /\ LoginInv'
    BY <1>4 DEF vars, SafetyInv, LoginsCoalesced, running, OriginFixed, LoginInv
  <2> QED
    BY <1>4, <2>1, <2>2 DEF vars, SafetyInv
<1> QED
  BY <1>1, <1>2, <1>3, <1>4 DEF Next

(* ... and so always true. *)
THEOREM Safety == Spec => []SafetyInv
  BY InitSafe, StepSafe, PTL DEF Spec

(* Every variable keeps its type. *)
THEOREM TypeCorrect == Spec => []TypeOK
<1>1. SafetyInv => TypeOK
  BY DEF SafetyInv
<1> QED
  BY <1>1, Safety, PTL

(* Any number of concurrent callers share one login, and nobody awaits a    *)
(* login that has ended.                                                    *)
THEOREM Coalescing == Spec => []LoginsCoalesced
<1>1. SafetyInv => LoginsCoalesced
  BY DEF SafetyInv
<1> QED
  BY <1>1, Safety, PTL

(* A 401 makes doRequest repeat an ordinary read, once and on another       *)
(* session, and nothing else ever.                                          *)
THEOREM NoReplay == Spec => []ReplaySafe
<1>1. SafetyInv => ReplaySafe
  <2> SUFFICES ASSUME SafetyInv, NEW c \in Callers
               PROVE  /\ caller[c].sends <= 2
                      /\ stateful(caller[c].req) \/ classify(caller[c].req).verbs # {} =>
                             caller[c].sends <= 1
                      /\ caller[c].pc = "sent" /\ caller[c].sends = 2 =>
                             caller[c].sentOn \notin {caller[c].refused} \ {Foreign}
    BY DEF ReplaySafe
  <2>1. caller[c] \in CallerState /\ CallerInv(caller[c], minted)
    BY DEF SafetyInv, TypeOK
  <2> QED
    BY <2>1 DEF CallerState, CallerInv, ordinaryRead
<1> QED
  BY <1>1, Safety, PTL

(* No request leaves on a session known to be another instance's. *)
THEOREM BindingKept == Spec => []NeverSentForAnother
<1>1. SafetyInv => NeverSentForAnother
  BY DEF SafetyInv, NeverSentForAnother, CallerInv
<1> QED
  BY <1>1, Safety, PTL

(* All sessions of the object are of one origin. *)
THEOREM OneOrigin == Spec => []OriginFixed
<1>1. SafetyInv => OriginFixed
  BY DEF SafetyInv
<1> QED
  BY <1>1, Safety, PTL

(* A session pinned while no login runs is never replaced, and no login is  *)
(* started any more.                                                        *)
THEOREM PinLasts == Spec => PinnedForGood
<1> DEFINE kept == pinned' /\ session' = session /\ pending' = NoLogin
<1>1. ASSUME SafetyInv, pinned, session # NoSession, pending = NoLogin, Next PROVE kept
  <2> USE DEF authVars
  <2>1. \A id \in LoginIds : ~running(id)
    BY <1>1 DEF SafetyInv, LoginsCoalesced
  <2>2. ASSUME NEW c, NEW st, NEW force, ensureSession(c, st, force) PROVE kept
    BY <1>1, <2>2 DEF ensureSession, joinLogin, keepSession, refusePinned, startLogin
  <2>3. ASSUME NEW c, NEW st, getRequestConfig(c, st) PROVE kept
    BY <1>1, <2>2, <2>3 DEF getRequestConfig
  <2>4. ASSUME NEW id \in LoginIds, loginStep(id) \/ loginAges(id) PROVE kept
    BY <2>1, <2>4 DEF loginStep, loginAges, credentialsArrive, sessionEstablished, loginFails, running
  <2>5. ASSUME NEW c \in Callers, NEW r \in Requests, request(c, r) PROVE kept
    BY <2>2, <2>3, <2>5 DEF request
  <2>6. ASSUME NEW c \in Callers, getUserSession(c) \/ proceed(c) PROVE kept
    BY <1>1, <2>2, <2>3, <2>6
       DEF getUserSession, proceed, sessionReady, sessionReturned, loginRejected, makeRequest
  <2>7. ASSUME NEW c \in Callers, answered(c) PROVE kept
    BY <1>1, <2>2, <2>7 DEF answered, unauthorized, succeeded, failed
  <2>8. CASE credentialsAge \/ \E owner \in EmbedderOwners : setSession(owner)
    BY <1>1, <2>8 DEF credentialsAge, setSession
  <2> QED
    BY <1>1, <2>4, <2>5, <2>6, <2>7, <2>8 DEF Next
<1>2. SafetyInv /\ [Next]_vars =>
        [pinned /\ session # NoSession /\ pending = NoLogin => kept]_vars
  BY <1>1
<1> QED
  BY <1>2, Safety, PTL DEF Spec, PinnedForGood

--------------------------------------------------------------------------------
(* The logins implement SharedFlights. *)

(* Two functions that differ in one place. *)
LEMMA OneChanges ==
    ASSUME NEW S, NEW f, NEW g, NEW c \in S,
           f = [x \in S |-> f[x]], g = [x \in S |-> g[x]], \A d \in S \ {c} : g[d] = f[d]
    PROVE  g = [f EXCEPT ![c] = g[c]]
  OBVIOUS

(* One caller that awaits no login comes to state st. *)
LEMMA CallerShown ==
    ASSUME SafetyInv, SafetyInv', NEW c \in Callers, NEW st,
           caller[c].await \notin LoginIds, caller' = [caller EXCEPT ![c] = st]
    PROVE  /\ ~Shared!Waiting(c) /\ Shared!Given(c)
           /\ awaiting' = [awaiting EXCEPT ![c] = IF st.await \in LoginIds THEN st.await ELSE NoLogin]
<1>1. caller'[c] = st /\ \A d \in Callers \ {c} : caller'[d] = caller[d]
  BY DEF SafetyInv, TypeOK
<1>2. learned' = [learned EXCEPT ![c] = learned'[c]]
  <2>1. \A d \in Callers \ {c} : learned'[d] = learned[d]
    BY <1>1 DEF learned
  <2>2. learned = [d \in Callers |-> learned[d]] /\ learned' = [d \in Callers |-> learned'[d]]
    BY DEF learned
  <2> QED
    BY <2>1, <2>2, OneChanges
<1>3. learned'[c] \in {Settled} \cup {Failed}
  <2>1. caller'[c] \in CallerState
    BY DEF SafetyInv, TypeOK
  <2> QED
    BY <2>1 DEF learned, CallerState
<1>4. awaiting' = [awaiting EXCEPT ![c] = IF st.await \in LoginIds THEN st.await ELSE NoLogin]
  <2>1. \A d \in Callers \ {c} : awaiting'[d] = awaiting[d]
    BY <1>1 DEF awaiting
  <2>2. awaiting'[c] = IF st.await \in LoginIds THEN st.await ELSE NoLogin
    BY <1>1 DEF awaiting
  <2>3. awaiting = [d \in Callers |-> awaiting[d]] /\ awaiting' = [d \in Callers |-> awaiting'[d]]
    BY DEF awaiting
  <2>4. awaiting' = [awaiting EXCEPT ![c] = awaiting'[c]]
    BY <2>1, <2>3, OneChanges
  <2> QED
    BY <2>2, <2>4
<1>5. awaiting[c] = NoLogin
  BY DEF awaiting
<1> QED
  BY <1>2, <1>3, <1>4, <1>5 DEF Shared!Waiting, Shared!Given

(* ... in which it awaits none either, while none starts or ends. *)
LEMMA OtherwiseShown ==
    ASSUME SafetyInv, SafetyInv', NEW c \in Callers, NEW st,
           caller[c].await \notin LoginIds, st.await \notin LoginIds,
           caller' = [caller EXCEPT ![c] = st], login' = login
    PROVE  Shared!Next
<1>1. /\ ~Shared!Waiting(c) /\ Shared!Given(c)
      /\ awaiting' = [awaiting EXCEPT ![c] = NoLogin]
  BY CallerShown
<1>2. awaiting' = awaiting
  BY <1>1 DEF awaiting
<1>3. loggingIn' = loggingIn
  BY DEF loggingIn, running
<1>4. Shared!Otherwise(c)
  BY <1>1, <1>2, <1>3 DEF Shared!Otherwise
<1> QED
  BY <1>4 DEF Shared!Next

LEMMA FinishShown ==
    ASSUME SafetyInv, SafetyInv', NEW c \in Callers,
           caller[c].await \notin LoginIds, finish(c), login' = login
    PROVE  Shared!Next
<1>1. Idle.await \notin LoginIds
  BY IdleOK
<1> QED
  BY <1>1, OtherwiseShown DEF finish

(* ensureSession: the caller boards the login that runs, starts one where   *)
(* none does, or has its outcome at once.                                   *)
LEMMA EnsureSessionShown ==
    ASSUME SafetyInv, SafetyInv', NEW c \in Callers, NEW st \in CallerState, NEW force,
           caller[c].await \notin LoginIds, ensureSession(c, st, force)
    PROVE  Shared!Next
<1> DEFINE at(o) == [st EXCEPT !.await = o]
<1>1. \A o : at(o).await = o
  BY DEF CallerState
<1>2. \A o : await(c, st, o) <=> caller' = [caller EXCEPT ![c] = at(o)]
  BY DEF await
<1> HIDE DEF at
<1>3. ASSUME NEW o \in {Settled, Failed}, await(c, st, o), login' = login PROVE Shared!Next
  <2>1. at(o).await \notin LoginIds
    BY <1>1
  <2> QED
    BY <1>2, <1>3, <2>1, OtherwiseShown
<1>4. CASE joinLogin(c, st)
  <2>1. pending \in LoginIds /\ running(pending) /\ await(c, st, pending) /\ login' = login
    BY <1>4 DEF joinLogin, SafetyInv, TypeOK, LoginsCoalesced
  <2>2. /\ ~Shared!Waiting(c) /\ Shared!Given(c)
        /\ awaiting' = [awaiting EXCEPT ![c] = pending]
    BY <1>1, <1>2, <2>1, CallerShown
  <2>3. Shared!UnderWay(pending) /\ loggingIn' = loggingIn
    BY <2>1 DEF Shared!UnderWay, loggingIn, running
  <2>4. Shared!Join(c, pending)
    BY <2>2, <2>3 DEF Shared!Join, Shared!Boards
  <2> QED
    BY <2>1, <2>4 DEF Shared!Next
<1>5. CASE startLogin(c, st, force)
  <2>1. PICK id \in LoginIds :
          ~running(id) /\ login' = [login EXCEPT ![id].phase = "provider"] /\ await(c, st, id)
    BY <1>5 DEF startLogin
  <2>2. \A k \in LoginIds : ~running(k)
    BY <1>5 DEF startLogin, SafetyInv, LoginsCoalesced
  <2>3. /\ ~Shared!Waiting(c) /\ Shared!Given(c)
        /\ awaiting' = [awaiting EXCEPT ![c] = id]
    BY <1>1, <1>2, <2>1, CallerShown
  <2>4. ~Shared!UnderWay(id) /\ \A k \in LoginIds : loggingIn[k] # Settled
    BY <2>2 DEF Shared!UnderWay, loggingIn
  <2>5. loggingIn' = [loggingIn EXCEPT ![id] = Settled]
    <3>1. login'[id].phase = "provider" /\ \A k \in LoginIds \ {id} : login'[k] = login[k]
      BY <2>1 DEF SafetyInv, TypeOK
    <3> QED
      BY <2>1, <3>1 DEF loggingIn, running
  <2>6. Shared!Start(c, id, Settled)
    BY <2>3, <2>4, <2>5 DEF Shared!Start, Shared!Boards
  <2> QED
    BY <2>6 DEF Shared!Next
<1>6. CASE keepSession(c, st, force) \/ refusePinned(c, st, force)
  BY <1>3, <1>6 DEF keepSession, refusePinned
<1> QED
  BY <1>4, <1>5, <1>6 DEF ensureSession

LEMMA GetRequestConfigShown ==
    ASSUME SafetyInv, SafetyInv', NEW c \in Callers, NEW st \in CallerState,
           caller[c].await \notin LoginIds, getRequestConfig(c, st)
    PROVE  Shared!Next
<1> DEFINE cfg == [st EXCEPT !.pc = "config"]
<1>1. CASE ensureSession(c, cfg, FALSE)
  <2>1. cfg \in CallerState
    BY DEF CallerState
  <2> HIDE DEF cfg
  <2> QED
    BY <1>1, <2>1, EnsureSessionShown
<1>2. CASE finish(c) /\ login' = login
  BY <1>2, FinishShown
<1> QED
  BY <1>1, <1>2 DEF getRequestConfig

(* A caller between two awaits. *)
LEMMA StepShown ==
    ASSUME SafetyInv, SafetyInv', NEW c \in Callers,
           \/ \E r \in Requests : request(c, r)
           \/ getUserSession(c) \/ proceed(c) \/ answered(c)
    PROVE  Shared!Next
<1> DEFINE me == caller[c]
<1>1. me \in CallerState /\ me.pc \in {"idle", "sent"} => me.await = Settled
  BY DEF SafetyInv, TypeOK, CallerInv
<1>2. me \in CallerState
  BY DEF SafetyInv, TypeOK
<1>3. Settled \notin LoginIds /\ Failed \notin LoginIds
  OBVIOUS
<1>4. ASSUME NEW r \in Requests, request(c, r) PROVE Shared!Next
  <2> DEFINE st == [Idle EXCEPT !.req = r]
             lg == [Idle EXCEPT !.req = r, !.pc = "login"]
  <2>1. st \in CallerState /\ lg \in CallerState
    <3>1. r \in Request /\ Idle \in CallerState
      BY IdleOK
    <3> QED
      BY <3>1 DEF CallerState
  <2>2. caller[c].await \notin LoginIds /\ (getRequestConfig(c, st) \/ ensureSession(c, lg, TRUE))
    BY <1>1, <1>2, <1>3, <1>4 DEF request
  <2> HIDE DEF st, lg
  <2> QED
    BY <2>1, <2>2, GetRequestConfigShown, EnsureSessionShown
<1>5. CASE getUserSession(c)
  <2> DEFINE st == [Idle EXCEPT !.pc = "session"]
  <2>1. st \in CallerState
    BY IdleOK DEF CallerState
  <2>2. caller[c].await \notin LoginIds /\ ensureSession(c, st, FALSE)
    BY <1>1, <1>2, <1>3, <1>5 DEF getUserSession
  <2> HIDE DEF st
  <2> QED
    BY <2>1, <2>2, EnsureSessionShown
<1>6. CASE sessionReady(c)
  BY <1>2, <1>3, <1>6, GetRequestConfigShown DEF sessionReady
<1>7. CASE sessionReturned(c) \/ loginRejected(c) \/ failed(c) \/ succeeded(c)
  <2>1. finish(c) /\ login' = login /\ me.await \notin LoginIds
    BY <1>1, <1>2, <1>3, <1>7 DEF sessionReturned, loginRejected, failed, succeeded
  <2> QED
    BY <2>1, FinishShown
<1>8. CASE makeRequest(c)
  <2>1. me.await = Settled /\ login' = login
    BY <1>8 DEF makeRequest
  <2>2. CASE matchesBoundInstance
    <3> DEFINE st == [me EXCEPT !.pc = "sent", !.sentOn = hSession,
                                !.sentFor = hOwner, !.sends = me.sends + 1]
    <3>1. caller' = [caller EXCEPT ![c] = st]
      BY <1>8, <2>2 DEF makeRequest
    <3>2. st.await = Settled
      BY <1>2, <2>1 DEF CallerState
    <3> HIDE DEF st
    <3> QED
      BY <1>3, <2>1, <3>1, <3>2, OtherwiseShown
  <2>3. CASE ~matchesBoundInstance
    BY <1>3, <1>8, <2>1, <2>3, FinishShown DEF makeRequest
  <2> QED
    BY <2>2, <2>3
<1>9. CASE unauthorized(c)
  <2> DEFINE st == [me EXCEPT !.pc = "renew", !.retried = TRUE, !.refused = me.sentOn]
  <2>1. me.pc = "sent" /\ me.await \notin LoginIds
    BY <1>1, <1>2, <1>3, <1>9 DEF unauthorized
  <2>2. CASE ensureSession(c, st, TRUE)
    <3>1. st \in CallerState
      BY <1>2 DEF CallerState
    <3> HIDE DEF st
    <3> QED
      BY <2>1, <2>2, <3>1, EnsureSessionShown
  <2>3. CASE finish(c) /\ login' = login
    BY <2>1, <2>3, FinishShown
  <2> QED
    BY <1>9, <2>2, <2>3 DEF unauthorized
<1> QED
  BY <1>4, <1>5, <1>6, <1>7, <1>8, <1>9 DEF proceed, answered

(* Everyone who awaits a login that ends is released with its outcome. *)
LEMMA ReleaseShown ==
    ASSUME SafetyInv, NEW id \in LoginIds, running(id),
           NEW outcome \in {Settled, Failed}, release(id, outcome)
    PROVE  Shared!Next
<1>1. loggingIn[id] = Settled
  BY DEF loggingIn
<1>2. loggingIn' = [loggingIn EXCEPT ![id] = Failed]
  <2>1. login'[id].phase = "none" /\ \A k \in LoginIds \ {id} : login'[k] = login[k]
    BY DEF release, NotRunning, SafetyInv, TypeOK
  <2> QED
    BY <2>1 DEF loggingIn, running
<1>3. \A c \in Callers : awaiting[c] = id <=> caller[c].await = id
  BY DEF awaiting
<1>4. \A c \in Callers : IF awaiting[c] = id THEN caller'[c].await = outcome
                          ELSE caller'[c] = caller[c]
  <2>1. \A c \in Callers : caller[c] \in CallerState
    BY DEF SafetyInv, TypeOK
  <2> QED
    BY <1>3, <2>1 DEF release, CallerState
<1>5. awaiting' = [c \in Callers |-> IF awaiting[c] = id THEN NoLogin ELSE awaiting[c]]
  BY <1>4 DEF awaiting
<1>6. learned' = [c \in Callers |-> IF awaiting[c] = id THEN outcome ELSE learned[c]]
  BY <1>4 DEF learned
<1>7. Shared!Land(id, outcome)
  BY <1>1, <1>2, <1>5, <1>6 DEF Shared!Land, Shared!UnderWay
<1> QED
  BY <1>1, <1>7 DEF Shared!Next

LEMMA Unshown ==
    ASSUME caller' = caller, \A id \in LoginIds : running(id)' <=> running(id)
    PROVE  UNCHANGED Shared!vars
  BY DEF Shared!vars, loggingIn, awaiting, learned

(* NowSDKAuthenticationHandler.ts shares its logins: every step of the      *)
(* authentication core is one of SharedFlights or none of its business, for *)
(* any number of callers and logins.                                        *)
THEOREM LoginsShared == Spec => SharesLogins
<1>1. Init => Shared!Init
  <2> SUFFICES ASSUME Init PROVE Shared!Init
    OBVIOUS
  <2>1. loggingIn = [id \in LoginIds |-> Failed]
    BY DEF Init, loggingIn, running, NotRunning
  <2>2. \A c \in Callers : caller[c].await = Settled
    BY IdleOK DEF Init
  <2>3. awaiting = [c \in Callers |-> NoLogin] /\ learned \in [Callers -> {Settled} \cup {Failed}]
    BY <2>2 DEF awaiting, learned
  <2> QED
    BY <2>1, <2>3 DEF Shared!Init
<1>2. SafetyInv /\ SafetyInv' /\ [Next]_vars => [Shared!Next]_(Shared!vars)
  <2> SUFFICES ASSUME SafetyInv, SafetyInv', [Next]_vars
               PROVE  Shared!Next \/ UNCHANGED Shared!vars
    OBVIOUS
  <2>1. ASSUME NEW id \in LoginIds, loginFails(id) PROVE Shared!Next
    BY <2>1, ReleaseShown DEF loginFails
  <2>2. ASSUME NEW id \in LoginIds, sessionEstablished(id) PROVE Shared!Next
    BY <2>2, ReleaseShown DEF sessionEstablished, running
  <2>3. ASSUME NEW id \in LoginIds, NEW o \in Origins, NEW l \in Life, credentialsArrive(id, o, l)
        PROVE  Shared!Next \/ UNCHANGED Shared!vars
    <3>1. CASE loginFails(id)
      BY <2>1, <3>1
    <3>2. CASE /\ login' = [login EXCEPT ![id] = [phase |-> "getUserSession", life |-> l, origin |-> o]]
               /\ caller' = caller
      <4>1. \A k \in LoginIds : running(k)' <=> running(k)
        BY <2>3, <3>2 DEF credentialsArrive, running, SafetyInv, TypeOK
      <4> QED
        BY <3>2, <4>1, Unshown
    <3> QED
      BY <2>3, <3>1, <3>2 DEF credentialsArrive
  <2>4. ASSUME NEW id \in LoginIds, loginAges(id) PROVE UNCHANGED Shared!vars
    <3>1. \A k \in LoginIds : login'[k].phase = login[k].phase
      BY <2>4 DEF loginAges, SafetyInv, TypeOK
    <3> QED
      BY <2>4, <3>1, Unshown DEF loginAges, running
  <2>5. ASSUME NEW c \in Callers,
               \/ \E r \in Requests : request(c, r)
               \/ getUserSession(c) \/ proceed(c) \/ answered(c)
        PROVE  Shared!Next
    BY <2>5, StepShown
  <2>6. CASE \/ credentialsAge
             \/ \E owner \in EmbedderOwners : setSession(owner)
             \/ UNCHANGED vars
    <3>1. caller' = caller /\ login' = login
      BY <2>6 DEF credentialsAge, setSession, vars
    <3> QED
      BY <3>1, Unshown DEF running
  <2> QED
    BY <2>1, <2>2, <2>3, <2>4, <2>5, <2>6 DEF Next, loginStep
<1> QED
  BY <1>1, <1>2, Safety, PTL DEF Spec, SharesLogins, Shared!Spec
================================================================================
