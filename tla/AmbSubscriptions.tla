--------------------------- MODULE AmbSubscriptions ---------------------------
(***************************************************************************)
(* The asynchronous message bus client: a ServerConnection over CometD,    *)
(* its channels with their listeners, and the SubscriptionCommandSender    *)
(* that sends subscribe and unsubscribe commands as the tokens of the      *)
(* TokenManagementExtension allow.                                         *)
(*                                                                         *)
(* An action is one turn of the event loop: a call of the embedder, a      *)
(* message from CometD, a timer.  CometD and the server are external: a    *)
(* message is sent by `subscribe` when the channel has no registration     *)
(* yet and by `unsubscribe` when its last one goes; it is answered,        *)
(* fails, or is lost; a handshake forgets every registration.  Not here:   *)
(* disconnect(), subscription callbacks and the redirect of listeners.     *)
(*                                                                         *)
(* Sources: src/src/sn/amb/Channel.ts, ServerConnection.ts,                *)
(* SubscriptionCommandSender.ts, TokenManagementExtension.ts,              *)
(* FunctionQueue.ts, ChannelRedirect.ts, AMBClient.ts.                     *)
(***************************************************************************)
EXTENDS Naturals, Sequences, FiniteSets, Functions, Bags

CONSTANTS
    Channels,       \* Channel objects, one per name, in the order of creation
    Meta,           \* the channel on which redirects are announced
    Listeners,      \* ChannelListener objects
    ChannelOf,      \* ChannelOf[l]: the channel of listener l
    MaxInflight,    \* bound: what the server sets subscribeCommandsFlow.maxInflight to
    Retries,        \* subscribeCommandsFlow.retries
    QueueSize,      \* capacity of the command queue
    Statuses,       \* session statuses the server reports
    Errors,         \* errors it reports, "none" for no error
    MaxHandshakes,  \* bound: handshakes
    MaxChanges,     \* bound: changes of the session's status after a handshake
    MaxCalls        \* bound: calls of subscribe and unsubscribe by the embedder

ASSUME AmbAssumption ==
    /\ Channels \in Seq(Range(Channels)) /\ Meta \in Range(Channels)
    /\ IsInjective(Channels)
    /\ ChannelOf \in [Listeners -> Range(Channels) \ {Meta}]
    /\ MaxInflight \in Nat \ {0}
    /\ Retries \in Nat /\ QueueSize \in Nat \ {0}
    /\ Statuses \subseteq {"session.logged.in", "session.logged.out", "session.invalidated"}
    /\ Errors \subseteq {"none", "402::Unknown client", "other"}
    /\ MaxHandshakes \in Nat /\ MaxChanges \in Nat /\ MaxCalls \in Nat

VARIABLES
    conn,       \* ServerConnection
    sender,     \* the number of its SubscriptionCommandSender, or NoSender
    flow,       \* what a command changes: queue, timer, tokens, messages, registrations
    retry,      \* retries waiting for their delay
    channel,    \* initialized and listed, per channel
    listeners,  \* listeners of each channel
    handshakes, changes, calls

vars == <<conn, sender, flow, retry, channel, listeners, handshakes, changes, calls>>

Channel == Range(Channels)
NoSender == 0
Sender == 1..MaxHandshakes
Tries == 1..(1 + Retries)

Command == [mode : {"subscribe", "unsubscribe"}, ch : Channel,
            tries : Tries, by : Sender \cup {NoSender}]

(* `exempt` marks that the tokens no longer bound what is in flight: they   *)
(* were refilled by the timer, a command went out without a sender, or flow *)
(* control was switched off under a sender.                                 *)
Init ==
    /\ conn = [initialized |-> FALSE, connected |-> FALSE, needToReestablishSession |-> FALSE,
               state |-> "closed", lastError |-> "none", setup |-> "none",
               sessionStatus |-> "session.invalidated", enable |-> FALSE,
               maxInflight |-> 1]
    /\ sender = NoSender
    /\ flow = [queue |-> << >>, timer |-> FALSE, tokens |-> 1, wire |-> EmptyBag,
               registered |-> [ch \in Channel |-> 0],
               subscription |-> [ch \in Channel |-> FALSE], exempt |-> FALSE]
    /\ retry = EmptyBag
    /\ channel = [ch \in Channel |-> [made |-> FALSE, initialized |-> FALSE, listed |-> FALSE]]
    /\ listeners = [ch \in Channel |-> {}]
    /\ handshakes = 0 /\ changes = 0 /\ calls = 0

--------------------------------------------------------------------------------
(* Commands, over the record f of `flow` *)

(* A message to the server: with flow control it takes a token. *)
send(f, m) ==
    [f EXCEPT !.wire = @ (+) SetToBag({m}),
              !.tokens = IF conn.enable /\ f.tokens > 0 THEN @ - 1 ELSE @,
              !.exempt = @ \/ (m.by = NoSender)]

_subscribeToCometD(f, m) ==
    LET g == [f EXCEPT !.registered[m.ch] = @ + 1, !.subscription[m.ch] = TRUE]
    IN  IF f.registered[m.ch] = 0 THEN send(g, m) ELSE g

(* (Of a subscription that CometD has forgotten, nothing is registered.)    *)
_unsubscribeFromCometD(f, m) ==
    IF ~f.subscription[m.ch] THEN f
    ELSE LET g == [f EXCEPT !.registered[m.ch] = IF @ > 0 THEN @ - 1 ELSE @,
                            !.subscription[m.ch] = FALSE]
         IN  IF f.registered[m.ch] <= 1 THEN send(g, m) ELSE g

runItem(f, m) ==
    IF m.mode = "subscribe" THEN _subscribeToCometD(f, m) ELSE _unsubscribeFromCometD(f, m)

(* The commands of s, one after the other. *)
runItems(f, s) ==
    LET ran[k \in 0..Len(s)] == IF k = 0 THEN f ELSE runItem(ran[k - 1], s[k])
    IN  ran[Len(s)]

(* Mutant: the timer is only started by the constructor. *)
processQueueUntimed(f) ==
    LET n == IF Len(f.queue) < f.tokens THEN Len(f.queue) ELSE f.tokens
    IN  runItems([f EXCEPT !.queue = SubSeq(@, n + 1, Len(@))], SubSeq(f.queue, 1, n))

(* Mutant: all that is queued goes out, as long as there is a token. *)
processQueueWhole(f) ==
    IF f.tokens = 0 \/ f.queue = << >> THEN f
    ELSE runItems([f EXCEPT !.queue = << >>, !.timer = TRUE], f.queue)

processQueue(f) ==
    LET n == IF Len(f.queue) < f.tokens THEN Len(f.queue) ELSE f.tokens
        g == [f EXCEPT !.queue = SubSeq(@, n + 1, Len(@)), !.timer = @ \/ (n > 0)]
    IN  runItems(g, SubSeq(f.queue, 1, n))

(* Mutant: a sender that has been stopped still takes commands. *)
enqueueStopped(f, m) ==
    IF m.tries > 0 /\ Len(f.queue) < QueueSize
    THEN processQueue([f EXCEPT !.queue = Append(@, m)]) ELSE f

(* enqueueSubscribe, enqueueUnsubscribe and addItemToQueue: a stopped       *)
(* sender and a full queue drop the command.                                *)
enqueue(f, m) ==
    IF m.by = sender /\ sender # NoSender /\ Len(f.queue) < QueueSize
    THEN processQueue([f EXCEPT !.queue = Append(@, m)]) ELSE f

(* subscribeToCometD and resubscribeToCometD: through the sender, if any.   *)
subscribeToCometD(f, ch) ==
    LET m == [mode |-> "subscribe", ch |-> ch, tries |-> 1 + Retries, by |-> sender]
    IN  IF sender = NoSender THEN _subscribeToCometD(f, m) ELSE enqueue(f, m)

unsubscribeFromCometD(f, ch) ==
    LET m == [mode |-> "unsubscribe", ch |-> ch, tries |-> 1 + Retries, by |-> sender]
    IN  CASE ~f.subscription[ch] -> f
          [] f.subscription[ch] /\ sender = NoSender -> _unsubscribeFromCometD(f, m)
          [] OTHER -> enqueue(f, m)

(* All channels on the list, in the order of their creation. *)
forListed(f, mode) ==
    LET step(g, ch) == CASE ~channel[ch].listed -> g
                         [] channel[ch].listed /\ mode = "subscribe" -> subscribeToCometD(g, ch)
                         [] OTHER -> unsubscribeFromCometD(g, ch)
        done[k \in 0..Len(Channels)] ==
          IF k = 0 THEN f ELSE step(done[k - 1], Channels[k])
    IN  done[Len(Channels)]

_resubscribeAll(f) == forListed(f, "subscribe")

_unsubscribeAll(f) == forListed(f, "unsubscribe")

--------------------------------------------------------------------------------
(* Channels and listeners *)

(* A channel is asked for, with its first listener. *)
getChannel(ch) ==
    /\ ~channel[ch].made /\ ch # Meta
    /\ channel' = [channel EXCEPT ![ch] = [made |-> TRUE, initialized |-> conn.initialized,
                                           listed |-> TRUE]]
    /\ UNCHANGED <<conn, sender, flow, retry, listeners, handshakes, changes, calls>>

subscribe(l) ==
    LET ch == ChannelOf[l] IN
    /\ channel[ch].made /\ l \notin listeners[ch]
    /\ calls < MaxCalls /\ calls' = calls + 1
    /\ listeners' = [listeners EXCEPT ![ch] = @ \cup {l}]
    /\ flow' = IF ~flow.subscription[ch] /\ channel[ch].initialized
               THEN subscribeToCometD(flow, ch) ELSE flow
    /\ UNCHANGED <<conn, sender, retry, channel, handshakes, changes>>

(* AMBClient's unsubscribe takes a channel without listeners off the list.  *)
unsubscribe(l) ==
    LET ch == ChannelOf[l] IN
    /\ l \in listeners[ch]
    /\ calls < MaxCalls /\ calls' = calls + 1
    /\ listeners' = [listeners EXCEPT ![ch] = @ \ {l}]
    /\ IF listeners[ch] = {l}
       THEN /\ flow' = unsubscribeFromCometD(flow, ch)
            /\ channel' = [channel EXCEPT ![ch].listed = FALSE]
       ELSE UNCHANGED <<flow, channel>>
    /\ UNCHANGED <<conn, sender, retry, handshakes, changes>>

--------------------------------------------------------------------------------
(* Responses and timers *)

(* Mutant: an answer gives a token back, whether or not one is missing. *)
incomingUncapped(f) ==
    IF ~conn.enable THEN f
    ELSE LET g == [f EXCEPT !.tokens = @ + 1]
         IN  IF sender = NoSender THEN g ELSE processQueue(g)

(* incoming(): an answer gives its token back and the queue moves on. *)
incoming(f) ==
    IF ~conn.enable THEN f
    ELSE LET g == [f EXCEPT !.tokens = IF @ < conn.maxInflight THEN @ + 1 ELSE @]
         IN  IF sender = NoSender THEN g ELSE processQueue(g)

(* onResponse(): only subscribe commands of a sender have this callback.    *)
onResponse(f, m) ==
    IF m.mode = "subscribe" /\ m.by = sender /\ sender # NoSender
    THEN processQueue([f EXCEPT !.timer = @ /\ f.tokens < conn.maxInflight]) ELSE f

arrived(m) == [flow EXCEPT !.wire = @ (-) SetToBag({m})]

(* The server accepts a command, or rejects it; a rejection with status 429 *)
(* or 202 is tried again after a delay, while tries are left.               *)
answered(m, retriable) ==
    /\ BagIn(m, flow.wire)
    /\ flow' = onResponse(incoming(arrived(m)), m)
    /\ retry' = IF retriable /\ m.mode = "subscribe" /\ m.by = sender /\ sender # NoSender /\ m.tries > 1
                THEN retry (+) SetToBag({[m EXCEPT !.tries = @ - 1]}) ELSE retry
    /\ UNCHANGED <<conn, sender, channel, listeners, handshakes, changes, calls>>

(* The transport reports that a command failed: no token comes back. *)
failed(m) ==
    /\ BagIn(m, flow.wire)
    /\ flow' = onResponse(arrived(m), m)
    /\ UNCHANGED <<conn, sender, retry, channel, listeners, handshakes, changes, calls>>

lost(m) ==
    /\ BagIn(m, flow.wire)
    /\ flow' = arrived(m)
    /\ UNCHANGED <<conn, sender, retry, channel, listeners, handshakes, changes, calls>>

(* A retry's delay is over; the sender it belongs to may be stopped by now. *)
retryDue(m) ==
    /\ BagIn(m, retry)
    /\ retry' = retry (-) SetToBag({m})
    /\ flow' = enqueue(flow, m)
    /\ UNCHANGED <<conn, sender, channel, listeners, handshakes, changes, calls>>

(* maxWait is over: all tokens are back, whatever is still in flight.       *)
onTimer ==
    /\ flow.timer
    /\ flow' = processQueue([flow EXCEPT !.timer = FALSE, !.tokens = conn.maxInflight,
                                        !.exempt = TRUE])
    /\ UNCHANGED <<conn, sender, retry, channel, listeners, handshakes, changes, calls>>

--------------------------------------------------------------------------------
(* The connection *)

(* A stopped sender forgets its timer and its queue. *)
stopped(f) == [f EXCEPT !.queue = << >>, !.timer = FALSE]

(* CometD's side of a handshake: registrations and messages are gone. *)
fresh(f) == [f EXCEPT !.wire = EmptyBag, !.registered = [ch \in Channel |-> 0]]

(* A handshake is answered.  The answer may switch flow control on, with a  *)
(* limit: then there is a new sender, and the tokens are set; or off: the   *)
(* sender there is stays, and tokens are no longer taken.  The connection   *)
(* is initialized in a timer of 0 ms, which is due before the next answer.  *)
_metaHandshake(status, announced, limit) ==
    /\ handshakes < MaxHandshakes /\ ~conn.connected
    /\ handshakes' = handshakes + 1
    /\ announced # "on" => limit = conn.maxInflight
    /\ conn' = [conn EXCEPT !.initialized = TRUE, !.state = "initialized",
                            !.sessionStatus = status, !.maxInflight = limit,
                            !.enable = IF announced = "nothing" THEN @ ELSE announced = "on"]
    /\ CASE announced = "on" ->
              /\ sender' = handshakes + 1
              /\ flow' = [stopped(fresh(flow)) EXCEPT !.tokens = limit, !.exempt = FALSE]
         [] announced = "off" ->
              /\ flow' = [fresh(flow) EXCEPT !.exempt = TRUE]
              /\ UNCHANGED sender
         [] OTHER ->
              /\ flow' = fresh(flow)
              /\ UNCHANGED sender
    /\ UNCHANGED <<retry, channel, listeners, changes, calls>>

(* What a change of the session's status does to the channels: logging in   *)
(* or re-establishing subscribes all, logging out or invalidation none.     *)
_processSessionStatus(f, status) ==
    LET was == conn.sessionStatus IN
    CASE status = was -> f
      [] status = "session.logged.in" /\ was # status -> _resubscribeAll(f)
      [] was = "session.invalidated" /\ status = "session.logged.out" -> _resubscribeAll(f)
      [] OTHER -> _unsubscribeAll(f)

(* _connectionOpened, the first time: the redirect channel is made, which   *)
(* subscribes it, and then every listed channel is subscribed, it again.    *)
_connectionOpened(f) ==
    /\ channel' = [channel EXCEPT ![Meta] = [made |-> TRUE, initialized |-> TRUE,
                                             listed |-> TRUE]]
    /\ flow' = subscribeToCometD(_resubscribeAll(subscribeToCometD(f, Meta)), Meta)
    /\ UNCHANGED <<sender, listeners>>

_connectionBroken(f) ==
    /\ sender' = NoSender
    /\ flow' = IF sender = NoSender THEN f ELSE stopped(f)
    /\ UNCHANGED <<channel, listeners>>

(* _setupSession asks for the session only if the server forgot the client. *)
setupSession(error) == conn.needToReestablishSession /\ error = "402::Unknown client"

(* XMLHttpRequest.send, with the options the request was made with: the     *)
(* cookies come from a store among them, and without one the call throws.   *)
sent(options) == IF options \cap {"cookies", "globalCookies"} = {} THEN "thrown" ELSE "sent"

(* _buildSetUpSessionRequest makes the request without options. *)
_sendRequestToSetUpGlideSession == sent({})

(* An answer to /meta/connect.  An error thrown by the set-up request ends  *)
(* the handler, which has nothing left to do.                               *)
_metaConnect(successful, error, status) ==
    LET seen == IF error = "none" THEN conn.lastError ELSE error
        f == _processSessionStatus(flow, status)
        opening == successful /\ ~conn.connected
        breaking == ~successful /\ conn.connected
        asking == opening /\ setupSession(seen)
    IN
    /\ conn.initialized
    /\ changes' = IF status = conn.sessionStatus THEN changes ELSE changes + 1
    /\ changes' <= MaxChanges
    /\ conn' = [conn EXCEPT
         !.sessionStatus = status,
         !.connected = successful,
         !.lastError = IF asking THEN "none" ELSE seen,
         !.setup = IF asking THEN _sendRequestToSetUpGlideSession ELSE @,
         !.needToReestablishSession = @ \/ breaking,
         !.state = CASE breaking -> "broken"
                     [] opening /\ ~conn.needToReestablishSession -> "opened"
                     [] OTHER -> @]
    /\ CASE breaking -> _connectionBroken(f)
         [] opening /\ ~conn.needToReestablishSession -> _connectionOpened(f)
         [] OTHER -> flow' = f /\ UNCHANGED <<sender, channel, listeners>>
    /\ UNCHANGED <<retry, handshakes, calls>>

--------------------------------------------------------------------------------
Next ==
    \/ \E ch \in Channel : getChannel(ch)
    \/ \E l \in Listeners : subscribe(l) \/ unsubscribe(l)
    \/ \E m \in BagToSet(flow.wire) :
         answered(m, TRUE) \/ answered(m, FALSE) \/ failed(m) \/ lost(m)
    \/ \E m \in BagToSet(retry) : retryDue(m)
    \/ onTimer
    \/ \E status \in Statuses, announced \in {"nothing", "off", "on"}, limit \in 1..MaxInflight :
         _metaHandshake(status, announced, limit)
    \/ \E successful \in BOOLEAN, error \in Errors, status \in Statuses :
         /\ successful => error = "none"
         /\ _metaConnect(successful, error, status)

Spec == Init /\ [][Next]_vars

(* Node runs a timer that is due; nothing else has to happen: no answer, no *)
(* call and no reconnection is guaranteed.                                  *)
FairSpec == Spec /\ WF_vars(onTimer)

--------------------------------------------------------------------------------
TypeOK ==
    /\ conn \in [initialized : BOOLEAN, connected : BOOLEAN, needToReestablishSession : BOOLEAN,
                 state : {"closed", "initialized", "opened", "broken"},
                 lastError : Errors \cup {"none"},
                 setup : {"none", "sent", "thrown"},
                 sessionStatus : Statuses \cup {"session.invalidated"}, enable : BOOLEAN,
                 maxInflight : 1..MaxInflight]
    /\ sender \in 0..handshakes
    /\ flow.queue \in Seq(Command) /\ Len(flow.queue) <= QueueSize
    /\ flow.timer \in BOOLEAN /\ flow.exempt \in BOOLEAN
    /\ flow.tokens \in 0..MaxInflight
    /\ IsABag(flow.wire) /\ BagToSet(flow.wire) \subseteq Command
    /\ flow.registered \in [Channel -> Nat] /\ flow.subscription \in [Channel -> BOOLEAN]
    /\ IsABag(retry) /\ BagToSet(retry) \subseteq Command
    /\ channel \in [Channel -> [made : BOOLEAN, initialized : BOOLEAN, listed : BOOLEAN]]
    /\ listeners \in [Channel -> SUBSET Listeners]
    /\ handshakes \in 0..MaxHandshakes /\ changes \in 0..MaxChanges /\ calls \in 0..MaxCalls

(* What a bag holds, each copy by its number. *)
Copies(bag) == UNION {{<<m, i>> : i \in 1..bag[m]} : m \in BagToSet(bag)}

(* Since the handshake, and until the timer refills the tokens or a command *)
(* goes out without a sender, the commands in flight and the free tokens    *)
(* never exceed what the server allows: the tokens are given back by the    *)
(* extension and taken by it, the queue is emptied elsewhere, on calls,     *)
(* answers and timers (outgoing, incoming, processQueue).                   *)
FlowRespected ==
    sender # NoSender /\ ~flow.exempt =>
        Cardinality(Copies(flow.wire)) + flow.tokens <= conn.maxInflight

(* A sender that was stopped, because the connection broke or another       *)
(* handshake replaced it, sends nothing any more, although its retries and  *)
(* the answers to its commands still come (signalStop).                     *)
StoppedSenderSilent ==
    [][\A p \in Copies(flow'.wire) \ Copies(flow.wire) : p[1].by = sender]_vars

(* Whatever is queued is sent or dropped in the end, although answers are   *)
(* lost: tokens that do not come back are replaced by the timer.            *)
QueueDrains == flow.queue # << >> ~> flow.queue = << >>

(* Channel.ts on unsubscribe(): when the last listener is removed, the      *)
(* subscription is destroyed; here, once no command is queued or in flight. *)
LastListenerUnsubscribes ==
    flow.queue = << >> /\ flow.wire = EmptyBag /\ retry = EmptyBag =>
        \A ch \in Channel \ {Meta} :
            channel[ch].made /\ ~channel[ch].listed /\ listeners[ch] = {} => flow.registered[ch] = 0

(* ServerConnection_IT.test.ts: a recovered connection re-establishes the   *)
(* session.  It asks for that once it is connected again and the server had *)
(* forgotten it; then the request to set the session up has been sent, or   *)
(* the session is re-established already.                                   *)
RecoveredConnectionReestablishes ==
    conn.connected /\ conn.setup # "none" => conn.setup = "sent" \/ ~conn.needToReestablishSession
================================================================================
