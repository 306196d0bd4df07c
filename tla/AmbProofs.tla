-------------------------------- MODULE AmbProofs --------------------------------
(***************************************************************************)
(* The safety properties of AmbSubscriptions for any channels, listeners   *)
(* and limits: its types, that the commands in flight and the free tokens  *)
(* stay within what the server allows, and that a sender that was stopped  *)
(* sends nothing any more.                                                 *)
(*                                                                         *)
(* Everything the client does is a sequence of commands that are queued or *)
(* sent, and Reached(f) is what such a sequence can make of the record f:  *)
(* the queue holds commands of the present sender only, what is sent is    *)
(* sent by it, and takes a token for as long as the tokens count.          *)
(***************************************************************************)
EXTENDS AmbSubscriptions, LeastElements, FiniteSetTheorems, SequenceTheorems

Bag == UNION {[D -> Nat \ {0}] : D \in SUBSET Command}

Flow == [queue : Seq(Command), timer : BOOLEAN, tokens : 0..MaxInflight, wire : Bag,
         registered : [Channel -> Nat], subscription : [Channel -> BOOLEAN], exempt : BOOLEAN]

Limited == conn.maxInflight \in 1..MaxInflight

(* FlowRespected, of the record f; the tokens only count under flow control. *)
Room(f) ==
    \/ f.exempt
    \/ /\ conn.enable /\ Limited /\ IsFiniteSet(Copies(f.wire))
       /\ Cardinality(Copies(f.wire)) + f.tokens <= conn.maxInflight

(* Queue and timer are the present sender's. *)
Owned(f) ==
    /\ \A i \in 1..Len(f.queue) : f.queue[i].by = sender
    /\ sender = NoSender => f.queue = << >> /\ ~f.timer

Sound == {f \in Flow : Len(f.queue) <= QueueSize /\ Owned(f) /\ (sender # NoSender => Room(f))}

(* What is in flight in g and was not in f is the present sender's. *)
Sent(f, g) == \A p \in Copies(g.wire) \ Copies(f.wire) : p[1].by = sender

Reached(f) == {g \in Sound : Sent(f, g)}

Connection == [initialized : BOOLEAN, connected : BOOLEAN, needToReestablishSession : BOOLEAN,
               state : {"closed", "initialized", "opened", "broken"},
               lastError : Errors \cup {"none"}, setup : {"none", "sent", "thrown"},
               sessionStatus : Statuses \cup {"session.invalidated"}, enable : BOOLEAN,
               maxInflight : 1..MaxInflight]

ConnectionInv ==
    /\ conn \in Connection
    /\ sender \in 0..handshakes /\ handshakes \in 0..MaxHandshakes

AmbInv ==
    /\ ConnectionInv
    /\ flow \in Sound
    /\ retry \in Bag
    /\ channel \in [Channel -> [made : BOOLEAN, initialized : BOOLEAN, listed : BOOLEAN]]
    /\ listeners \in [Channel -> SUBSET Listeners]
    /\ changes \in 0..MaxChanges /\ calls \in 0..MaxCalls

--------------------------------------------------------------------------------
(* Bags *)

LEMMA BagIs ==
    ASSUME NEW b \in Bag
    PROVE  /\ DOMAIN b \subseteq Command
           /\ \A m \in DOMAIN b : b[m] \in Nat \ {0}
  BY DEF Bag

LEMMA IsBag ==
    ASSUME NEW b, b = [m \in DOMAIN b |-> b[m]], DOMAIN b \subseteq Command, \A m \in DOMAIN b : b[m] \in Nat \ {0}
    PROVE  b \in Bag
<1>1. b \in [DOMAIN b -> Nat \ {0}]
  OBVIOUS
<1> QED
  BY <1>1 DEF Bag

LEMMA CopiesOf ==
    ASSUME NEW b, NEW p
    PROVE  p \in Copies(b) <=> \E m \in DOMAIN b : \E i \in 1..b[m] : p = <<m, i>>
  BY DEF Copies, BagToSet

LEMMA NoCopies == EmptyBag \in Bag /\ Copies(EmptyBag) = {} /\ DOMAIN EmptyBag = {}
<1>1. DOMAIN EmptyBag = {} /\ EmptyBag = [m \in {} |-> 1]
  BY DEF EmptyBag, SetToBag
<1>2. EmptyBag \in Bag
  <2>1. EmptyBag \in [{} -> Nat \ {0}]
    BY <1>1
  <2> QED
    BY <2>1 DEF Bag
<1> QED
  BY <1>1, <1>2 DEF Copies, BagToSet

(* One more of m. *)
LEMMA Added ==
    ASSUME NEW b \in Bag, NEW m \in Command
    PROVE  LET c == b (+) SetToBag({m})
           IN  /\ c \in Bag
               /\ \E i \in Nat : <<m, i>> \notin Copies(b) /\ Copies(c) = Copies(b) \cup {<<m, i>>}
<1> DEFINE c == b (+) SetToBag({m})
           n == IF m \in DOMAIN b THEN b[m] ELSE 0
<1>1. /\ c = [e \in DOMAIN b \cup {m} |-> (IF e \in DOMAIN b THEN b[e] ELSE 0) + (IF e \in {m} THEN 1 ELSE 0)]
  BY DEF (+), SetToBag
<1>2. DOMAIN b \subseteq Command /\ \A e \in DOMAIN b : b[e] \in Nat \ {0}
  BY BagIs
<1>3. n \in Nat
  BY <1>2
<1> HIDE DEF c
<1>4. DOMAIN c = DOMAIN b \cup {m} /\ c[m] = n + 1 /\ \A e \in DOMAIN b \ {m} : c[e] = b[e]
  <2>1. c[m] = n + 1
    BY <1>1
  <2>2. ASSUME NEW e \in DOMAIN b \ {m} PROVE c[e] = b[e]
    BY <1>1, <1>2
  <2> QED
    BY <1>1, <2>1, <2>2
<1>5. c = [e \in DOMAIN c |-> c[e]]
  BY <1>1
<1>6. c \in Bag
  BY <1>2, <1>3, <1>4, <1>5, IsBag
<1>7. <<m, n + 1>> \notin Copies(b)
  BY <1>2, <1>3, CopiesOf
<1>8. \A p : p \in Copies(c) <=> p \in Copies(b) \cup {<<m, n + 1>>}
  <2> TAKE p
  <2>1. ASSUME NEW e \in DOMAIN c, NEW i \in 1..c[e], p = <<e, i>> PROVE p \in Copies(b) \cup {<<m, n + 1>>}
    <3>1. CASE e # m
      BY <1>4, <2>1, <3>1, CopiesOf
    <3>2. CASE e = m /\ i = n + 1
      BY <2>1, <3>2
    <3>3. CASE e = m /\ i # n + 1
      <4>1. i \in 1..n /\ m \in DOMAIN b /\ n = b[m]
        BY <1>3, <1>4, <3>3
      <4> QED
        BY <2>1, <3>3, <4>1, CopiesOf
    <3> QED
      BY <3>1, <3>2, <3>3
  <2>2. ASSUME NEW e \in DOMAIN b, NEW i \in 1..b[e], p = <<e, i>> PROVE p \in Copies(c)
    <3>1. e \in DOMAIN c /\ i \in 1..c[e]
      BY <1>2, <1>3, <1>4
    <3> QED
      BY <2>2, <3>1, CopiesOf
  <2>3. ASSUME p = <<m, n + 1>> PROVE p \in Copies(c)
    BY <1>3, <1>4, <2>3, CopiesOf
  <2> QED
    BY <2>1, <2>2, <2>3, CopiesOf
<1>9. Copies(c) = Copies(b) \cup {<<m, n + 1>>} /\ n + 1 \in Nat
  BY <1>3, <1>8
<1> QED
  BY <1>6, <1>7, <1>9 DEF c

(* One less of m. *)
LEMMA Removed ==
    ASSUME NEW b \in Bag, NEW m \in DOMAIN b
    PROVE  LET c == b (-) SetToBag({m})
           IN  /\ c \in Bag
               /\ \E i \in Nat : <<m, i>> \in Copies(b) /\ Copies(c) = Copies(b) \ {<<m, i>>}
<1> DEFINE c == b (-) SetToBag({m})
           d == [e \in DOMAIN b |-> IF e \in {m} THEN b[e] - 1 ELSE b[e]]
<1>1. DOMAIN SetToBag({m}) = {m} /\ SetToBag({m})[m] = 1
  BY DEF SetToBag
<1>2. [e \in DOMAIN b |-> IF e \in DOMAIN SetToBag({m}) THEN b[e] - SetToBag({m})[e] ELSE b[e]] = d
  BY <1>1
<1>3. c = [e \in {x \in DOMAIN d : d[x] > 0} |-> d[e]]
  BY <1>2 DEF (-)
<1>4. DOMAIN b \subseteq Command /\ \A e \in DOMAIN b : b[e] \in Nat \ {0}
  BY BagIs
<1>5. \A e \in DOMAIN b : d[e] = (IF e = m THEN b[m] - 1 ELSE b[e]) /\ d[e] \in Nat
  BY <1>4
<1>6. DOMAIN d = DOMAIN b
  OBVIOUS
<1> HIDE DEF d
<1>7. /\ DOMAIN c = {x \in DOMAIN b : d[x] > 0} /\ \A e \in DOMAIN c : c[e] = d[e]
      /\ c = [e \in DOMAIN c |-> c[e]]
  BY <1>3, <1>6
<1> HIDE DEF c
<1>8. c \in Bag
  <2>1. DOMAIN c \subseteq Command /\ \A e \in DOMAIN c : c[e] \in Nat \ {0}
    BY <1>4, <1>5, <1>7
  <2> QED
    BY <1>7, <2>1, IsBag
<1> DEFINE n == b[m]
<1>9. n \in Nat \ {0} /\ <<m, n>> \in Copies(b)
  BY <1>4, CopiesOf
<1>10. \A p : p \in Copies(c) <=> p \in Copies(b) \ {<<m, n>>}
  <2> TAKE p
  <2>1. ASSUME NEW e \in DOMAIN c, NEW i \in 1..c[e], p = <<e, i>> PROVE p \in Copies(b) \ {<<m, n>>}
    <3>1. e \in DOMAIN b /\ i \in 1..b[e] /\ (e = m => i # n)
      BY <1>4, <1>5, <1>7
    <3> QED
      BY <2>1, <3>1, CopiesOf
  <2>2. ASSUME NEW e \in DOMAIN b, NEW i \in 1..b[e], p = <<e, i>>, p # <<m, n>> PROVE p \in Copies(c)
    <3>1. e \in DOMAIN c /\ i \in 1..c[e]
      BY <1>4, <1>5, <1>7, <2>2
    <3> QED
      BY <2>2, <3>1, CopiesOf
  <2> QED
    BY <2>1, <2>2, CopiesOf
<1>11. Copies(c) = Copies(b) \ {<<m, n>>}
  BY <1>10
<1> QED
  BY <1>8, <1>9, <1>11 DEF c

--------------------------------------------------------------------------------
(* Commands *)

LEMMA Constants ==
    /\ MaxInflight \in Nat \ {0} /\ Retries \in Nat /\ QueueSize \in Nat \ {0}
    /\ Channels \in Seq(Channel) /\ Meta \in Channel
    /\ MaxHandshakes \in Nat /\ MaxChanges \in Nat /\ MaxCalls \in Nat
  BY AmbAssumption DEF Channel

(* What running one command of the sender, or without one, makes of f. *)
Ran(f, g) ==
    /\ g \in Flow /\ Sent(f, g)
    /\ g.queue = f.queue /\ g.timer = f.timer
    /\ g.tokens \in {f.tokens, f.tokens - 1}
    /\ sender # NoSender /\ f.tokens > 0 /\ Room(f) => Room(g)

LEMMA SendRuns ==
    ASSUME NEW f \in Flow, NEW m \in Command, m.by = sender
    PROVE  Ran(f, send(f, m))
<1> DEFINE c == f.wire (+) SetToBag({m})
           g == send(f, m)
           n == IF conn.enable /\ f.tokens > 0 THEN f.tokens - 1 ELSE f.tokens
<1>1. c \in Bag /\ \E i \in Nat : <<m, i>> \notin Copies(f.wire) /\ Copies(c) = Copies(f.wire) \cup {<<m, i>>}
  <2>1. f.wire \in Bag
    BY DEF Flow
  <2> QED
    BY <2>1, Added
<1>2. n \in 0..MaxInflight /\ n \in {f.tokens, f.tokens - 1} /\ f.tokens \in 0..MaxInflight
  <2>1. f.tokens \in 0..MaxInflight
    BY DEF Flow
  <2> QED
    BY <2>1, Constants
<1>3. g = [f EXCEPT !.wire = c, !.tokens = n, !.exempt = @ \/ (m.by = NoSender)]
  BY DEF send
<1> HIDE DEF c, n
<1>4. (f.exempt \/ (m.by = NoSender)) \in BOOLEAN
  BY DEF Flow
<1>5. /\ g \in Flow /\ g.queue = f.queue /\ g.timer = f.timer /\ g.tokens = n /\ g.wire = c
      /\ g.exempt = (f.exempt \/ (m.by = NoSender))
  BY <1>1, <1>2, <1>3, <1>4 DEF Flow
<1> HIDE DEF g
<1>6. Sent(f, g)
  BY <1>1, <1>5 DEF Sent
<1>7. ASSUME sender # NoSender, f.tokens > 0, Room(f) PROVE Room(g)
  <2>1. PICK i : <<m, i>> \notin Copies(f.wire) /\ Copies(g.wire) = Copies(f.wire) \cup {<<m, i>>}
    BY <1>1, <1>5
  <2>3. CASE f.exempt
    BY <1>5, <2>3 DEF Room
  <2>4. CASE ~f.exempt
    <3>1. IsFiniteSet(Copies(f.wire)) /\ Cardinality(Copies(f.wire)) + f.tokens <= conn.maxInflight
          /\ conn.enable /\ Limited /\ conn.maxInflight \in Nat
      BY <1>7, <2>4, Constants DEF Room, Limited
    <3>2. /\ IsFiniteSet(Copies(g.wire)) /\ Cardinality(Copies(g.wire)) = Cardinality(Copies(f.wire)) + 1
          /\ Cardinality(Copies(f.wire)) \in Nat
      BY <2>1, <3>1, FS_AddElement, FS_CardinalityType
    <3>3. n = f.tokens - 1
      BY <1>7, <3>1 DEF n
    <3>4. Cardinality(Copies(g.wire)) + g.tokens <= conn.maxInflight
      BY <1>2, <1>5, <3>1, <3>2, <3>3, Constants
    <3> QED
      BY <3>1, <3>2, <3>4 DEF Room
  <2> QED
    BY <2>3, <2>4
<1> QED
  BY <1>2, <1>5, <1>6, <1>7 DEF g, Ran

(* A command that changes registrations only, and may then send. *)
LEMMA RegisteredRuns ==
    ASSUME NEW f \in Flow, NEW m \in Command, m.by = sender, NEW n \in Nat, NEW b \in BOOLEAN, NEW g,
           g = [f EXCEPT !.registered[m.ch] = n, !.subscription[m.ch] = b]
    PROVE  Ran(f, g) /\ Ran(f, send(g, m))
<1>1. m.ch \in Channel
  BY DEF Command
<1>2. /\ g \in Flow /\ g.queue = f.queue /\ g.timer = f.timer /\ g.tokens = f.tokens /\ g.wire = f.wire
      /\ g.exempt = f.exempt
  BY <1>1 DEF Flow
<1>3. Ran(f, g)
  BY <1>2 DEF Ran, Sent, Room
<1>4. Ran(g, send(g, m))
  BY <1>2, SendRuns
<1>5. Ran(f, send(g, m))
  BY <1>2, <1>4 DEF Ran, Sent, Room
<1> QED
  BY <1>3, <1>5

LEMMA ItemRuns ==
    ASSUME NEW f \in Flow, NEW m \in Command, m.by = sender
    PROVE  Ran(f, _subscribeToCometD(f, m)) /\ Ran(f, _unsubscribeFromCometD(f, m)) /\ Ran(f, runItem(f, m))
<1>1. m.ch \in Channel /\ f.registered[m.ch] \in Nat
  BY DEF Command, Flow
<1>2. Ran(f, f)
  BY DEF Ran, Sent
<1>3. Ran(f, _subscribeToCometD(f, m))
  <2>1. PICK n \in Nat : n = f.registered[m.ch] + 1
    BY <1>1
  <2>2. PICK g : g = [f EXCEPT !.registered[m.ch] = n, !.subscription[m.ch] = TRUE]
    OBVIOUS
  <2>3. Ran(f, g) /\ Ran(f, send(g, m))
    BY <2>2, RegisteredRuns
  <2>4. g = [f EXCEPT !.registered[m.ch] = @ + 1, !.subscription[m.ch] = TRUE]
    BY <2>1, <2>2
  <2> QED
    BY <2>3, <2>4 DEF _subscribeToCometD
<1>4. Ran(f, _unsubscribeFromCometD(f, m))
  <2>1. PICK n \in Nat : n = IF f.registered[m.ch] > 0 THEN f.registered[m.ch] - 1 ELSE f.registered[m.ch]
    BY <1>1
  <2>2. PICK g : g = [f EXCEPT !.registered[m.ch] = n, !.subscription[m.ch] = FALSE]
    OBVIOUS
  <2>3. Ran(f, g) /\ Ran(f, send(g, m))
    BY <2>2, RegisteredRuns
  <2>4. g = [f EXCEPT !.registered[m.ch] = IF @ > 0 THEN @ - 1 ELSE @, !.subscription[m.ch] = FALSE]
    BY <2>1, <2>2
  <2> QED
    BY <1>2, <2>3, <2>4 DEF _unsubscribeFromCometD
<1> QED
  BY <1>3, <1>4 DEF runItem

(* What holds of f and is kept by each item holds when all have been run.   *)
LEMMA ItemsRun ==
    ASSUME NEW f, NEW s \in Seq(Command), NEW R, f \in R[0],
           \A k \in 1..Len(s) : \A g \in R[k - 1] : runItem(g, s[k]) \in R[k]
    PROVE  runItems(f, s) \in R[Len(s)]
<1> DEFINE G == [k \in 1..Len(s) |-> [g \in R[k - 1] |-> runItem(g, s[k])]]
           Runs(h) == [k \in 0..Len(s) |-> IF k = 0 THEN f ELSE runItem(h[k - 1], s[k])]
           ran == CHOOSE h : h = [k \in 0..Len(s) |-> IF k = 0 THEN f ELSE runItem(h[k - 1], s[k])]
<1>1. Len(s) \in Nat
  OBVIOUS
<1>2. \A k \in 1..Len(s) : \A g \in R[k - 1] : G[k][g] = runItem(g, s[k]) /\ G[k][g] \in R[k]
  OBVIOUS
<1> HIDE DEF G
<1>3. PICK h : /\ h = [k \in 0..Len(s) |-> IF k = 0 THEN f ELSE G[k][h[k - 1]]]
               /\ \A k \in 0..Len(s) : h[k] \in R[k]
  <2>1. PICK h : Unfolds(h, Len(s), f, G) /\ \A k \in 0..Len(s) : h[k] \in R[k]
    BY <1>1, <1>2, Unfolding
  <2> QED
    BY <2>1 DEF Unfolds
<1>4. \A k \in 0..Len(s) : h[k] = (IF k = 0 THEN f ELSE runItem(h[k - 1], s[k]))
  <2> TAKE k \in 0..Len(s)
  <2>1. k # 0 => k \in 1..Len(s) /\ k - 1 \in 0..Len(s)
    BY <1>1
  <2>2. h[k] = (IF k = 0 THEN f ELSE G[k][h[k - 1]])
    BY <1>3
  <2> QED
    BY <1>2, <1>3, <2>1, <2>2
<1>5. h = [k \in 0..Len(s) |-> IF k = 0 THEN f ELSE runItem(h[k - 1], s[k])]
  BY <1>3, <1>4
<1>6. ran = [k \in 0..Len(s) |-> IF k = 0 THEN f ELSE runItem(ran[k - 1], s[k])]
  BY <1>5, Zenon
<1>7. runItems(f, s) = ran[Len(s)]
  BY DEF runItems
<1> HIDE DEF ran
<1>8. ran[0] = f /\ \A k \in 1..Len(s) : ran[k] = runItem(ran[k - 1], s[k])
  BY <1>1, <1>6
<1>9. \A k \in 0..Len(s) : ran[k] \in R[k]
  <2>1. \A k \in 1..Len(s) : ran[k - 1] \in R[k - 1] => ran[k] \in R[k]
    BY <1>8
  <2> QED
    BY <1>1, <1>8, <2>1, Chained
<1> QED
  BY <1>1, <1>7, <1>9

LEMMA SentOn ==
    ASSUME NEW f, NEW g, NEW h, Sent(f, g), Sent(g, h)
    PROVE  Sent(f, h)
  BY DEF Sent

LEMMA Nothing ==
    ASSUME NEW f \in Sound
    PROVE  f \in Reached(f)
  BY DEF Reached, Sent

(* The record f with another queue and timer is as good as f. *)
LEMMA Requeued ==
    ASSUME NEW f \in Flow, NEW g, g.queue \in Seq(Command), g.timer \in BOOLEAN,
           g = [f EXCEPT !.queue = g.queue, !.timer = g.timer]
    PROVE  /\ g \in Flow /\ g.tokens = f.tokens /\ g.wire = f.wire
           /\ Sent(f, g) /\ (Room(f) => Room(g))
<1>1. g \in Flow /\ g.tokens = f.tokens /\ g.wire = f.wire /\ g.exempt = f.exempt
  BY DEF Flow
<1> QED
  BY <1>1 DEF Sent, Room

LEMMA QueueProcessed ==
    ASSUME NEW f \in Sound, sender # NoSender
    PROVE  processQueue(f) \in Reached(f)
<1>1. /\ f \in Flow /\ f.queue \in Seq(Command) /\ Len(f.queue) \in Nat /\ Len(f.queue) <= QueueSize
      /\ f.tokens \in 0..MaxInflight /\ f.timer \in BOOLEAN
      /\ Room(f) /\ \A i \in 1..Len(f.queue) : f.queue[i].by = sender
  <2>1. f \in Flow /\ Len(f.queue) <= QueueSize /\ Room(f) /\ Owned(f)
    BY DEF Sound
  <2>2. f.queue \in Seq(Command) /\ f.tokens \in 0..MaxInflight /\ f.timer \in BOOLEAN
    BY <2>1 DEF Flow
  <2> QED
    BY <2>1, <2>2 DEF Owned
<1>2. PICK n \in Nat : /\ n = (IF Len(f.queue) < f.tokens THEN Len(f.queue) ELSE f.tokens)
                       /\ n <= Len(f.queue) /\ n <= f.tokens
  BY <1>1, Constants
<1>3. PICK s : s = SubSeq(f.queue, 1, n)
  OBVIOUS
<1>4. PICK q : q = SubSeq(f.queue, n + 1, Len(f.queue))
  OBVIOUS
<1>5. s \in Seq(Command) /\ Len(s) = n /\ \A k \in 1..n : s[k] \in Command /\ s[k].by = sender
  <2>1. s \in Seq(Command) /\ Len(s) = n /\ \A k \in 1..n : s[k] = f.queue[k]
    BY <1>1, <1>2, <1>3
  <2>2. \A k \in 1..n : k \in 1..Len(f.queue)
    BY <1>1, <1>2
  <2> QED
    BY <1>1, <2>1, <2>2
<1>6. q \in Seq(Command) /\ Len(q) = Len(f.queue) - n /\ \A i \in 1..Len(q) : q[i].by = sender
  <2>1. q \in Seq(Command) /\ Len(q) = Len(f.queue) - n /\ \A i \in 1..Len(q) : q[i] = f.queue[n + i]
    <3>1. CASE n = Len(f.queue)
      <4>1. q = << >>
        BY <1>1, <1>4, <3>1
      <4> QED
        BY <1>1, <3>1, <4>1
    <3>2. CASE n < Len(f.queue)
      <4>1. n + 1 \in Int /\ Len(f.queue) \in Int /\ \A i \in (n + 1)..Len(f.queue) : f.queue[i] \in Command
        BY <1>1
      <4>2. /\ q \in Seq(Command)
            /\ Len(q) = IF n + 1 <= Len(f.queue) THEN Len(f.queue) - (n + 1) + 1 ELSE 0
            /\ \A i \in 1..Len(f.queue) - (n + 1) + 1 : q[i] = f.queue[(n + 1) + i - 1]
        BY <1>4, <4>1, SubSeqProperties
      <4>3. Len(f.queue) - (n + 1) + 1 = Len(f.queue) - n /\ \A i \in Nat : (n + 1) + i - 1 = n + i
        BY <1>1
      <4>4. Len(q) = Len(f.queue) - n
        BY <1>1, <3>2, <4>2, <4>3
      <4> QED
        BY <1>1, <4>2, <4>3, <4>4
    <3> QED
      BY <1>1, <1>2, <3>1, <3>2
  <2>2. \A i \in 1..Len(q) : n + i \in 1..Len(f.queue)
    BY <1>1, <1>2, <2>1
  <2> QED
    BY <1>1, <2>1, <2>2
<1>7. PICK t : t \in BOOLEAN /\ t = (f.timer \/ (n > 0))
  BY <1>1
<1>8. PICK g : g = [f EXCEPT !.queue = q, !.timer = t]
  OBVIOUS
<1>9. g \in Flow /\ g.queue = q /\ g.timer = t /\ g.tokens = f.tokens /\ Sent(f, g) /\ Room(g)
  <2>1. g.queue = q /\ g.timer = t
    BY <1>1, <1>8 DEF Flow
  <2>2. g.queue \in Seq(Command) /\ g.timer \in BOOLEAN /\ g = [f EXCEPT !.queue = g.queue, !.timer = g.timer]
    BY <1>6, <1>7, <1>8, <2>1
  <2> QED
    BY <1>1, <2>1, <2>2, Requeued
<1>10. processQueue(f) = runItems(g, s)
  <2>1. g = [f EXCEPT !.queue = SubSeq(@, n + 1, Len(@)), !.timer = @ \/ (n > 0)]
    BY <1>4, <1>7, <1>8
  <2> QED
    BY <1>2, <1>3, <2>1 DEF processQueue
<1> DEFINE R == [k \in 0..n |-> {h \in Flow : /\ h.queue = q /\ h.timer = t /\ Sent(f, h)
                                              /\ h.tokens >= f.tokens - k /\ Room(h)}]
<1>11. g \in R[0]
  BY <1>1, <1>9, Constants
<1>12. ASSUME NEW k \in 1..n, NEW h \in R[k - 1] PROVE runItem(h, s[k]) \in R[k]
  <2>1. k - 1 \in 0..n /\ k \in 0..n
    BY <1>2
  <2>2. /\ h \in Flow /\ h.queue = q /\ h.timer = t /\ Sent(f, h)
        /\ h.tokens >= f.tokens - (k - 1) /\ Room(h)
    BY <1>12, <2>1
  <2>3. h.tokens \in Nat /\ h.tokens > 0
    <3>1. h.tokens \in 0..MaxInflight
      BY <2>2 DEF Flow
    <3> QED
      BY <1>1, <1>2, <2>2, <3>1, Constants
  <2>4. PICK x : x = runItem(h, s[k])
    OBVIOUS
  <2>5. Ran(h, x)
    BY <1>5, <2>2, <2>4, ItemRuns
  <2>6. x \in Flow /\ x.queue = q /\ x.timer = t /\ Room(x) /\ Sent(h, x) /\ x.tokens \in {h.tokens, h.tokens - 1}
    BY <2>2, <2>3, <2>5 DEF Ran
  <2>7. Sent(f, x)
    BY <2>2, <2>6, SentOn
  <2>8. x.tokens >= f.tokens - k
    BY <1>1, <1>2, <2>2, <2>3, <2>6
  <2> QED
    BY <2>1, <2>4, <2>6, <2>7, <2>8
<1>13. runItems(g, s) \in R[n]
  <2> HIDE DEF R
  <2> QED
    BY <1>5, <1>11, <1>12, ItemsRun
<1>14. PICK h : h = runItems(g, s)
  OBVIOUS
<1>15. h \in Flow /\ h.queue = q /\ h.timer = t /\ Sent(f, h) /\ Room(h)
  BY <1>2, <1>13, <1>14
<1>16. Len(h.queue) <= QueueSize /\ Owned(h)
  BY <1>1, <1>2, <1>6, <1>15, Constants DEF Owned
<1> QED
  BY <1>10, <1>14, <1>15, <1>16 DEF Reached, Sound

LEMMA ReachedOn ==
    ASSUME NEW f, NEW g \in Reached(f), NEW h \in Reached(g)
    PROVE  h \in Reached(f)
  BY SentOn DEF Reached

(* A command that is sent without a sender. *)
LEMMA SentDirectly ==
    ASSUME NEW f \in Sound, sender = NoSender, NEW g, Ran(f, g)
    PROVE  g \in Reached(f)
<1>1. f \in Flow /\ Len(f.queue) <= QueueSize /\ Owned(f)
  BY DEF Sound
<1>2. g \in Flow /\ Sent(f, g) /\ g.queue = f.queue /\ g.timer = f.timer
  BY DEF Ran
<1>3. Owned(g)
  BY <1>1, <1>2 DEF Owned
<1> QED
  BY <1>1, <1>2, <1>3 DEF Sound, Reached

LEMMA Enqueued ==
    ASSUME NEW f \in Sound, NEW m \in Command
    PROVE  enqueue(f, m) \in Reached(f)
<1>1. CASE ~(m.by = sender /\ sender # NoSender /\ Len(f.queue) < QueueSize)
  BY <1>1, Nothing DEF enqueue
<1>2. CASE m.by = sender /\ sender # NoSender /\ Len(f.queue) < QueueSize
  <2>1. /\ f \in Flow /\ f.queue \in Seq(Command) /\ f.timer \in BOOLEAN /\ Room(f)
        /\ \A i \in 1..Len(f.queue) : f.queue[i].by = sender
    <3>1. f \in Flow /\ Owned(f) /\ Room(f)
      BY <1>2 DEF Sound
    <3> QED
      BY <3>1 DEF Flow, Owned
  <2>2. PICK q : q = Append(f.queue, m)
    OBVIOUS
  <2>3. q \in Seq(Command) /\ Len(q) <= QueueSize /\ \A i \in 1..Len(q) : q[i].by = sender
    BY <1>2, <2>1, <2>2, Constants
  <2>4. PICK g : g = [f EXCEPT !.queue = q]
    OBVIOUS
  <2>5. g.queue = q /\ g.timer = f.timer /\ g = [f EXCEPT !.queue = g.queue, !.timer = g.timer]
    BY <2>1, <2>4 DEF Flow
  <2>6. g \in Flow /\ Sent(f, g) /\ Room(g)
    BY <2>1, <2>3, <2>5, Requeued
  <2>7. g \in Reached(f)
    BY <1>2, <2>3, <2>5, <2>6 DEF Reached, Sound, Owned
  <2>8. processQueue(g) \in Reached(g)
    BY <1>2, <2>7, QueueProcessed DEF Reached
  <2>9. g = [f EXCEPT !.queue = Append(@, m)]
    BY <2>2, <2>4
  <2>10. enqueue(f, m) = processQueue(g)
    BY <1>2, <2>9 DEF enqueue
  <2> QED
    BY <2>7, <2>8, <2>10, ReachedOn
<1> QED
  BY <1>1, <1>2

LEMMA Subscribed ==
    ASSUME NEW f \in Sound, NEW ch \in Channel, sender \in Sender \cup {NoSender}
    PROVE  subscribeToCometD(f, ch) \in Reached(f) /\ unsubscribeFromCometD(f, ch) \in Reached(f)
<1> DEFINE c(mode) == [mode |-> mode, ch |-> ch, tries |-> 1 + Retries, by |-> sender]
<1>1. f \in Flow
  BY DEF Sound
<1>2. 1 + Retries \in Tries
  BY Constants DEF Tries
<1>3. PICK m : m = c("subscribe")
  OBVIOUS
<1>4. PICK n : n = c("unsubscribe")
  OBVIOUS
<1>5. m \in Command /\ m.by = sender /\ n \in Command /\ n.by = sender
  BY <1>2, <1>3, <1>4 DEF Command
<1>6. subscribeToCometD(f, ch) = (IF sender = NoSender THEN _subscribeToCometD(f, m) ELSE enqueue(f, m))
  BY <1>3 DEF subscribeToCometD
<1>7. unsubscribeFromCometD(f, ch) \in {f, enqueue(f, n)} \/ (sender = NoSender /\ unsubscribeFromCometD(f, ch) = _unsubscribeFromCometD(f, n))
  BY <1>4 DEF unsubscribeFromCometD
<1>8. enqueue(f, m) \in Reached(f) /\ enqueue(f, n) \in Reached(f) /\ f \in Reached(f)
  BY <1>5, Enqueued, Nothing
<1>9. Ran(f, _subscribeToCometD(f, m)) /\ Ran(f, _unsubscribeFromCometD(f, n))
  BY <1>1, <1>5, ItemRuns
<1>10. sender = NoSender => _subscribeToCometD(f, m) \in Reached(f) /\ _unsubscribeFromCometD(f, n) \in Reached(f)
  BY <1>9, SentDirectly
<1> QED
  BY <1>6, <1>7, <1>8, <1>10

LEMMA ForListedReached ==
    ASSUME NEW f \in Sound, NEW mode, sender \in Sender \cup {NoSender}
    PROVE  forListed(f, mode) \in Reached(f)
<1> DEFINE N == Len(Channels)
           step(g, ch) == CASE ~channel[ch].listed -> g
                            [] channel[ch].listed /\ mode = "subscribe" -> subscribeToCometD(g, ch)
                            [] OTHER -> unsubscribeFromCometD(g, ch)
           R == [k \in 0..N |-> Reached(f)]
           G == [k \in 1..N |-> [g \in Reached(f) |-> step(g, Channels[k])]]
           done == CHOOSE h : h = [k \in 0..N |-> IF k = 0 THEN f ELSE step(h[k - 1], Channels[k])]
<1>1. N \in Nat /\ \A k \in 1..N : Channels[k] \in Channel
  BY Constants
<1>2. ASSUME NEW g \in Reached(f), NEW ch \in Channel PROVE step(g, ch) \in Reached(f)
  <2>1. g \in Sound
    BY DEF Reached
  <2>2. subscribeToCometD(g, ch) \in Reached(g) /\ unsubscribeFromCometD(g, ch) \in Reached(g)
    BY <2>1, Subscribed
  <2>3. subscribeToCometD(g, ch) \in Reached(f) /\ unsubscribeFromCometD(g, ch) \in Reached(f)
    BY <2>2, ReachedOn
  <2> QED
    BY <2>3
<1>3. forListed(f, mode) = done[N]
  BY DEF forListed
<1> HIDE DEF step, done, N
<1>4. \A k \in 1..N : \A g \in Reached(f) : G[k][g] = step(g, Channels[k]) /\ G[k][g] \in Reached(f)
  BY <1>1, <1>2
<1>5. \A k \in 0..N : R[k] = Reached(f)
  OBVIOUS
<1>6. f \in R[0] /\ \A k \in 1..N : \A g \in R[k - 1] : G[k][g] \in R[k]
  <2>1. \A k \in 1..N : k \in 0..N /\ k - 1 \in 0..N
    BY <1>1
  <2>2. 0 \in 0..N
    BY <1>1
  <2> HIDE DEF R, G
  <2> QED
    BY <1>4, <1>5, <2>1, <2>2, Nothing
<1> HIDE DEF R, G
<1>7. PICK h : h = [k \in 0..N |-> IF k = 0 THEN f ELSE G[k][h[k - 1]]] /\ \A k \in 0..N : h[k] \in R[k]
  <2>1. PICK h : Unfolds(h, N, f, G) /\ \A k \in 0..N : h[k] \in R[k]
    BY <1>1, <1>6, Unfolding
  <2> QED
    BY <2>1 DEF Unfolds
<1>8. \A k \in 0..N : h[k] = (IF k = 0 THEN f ELSE step(h[k - 1], Channels[k]))
  <2> TAKE k \in 0..N
  <2>1. k # 0 => k \in 1..N /\ k - 1 \in 0..N
    BY <1>1
  <2>2. h[k] = (IF k = 0 THEN f ELSE G[k][h[k - 1]])
    BY <1>7
  <2> QED
    BY <1>4, <1>5, <1>7, <2>1, <2>2
<1>9. h = [k \in 0..N |-> IF k = 0 THEN f ELSE step(h[k - 1], Channels[k])]
  BY <1>7, <1>8
<1>10. done = [k \in 0..N |-> IF k = 0 THEN f ELSE step(done[k - 1], Channels[k])]
  BY <1>9, Zenon DEF done
<1>11. done[0] = f /\ \A k \in 1..N : done[k] = step(done[k - 1], Channels[k])
  BY <1>1, <1>10
<1>12. \A k \in 0..N : done[k] \in R[k]
  <2>1. \A k \in 1..N : done[k - 1] \in R[k - 1] => done[k] \in R[k]
    <3>1. \A k \in 1..N : k \in 0..N /\ k - 1 \in 0..N
      BY <1>1
    <3> QED
      BY <1>1, <1>2, <1>5, <1>11, <3>1
  <2> QED
    BY <1>1, <1>6, <1>11, <2>1, Chained
<1> QED
  BY <1>1, <1>3, <1>5, <1>12

LEMMA StatusProcessed ==
    ASSUME NEW f \in Sound, NEW status, sender \in Sender \cup {NoSender}
    PROVE  _processSessionStatus(f, status) \in Reached(f)
<1>1. f \in Reached(f) /\ _resubscribeAll(f) \in Reached(f) /\ _unsubscribeAll(f) \in Reached(f)
  BY Nothing, ForListedReached DEF _resubscribeAll, _unsubscribeAll
<1>2. _processSessionStatus(f, status) \in {f, _resubscribeAll(f), _unsubscribeAll(f)}
  BY DEF _processSessionStatus
<1> QED
  BY <1>1, <1>2

--------------------------------------------------------------------------------
(* Answers *)

LEMMA Arrived ==
    ASSUME flow \in Sound, NEW m \in DOMAIN flow.wire
    PROVE  /\ arrived(m) \in Reached(flow)
           /\ sender # NoSender /\ ~flow.exempt =>
                Cardinality(Copies(arrived(m).wire)) + flow.tokens + 1 <= conn.maxInflight
           /\ arrived(m).tokens = flow.tokens /\ arrived(m).exempt = flow.exempt
<1>1. flow \in Flow /\ flow.wire \in Bag /\ flow.tokens \in 0..MaxInflight
  BY DEF Sound, Flow
<1>2. PICK c : c = flow.wire (-) SetToBag({m})
  OBVIOUS
<1>3. c \in Bag /\ \E i \in Nat : <<m, i>> \in Copies(flow.wire) /\ Copies(c) = Copies(flow.wire) \ {<<m, i>>}
  BY <1>1, <1>2, Removed
<1>4. PICK g : g = [flow EXCEPT !.wire = c]
  OBVIOUS
<1>5. /\ g \in Flow /\ g.wire = c /\ g.queue = flow.queue /\ g.timer = flow.timer
      /\ g.tokens = flow.tokens /\ g.exempt = flow.exempt
  BY <1>1, <1>3, <1>4 DEF Flow
<1>6. arrived(m) = g
  BY <1>2, <1>4 DEF arrived
<1>7. Sent(flow, g)
  BY <1>3, <1>5 DEF Sent
<1>8. ASSUME sender # NoSender, ~flow.exempt
      PROVE  IsFiniteSet(Copies(g.wire)) /\ Cardinality(Copies(g.wire)) + flow.tokens + 1 <= conn.maxInflight
             /\ Cardinality(Copies(g.wire)) \in Nat /\ conn.enable /\ Limited
  <2>1. IsFiniteSet(Copies(flow.wire)) /\ Cardinality(Copies(flow.wire)) + flow.tokens <= conn.maxInflight
       /\ conn.enable /\ Limited /\ conn.maxInflight \in Nat
    BY <1>8, Constants DEF Sound, Room, Limited
  <2>2. PICK i \in Nat : <<m, i>> \in Copies(flow.wire) /\ Copies(g.wire) = Copies(flow.wire) \ {<<m, i>>}
    BY <1>3, <1>5
  <2>3. /\ IsFiniteSet(Copies(g.wire)) /\ Cardinality(Copies(g.wire)) = Cardinality(Copies(flow.wire)) - 1
        /\ Cardinality(Copies(g.wire)) \in Nat /\ Cardinality(Copies(flow.wire)) \in Nat
    BY <2>1, <2>2, FS_RemoveElement, FS_CardinalityType
  <2> QED
    BY <1>1, <2>1, <2>3, Constants
<1>9. sender # NoSender => Room(g)
  BY <1>1, <1>5, <1>8, Constants DEF Room, Limited
<1>10. Len(flow.queue) <= QueueSize /\ Owned(flow)
  BY DEF Sound
<1>11. Owned(g)
  BY <1>5, <1>10 DEF Owned
<1> QED
  BY <1>5, <1>6, <1>7, <1>8, <1>9, <1>10, <1>11 DEF Sound, Reached

LEMMA TokenBack ==
    ASSUME flow \in Sound, NEW m \in DOMAIN flow.wire, Limited
    PROVE  incoming(arrived(m)) \in Reached(flow)
<1>1. PICK f : f = arrived(m)
  OBVIOUS
<1>2. /\ f \in Reached(flow) /\ f \in Sound /\ f \in Flow /\ f.tokens \in 0..MaxInflight
      /\ sender # NoSender => Room(f)
  BY <1>1, Arrived DEF Reached, Sound, Flow
<1>3. PICK n : n = IF f.tokens < conn.maxInflight THEN f.tokens + 1 ELSE f.tokens
  OBVIOUS
<1>4. PICK g : g = [f EXCEPT !.tokens = n]
  OBVIOUS
<1>5. n \in 0..MaxInflight /\ n <= f.tokens + 1 /\ conn.maxInflight \in Nat
  BY <1>2, <1>3, Constants DEF Limited
<1>6. /\ g \in Flow /\ g.wire = f.wire /\ g.queue = f.queue /\ g.timer = f.timer
      /\ g.tokens = n /\ g.exempt = f.exempt
  BY <1>2, <1>4, <1>5 DEF Flow
<1>7. ASSUME sender # NoSender PROVE Room(g)
  <2>1. CASE f.exempt
    BY <1>6, <2>1 DEF Room
  <2>2. CASE ~f.exempt
    <3>1. IsFiniteSet(Copies(f.wire)) /\ Cardinality(Copies(f.wire)) \in Nat /\ conn.enable
      BY <1>2, <1>7, <2>2, FS_CardinalityType DEF Room
    <3>2. Cardinality(Copies(f.wire)) + f.tokens + 1 <= conn.maxInflight
      BY <1>1, <1>7, <2>2, Arrived
    <3>3. Cardinality(Copies(f.wire)) + n <= conn.maxInflight
      BY <1>2, <1>5, <3>1, <3>2, Constants
    <3> QED
      BY <1>6, <3>1, <3>3 DEF Room
  <2> QED
    BY <2>1, <2>2
<1>8. Sent(flow, f) /\ Len(f.queue) <= QueueSize /\ Owned(f)
  BY <1>2 DEF Reached, Sound
<1>9. Sent(flow, g) /\ Owned(g)
  BY <1>6, <1>8 DEF Sent, Owned
<1>10. g \in Reached(flow) /\ g \in Sound
  BY <1>6, <1>7, <1>8, <1>9 DEF Reached, Sound
<1>11. incoming(f) = IF ~conn.enable THEN f ELSE IF sender = NoSender THEN g ELSE processQueue(g)
  <2>1. g = [f EXCEPT !.tokens = IF @ < conn.maxInflight THEN @ + 1 ELSE @]
    BY <1>3, <1>4
  <2> QED
    BY <2>1 DEF incoming
<1>12. sender # NoSender => processQueue(g) \in Reached(g)
  BY <1>10, QueueProcessed
<1> QED
  BY <1>1, <1>2, <1>10, <1>11, <1>12, ReachedOn

LEMMA Responded ==
    ASSUME NEW f \in Sound, NEW m
    PROVE  onResponse(f, m) \in Reached(f)
<1>1. CASE ~(m.mode = "subscribe" /\ m.by = sender /\ sender # NoSender)
  BY <1>1, Nothing DEF onResponse
<1>2. CASE m.mode = "subscribe" /\ m.by = sender /\ sender # NoSender
  <2>1. f \in Flow /\ f.queue \in Seq(Command) /\ f.timer \in BOOLEAN /\ Len(f.queue) <= QueueSize /\ Owned(f) /\ Room(f)
    BY <1>2 DEF Sound, Flow
  <2>2. PICK t : t \in BOOLEAN /\ t = (f.timer /\ f.tokens < conn.maxInflight)
    OBVIOUS
  <2>3. PICK g : g = [f EXCEPT !.timer = t]
    OBVIOUS
  <2>4. g.queue = f.queue /\ g.timer = t /\ g = [f EXCEPT !.queue = g.queue, !.timer = g.timer]
    BY <2>1, <2>3 DEF Flow
  <2>5. g \in Flow /\ Sent(f, g) /\ Room(g)
    BY <2>1, <2>2, <2>4, Requeued
  <2>6. g \in Reached(f) /\ g \in Sound
    BY <1>2, <2>1, <2>4, <2>5 DEF Reached, Sound, Owned
  <2>7. processQueue(g) \in Reached(g)
    BY <1>2, <2>6, QueueProcessed
  <2>8. onResponse(f, m) = processQueue(g)
    BY <1>2, <2>2, <2>3 DEF onResponse
  <2> QED
    BY <2>6, <2>7, <2>8, ReachedOn
<1> QED
  BY <1>1, <1>2

--------------------------------------------------------------------------------
(* Steps *)

LEMMA FlowMoved ==
    ASSUME AmbInv, flow' \in Reached(flow), UNCHANGED <<conn, sender, handshakes>>
    PROVE  ConnectionInv' /\ (flow \in Sound)' /\ Sent(flow, flow')
<1>1. ConnectionInv'
  BY DEF AmbInv, ConnectionInv
<1>2. flow' \in Sound /\ Sent(flow, flow')
  BY DEF Reached
<1>3. (flow \in Sound)'
  BY <1>2 DEF Sound, Owned, Room, Limited
<1> QED
  BY <1>1, <1>2, <1>3

LEMMA SenderIs ==
    ASSUME AmbInv
    PROVE  sender \in Sender \cup {NoSender} /\ Limited
  BY Constants DEF AmbInv, ConnectionInv, Connection, Sender, NoSender, Limited

LEMMA GetChannelKeeps ==
    ASSUME AmbInv, NEW ch \in Channel, getChannel(ch)
    PROVE  AmbInv' /\ Sent(flow, flow')
<1>1. flow' \in Reached(flow)
  BY Nothing DEF AmbInv, getChannel
<1>2. ConnectionInv' /\ (flow \in Sound)' /\ Sent(flow, flow')
  BY <1>1, FlowMoved DEF getChannel
<1>3. channel' \in [Channel -> [made : BOOLEAN, initialized : BOOLEAN, listed : BOOLEAN]]
  BY DEF AmbInv, ConnectionInv, Connection, getChannel
<1> QED
  BY <1>2, <1>3 DEF AmbInv, getChannel

LEMMA ChannelOfIs ==
    ASSUME NEW l \in Listeners
    PROVE  ChannelOf[l] \in Channel
  BY AmbAssumption DEF Channel

LEMMA SubscribeKeeps ==
    ASSUME AmbInv, NEW l \in Listeners, subscribe(l)
    PROVE  AmbInv' /\ Sent(flow, flow')
<1>1. ChannelOf[l] \in Channel
  BY ChannelOfIs
<1>2. flow' \in Reached(flow)
  <2>1. subscribeToCometD(flow, ChannelOf[l]) \in Reached(flow) /\ flow \in Reached(flow)
    BY <1>1, SenderIs, Subscribed, Nothing DEF AmbInv
  <2> QED
    BY <2>1 DEF subscribe
<1>3. ConnectionInv' /\ (flow \in Sound)' /\ Sent(flow, flow')
  BY <1>2, FlowMoved DEF subscribe
<1>4. listeners' \in [Channel -> SUBSET Listeners] /\ calls' \in 0..MaxCalls
  BY <1>1, Constants DEF AmbInv, subscribe
<1> QED
  BY <1>3, <1>4 DEF AmbInv, subscribe

LEMMA UnsubscribeKeeps ==
    ASSUME AmbInv, NEW l \in Listeners, unsubscribe(l)
    PROVE  AmbInv' /\ Sent(flow, flow')
<1>1. ChannelOf[l] \in Channel
  BY ChannelOfIs
<1>2. flow' \in Reached(flow)
  <2>1. unsubscribeFromCometD(flow, ChannelOf[l]) \in Reached(flow) /\ flow \in Reached(flow)
    BY <1>1, SenderIs, Subscribed, Nothing DEF AmbInv
  <2> QED
    BY <2>1 DEF unsubscribe
<1>3. ConnectionInv' /\ (flow \in Sound)' /\ Sent(flow, flow')
  BY <1>2, FlowMoved DEF unsubscribe
<1>4. listeners' \in [Channel -> SUBSET Listeners] /\ calls' \in 0..MaxCalls
  BY <1>1, Constants DEF AmbInv, unsubscribe
<1>5. channel' \in [Channel -> [made : BOOLEAN, initialized : BOOLEAN, listed : BOOLEAN]]
  BY <1>1, ZenonT(60) DEF AmbInv, unsubscribe
<1> QED
  BY <1>3, <1>4, <1>5 DEF AmbInv, unsubscribe

LEMMA AnsweredKeeps ==
    ASSUME AmbInv, NEW m \in DOMAIN flow.wire, NEW retriable, answered(m, retriable)
    PROVE  AmbInv' /\ Sent(flow, flow')
<1>1. m \in Command /\ m.tries \in Tries
  <2>1. flow.wire \in Bag
    BY DEF AmbInv, Sound, Flow
  <2> QED
    BY <2>1, BagIs DEF Command
<1>2. flow' \in Reached(flow)
  <2>1. incoming(arrived(m)) \in Reached(flow)
    BY SenderIs, TokenBack DEF AmbInv
  <2>2. onResponse(incoming(arrived(m)), m) \in Reached(incoming(arrived(m)))
    BY <2>1, SenderIs, Responded DEF Reached
  <2> QED
    BY <2>1, <2>2, ReachedOn DEF answered
<1>3. retry' \in Bag
  <2>1. PICK n : n = [m EXCEPT !.tries = @ - 1]
    OBVIOUS
  <2>2. retry' = retry \/ (m.tries > 1 /\ retry' = retry (+) SetToBag({n}))
    BY <2>1 DEF answered
  <2>3. m.tries > 1 => n \in Command
    <3>1. m.tries > 1 => m.tries - 1 \in Tries
      BY <1>1, Constants DEF Tries
    <3> QED
      BY <1>1, <2>1, <3>1 DEF Command
  <2> QED
    BY <2>2, <2>3, Added DEF AmbInv
<1>4. ConnectionInv' /\ (flow \in Sound)' /\ Sent(flow, flow')
  BY <1>2, FlowMoved DEF answered
<1> QED
  BY <1>3, <1>4 DEF AmbInv, answered

LEMMA FailedKeeps ==
    ASSUME AmbInv, NEW m \in DOMAIN flow.wire, failed(m)
    PROVE  AmbInv' /\ Sent(flow, flow')
<1>1. flow' \in Reached(flow)
  <2>1. arrived(m) \in Reached(flow)
    BY Arrived DEF AmbInv
  <2>2. onResponse(arrived(m), m) \in Reached(arrived(m))
    BY <2>1, SenderIs, Responded DEF Reached
  <2> QED
    BY <2>1, <2>2, ReachedOn DEF failed
<1>2. ConnectionInv' /\ (flow \in Sound)' /\ Sent(flow, flow')
  BY <1>1, FlowMoved DEF failed
<1> QED
  BY <1>2 DEF AmbInv, failed

LEMMA LostKeeps ==
    ASSUME AmbInv, NEW m \in DOMAIN flow.wire, lost(m)
    PROVE  AmbInv' /\ Sent(flow, flow')
<1>1. flow' \in Reached(flow)
  BY Arrived DEF AmbInv, lost
<1>2. ConnectionInv' /\ (flow \in Sound)' /\ Sent(flow, flow')
  BY <1>1, FlowMoved DEF lost
<1> QED
  BY <1>2 DEF AmbInv, lost

LEMMA RetryDueKeeps ==
    ASSUME AmbInv, NEW m \in DOMAIN retry, retryDue(m)
    PROVE  AmbInv' /\ Sent(flow, flow')
<1>1. m \in Command
  BY BagIs DEF AmbInv
<1>2. flow' \in Reached(flow)
  BY <1>1, SenderIs, Enqueued DEF AmbInv, retryDue
<1>3. ConnectionInv' /\ (flow \in Sound)' /\ Sent(flow, flow')
  BY <1>2, FlowMoved DEF retryDue
<1>4. retry' \in Bag
  BY Removed DEF AmbInv, retryDue
<1> QED
  BY <1>3, <1>4 DEF AmbInv, retryDue

(* The timer runs for a sender only; what it refills no longer counts. *)
LEMMA OnTimerKeeps ==
    ASSUME AmbInv, onTimer
    PROVE  AmbInv' /\ Sent(flow, flow')
<1>1. PICK f : f = [flow EXCEPT !.timer = FALSE, !.tokens = conn.maxInflight, !.exempt = TRUE]
  OBVIOUS
<1>2. flow \in Flow /\ Len(flow.queue) <= QueueSize /\ Owned(flow)
  BY DEF AmbInv, Sound
<1>3. /\ f \in Flow /\ f.queue = flow.queue /\ f.timer = FALSE /\ f.wire = flow.wire /\ f.exempt = TRUE
  <2>1. conn.maxInflight \in 0..MaxInflight
    BY SenderIs, Constants DEF Limited
  <2> QED
    BY <1>1, <1>2, <2>1 DEF Flow
<1>4. f \in Reached(flow) /\ f \in Sound
  BY <1>2, <1>3 DEF Reached, Sound, Owned, Sent, Room
<1>5. sender # NoSender
  BY <1>2, SenderIs DEF Owned, onTimer
<1>6. processQueue(f) \in Reached(f)
  BY <1>4, <1>5, QueueProcessed
<1>7. flow' \in Reached(flow)
  BY <1>1, <1>4, <1>6, ReachedOn DEF onTimer
<1>8. ConnectionInv' /\ (flow \in Sound)' /\ Sent(flow, flow')
  BY <1>7, FlowMoved DEF onTimer
<1> QED
  BY <1>8 DEF AmbInv, onTimer

(* A handshake forgets what is in flight; a new sender starts with nothing  *)
(* queued and all its tokens.                                               *)
LEMMA HandshakeKeeps ==
    ASSUME AmbInv, NEW status \in Statuses, NEW announced \in {"nothing", "off", "on"}, NEW limit \in 1..MaxInflight,
           _metaHandshake(status, announced, limit)
    PROVE  AmbInv' /\ Sent(flow, flow')
<1>1. flow \in Flow /\ Len(flow.queue) <= QueueSize /\ Owned(flow) /\ flow.tokens \in 0..MaxInflight
  BY DEF AmbInv, Sound, Flow
<1>2. PICK z : z = [ch \in Channel |-> 0]
  OBVIOUS
<1>3. z \in [Channel -> Nat]
  BY <1>2
<1>4. /\ handshakes' = handshakes + 1 /\ handshakes' \in 0..MaxHandshakes /\ handshakes \in Nat
      /\ sender \in 0..handshakes /\ sender' = (IF announced = "on" THEN handshakes + 1 ELSE sender)
      /\ announced # "on" => limit = conn.maxInflight
  BY Constants DEF AmbInv, ConnectionInv, _metaHandshake
<1>5. PICK on \in BOOLEAN : on = IF announced = "nothing" THEN conn.enable ELSE announced = "on"
  BY DEF AmbInv, ConnectionInv, Connection
<1>6. /\ conn' \in Connection /\ conn'.enable = on /\ conn'.maxInflight = limit
  <2>1. conn' = [conn EXCEPT !.initialized = TRUE, !.state = "initialized", !.sessionStatus = status,
                             !.maxInflight = limit, !.enable = on]
    BY <1>5 DEF _metaHandshake
  <2> QED
    BY <2>1 DEF AmbInv, ConnectionInv, Connection
<1>7. ConnectionInv'
  BY <1>4, <1>6 DEF ConnectionInv
<1>8. CASE announced = "on"
  <2>1. flow' = [flow EXCEPT !.wire = EmptyBag, !.registered = z, !.queue = << >>, !.timer = FALSE,
                             !.tokens = limit, !.exempt = FALSE]
    BY <1>1, <1>2, <1>8 DEF _metaHandshake, stopped, fresh, Flow
  <2>2. limit \in 0..MaxInflight /\ << >> \in Seq(Command) /\ Len(<< >>) = 0
    BY Constants
  <2>3. /\ flow' \in Flow /\ flow'.wire = EmptyBag /\ flow'.queue = << >> /\ flow'.timer = FALSE
        /\ flow'.tokens = limit
    BY <1>1, <1>3, <2>1, <2>2, NoCopies DEF Flow
  <2>4. Copies(flow'.wire) = {} /\ IsFiniteSet({}) /\ Cardinality({}) = 0
    BY <2>3, NoCopies, FS_EmptySet
  <2>5. Room(flow)'
    <3>1. conn'.enable /\ Limited'
      BY <1>5, <1>6, <1>8 DEF Limited
    <3>2. Cardinality(Copies(flow'.wire)) + flow'.tokens <= conn'.maxInflight
      BY <1>6, <2>3, <2>4, Constants
    <3> QED
      BY <2>4, <3>1, <3>2 DEF Room
  <2>6. (flow \in Sound)' /\ Sent(flow, flow')
    <3>1. Len(flow'.queue) <= QueueSize /\ sender' # NoSender
      BY <1>4, <1>8, <2>2, <2>3, Constants DEF NoSender
    <3> QED
      BY <2>2, <2>3, <2>4, <2>5, <3>1 DEF Sound, Owned, Sent
  <2> QED
    BY <1>7, <2>6 DEF AmbInv, _metaHandshake
<1>9. CASE announced # "on"
  <2>1. flow' = [flow EXCEPT !.wire = EmptyBag, !.registered = z, !.exempt = flow'.exempt]
        /\ flow'.exempt = (announced = "off" \/ flow.exempt)
    BY <1>1, <1>2, <1>9 DEF _metaHandshake, fresh, Flow
  <2>2. (announced = "off" \/ flow.exempt) \in BOOLEAN
    BY <1>1 DEF Flow
  <2>3. /\ flow' \in Flow /\ flow'.wire = EmptyBag /\ flow'.queue = flow.queue /\ flow'.timer = flow.timer
        /\ flow'.tokens = flow.tokens
    BY <1>1, <1>3, <2>1, <2>2, NoCopies DEF Flow
  <2>4. Copies(flow'.wire) = {} /\ IsFiniteSet({}) /\ Cardinality({}) = 0
    BY <2>3, NoCopies, FS_EmptySet
  <2>5. sender = sender' /\ conn'.maxInflight = conn.maxInflight
    BY <1>4, <1>6, <1>9
  <2>6. Owned(flow)'
    BY <1>1, <2>3, <2>5 DEF Owned
  <2>7. ASSUME sender # NoSender PROVE Room(flow)'
    <3>1. CASE announced = "off"
      BY <2>1, <3>1 DEF Room
    <3>2. CASE announced = "nothing"
      <4>1. Room(flow)
        BY <2>7 DEF AmbInv, Sound
      <4>2. CASE flow.exempt
        BY <2>1, <4>2 DEF Room
      <4>3. CASE ~flow.exempt
        <5>1. /\ conn.enable /\ Limited /\ IsFiniteSet(Copies(flow.wire))
              /\ Cardinality(Copies(flow.wire)) + flow.tokens <= conn.maxInflight
          BY <4>1, <4>3 DEF Room
        <5>2. 0 + flow.tokens <= conn.maxInflight
          BY <1>1, <5>1, FS_CardinalityType, Constants DEF Limited
        <5>3. conn'.enable /\ Limited'
          BY <1>5, <1>6, <2>5, <3>2, <5>1 DEF Limited
        <5> QED
          BY <2>3, <2>4, <2>5, <5>2, <5>3 DEF Room
      <4> QED
        BY <4>2, <4>3
    <3> QED
      BY <1>9, <3>1, <3>2
  <2>8. (flow \in Sound)' /\ Sent(flow, flow')
    BY <1>1, <2>3, <2>4, <2>5, <2>6, <2>7 DEF Sound, Sent
  <2> QED
    BY <1>7, <2>8 DEF AmbInv, _metaHandshake
<1> QED
  BY <1>8, <1>9

(* The connection breaks: what the sender leaves is its messages in flight. *)
LEMMA BrokenKeeps ==
    ASSUME NEW f \in Sound, _connectionBroken(f)
    PROVE  (flow \in Sound)' /\ flow'.wire = f.wire /\ sender' = NoSender
<1>1. f \in Flow /\ Len(f.queue) <= QueueSize /\ Owned(f)
  BY DEF Sound
<1>2. /\ flow' \in Flow /\ flow'.wire = f.wire /\ flow'.queue = << >> /\ flow'.timer = FALSE
  <2>1. CASE sender = NoSender
    <3>1. flow' = f
      BY <2>1 DEF _connectionBroken
    <3> QED
      BY <1>1, <2>1, <3>1 DEF Owned, Flow
  <2>2. CASE sender # NoSender
    <3>1. flow' = [f EXCEPT !.queue = << >>, !.timer = FALSE]
      BY <2>2 DEF _connectionBroken, stopped
    <3>2. << >> \in Seq(Command)
      OBVIOUS
    <3> QED
      BY <1>1, <3>1, <3>2 DEF Flow
  <2> QED
    BY <2>1, <2>2
<1>3. sender' = NoSender
  BY DEF _connectionBroken
<1>4. Len(flow'.queue) = 0 /\ Len(flow'.queue) <= QueueSize
  BY <1>2, Constants
<1>5. Owned(flow)'
  BY <1>2, <1>3, <1>4 DEF Owned
<1> QED
  BY <1>2, <1>3, <1>4, <1>5 DEF Sound, Owned

LEMMA OpenedKeeps ==
    ASSUME AmbInv, NEW f \in Sound, _connectionOpened(f)
    PROVE  flow' \in Reached(f)
<1>1. PICK g : g = subscribeToCometD(f, Meta)
  OBVIOUS
<1>2. PICK h : h = _resubscribeAll(g)
  OBVIOUS
<1>3. g \in Reached(f) /\ g \in Sound
  BY <1>1, SenderIs, Subscribed, Constants DEF Reached
<1>4. h \in Reached(g) /\ h \in Sound
  BY <1>2, <1>3, SenderIs, ForListedReached DEF _resubscribeAll, Reached
<1>5. subscribeToCometD(h, Meta) \in Reached(h)
  BY <1>4, SenderIs, Subscribed, Constants
<1>6. flow' = subscribeToCometD(h, Meta)
  BY <1>1, <1>2 DEF _connectionOpened
<1>7. h \in Reached(f)
  BY <1>3, <1>4, ReachedOn
<1> QED
  BY <1>5, <1>6, <1>7, ReachedOn

LEMMA ConnectKeeps ==
    ASSUME AmbInv, NEW successful \in BOOLEAN, NEW error \in Errors, NEW status \in Statuses,
           _metaConnect(successful, error, status)
    PROVE  AmbInv' /\ Sent(flow, flow')
<1> DEFINE seen == IF error = "none" THEN conn.lastError ELSE error
           opening == successful /\ ~conn.connected
           breaking == ~successful /\ conn.connected
           asking == opening /\ setupSession(seen)
<1>1. PICK f : f = _processSessionStatus(flow, status)
  OBVIOUS
<1>2. f \in Reached(flow) /\ f \in Sound /\ Sent(flow, f)
  BY <1>1, SenderIs, StatusProcessed DEF AmbInv, Reached
<1>3. \/ breaking /\ _connectionBroken(f)
      \/ opening /\ _connectionOpened(f)
      \/ flow' = f /\ UNCHANGED <<sender, channel, listeners>>
  BY <1>1 DEF _metaConnect
<1>4. conn' = [conn EXCEPT
         !.sessionStatus = status,
         !.connected = successful,
         !.lastError = IF asking THEN "none" ELSE seen,
         !.setup = IF asking THEN _sendRequestToSetUpGlideSession ELSE @,
         !.needToReestablishSession = @ \/ breaking,
         !.state = CASE breaking -> "broken"
                     [] opening /\ ~conn.needToReestablishSession -> "opened"
                     [] OTHER -> @]
  BY DEF _metaConnect
<1>5. /\ UNCHANGED <<retry, handshakes, calls>>
      /\ changes' = (IF status = conn.sessionStatus THEN changes ELSE changes + 1) /\ changes' <= MaxChanges
  BY DEF _metaConnect
<1>6. seen \in Errors \cup {"none"}
  BY DEF AmbInv, ConnectionInv, Connection
<1> HIDE DEF seen, asking
<1>7. conn' \in Connection
      /\ conn'.enable = conn.enable /\ conn'.maxInflight = conn.maxInflight
  <2>1. PICK e : e = (IF asking THEN "none" ELSE seen)
    OBVIOUS
  <2>2. PICK u : u = (IF asking THEN _sendRequestToSetUpGlideSession ELSE conn.setup)
    OBVIOUS
  <2>3. PICK n : n \in BOOLEAN /\ n = (conn.needToReestablishSession \/ breaking)
    OBVIOUS
  <2>4. PICK state : state = CASE breaking -> "broken"
                               [] opening /\ ~conn.needToReestablishSession -> "opened"
                               [] OTHER -> conn.state
    OBVIOUS
  <2>5. conn' = [conn EXCEPT !.sessionStatus = status, !.connected = successful, !.lastError = e,
                             !.setup = u, !.needToReestablishSession = n, !.state = state]
    BY <1>4, <2>1, <2>2, <2>3, <2>4
  <2>6. e \in Errors \cup {"none"} /\ u \in {"none", "sent", "thrown"}
    BY <1>6, <2>1, <2>2 DEF AmbInv, ConnectionInv, Connection, _sendRequestToSetUpGlideSession, sent
  <2>7. state \in {"closed", "initialized", "opened", "broken"}
    BY <2>4 DEF AmbInv, ConnectionInv, Connection
  <2>8. status \in Statuses \cup {"session.invalidated"} /\ successful \in BOOLEAN
    OBVIOUS
  <2>9. conn \in Connection
    BY DEF AmbInv, ConnectionInv
  <2> HIDE DEF opening, breaking
  <2>10. PICK c : c = [conn EXCEPT !.sessionStatus = status, !.connected = successful, !.lastError = e]
    OBVIOUS
  <2>11. c \in Connection /\ c.enable = conn.enable /\ c.maxInflight = conn.maxInflight
    BY ONLY <2>6, <2>8, <2>9, <2>10 DEF Connection
  <2>12. conn' = [c EXCEPT !.setup = u, !.needToReestablishSession = n, !.state = state]
    BY <2>5, <2>10
  <2> QED
    BY ONLY <2>3, <2>6, <2>7, <2>11, <2>12, ZenonT(60) DEF Connection
<1>8. changes' \in 0..MaxChanges
  BY <1>5, Constants DEF AmbInv
<1>9. CASE breaking /\ _connectionBroken(f)
  <2>1. (flow \in Sound)' /\ flow'.wire = f.wire /\ sender' = NoSender
    BY <1>2, <1>9, BrokenKeeps
  <2>2. Sent(flow, flow')
    BY <1>2, <2>1 DEF Sent
  <2>3. ConnectionInv'
    BY <1>5, <1>7, <2>1 DEF AmbInv, ConnectionInv, NoSender
  <2>4. UNCHANGED <<channel, listeners>>
    BY <1>9 DEF _connectionBroken
  <2> QED
    BY <1>5, <1>8, <2>1, <2>2, <2>3, <2>4 DEF AmbInv
<1>10. CASE opening /\ _connectionOpened(f)
  <2>1. flow' \in Reached(flow)
    BY <1>2, <1>10, OpenedKeeps, ReachedOn
  <2>2. UNCHANGED <<sender, listeners>>
        /\ channel' = [channel EXCEPT ![Meta] = [made |-> TRUE, initialized |-> TRUE, listed |-> TRUE]]
    BY <1>10 DEF _connectionOpened
  <2>3. flow' \in Sound /\ Sent(flow, flow')
    BY <2>1 DEF Reached
  <2>4. (flow \in Sound)'
    BY <1>7, <2>2, <2>3 DEF Sound, Owned, Room, Limited
  <2>5. ConnectionInv'
    BY <1>5, <1>7, <2>2 DEF AmbInv, ConnectionInv
  <2>6. channel' \in [Channel -> [made : BOOLEAN, initialized : BOOLEAN, listed : BOOLEAN]]
    BY <2>2, Constants DEF AmbInv
  <2> QED
    BY <1>5, <1>8, <2>2, <2>3, <2>4, <2>5, <2>6 DEF AmbInv
<1>11. CASE flow' = f /\ UNCHANGED <<sender, channel, listeners>>
  <2>1. (flow \in Sound)' /\ Sent(flow, flow')
    BY <1>2, <1>7, <1>11 DEF Sound, Owned, Room, Limited
  <2>2. ConnectionInv'
    BY <1>5, <1>7, <1>11 DEF AmbInv, ConnectionInv
  <2> QED
    BY <1>5, <1>8, <1>11, <2>1, <2>2 DEF AmbInv
<1> QED
  BY <1>3, <1>9, <1>10, <1>11

LEMMA StutterKeeps ==
    ASSUME AmbInv, UNCHANGED vars
    PROVE  AmbInv' /\ Sent(flow, flow')
<1>1. flow \in Sound /\ flow' = flow /\ sender' = sender
  BY DEF AmbInv, vars
<1>2. (flow \in Sound)' /\ Sent(flow, flow')
  BY <1>1 DEF Sound, Owned, Sent, Room, Limited, vars
<1>3. ConnectionInv'
  BY DEF AmbInv, ConnectionInv, vars
<1> QED
  BY <1>2, <1>3 DEF AmbInv, vars

LEMMA Initially == Init => AmbInv
<1> SUFFICES ASSUME Init PROVE AmbInv
  OBVIOUS
<1>1. ConnectionInv
  BY Constants DEF Init, ConnectionInv, Connection, NoSender
<1>2. flow \in Flow /\ flow.queue = << >> /\ flow.timer = FALSE
  <2>1. << >> \in Seq(Command) /\ 1 \in 0..MaxInflight /\ EmptyBag \in Bag
    BY Constants, NoCopies
  <2> QED
    BY <2>1 DEF Init, Flow
<1>3. flow \in Sound
  <2>1. Len(flow.queue) = 0 /\ sender = NoSender
    BY <1>2 DEF Init
  <2> QED
    BY <1>2, <2>1, Constants DEF Sound, Owned
<1>4. retry \in Bag
  BY NoCopies DEF Init
<1> QED
  BY <1>1, <1>3, <1>4, Constants DEF Init, AmbInv

LEMMA StepKeeps ==
    ASSUME AmbInv, [Next]_vars
    PROVE  AmbInv' /\ Sent(flow, flow')
<1>1. CASE \E ch \in Channel : getChannel(ch)
  BY <1>1, GetChannelKeeps
<1>2. CASE \E l \in Listeners : subscribe(l) \/ unsubscribe(l)
  BY <1>2, SubscribeKeeps, UnsubscribeKeeps
<1>3. CASE \E m \in BagToSet(flow.wire) : answered(m, TRUE) \/ answered(m, FALSE) \/ failed(m) \/ lost(m)
  <2>1. PICK m \in DOMAIN flow.wire : answered(m, TRUE) \/ answered(m, FALSE) \/ failed(m) \/ lost(m)
    BY <1>3 DEF BagToSet
  <2> QED
    BY <2>1, AnsweredKeeps, FailedKeeps, LostKeeps
<1>4. CASE \E m \in BagToSet(retry) : retryDue(m)
  <2>1. PICK m \in DOMAIN retry : retryDue(m)
    BY <1>4 DEF BagToSet
  <2> QED
    BY <2>1, RetryDueKeeps
<1>5. CASE onTimer
  BY <1>5, OnTimerKeeps
<1>6. CASE \E status \in Statuses, announced \in {"nothing", "off", "on"}, limit \in 1..MaxInflight :
             _metaHandshake(status, announced, limit)
  BY <1>6, HandshakeKeeps
<1>7. CASE \E successful \in BOOLEAN, error \in Errors, status \in Statuses :
             _metaConnect(successful, error, status)
  BY <1>7, ConnectKeeps
<1>8. CASE UNCHANGED vars
  BY <1>8, StutterKeeps
<1> QED
  BY <1>1, <1>2, <1>3, <1>4, <1>5, <1>6, <1>7, <1>8 DEF Next

--------------------------------------------------------------------------------
(* Whatever the calls, answers, timers and connections, the queue never     *)
(* exceeds its size and holds only what the present sender was asked to     *)
(* send, a timer runs for a present sender only, and for as long as the     *)
(* tokens count, flow control is on (SubscriptionCommandSender,             *)
(* TokenManagementExtension).                                               *)
THEOREM AmbSafe == Spec => []AmbInv
<1>1. AmbInv /\ [Next]_vars => AmbInv'
  BY StepKeeps
<1> QED
  BY Initially, <1>1, PTL DEF Spec

(* The model's types, for any channels, listeners and limits. *)
THEOREM AmbTyped == Spec => []TypeOK
<1>1. AmbInv => TypeOK
  <2> SUFFICES ASSUME AmbInv PROVE TypeOK
    OBVIOUS
  <2>1. flow \in Flow /\ Len(flow.queue) <= QueueSize
    BY DEF AmbInv, Sound
  <2>2. \A b \in Bag : IsABag(b) /\ BagToSet(b) \subseteq Command
    <3> TAKE b \in Bag
    <3>1. PICK D \in SUBSET Command : b \in [D -> Nat \ {0}]
      BY DEF Bag
    <3> QED
      BY <3>1 DEF IsABag, BagToSet
  <2>3. /\ IsABag(flow.wire) /\ BagToSet(flow.wire) \subseteq Command
        /\ IsABag(retry) /\ BagToSet(retry) \subseteq Command
    BY <2>1, <2>2 DEF AmbInv, Flow
  <2>4. /\ flow.queue \in Seq(Command) /\ flow.timer \in BOOLEAN /\ flow.exempt \in BOOLEAN
        /\ flow.tokens \in 0..MaxInflight
        /\ flow.registered \in [Channel -> Nat] /\ flow.subscription \in [Channel -> BOOLEAN]
    BY <2>1 DEF Flow
  <2> QED
    BY <2>1, <2>3, <2>4 DEF TypeOK, AmbInv, ConnectionInv, Connection
<1> QED
  BY <1>1, AmbSafe, PTL

(* The server's limit is kept: since the handshake, and until the timer     *)
(* refills the tokens or a command goes out without a sender, the commands  *)
(* in flight and the free tokens never exceed maxInflight, however calls,   *)
(* answers, failures and retries interleave (outgoing, incoming,            *)
(* processQueue).                                                           *)
THEOREM FlowKept == Spec => []FlowRespected
<1>1. AmbInv => FlowRespected
  BY DEF AmbInv, Sound, Room, FlowRespected
<1> QED
  BY <1>1, AmbSafe, PTL

(* Every message that goes out is the present sender's: one that was        *)
(* stopped sends nothing any more, although its retries fall due and the    *)
(* answers to its commands arrive (signalStop, addItemToQueue, onResponse). *)
THEOREM StoppedStaysSilent == Spec => StoppedSenderSilent
<1>1. AmbInv /\ [Next]_vars => [\A p \in Copies(flow'.wire) \ Copies(flow.wire) : p[1].by = sender]_vars
  BY StepKeeps DEF Sent
<1> QED
  BY <1>1, AmbSafe, PTL DEF Spec, StoppedSenderSilent

================================================================================
