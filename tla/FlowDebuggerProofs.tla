--------------------------- MODULE FlowDebuggerProofs ---------------------------
(***************************************************************************)
(* The safety properties of FlowDebugger for any clients, any calls, any   *)
(* tree of contexts and any depth, numbers of polls and attempts.          *)
(*                                                                         *)
(* EngineInv is what the engine keeps by itself; CallInv(c) is what a call *)
(* knows of the run at each of its steps, although the run has moved since *)
(* it was read: a context that has ended stays ended, a context that       *)
(* pauses stays paused until it executes a command or ends, and nobody's   *)
(* caller ever changes.                                                    *)
(***************************************************************************)
EXTENDS FlowDebugger, LeastElements

States == ENDED \cup OPEN

Context ==
    [state : States, parent : Nat, debug : BOOLEAN, order : 0..MaxOrder,
     posted : SUBSET {"command", "cancel"}]

(* A debugged context that has called a subflow waits for it, or has ended. *)
OneOpenChild ==
    \A x \in Contexts :
        ctx[x].debug /\ open(x) /\ ctx[x].parent # NoContext =>
            /\ ctx[ctx[x].parent].state \in ENDED \cup {"waiting"}
            /\ \A y \in Contexts : ctx[y].parent = ctx[x].parent /\ open(y) => y = x

EngineInv ==
    /\ ctx \in Seq(Context)
    /\ Len(ctx) \in 1..MaxContexts
    /\ \A x \in Contexts :
         /\ ctx[x].parent \in 0..(x - 1)
         /\ ctx[x].parent # NoContext => ctx[x].debug = ctx[ctx[x].parent].debug
         /\ ctx[x].posted # {} => ctx[x].debug
    /\ OneOpenChild

--------------------------------------------------------------------------------
(* What a call knows *)

Observing == {"read", "children"}
Cancelling == {"first", "walk", "cancel", "settle", "child"}
Single == {"inspect", "command", "setBreakpoints"}
Launching == {"start", "withSession", "runTo", "runToResume", "runToStay"}

(* What the fields of a call may hold when there are n contexts.            *)
OpName == Single \cup Launching \cup {"cancel", "none"}
Pc == Observing \cup Cancelling \cup {"idle", "launch", "setup", "breakpoints", "command", "work"}
Stage == {"none", "single", "starting", "working", "cancelling"}
Why == {"none", "inspect", "command", "setBreakpoints", "first", "after"}
Outcome == {"none", "ok", "error"}
SeenState == States \cup {"none"}
Count == Nat
Flag == BOOLEAN
Walks == 0..2
Depth == 0..(MaxDepth - 1)
Id(n) == 0..n
Ids(n) == SUBSET (1..n)
Chain(n) == Seq(1..n)
Before(n) == {<< >>} \cup (Chain(n) \X SeenState \X Nat)

Call(n) ==
    [op : OpName, pc : Pc, stage : Stage, why : Why, root : Id(n),
     chain : Chain(n), state : SeenState, order : Count, before : Before(n), polls : Count,
     waited : Flag, work : Count, first : Flag, after : Flag, walked : Walks,
     level : Ids(n), next : Ids(n), depth : Depth, seen : Ids(n), found : Ids(n),
     cur : Id(n), outcome : Outcome, ended : Flag, tree : Ids(n)]

(* At which stage a call does what, and which methods do. *)
Method(c) ==
    /\ c.op \in Ops \cup {"none"}
    /\ c.stage = "single" => c.op \in Single
    /\ c.stage \in {"starting", "working"} => c.op \in Launching

Suits(c, why) ==
    /\ why = "inspect" => c.op = "inspect"
    /\ why = "first" => c.stage = "starting"
    /\ why = "setBreakpoints" =>
         c.stage = "starting" \/ (c.stage = "single" /\ c.op = "setBreakpoints")
    /\ why \in {"command", "after"} =>
         c.stage = "working" \/ (c.stage = "single" /\ c.op = "command")

Staged(c) ==
    /\ Method(c)
    /\ Suits(c, c.why)
    /\ c.pc \notin {"idle", "launch"} => c.root # NoContext
    /\ c.pc = "launch" => c.root = NoContext /\ c.stage = "starting"
    /\ c.pc = "setup" => c.stage = "starting"
    /\ c.pc = "work" => c.stage = "working"
    /\ c.pc \in {"breakpoints", "command"} \cup Observing =>
         c.stage \in {"single", "starting", "working"}
    /\ c.pc \in Cancelling <=> c.stage = "cancelling"
    /\ c.pc \in Observing => c.why # "none"
    /\ c.pc = "command" => c.why = "command"
    /\ c.pc = "breakpoints" => c.why = "setBreakpoints"

(* A chain leads from context r from caller to subflow. *)
Path(q, r) ==
    /\ q # << >> /\ Len(q) <= MaxDepth + 1
    /\ q[1] = r
    /\ \A i \in 1..Len(q) : ctx[q[i]].debug = ctx[r].debug
    /\ \A i \in 1..(Len(q) - 1) : ctx[q[i + 1]].parent = q[i]

(* Context x, seen paused after `order` commands, still is, or it has moved. *)
Kept(x, order) ==
    \/ ctx[x].order > order
    \/ ~open(x)
    \/ ctx[x].state = "paused" /\ ctx[x].order = order

(* CommandSeesProgress, of what was observed before the command. *)
Moved(b) ==
    \/ ctx[Last(b[1])].order > b[3]
    \/ \E i \in DOMAIN b[1] : ~open(b[1][i])

(* A command was sent to the run that `before` was observed of.             *)
Commanded(c) ==
    /\ c.before # << >>
    /\ Path(c.before[1], c.root)
    /\ ctx[c.root].debug
    /\ c.before[2] = "paused"
    /\ Kept(Last(c.before[1]), c.before[3])

(* After a command: as long as the run it was sent to has not moved, the    *)
(* chain being read is the beginning of the chain it was observed with.     *)
Awaiting(c) ==
    /\ Commanded(c)
    /\ \/ Moved(c.before)
       \/ /\ Len(c.chain) <= Len(c.before[1])
          /\ c.pc = "children" => Len(c.chain) < Len(c.before[1])
          /\ \A i \in 1..Len(c.chain) : c.chain[i] = c.before[1][i]

Looking(c) ==
    /\ c.pc \in Observing \cup {"command"} => Path(c.chain, c.root)
    /\ c.pc = "children" => c.state = "waiting" /\ Len(c.chain) <= MaxDepth
    /\ c.pc = "command" =>
         /\ ctx[c.root].debug
         /\ c.state = "paused" /\ c.before = <<c.chain, c.state, c.order>>
         /\ Kept(Last(c.chain), c.order)
    /\ c.pc \in Observing /\ c.why = "after" => Awaiting(c)

(* What is left of the contexts that were below the root. *)
Remaining(c) == {d \in c.tree : open(d)}

(* Each of them is found, or is below a context yet to be listed, no deeper *)
(* than the walk still goes.                                                *)
Walking(c) ==
    /\ c.root \in c.seen
    /\ c.level \cup c.next \subseteq c.seen
    /\ c.level \cap c.next = {}
    /\ \A e \in c.seen : \/ e = c.root
                         \/ e > c.root /\ ctx[e].parent \in c.seen \ (c.level \cup c.next)
    /\ \A d \in Remaining(c) :
         \/ d \in c.found
         \/ \E p \in c.level : d \in within[MaxDepth - c.depth][p] \ {p}
         \/ \E p \in c.next : d \in within[MaxDepth - c.depth - 1][p] \ {p}

Ending(c) ==
    /\ c.tree \subseteq below(c.root)
    /\ c.found \cap {c.root} = {}
    /\ c.pc = "first" => c.walked = 0 /\ c.found = {} /\ ~c.after
    /\ c.pc # "first" =>
         /\ c.walked # 0 /\ ctx[c.root].debug
         /\ \A d \in c.level \cup c.next \cup c.found : ctx[d].debug
         /\ c.first \/ c.after => ~open(c.root)
    /\ c.pc = "walk" => Walking(c)
    /\ c.pc \in {"cancel", "settle"} =>
         /\ c.cur # NoContext /\ ctx[c.cur].debug
         /\ c.walked = 1 => c.cur = c.root
         /\ c.walked = 2 => Remaining(c) \subseteq c.found \cup {c.cur}
         /\ c.walked = 2 /\ c.cur = c.root => c.found = {}
    /\ c.pc = "child" => c.walked = 2 /\ Remaining(c) \subseteq c.found

Over(c) ==
    /\ c.ended => c.root # NoContext /\ ~open(c.root) /\ Remaining(c) = {}
    /\ c.op \in {"withSession", "runTo"} /\ c.outcome = "ok" => c.ended
    /\ c.op = "command" /\ c.outcome = "ok" /\ c.before # << >> =>
         c.before[1] # << >> /\ Moved(c.before)

CallInv(c) ==
    /\ c \in Call(Len(ctx))
    /\ Staged(c)
    /\ c.stage # "cancelling" => Looking(c)
    /\ c.stage = "cancelling" => Ending(c)
    /\ c.pc = "idle" => Over(c)

FlowInv ==
    /\ EngineInv
    /\ DOMAIN call = Clients
    /\ \A cl \in Clients : CallInv(call[cl])
    /\ calls \in 0..MaxCalls

--------------------------------------------------------------------------------
(* The tree of contexts *)

LEMMA Bounds ==
    /\ MaxDepth \in Nat \ {0} /\ MaxContexts \in Nat /\ MaxOrder \in Nat /\ MaxCalls \in Nat
    /\ Polls \in Nat /\ Attempts \in Nat /\ MaxWork \in Nat
  BY FlowDebuggerAssumption

USE Bounds

Kids(t, x) == {d \in DOMAIN t : t[d].parent = x}

(* `within` and `above`, of any tree t.                                     *)
Within(t) ==
    CHOOSE w : w = [k \in 0..MaxDepth |-> [x \in DOMAIN t |->
                      {x} \cup (IF k = 0 THEN {} ELSE UNION {w[k - 1][d] : d \in Kids(t, x)})]]

Above(t) ==
    CHOOSE u : u = [k \in 0..MaxDepth |-> [x \in DOMAIN t |->
                      IF k = 0 \/ t[x].parent = NoContext THEN x ELSE u[k - 1][t[x].parent]]]

(* A context and what g gives of those it calls.                            *)
Joined(t, g, x) == {x} \cup UNION {g[d] : d \in Kids(t, x)}

(* The contexts within k calls: itself, and those within k - 1 calls of one *)
(* it calls.                                                                *)
LEMMA WithinTree ==
    ASSUME NEW t
    PROVE  /\ Within(t) \in [0..MaxDepth -> [DOMAIN t -> SUBSET DOMAIN t]]
           /\ \A x \in DOMAIN t : Within(t)[0][x] = {x}
           /\ \A k \in 1..MaxDepth, x \in DOMAIN t : Within(t)[k][x] = Joined(t, Within(t)[k - 1], x)
<1> DEFINE S == [DOMAIN t -> SUBSET DOMAIN t]
           a == [x \in DOMAIN t |-> {x}]
           next(g) == [x \in DOMAIN t |-> Joined(t, g, x)]
           G == [g \in S |-> next(g)]
           Is(w) == w = [k \in 0..MaxDepth |-> w[k]] /\ w[0] = a /\ \A k \in 1..MaxDepth : w[k] = next(w[k - 1])
<1>1. a \in S
  OBVIOUS
<1>2. ASSUME NEW g \in S PROVE next(g) \in S
  <2>1. ASSUME NEW x \in DOMAIN t PROVE Joined(t, g, x) \in SUBSET DOMAIN t
    <3>1. \A d \in Kids(t, x) : g[d] \in SUBSET DOMAIN t
      BY DEF Kids
    <3> QED
      BY <3>1 DEF Joined
  <2> QED
    BY <2>1
<1>3. PICK f : Iteration(f, MaxDepth, S, a, G)
  <2>1. G \in [S -> S]
    BY <1>2
  <2>2. MaxDepth \in Nat
    OBVIOUS
  <2> HIDE DEF S, a, G
  <2> QED
    BY <1>1, <2>1, <2>2, Iterates
<1>4. Is(f)
  <2>1. \A k \in 1..MaxDepth : f[k - 1] \in S
    BY <1>3 DEF Iteration
  <2>2. \A g \in S : G[g] = next(g)
    OBVIOUS
  <2> HIDE DEF S, a, next, G
  <2> QED
    BY <1>3, <2>1, <2>2 DEF Iteration
<1>5. Is(Within(t))
  <2> DEFINE same(w) == [k \in 0..MaxDepth |-> [x \in DOMAIN t |->
                           {x} \cup (IF k = 0 THEN {} ELSE UNION {w[k - 1][d] : d \in Kids(t, x)})]]
  <2>1. ASSUME NEW w PROVE same(w)[0] = a /\ \A k \in 1..MaxDepth : same(w)[k] = next(w[k - 1])
    <3>1. 0 \in 0..MaxDepth /\ \A k \in 1..MaxDepth : k \in 0..MaxDepth /\ k # 0
      OBVIOUS
    <3> QED
      BY <3>1 DEF Joined
  <2>2. f = same(f)
    <3>1. \A k \in 0..MaxDepth : f[k] = same(f)[k]
      <4>1. \A k \in 0..MaxDepth : k = 0 \/ k \in 1..MaxDepth
        OBVIOUS
      <4> HIDE DEF a, next, same
      <4> QED
        BY <1>4, <2>1, <4>1
    <3>2. same(f) = [k \in 0..MaxDepth |-> same(f)[k]]
      OBVIOUS
    <3>3. f = [k \in 0..MaxDepth |-> f[k]]
      BY <1>4
    <3> HIDE DEF same, a, next
    <3> QED
      BY <3>1, <3>2, <3>3
  <2>3. Within(t) = same(Within(t))
    BY <2>2, Zenon DEF Within
  <2>4. \A w : same(w) = [k \in 0..MaxDepth |-> same(w)[k]]
    OBVIOUS
  <2> HIDE DEF a, next, same
  <2> QED
    BY <2>1, <2>3, <2>4
<1> DEFINE w == Within(t)
<1>6. \A k \in 0..MaxDepth : w[k] \in S
  <2> DEFINE Bad == {k \in 0..MaxDepth : w[k] \notin S}
  <2> SUFFICES ASSUME Bad # {} PROVE FALSE
    OBVIOUS
  <2>1. PICK k \in Bad : \A m \in Bad : k <= m
    <3>1. Bad \in SUBSET Nat
      OBVIOUS
    <3> HIDE DEF Bad
    <3> QED
      BY <3>1, LeastElement
  <2> HIDE DEF S, w, a, next
  <2>2. k # 0
    BY <1>1, <1>5, <2>1 DEF w
  <2>3. k \in 1..MaxDepth /\ k - 1 \in 0..MaxDepth /\ w[k - 1] \in S
    BY <2>1, <2>2
  <2> QED
    BY <1>2, <1>5, <2>1, <2>3 DEF w
<1>7. w \in [0..MaxDepth -> S]
  <2> HIDE DEF S, a, next
  <2> QED
    BY <1>5, <1>6
<1>8. \A x \in DOMAIN t : w[0][x] = {x}
  <2>1. \A x \in DOMAIN t : a[x] = {x}
    OBVIOUS
  <2> HIDE DEF a, next
  <2> QED
    BY <1>5, <2>1
<1>9. \A k \in 1..MaxDepth, x \in DOMAIN t : w[k][x] = Joined(t, w[k - 1], x)
  <2>1. \A g : \A x \in DOMAIN t : next(g)[x] = Joined(t, g, x)
    OBVIOUS
  <2> HIDE DEF a, next
  <2> QED
    BY <1>5, <2>1
<1> QED
  BY <1>7, <1>8, <1>9

(* Going up from a context ends in one.                                     *)
LEMMA AboveTree ==
    ASSUME NEW t, \A x \in DOMAIN t : t[x].parent # NoContext => t[x].parent \in DOMAIN t
    PROVE  Above(t)[MaxDepth] \in [DOMAIN t -> DOMAIN t]
<1> DEFINE S == [DOMAIN t -> DOMAIN t]
           a == [x \in DOMAIN t |-> x]
           next(g) == [x \in DOMAIN t |-> IF t[x].parent = NoContext THEN x ELSE g[t[x].parent]]
           G == [g \in S |-> next(g)]
           Is(w) == w = [k \in 0..MaxDepth |-> w[k]] /\ w[0] = a /\ \A k \in 1..MaxDepth : w[k] = next(w[k - 1])
<1>1. a \in S
  OBVIOUS
<1>2. ASSUME NEW g \in S PROVE next(g) \in S
  OBVIOUS
<1>3. PICK f : Iteration(f, MaxDepth, S, a, G)
  <2>1. G \in [S -> S]
    BY <1>2
  <2>2. MaxDepth \in Nat
    OBVIOUS
  <2> HIDE DEF S, a, G
  <2> QED
    BY <1>1, <2>1, <2>2, Iterates
<1>4. Is(f)
  <2>1. \A k \in 1..MaxDepth : f[k - 1] \in S
    BY <1>3 DEF Iteration
  <2>2. \A g \in S : G[g] = next(g)
    OBVIOUS
  <2> HIDE DEF S, a, next, G
  <2> QED
    BY <1>3, <2>1, <2>2 DEF Iteration
<1>5. Is(Above(t))
  <2> DEFINE same(w) == [k \in 0..MaxDepth |-> [x \in DOMAIN t |->
                           IF k = 0 \/ t[x].parent = NoContext THEN x ELSE w[k - 1][t[x].parent]]]
  <2>1. ASSUME NEW w PROVE same(w)[0] = a /\ \A k \in 1..MaxDepth : same(w)[k] = next(w[k - 1])
    <3>1. 0 \in 0..MaxDepth /\ \A k \in 1..MaxDepth : k \in 0..MaxDepth /\ k # 0
      OBVIOUS
    <3> QED
      BY <3>1
  <2>2. f = same(f)
    <3>1. \A k \in 0..MaxDepth : f[k] = same(f)[k]
      <4>1. \A k \in 0..MaxDepth : k = 0 \/ k \in 1..MaxDepth
        OBVIOUS
      <4> HIDE DEF a, next, same
      <4> QED
        BY <1>4, <2>1, <4>1
    <3>2. same(f) = [k \in 0..MaxDepth |-> same(f)[k]]
      OBVIOUS
    <3>3. f = [k \in 0..MaxDepth |-> f[k]]
      BY <1>4
    <3> HIDE DEF same, a, next
    <3> QED
      BY <3>1, <3>2, <3>3
  <2>3. Above(t) = same(Above(t))
    BY <2>2, Zenon DEF Above
  <2>4. \A w : same(w) = [k \in 0..MaxDepth |-> same(w)[k]]
    OBVIOUS
  <2> HIDE DEF a, next, same
  <2> QED
    BY <2>1, <2>3, <2>4
<1> DEFINE w == Above(t)
<1>6. \A k \in 0..MaxDepth : w[k] \in S
  <2> DEFINE Bad == {k \in 0..MaxDepth : w[k] \notin S}
  <2> SUFFICES ASSUME Bad # {} PROVE FALSE
    OBVIOUS
  <2>1. PICK k \in Bad : \A m \in Bad : k <= m
    <3>1. Bad \in SUBSET Nat
      OBVIOUS
    <3> HIDE DEF Bad
    <3> QED
      BY <3>1, LeastElement
  <2> HIDE DEF S, w, a, next
  <2>2. k # 0
    BY <1>1, <1>5, <2>1 DEF w
  <2>3. k \in 1..MaxDepth /\ k - 1 \in 0..MaxDepth /\ w[k - 1] \in S
    BY <2>1, <2>2
  <2> QED
    BY <1>2, <1>5, <2>1, <2>3 DEF w
<1> QED
  BY <1>6

(* A tree that grows at its leaves keeps what is within k calls of what.    *)
LEMMA WithinGrows ==
    ASSUME NEW t, NEW u, DOMAIN t \subseteq DOMAIN u,
           \A x \in DOMAIN t : u[x].parent = t[x].parent
    PROVE  \A k \in 0..MaxDepth : \A x \in DOMAIN t : Within(t)[k][x] \subseteq Within(u)[k][x]
<1> DEFINE Bad == {k \in 0..MaxDepth : \E x \in DOMAIN t : ~(Within(t)[k][x] \subseteq Within(u)[k][x])}
<1> SUFFICES ASSUME Bad # {} PROVE FALSE
  OBVIOUS
<1>1. PICK k \in Bad : \A m \in Bad : k <= m
  <2>1. Bad \in SUBSET Nat
    OBVIOUS
  <2> HIDE DEF Bad
  <2> QED
    BY <2>1, LeastElement
<1>2. PICK x \in DOMAIN t : ~(Within(t)[k][x] \subseteq Within(u)[k][x])
  BY <1>1
<1>3. k # 0
  BY <1>2, WithinTree
<1>4. k \in 1..MaxDepth /\ k - 1 \in 0..MaxDepth /\ k - 1 \notin Bad
  BY <1>1, <1>3
<1>5. \A d \in DOMAIN t : Within(t)[k - 1][d] \subseteq Within(u)[k - 1][d]
  BY <1>4
<1>6. Kids(t, x) \subseteq Kids(u, x) /\ Kids(t, x) \subseteq DOMAIN t
  BY DEF Kids
<1>7. Joined(t, Within(t)[k - 1], x) \subseteq Joined(u, Within(u)[k - 1], x)
  BY <1>5, <1>6 DEF Joined
<1> QED
  BY <1>2, <1>4, <1>7, WithinTree

(* The same of the contexts there are: below only grows, and reaches as far *)
(* as the subflows of the first step do.                                    *)
LEMMA Below ==
    ASSUME ctx \in Seq(Context)
    PROVE  /\ within = Within(ctx)
           /\ \A k \in 0..MaxDepth, x \in Contexts : within[k][x] \subseteq Contexts
           /\ \A x \in Contexts : within[0][x] = {x}
           /\ \A k \in 1..MaxDepth, x \in Contexts : \A d \in within[k][x] \ {x} :
                \E e \in childrenOf(x) : d \in within[k - 1][e]
<1>1. within = Within(ctx)
  BY DEF within, Within, Kids, childrenOf, Contexts
<1>2. \A x \in Contexts : Kids(ctx, x) = childrenOf(x)
  BY DEF Kids, childrenOf, Contexts
<1> QED
  BY <1>1, <1>2, WithinTree DEF Joined, Contexts

--------------------------------------------------------------------------------
(* What a call knows stays true while the run moves *)

(* What every step does to the contexts, at most: callers stay, orders grow *)
(* and what has ended stays ended; a paused context moves by its next       *)
(* order.                                                                   *)
Grows ==
    /\ Len(ctx) <= Len(ctx')
    /\ \A x \in Contexts :
         /\ ctx'[x].parent = ctx[x].parent /\ ctx'[x].debug = ctx[x].debug
         /\ ctx'[x].order >= ctx[x].order
         /\ ctx[x].state \in ENDED => ctx'[x].state \in ENDED
         /\ ctx[x].state = "paused" =>
              ctx'[x].state \in ENDED \cup {"paused"} \/ ctx'[x].order > ctx[x].order

LEMMA StateOf ==
    ASSUME EngineInv
    PROVE  /\ Contexts = 1..Len(ctx) /\ Len(ctx) \in Nat
           /\ \A x \in Contexts : /\ ctx[x] \in Context /\ x \in Nat
                                  /\ open(x) <=> ctx[x].state \notin ENDED
                                  /\ ctx[x].order \in Nat /\ ctx[x].parent \in 0..(x - 1)
                                  /\ ctx[x].parent # NoContext => ctx[x].parent \in Contexts
<1>1. Contexts = 1..Len(ctx) /\ Len(ctx) \in Nat
  BY DEF EngineInv, Contexts
<1>2. \A x \in Contexts : ctx[x] \in Context
  BY <1>1 DEF EngineInv
<1>3. \A x \in Contexts : /\ open(x) <=> ctx[x].state \notin ENDED
                          /\ ctx[x].order \in Nat
  BY <1>2 DEF Context, States, open, ENDED, OPEN
<1> QED
  BY <1>1, <1>2, <1>3 DEF EngineInv, NoContext

LEMMA Later ==
    ASSUME EngineInv, EngineInv', Grows
    PROVE  /\ Contexts \subseteq Contexts'
           /\ \A x \in Contexts : open(x)' => open(x)
           /\ \A k \in 0..MaxDepth, x \in Contexts : within[k][x] \subseteq within'[k][x]
           /\ \A x \in Contexts : below(x) \subseteq below(x)'
<1>1. Contexts \subseteq Contexts'
  BY DEF EngineInv, Grows, Contexts
<1>2. ASSUME NEW x \in Contexts, open(x)' PROVE open(x)
  <2>1. ctx'[x].state \notin ENDED
    BY <1>2 DEF open, ENDED, OPEN
  <2> QED
    BY <2>1, StateOf DEF Grows
<1>3. within = Within(ctx)
  BY DEF within, Within, Kids, childrenOf, Contexts
<1>4. within' = Within(ctx')
  BY DEF within, Within, Kids, childrenOf, Contexts
<1>5. \A k \in 0..MaxDepth, x \in Contexts : within[k][x] \subseteq within'[k][x]
  BY <1>1, <1>3, <1>4, WithinGrows DEF Grows, Contexts
<1>6. \A x \in Contexts : below(x) \subseteq below(x)'
  BY <1>5 DEF below
<1> QED
  BY <1>1, <1>2, <1>5, <1>6

LEMMA CallLater ==
    ASSUME NEW m \in Nat, NEW n \in Nat, m <= n, NEW c \in Call(m)
    PROVE  c \in Call(n)
<1>1. Id(m) \subseteq Id(n) /\ Ids(m) \subseteq Ids(n) /\ Chain(m) \subseteq Chain(n)
  BY DEF Id, Ids, Chain
<1>2. Before(m) \subseteq Before(n)
  BY <1>1 DEF Before
<1> QED
  BY <1>1, <1>2 DEF Call

LEMMA PathLater ==
    ASSUME EngineInv, EngineInv', Grows, NEW q \in Seq(Contexts), NEW r \in Contexts, Path(q, r)
    PROVE  Path(q, r)'
<1>1. Len(q) \in Nat /\ \A i \in 1..Len(q) : q[i] \in Contexts
  OBVIOUS
<1>2. \A x \in Contexts : ctx'[x].parent = ctx[x].parent /\ ctx'[x].debug = ctx[x].debug
  BY DEF Grows
<1>3. ASSUME NEW i \in 1..Len(q) PROVE ctx'[q[i]].debug = ctx'[r].debug
  <2>1. ctx[q[i]].debug = ctx[r].debug
    BY DEF Path
  <2> QED
    BY <1>1, <1>2, <2>1
<1>4. ASSUME NEW i \in 1..(Len(q) - 1) PROVE ctx'[q[i + 1]].parent = q[i]
  <2>1. ctx[q[i + 1]].parent = q[i]
    BY DEF Path
  <2>2. i + 1 \in 1..Len(q)
    BY <1>1
  <2> QED
    BY <1>1, <1>2, <2>1, <2>2
<1>5. q # << >> /\ Len(q) <= MaxDepth + 1 /\ q[1] = r
  BY DEF Path
<1> QED
  BY <1>3, <1>4, <1>5 DEF Path

LEMMA Orders ==
    ASSUME NEW t \in Seq(Context)
    PROVE  \A x \in DOMAIN t : t[x].order \in Nat
<1>1. \A x \in DOMAIN t : t[x] \in Context
  OBVIOUS
<1> QED
  BY <1>1 DEF Context

LEMMA KeptLater ==
    ASSUME EngineInv, EngineInv', Grows, NEW x \in Contexts, NEW order \in Nat, Kept(x, order)
    PROVE  Kept(x, order)'
<1>1. /\ ctx[x].order \in Nat /\ ctx'[x].order \in Nat /\ ctx'[x].order >= ctx[x].order
      /\ open(x)' => open(x)
  BY Orders, Later DEF Grows, EngineInv, Contexts
<1>2. ctx[x].state = "paused" => ~open(x)' \/ ctx'[x].state = "paused" \/ ctx'[x].order > ctx[x].order
  BY DEF Grows, open, ENDED, OPEN
<1> QED
  BY <1>1, <1>2 DEF Kept

LEMMA MovedLater ==
    ASSUME EngineInv, EngineInv', Grows, NEW b, b[1] \in Seq(Contexts), b[1] # << >>,
           b[3] \in Nat, Moved(b)
    PROVE  Moved(b)'
<1>1. Last(b[1]) \in Contexts
  BY DEF Last
<1>2. \A i \in DOMAIN b[1] : b[1][i] \in Contexts
  OBVIOUS
<1>3. CASE ctx[Last(b[1])].order > b[3]
  <2>1. ctx[Last(b[1])].order \in Nat /\ ctx'[Last(b[1])].order \in Nat
    BY <1>1, Orders, Later DEF EngineInv, Contexts
  <2> QED
    BY <1>1, <1>3, <2>1 DEF Grows, Moved
<1>4. CASE \E i \in DOMAIN b[1] : ~open(b[1][i])
  BY <1>2, <1>4, Later DEF Moved
<1> QED
  BY <1>3, <1>4 DEF Moved

(* The fields of a call that speak of contexts.                             *)
LEMMA CallTyped ==
    ASSUME EngineInv, NEW c \in Call(Len(ctx))
    PROVE  /\ c.chain \in Seq(Contexts) /\ c.root \in 0..Len(ctx) /\ c.cur \in 0..Len(ctx)
           /\ c.root # NoContext => c.root \in Contexts
           /\ c.cur # NoContext => c.cur \in Contexts
           /\ c.level \subseteq Contexts /\ c.next \subseteq Contexts /\ c.seen \subseteq Contexts
           /\ c.found \subseteq Contexts /\ c.tree \subseteq Contexts
           /\ c.order \in Nat /\ c.depth \in 0..(MaxDepth - 1) /\ c.walked \in 0..2
           /\ c.before # << >> => c.before[1] \in Seq(Contexts) /\ c.before[3] \in Nat
<1>1. /\ c.chain \in Chain(Len(ctx)) /\ c.root \in Id(Len(ctx)) /\ c.cur \in Id(Len(ctx))
      /\ c.level \in Ids(Len(ctx)) /\ c.next \in Ids(Len(ctx)) /\ c.seen \in Ids(Len(ctx))
      /\ c.found \in Ids(Len(ctx)) /\ c.tree \in Ids(Len(ctx)) /\ c.order \in Count
      /\ c.depth \in Depth /\ c.walked \in Walks /\ c.before \in Before(Len(ctx))
  BY DEF Call
<1>2. Contexts = 1..Len(ctx) /\ Len(ctx) \in Nat
  BY StateOf
<1>3. c.before # << >> => c.before[1] \in Chain(Len(ctx)) /\ c.before[3] \in Nat
  BY <1>1 DEF Before
<1> QED
  BY <1>1, <1>2, <1>3 DEF Chain, Id, Ids, Count, Depth, Walks, NoContext

LEMMA LookingLater ==
    ASSUME EngineInv, EngineInv', Grows, NEW c \in Call(Len(ctx)), Staged(c), Looking(c)
    PROVE  Looking(c)'
<1>1. c.pc \in Observing \cup {"command"} => c.root \in Contexts
  BY CallTyped DEF Staged, Observing
<1>2. c.pc \in Observing \cup {"command"} => Path(c.chain, c.root)'
  BY <1>1, CallTyped, PathLater DEF Looking
<1>3. c.pc = "command" => ctx'[c.root].debug /\ Kept(Last(c.chain), c.order)'
  <2> SUFFICES ASSUME c.pc = "command" PROVE ctx'[c.root].debug /\ Kept(Last(c.chain), c.order)'
    OBVIOUS
  <2>1. Last(c.chain) \in Contexts
    BY CallTyped DEF Looking, Path, Last
  <2> QED
    BY <1>1, <2>1, CallTyped, KeptLater DEF Looking, Grows
<1>4. c.pc \in Observing /\ c.why = "after" => Awaiting(c)'
  <2> SUFFICES ASSUME c.pc \in Observing, c.why = "after" PROVE Awaiting(c)'
    OBVIOUS
  <2> DEFINE q == c.before[1]
  <2>1. Awaiting(c)
    BY DEF Looking
  <2>2. q \in Seq(Contexts) /\ q # << >> /\ c.before[3] \in Nat /\ c.root \in Contexts
    BY <1>1, <2>1, CallTyped DEF Awaiting, Commanded, Path
  <2>3. Last(q) \in Contexts
    BY <2>2 DEF Last
  <2>4. Path(q, c.root)' /\ Kept(Last(q), c.before[3])'
    BY <2>1, <2>2, <2>3, PathLater, KeptLater DEF Awaiting, Commanded
  <2>5. Moved(c.before) => Moved(c.before)'
    BY <2>2, MovedLater
  <2>6. ctx'[c.root].debug
    BY <2>1, <2>2 DEF Awaiting, Commanded, Grows
  <2> QED
    BY <2>1, <2>4, <2>5, <2>6 DEF Awaiting, Commanded
<1> QED
  BY <1>2, <1>3, <1>4 DEF Looking

LEMMA EndingLater ==
    ASSUME EngineInv, EngineInv', Grows, NEW c \in Call(Len(ctx)), c.root # NoContext, Ending(c)
    PROVE  Ending(c)'
<1>0. /\ c.root \in Contexts
      /\ \A x \in Contexts : ctx'[x].debug = ctx[x].debug /\ ctx'[x].parent = ctx[x].parent
      /\ \A x \in Contexts : open(x)' => open(x)
      /\ below(c.root) \subseteq below(c.root)'
  BY CallTyped, Later DEF Grows
<1>1. Remaining(c)' \subseteq Remaining(c)
  BY <1>0, CallTyped DEF Remaining
<1>2. c.tree \subseteq below(c.root)'
  BY <1>0 DEF Ending
<1>3. ASSUME c.pc # "first"
      PROVE  /\ c.walked # 0 /\ ctx'[c.root].debug
             /\ \A d \in c.level \cup c.next \cup c.found : ctx'[d].debug
             /\ c.first \/ c.after => ~open(c.root)'
  BY <1>0, <1>3, CallTyped DEF Ending
<1>4. ASSUME c.pc = "walk" PROVE Walking(c)'
  <2> DEFINE k == MaxDepth - c.depth
  <2>0. k \in 0..MaxDepth /\ k - 1 \in 0..MaxDepth
    BY CallTyped
  <2>1. Walking(c)
    BY <1>4 DEF Ending
  <2>2. \A e \in c.seen : \/ e = c.root
                          \/ e > c.root /\ ctx'[e].parent \in c.seen \ (c.level \cup c.next)
    BY <1>0, <2>1, CallTyped DEF Walking
  <2>3. ASSUME NEW d \in Remaining(c)'
        PROVE  \/ d \in c.found
               \/ \E p \in c.level : d \in within'[k][p] \ {p}
               \/ \E p \in c.next : d \in within'[k - 1][p] \ {p}
    <3>1. \A p \in c.level \cup c.next : within[k][p] \subseteq within'[k][p]
                                        /\ within[k - 1][p] \subseteq within'[k - 1][p]
      BY <2>0, CallTyped, Later
    <3> HIDE DEF k
    <3> QED
      BY <1>1, <2>1, <3>1 DEF Walking, k
  <2> QED
    BY <2>1, <2>2, <2>3 DEF Walking
<1>5. ASSUME c.pc \in {"cancel", "settle"}
      PROVE  /\ c.cur # NoContext /\ ctx'[c.cur].debug
             /\ c.walked = 1 => c.cur = c.root
             /\ c.walked = 2 => Remaining(c)' \subseteq c.found \cup {c.cur}
             /\ c.walked = 2 /\ c.cur = c.root => c.found = {}
  BY <1>0, <1>1, <1>5, CallTyped DEF Ending
<1>6. c.pc = "child" => c.walked = 2 /\ Remaining(c)' \subseteq c.found
  BY <1>1 DEF Ending
<1> QED
  BY <1>2, <1>3, <1>4, <1>5, <1>6 DEF Ending

LEMMA OverLater ==
    ASSUME EngineInv, EngineInv', Grows, NEW c \in Call(Len(ctx)), Over(c)
    PROVE  Over(c)'
<1>1. c.ended => ~open(c.root)' /\ Remaining(c)' = {}
  BY CallTyped, Later DEF Over, Remaining
<1>2. c.before # << >> /\ c.before[1] # << >> /\ Moved(c.before) => Moved(c.before)'
  BY CallTyped, MovedLater
<1> QED
  BY <1>1, <1>2 DEF Over

(* What a call knows stays true when the contexts move by themselves, and   *)
(* when another call or this one makes a request.                           *)
LEMMA StableCall ==
    ASSUME EngineInv, EngineInv', Grows, NEW c, CallInv(c)
    PROVE  CallInv(c)'
<1>1. c \in Call(Len(ctx)) /\ Staged(c)
  BY DEF CallInv
<1>2. (c \in Call(Len(ctx)))'
  <2>1. Len(ctx) \in Nat /\ Len(ctx)' \in Nat /\ Len(ctx) <= Len(ctx)'
    BY DEF EngineInv, Grows
  <2> QED
    BY <1>1, <2>1, CallLater
<1>3. Staged(c)'
  BY <1>1 DEF Staged, Method, Suits
<1>4. c.stage # "cancelling" => Looking(c)'
  BY <1>1, LookingLater DEF CallInv
<1>5. c.stage = "cancelling" => Ending(c)'
  <2>1. c.stage = "cancelling" => c.root # NoContext
    BY <1>1 DEF Staged, Cancelling
  <2> QED
    BY <1>1, <2>1, EndingLater DEF CallInv
<1>6. c.pc = "idle" => Over(c)'
  BY <1>1, OverLater DEF CallInv
<1> QED
  BY <1>2, <1>3, <1>4, <1>5, <1>6 DEF CallInv

--------------------------------------------------------------------------------
(* How the contexts change *)

(* The contexts change, none is new, and none goes on while it waits for    *)
(* one that is open.                                                        *)
LEMMA SameTree ==
    ASSUME EngineInv, ctx' \in Seq(Context), Len(ctx') = Len(ctx), Grows,
           \A x \in Contexts : ctx'[x].posted # {} => ctx[x].debug,
           \A x \in Contexts : ctx[x].debug /\ ctx[x].state = "waiting" /\ ctx'[x].state # "waiting" =>
               ctx'[x].state \in ENDED \/ \A d \in childrenOf(x) : ~open(d)
    PROVE  EngineInv'
<1>1. Contexts' = Contexts
  BY DEF Contexts, EngineInv
<1>2. /\ \A x \in Contexts : ctx'[x].parent = ctx[x].parent /\ ctx'[x].debug = ctx[x].debug
      /\ \A x \in Contexts : ctx[x].state \in ENDED => ctx'[x].state \in ENDED
      /\ \A x \in Contexts : ctx'[x].state \in OPEN => open(x)
  <2>1. \A x \in Contexts : ctx'[x].state \in OPEN => ctx'[x].state \notin ENDED
    BY DEF OPEN, ENDED
  <2> QED
    BY <2>1, StateOf DEF Grows
<1>3. OneOpenChild'
  <2> SUFFICES ASSUME NEW x \in Contexts, ctx[x].debug, ctx'[x].state \in OPEN, ctx[x].parent # NoContext
               PROVE  /\ ctx'[ctx[x].parent].state \in ENDED \cup {"waiting"}
                      /\ \A y \in Contexts : ctx[y].parent = ctx[x].parent /\ ctx'[y].state \in OPEN => y = x
    BY <1>1, <1>2, StateOf DEF OneOpenChild, open
  <2> DEFINE p == ctx[x].parent
  <2>1. open(x) /\ p \in Contexts /\ ctx[p].debug /\ x \in childrenOf(p)
    BY <1>2, StateOf DEF EngineInv, childrenOf
  <2>2. /\ ctx[p].state \in ENDED \cup {"waiting"}
        /\ \A y \in Contexts : ctx[y].parent = p /\ open(y) => y = x
    BY <2>1 DEF EngineInv, OneOpenChild
  <2>3. ctx'[p].state \in ENDED \cup {"waiting"}
    BY <1>2, <2>1, <2>2
  <2> QED
    BY <1>2, <2>2, <2>3
<1>4. \A x \in Contexts :
        /\ ctx'[x].parent \in 0..(x - 1)
        /\ ctx'[x].parent # NoContext => ctx'[x].debug = ctx'[ctx'[x].parent].debug
        /\ ctx'[x].posted # {} => ctx'[x].debug
  <2>1. \A x \in Contexts : /\ ctx[x].parent \in 0..(x - 1)
                            /\ ctx[x].parent # NoContext => /\ ctx[x].debug = ctx[ctx[x].parent].debug
                                                            /\ ctx[x].parent \in Contexts
    BY StateOf DEF EngineInv
  <2> QED
    BY <1>2, <2>1
<1> QED
  BY <1>1, <1>3, <1>4 DEF EngineInv

(* What one debugged context x may become.                                  *)
Becomes(x, r) ==
    /\ r \in Context
    /\ ctx[x].debug
    /\ r.parent = ctx[x].parent /\ r.debug = ctx[x].debug
    /\ r.order >= ctx[x].order
    /\ r.state # ctx[x].state =>
         /\ ctx[x].state \notin ENDED
         /\ ctx[x].state = "waiting" => r.state \in ENDED \/ \A d \in childrenOf(x) : ~open(d)
         /\ ctx[x].state = "paused" => r.state \in ENDED \/ r.order > ctx[x].order

LEMMA OneMoves ==
    ASSUME EngineInv, NEW x \in Contexts, NEW r, Becomes(x, r), ctx' = [ctx EXCEPT ![x] = r]
    PROVE  EngineInv' /\ Grows
<1>1. ctx' \in Seq(Context) /\ Len(ctx') = Len(ctx) /\ Len(ctx) \in Nat
  <2>1. ctx \in Seq(Context) /\ x \in 1..Len(ctx)
    BY DEF EngineInv, Contexts
  <2> QED
    BY <2>1 DEF Becomes
<1>2. ctx'[x] = r /\ \A y \in Contexts \ {x} : ctx'[y] = ctx[y]
  BY DEF Contexts
<1>3. \A y \in Contexts : ctx[y].order \in Nat
  BY StateOf
<1>4. Grows
  <2> SUFFICES ASSUME NEW y \in Contexts
               PROVE  /\ ctx'[y].parent = ctx[y].parent /\ ctx'[y].debug = ctx[y].debug
                      /\ ctx'[y].order >= ctx[y].order
                      /\ ctx[y].state \in ENDED => ctx'[y].state \in ENDED
                      /\ ctx[y].state = "paused" =>
                           ctx'[y].state \in ENDED \cup {"paused"} \/ ctx'[y].order > ctx[y].order
    BY <1>1 DEF Grows
  <2>1. CASE y = x
    BY <1>2, <2>1 DEF Becomes
  <2>2. CASE y # x
    BY <1>2, <1>3, <2>2
  <2> QED
    BY <2>1, <2>2
<1>5. \A y \in Contexts : ctx'[y].posted # {} => ctx[y].debug
  BY <1>2 DEF Becomes, EngineInv, Context
<1>6. \A y \in Contexts : ctx[y].debug /\ ctx[y].state = "waiting" /\ ctx'[y].state # "waiting" =>
          ctx'[y].state \in ENDED \/ \A d \in childrenOf(y) : ~open(d)
  BY <1>2 DEF Becomes
<1> QED
  BY <1>1, <1>4, <1>5, <1>6, SameTree

(* A context is created, called by none or by one that waits.               *)
LEMMA OneMore ==
    ASSUME EngineInv, Len(ctx) < MaxContexts, NEW p \in 0..Len(ctx), NEW debug \in BOOLEAN,
           ctx' = Append(ctx, NewContext(p, debug)),
           p # NoContext => /\ ctx[p].debug = debug /\ ctx[p].state = "waiting"
                            /\ \A d \in childrenOf(p) : ~open(d)
    PROVE  /\ EngineInv' /\ Grows
           /\ Len(ctx') = Len(ctx) + 1 /\ ctx'[Len(ctx) + 1] = NewContext(p, debug)
<1> DEFINE n == Len(ctx) + 1
           r == NewContext(p, debug)
<1>1. /\ r \in Context /\ r.state = "executing" /\ r.parent = p /\ r.debug = debug /\ r.posted = {}
  BY DEF NewContext, Context, States, OPEN
<1> HIDE DEF r
<1>2. /\ ctx' \in Seq(Context) /\ Len(ctx') = n /\ Contexts' = 1..n /\ Contexts = 1..(n - 1) /\ n \in Nat
      /\ ctx'[n] = r /\ \A x \in Contexts : ctx'[x] = ctx[x]
  BY <1>1 DEF EngineInv, Contexts, r
<1>3. Grows
  <2>1. \A y \in Contexts : ctx[y].order \in Nat
    BY StateOf
  <2> QED
    BY <1>2, <2>1 DEF Grows
<1>4. \A x \in Contexts' :
        /\ ctx'[x].parent \in 0..(x - 1)
        /\ ctx'[x].parent # NoContext => ctx'[x].debug = ctx'[ctx'[x].parent].debug
        /\ ctx'[x].posted # {} => ctx'[x].debug
  <2> TAKE x \in Contexts'
  <2>1. CASE x = n
    BY <1>1, <1>2, <2>1 DEF NoContext
  <2>2. CASE x # n
    BY <1>2, <2>2, StateOf DEF EngineInv
  <2> QED
    BY <2>1, <2>2
<1>5. OneOpenChild'
  <2> SUFFICES ASSUME NEW x \in Contexts', ctx'[x].debug, ctx'[x].state \in OPEN, ctx'[x].parent # NoContext
               PROVE  /\ ctx'[ctx'[x].parent].state \in ENDED \cup {"waiting"}
                      /\ \A y \in Contexts' : ctx'[y].parent = ctx'[x].parent /\ ctx'[y].state \in OPEN => y = x
    BY DEF OneOpenChild, open
  <2>1. CASE x = n
    <3>1. p \in Contexts /\ ctx'[p] = ctx[p] /\ ctx[p].state = "waiting"
      BY <1>1, <1>2, <2>1 DEF NoContext
    <3>2. \A y \in Contexts : ctx[y].parent = p => ctx[y].state \notin OPEN
      BY <1>1, <1>2, <2>1 DEF childrenOf, open
    <3> QED
      BY <1>1, <1>2, <2>1, <3>1, <3>2
  <2>2. CASE x # n
    <3>1. x \in Contexts /\ ctx'[x] = ctx[x] /\ ctx[x].parent \in Contexts
      BY <1>2, <2>2, StateOf
    <3>2. /\ ctx[ctx[x].parent].state \in ENDED \cup {"waiting"}
          /\ \A y \in Contexts : ctx[y].parent = ctx[x].parent /\ ctx[y].state \in OPEN => y = x
      BY <3>1 DEF EngineInv, OneOpenChild, open
    <3>3. p # NoContext => p # ctx[x].parent
      BY <3>1 DEF childrenOf, open
    <3>4. \A y \in Contexts' : y = n \/ (y \in Contexts /\ ctx'[y] = ctx[y])
      BY <1>2
    <3>5. ctx'[n].parent = p /\ ctx'[ctx[x].parent] = ctx[ctx[x].parent]
      BY <1>1, <1>2, <3>1
    <3> QED
      BY <2>2, <3>1, <3>2, <3>3, <3>4, <3>5, ZenonT(60)
  <2> QED
    BY <2>1, <2>2
<1>6. Len(ctx') \in 1..MaxContexts
  BY <1>2
<1>7. EngineInv'
  BY <1>2, <1>4, <1>5, <1>6 DEF EngineInv
<1> QED
  BY <1>2, <1>3, <1>7 DEF r

(* A request to a debugged context (posts).                                 *)
LEMMA Posted ==
    ASSUME EngineInv, NEW x \in Contexts, ctx[x].debug, NEW what \in {"command", "cancel"},
           posts(x, what)
    PROVE  EngineInv' /\ Grows
<1>9. PICK r : r = [ctx[x] EXCEPT !.posted = IF open(x) THEN @ \cup {what} ELSE @]
  OBVIOUS
<1>1. ctx[x] \in Context
  BY StateOf
<1>2. /\ r \in Context /\ r.state = ctx[x].state /\ r.parent = ctx[x].parent
      /\ r.debug = ctx[x].debug /\ r.order = ctx[x].order
  BY <1>9, <1>1 DEF Context
<1>3. ctx' = [ctx EXCEPT ![x] = r]
  BY <1>9 DEF posts
<1>4. ctx[x].order \in Nat
  BY StateOf
<1>8. Becomes(x, r)
  BY <1>2, <1>3, <1>4 DEF Becomes
<1> QED
  BY <1>3, <1>8, OneMoves

(* A context that is not waiting has called nothing that is still open.     *)
LEMMA NoneOpen ==
    ASSUME EngineInv, NEW x \in Contexts, ctx[x].debug, ctx[x].state \in {"executing", "paused"}
    PROVE  \A d \in childrenOf(x) : ~open(d)
<1> SUFFICES ASSUME NEW d \in Contexts, ctx[d].parent = x, open(d) PROVE FALSE
  BY DEF childrenOf
<1>1. ctx[d].parent # NoContext /\ ctx[d].debug
  BY StateOf DEF EngineInv, NoContext
<1> QED
  BY <1>1 DEF EngineInv, OneOpenChild, ENDED

(* The engine keeps its invariant.                                          *)
LEMMA EngineStep ==
    ASSUME EngineInv, NEW x \in Contexts, engine(x)
    PROVE  EngineInv' /\ Grows
<1>0. /\ ctx[x] \in Context /\ ctx[x].debug /\ ctx[x].order \in Nat
      /\ ctx[x].order \in 0..MaxOrder /\ ctx[x].posted \in SUBSET {"command", "cancel"}
  BY StateOf DEF engine, Context
<1>1. CASE executes(x)
  <2>1. PICK s \in {"paused", "waiting", "complete"} :
           ctx' = [ctx EXCEPT ![x].state = s, ![x].posted = IF s = "complete" THEN {} ELSE @]
    BY <1>1 DEF executes
  <2>9. PICK r : r = [ctx[x] EXCEPT !.state = s, !.posted = IF s = "complete" THEN {} ELSE @]
    OBVIOUS
  <2>2. /\ r \in Context /\ r.parent = ctx[x].parent /\ r.debug = ctx[x].debug /\ r.order = ctx[x].order
    BY <2>9, <1>0 DEF Context, States, ENDED, OPEN
  <2>3. ctx' = [ctx EXCEPT ![x] = r]
    BY <2>9, <2>1
  <2>4. ctx[x].state = "executing" /\ ctx[x].state \notin ENDED
    BY <1>1 DEF executes, ENDED
  <2>8. Becomes(x, r)
    BY <1>0, <2>2, <2>3, <2>4 DEF Becomes
  <2> QED
    BY <2>3, <2>8, OneMoves
<1>2. CASE callsSubflow(x)
  <2>1. /\ Len(ctx) < MaxContexts /\ x \in 0..Len(ctx) /\ ctx[x].state = "waiting"
        /\ \A d \in childrenOf(x) : ~open(d)
        /\ ctx' = Append(ctx, NewContext(x, ctx[x].debug)) /\ ctx[x].debug \in BOOLEAN
    BY <1>0, <1>2, StateOf DEF callsSubflow, Context
  <2> QED
    BY <2>1, OneMore
<1>3. CASE continues(x)
  <2>9. PICK r : r = [ctx[x] EXCEPT !.state = "executing"]
    OBVIOUS
  <2>1. r \in Context /\ r.parent = ctx[x].parent /\ r.debug = ctx[x].debug /\ r.order = ctx[x].order
    BY <2>9, <1>0 DEF Context, States, ENDED, OPEN
  <2>2. ctx' = [ctx EXCEPT ![x] = r]
    BY <2>9, <1>3 DEF continues
  <2>3. ctx[x].state = "waiting" /\ ctx[x].state \notin ENDED /\ \A d \in childrenOf(x) : ~open(d)
    BY <1>3 DEF continues, ENDED
  <2>8. Becomes(x, r)
    BY <1>0, <2>1, <2>2, <2>3 DEF Becomes
  <2> QED
    BY <2>2, <2>8, OneMoves
<1>4. CASE takesCommand(x)
  <2>9. PICK r : r = [ctx[x] EXCEPT !.state = "executing", !.order = @ + 1, !.posted = @ \ {"command"}]
    OBVIOUS
  <2>1. ctx[x].state = "paused" /\ ctx[x].order < MaxOrder /\ ctx[x].state \notin ENDED
    BY <1>4 DEF takesCommand, ENDED
  <2>2. r \in Context /\ r.parent = ctx[x].parent /\ r.debug = ctx[x].debug /\ r.order = ctx[x].order + 1
    <3>1. ctx[x].order + 1 \in 0..MaxOrder /\ "executing" \in States
      BY <1>0, <2>1 DEF States, OPEN
    <3> QED
      BY <2>9, <1>0, <3>1 DEF Context
  <2>3. ctx' = [ctx EXCEPT ![x] = r]
    BY <2>9, <1>4 DEF takesCommand
  <2>8. Becomes(x, r)
    BY <1>0, <2>1, <2>2, <2>3 DEF Becomes
  <2> QED
    BY <2>3, <2>8, OneMoves
<1>5. CASE takesCancel(x)
  <2>1. CASE ctx' = [ctx EXCEPT ![x].posted = @ \ {"cancel"}]
    <3>9. PICK r : r = [ctx[x] EXCEPT !.posted = @ \ {"cancel"}]
      OBVIOUS
    <3>1. /\ r \in Context /\ r.parent = ctx[x].parent /\ r.debug = ctx[x].debug /\ r.order = ctx[x].order
          /\ r.state = ctx[x].state
      BY <3>9, <1>0 DEF Context
    <3>2. ctx' = [ctx EXCEPT ![x] = r]
      BY <3>9, <2>1
    <3>8. Becomes(x, r)
      BY <1>0, <3>1, <3>2 DEF Becomes
    <3> QED
      BY <3>2, <3>8, OneMoves
  <2>2. ASSUME NEW reached,
               ctx' = [d \in Contexts |-> IF d \in {x} \cup reached
                         THEN [ctx[d] EXCEPT !.state = "cancelled", !.posted = {}] ELSE ctx[d]]
        PROVE  EngineInv' /\ Grows
    <3>1. ASSUME NEW d \in Contexts
          PROVE  /\ ctx'[d] \in Context
                 /\ ctx'[d].parent = ctx[d].parent /\ ctx'[d].debug = ctx[d].debug /\ ctx'[d].order = ctx[d].order
                 /\ ctx'[d].posted \subseteq ctx[d].posted
                 /\ ctx'[d].state = ctx[d].state \/ ctx'[d].state = "cancelled"
      <4>1. ctx[d] \in Context
        BY StateOf
      <4>2. CASE d \in {x} \cup reached
        <5>1. ctx'[d] = [ctx[d] EXCEPT !.state = "cancelled", !.posted = {}]
          BY <2>2, <4>2
        <5> QED
          BY <4>1, <5>1 DEF Context, States, ENDED
      <4>3. CASE d \notin {x} \cup reached
        BY <2>2, <4>1, <4>3
      <4> QED
        BY <4>2, <4>3
    <3>2. ctx' \in Seq(Context) /\ Len(ctx') = Len(ctx)
      <4>1. Len(ctx) \in Nat /\ Contexts = 1..Len(ctx)
        BY StateOf
      <4>2. DOMAIN ctx' = 1..Len(ctx) /\ ctx' = [d \in 1..Len(ctx) |-> ctx'[d]]
        BY <2>2, <4>1
      <4> QED
        BY <3>1, <4>1, <4>2
    <3>3. Grows
      <4>1. \A d \in Contexts : ctx[d].order \in Nat
        BY StateOf
      <4>2. "cancelled" \in ENDED /\ Len(ctx) \in Nat
        BY StateOf DEF ENDED
      <4> QED
        BY <3>1, <3>2, <4>1, <4>2 DEF Grows
    <3>4. \A d \in Contexts : ctx'[d].posted # {} => ctx[d].debug
      BY <3>1 DEF EngineInv
    <3>5. \A d \in Contexts : ctx'[d].state # ctx[d].state => ctx'[d].state \in ENDED
      BY <3>1 DEF ENDED
    <3> QED
      BY <3>2, <3>3, <3>4, <3>5, SameTree
  <2> QED
    BY <1>5, <2>1, <2>2 DEF takesCancel
<1> QED
  BY <1>1, <1>2, <1>3, <1>4, <1>5 DEF engine

LEMMA InitEngine == Init => EngineInv
<1> SUFFICES ASSUME Init PROVE EngineInv
  OBVIOUS
<1> DEFINE n == Len(Initial)
           S == [parent : Nat, debug : BOOLEAN, state : States]
<1>1. Initial \in Seq(S) /\ n \in 1..MaxContexts /\ DOMAIN Initial = 1..n
  BY FlowDebuggerAssumption DEF States
<1>2. ASSUME NEW x \in 1..n
      PROVE  /\ ctx[x] \in Context /\ ctx[x].state = Initial[x].state /\ ctx[x].parent = Initial[x].parent
             /\ ctx[x].debug = Initial[x].debug /\ ctx[x].posted = {}
  <2>1. Initial[x].parent \in Nat /\ Initial[x].debug \in BOOLEAN /\ Initial[x].state \in States
    <3>1. Initial[x] \in S
      <4> HIDE DEF S, n
      <4> QED
        BY <1>1
    <3> QED
      BY <3>1
  <2>2. ctx[x] = [NewContext(Initial[x].parent, Initial[x].debug) EXCEPT !.state = Initial[x].state]
    BY <1>1 DEF Init
  <2>3. 0 \in 0..MaxOrder
    OBVIOUS
  <2> HIDE DEF n, S
  <2> QED
    BY <2>1, <2>2, <2>3 DEF NewContext, Context
<1>3. ctx \in Seq(Context) /\ Len(ctx) = n /\ Contexts = 1..n
  <2>1. n \in Nat
    BY <1>1
  <2>2. ctx = [x \in 1..n |-> ctx[x]]
    BY <1>1 DEF Init
  <2> HIDE DEF n
  <2> QED
    BY <1>2, <2>1, <2>2 DEF Contexts
<1>4. \A x \in 1..n :
         LET p == Initial[x].parent IN
         /\ p \in 0..(x - 1)
         /\ p # NoContext =>
              /\ Initial[x].debug = Initial[p].debug
              /\ Initial[x].debug /\ Initial[x].state \in OPEN =>
                   /\ Initial[p].state \in ENDED \cup {"waiting"}
                   /\ \A y \in 1..n : Initial[y].parent = p /\ Initial[y].state \in OPEN => y = x
  BY <1>1, FlowDebuggerAssumption
<1>5. \A x \in 1..n : Initial[x].parent # NoContext => Initial[x].parent \in 1..n
  BY <1>1, <1>4 DEF NoContext
<1> HIDE DEF n, S
<1>6. OneOpenChild
  <2>1. \A x \in 1..n : /\ ctx[x].state = Initial[x].state /\ ctx[x].parent = Initial[x].parent
                        /\ ctx[x].debug = Initial[x].debug
    BY <1>2
  <2> SUFFICES ASSUME NEW x \in 1..n, Initial[x].debug, Initial[x].state \in OPEN,
                      Initial[x].parent # NoContext
               PROVE  /\ Initial[Initial[x].parent].state \in ENDED \cup {"waiting"}
                      /\ \A y \in 1..n : Initial[y].parent = Initial[x].parent /\ Initial[y].state \in OPEN => y = x
    BY <1>3, <1>5, <2>1 DEF OneOpenChild, open
  <2> QED
    BY <1>4
<1>7. \A x \in Contexts : /\ ctx[x].parent \in 0..(x - 1)
                          /\ ctx[x].parent # NoContext => ctx[x].debug = ctx[ctx[x].parent].debug
                          /\ ctx[x].posted # {} => ctx[x].debug
  <2>1. \A x \in 1..n : ctx[x].posted = {} /\ ctx[x].parent = Initial[x].parent /\ ctx[x].debug = Initial[x].debug
    BY <1>2
  <2>2. \A x \in 1..n : /\ Initial[x].parent \in 0..(x - 1)
                        /\ Initial[x].parent # NoContext => Initial[x].debug = Initial[Initial[x].parent].debug
    BY <1>4
  <2> QED
    BY <1>3, <1>5, <2>1, <2>2
<1> QED
  BY <1>1, <1>3, <1>6, <1>7 DEF EngineInv

--------------------------------------------------------------------------------
(* The ends a call can come to *)

LEMMA FreshTyped == \A n \in Nat : Fresh \in Call(n)
<1> TAKE n \in Nat
<1>1. /\ << >> \in Chain(n) /\ << >> \in Before(n) /\ NoContext \in Id(n) /\ 0 \in Depth /\ 0 \in Walks
      /\ {} \in Ids(n) /\ 0 \in Count /\ FALSE \in Flag
  BY DEF Chain, Before, Id, Ids, Depth, Walks, NoContext, Count, Flag
<1>2. /\ "none" \in OpName /\ "idle" \in Pc /\ "none" \in Stage /\ "none" \in Why
      /\ "none" \in Outcome /\ "none" \in SeenState
  BY DEF OpName, Pc, Stage, Why, Outcome, SeenState
<1> QED
  BY <1>1, <1>2 DEF Fresh, Call

LEMMA Finishes ==
    ASSUME EngineInv, NEW c \in Call(Len(ctx)), c.op \in Ops \cup {"none"},
           NEW outcome \in {"ok", "error"}, NEW ended \in BOOLEAN,
           ended => c.root # NoContext /\ ~open(c.root) /\ Remaining(c) = {},
           outcome = "ok" /\ ~ended => c.op \notin {"withSession", "runTo"}
    PROVE  CallInv(finished(c, outcome, ended))
<1>1. PICK f : f = finished(c, outcome, ended)
  OBVIOUS
<1>2. Len(ctx) \in Nat
  BY StateOf
<1>3. /\ f \in Call(Len(ctx))
      /\ f.op = c.op /\ f.pc = "idle" /\ f.stage = "none" /\ f.why = "none"
      /\ f.outcome = outcome /\ f.ended = ended /\ f.before = << >>
      /\ ended => f.root = c.root /\ f.tree = c.tree
  <2>1. PICK r : r = IF outcome = "ok" \/ ended THEN c.root ELSE NoContext
    OBVIOUS
  <2>2. PICK t : t = IF ended THEN c.tree ELSE {}
    OBVIOUS
  <2>3. f = [Fresh EXCEPT !.op = c.op, !.root = r, !.outcome = outcome, !.ended = ended, !.tree = t]
    BY <1>1, <2>1, <2>2 DEF finished
  <2>4. /\ r \in Id(Len(ctx)) /\ t \in Ids(Len(ctx)) /\ c.op \in OpName
        /\ outcome \in Outcome /\ ended \in Flag
    <3>1. c.root \in Id(Len(ctx)) /\ c.tree \in Ids(Len(ctx)) /\ c.op \in OpName
      BY DEF Call
    <3>2. NoContext \in Id(Len(ctx)) /\ {} \in Ids(Len(ctx)) /\ outcome \in Outcome /\ ended \in Flag
      BY <1>2 DEF NoContext, Id, Ids, Outcome, Flag
    <3> QED
      BY <2>1, <2>2, <3>1, <3>2
  <2>5. /\ f.op = c.op /\ f.pc = "idle" /\ f.stage = "none" /\ f.why = "none" /\ f.root = r
        /\ f.outcome = outcome /\ f.ended = ended /\ f.before = << >> /\ f.tree = t
    BY <2>3 DEF Fresh
  <2>6. f \in Call(Len(ctx))
    <3>1. Fresh \in Call(Len(ctx))
      BY <1>2, FreshTyped
    <3> QED
      BY <2>3, <2>4, <3>1 DEF Call
  <2> QED
    BY <2>1, <2>2, <2>5, <2>6
<1>4. Staged(f)
  BY <1>3 DEF Staged, Method, Suits, Observing, Cancelling
<1>5. Looking(f)
  BY <1>3 DEF Looking, Observing
<1>6. Over(f)
  BY <1>3 DEF Over, Remaining
<1> QED
  BY <1>1, <1>3, <1>4, <1>5, <1>6 DEF CallInv

LEMMA StartsCancelling ==
    ASSUME EngineInv, NEW c \in Call(Len(ctx)), c.op \in Ops \cup {"none"},
           NEW root \in Contexts, NEW outcome \in {"none", "ok", "error"}
    PROVE  CallInv(cancelling(c, root, outcome))
<1>1. PICK f : f = cancelling(c, root, outcome)
  OBVIOUS
<1>2. Len(ctx) \in Nat /\ Contexts = 1..Len(ctx)
  BY StateOf
<1>3. below(root) \in SUBSET (1..Len(ctx)) /\ root # NoContext
  BY <1>2, Below DEF EngineInv, below, NoContext
<1>4. f \in Call(Len(ctx))
  <2>1. Fresh \in Call(Len(ctx)) /\ c.op \in OpName
    BY <1>2, FreshTyped DEF Call
  <2>2. root \in Id(Len(ctx)) /\ below(root) \in Ids(Len(ctx)) /\ outcome \in Outcome
    BY <1>2, <1>3 DEF Id, Ids, Outcome
  <2>3. "first" \in Pc /\ "cancelling" \in Stage
    BY DEF Pc, Cancelling, Stage
  <2> QED
    BY <1>1, <2>1, <2>2, <2>3 DEF cancelling, Call
<1>5. /\ f.op = c.op /\ f.pc = "first" /\ f.stage = "cancelling" /\ f.why = "none" /\ f.root = root
      /\ f.tree = below(root) /\ f.found = {} /\ f.walked = 0 /\ ~f.after
  BY <1>1 DEF cancelling, Fresh
<1>6. Staged(f)
  BY <1>3, <1>5 DEF Staged, Method, Suits, Observing, Cancelling
<1>7. Ending(f)
  BY <1>5 DEF Ending
<1> QED
  BY <1>1, <1>4, <1>5, <1>6, <1>7 DEF CallInv

(* An error ends the call, or begins the cancel of a session's run.         *)
LEMMA Throws ==
    ASSUME EngineInv, NEW c \in Call(Len(ctx)), c.op \in Ops \cup {"none"},
           c.stage = "cancelling" => c.root # NoContext
    PROVE  CallInv(throws(c))
<1>1. c.root # NoContext => c.root \in Contexts
  BY CallTyped
<1>2. CASE c.stage = "cancelling" /\ c.op = "runTo" /\ c.outcome = "ok"
  <2>1. throws(c) = cancelling(c, c.root, "error")
    BY <1>2 DEF throws
  <2> QED
    BY <1>1, <1>2, <2>1, StartsCancelling
<1>3. CASE c.stage \in {"starting", "working"} /\ c.root # NoContext
  <2>1. throws(c) = cancelling(c, c.root, "error")
    BY <1>3 DEF throws
  <2> QED
    BY <1>1, <1>3, <2>1, StartsCancelling
<1>4. CASE /\ ~(c.stage = "cancelling" /\ c.op = "runTo" /\ c.outcome = "ok")
           /\ ~(c.stage \in {"starting", "working"} /\ c.root # NoContext)
  <2>1. throws(c) = finished(c, "error", FALSE)
    BY <1>4 DEF throws
  <2> QED
    BY <2>1, Finishes
<1> QED
  BY <1>2, <1>3, <1>4

--------------------------------------------------------------------------------
(* Observing a run *)

(* A call at a step that knows nothing of the run but that it has one.      *)
LEMMA Pauses ==
    ASSUME NEW f, f \in Call(Len(ctx)), Staged(f),
           f.pc \in {"launch", "setup", "breakpoints", "work"}
    PROVE  CallInv(f)
<1>1. f.pc # "idle" /\ f.pc \notin Observing \cup {"command"} /\ f.pc \notin Cancelling
  BY DEF Observing, Cancelling
<1>2. f.stage # "cancelling"
  BY <1>1 DEF Staged
<1>3. Looking(f)
  BY <1>1, Zenon DEF Looking, Observing
<1> QED
  BY <1>1, <1>2, <1>3 DEF CallInv

(* A call that looks at a run of its own: which of its methods may, and how. *)
Stands(c) ==
    /\ c \in Call(Len(ctx))
    /\ Method(c)
    /\ c.stage \in {"single", "starting", "working"}
    /\ c.root # NoContext

LEMMA ReadsRoot ==
    ASSUME EngineInv, NEW f, Stands(f), Suits(f, f.why),
           f.pc = "read", f.why # "none", f.chain = <<f.root>>,
           f.why = "after" => Commanded(f)
    PROVE  CallInv(f)
<1>1. f.root \in Contexts
  BY CallTyped DEF Stands
<1>2. Path(f.chain, f.root)
  BY <1>1 DEF Path
<1>3. f.why = "after" => Awaiting(f)
  <2> SUFFICES ASSUME f.why = "after" PROVE Awaiting(f)
    OBVIOUS
  <2>1. /\ f.before[1] \in Seq(Contexts) /\ f.before[1] # << >> /\ f.before[1][1] = f.root
    BY CallTyped DEF Commanded, Path, Stands
  <2>2. Len(f.before[1]) >= 1 /\ Len(f.chain) = 1 /\ f.chain[1] = f.root
    BY <2>1
  <2> QED
    BY <2>1, <2>2 DEF Awaiting
<1>4. Looking(f)
  BY <1>2, <1>3 DEF Looking
<1>5. Staged(f)
  BY DEF Staged, Stands, Observing, Cancelling
<1> QED
  BY <1>4, <1>5 DEF CallInv, Stands

(* An observation begins (observing), of a run that is waited for (waiting), *)
(* for the first time or once more.                                         *)
LEMMA Observes ==
    ASSUME EngineInv, NEW c, Stands(c), NEW why \in Why \ {"none"}, Suits(c, why),
           why = "after" => Commanded(c)
    PROVE  /\ CallInv(observing(c, why))
           /\ \A polls \in Nat, waited \in BOOLEAN :
                CallInv([observing(c, why) EXCEPT !.polls = polls, !.waited = waited])
<1> DEFINE n == Len(ctx)
<1>1. PICK f : f = observing(c, why)
  OBVIOUS
<1>2. /\ "read" \in Pc /\ <<c.root>> \in Chain(n) /\ "none" \in SeenState /\ 0 \in Count
  BY CallTyped, StateOf DEF Stands, Pc, Observing, Chain, SeenState, Count
<1>3. /\ f \in Call(n) /\ f.pc = "read" /\ f.why = why /\ f.chain = <<c.root>> /\ f.root = c.root
      /\ f.op = c.op /\ f.stage = c.stage /\ f.before = c.before
  BY <1>1, <1>2 DEF observing, Call, Stands
<1>4. Stands(f) /\ Suits(f, f.why) /\ (why = "after" => Commanded(f))
  BY <1>3 DEF Stands, Method, Suits, Commanded
<1>5. CallInv(f)
  BY <1>3, <1>4, ReadsRoot
<1>6. ASSUME NEW polls \in Nat, NEW waited \in BOOLEAN
      PROVE  CallInv([f EXCEPT !.polls = polls, !.waited = waited])
  <2>1. PICK g : g = [f EXCEPT !.polls = polls, !.waited = waited]
    OBVIOUS
  <2>2. polls \in Count /\ waited \in Flag
    BY DEF Count, Flag
  <2>3. /\ g \in Call(n) /\ g.pc = f.pc /\ g.why = f.why /\ g.chain = f.chain /\ g.root = f.root
        /\ g.op = f.op /\ g.stage = f.stage /\ g.before = f.before
    BY <2>1, <2>2, <1>3 DEF Call
  <2>4. Stands(g) /\ Suits(g, g.why) /\ (why = "after" => Commanded(g))
    BY <1>3, <1>4, <2>3 DEF Stands, Method, Suits, Commanded
  <2>5. CallInv(g)
    BY <1>3, <2>3, <2>4, ReadsRoot
  <2> QED
    BY <2>1, <2>5
<1> QED
  BY <1>1, <1>5, <1>6

(* A session goes on with its work.                                         *)
LEMMA Works ==
    ASSUME EngineInv, NEW c, Stands(c), NEW f, f \in Call(Len(ctx)),
           f.pc = "work", f.stage = "working", f.why = "none", f.root = c.root, f.op = c.op,
           c.op \in Launching
    PROVE  CallInv(f)
<1>1. Staged(f)
  BY DEF Staged, Stands, Method, Suits, Observing, Cancelling
<1> QED
  BY <1>1, Pauses

LEMMA Starts ==
    ASSUME EngineInv, NEW c, Stands(c), c.op \in Launching
    PROVE  CallInv(started(c))
<1>1. CASE c.op = "start"
  <2>1. CallInv(finished(c, "ok", FALSE))
    BY <1>1, Finishes DEF Stands, Method
  <2> QED
    BY <1>1, <2>1 DEF started
<1>2. CASE c.op # "start"
  <2>1. PICK f : f = [c EXCEPT !.pc = "work", !.stage = "working", !.why = "none", !.chain = << >>]
    OBVIOUS
  <2>2. /\ "work" \in Pc /\ "working" \in Stage /\ "none" \in Why /\ << >> \in Chain(Len(ctx))
    BY StateOf DEF Pc, Stage, Why, Chain
  <2>3. /\ f \in Call(Len(ctx)) /\ f.pc = "work" /\ f.stage = "working" /\ f.why = "none"
        /\ f.root = c.root /\ f.op = c.op
    BY <2>1, <2>2 DEF Call, Stands
  <2>4. CallInv(f)
    BY <2>3, Works
  <2> QED
    BY <1>2, <2>1, <2>4 DEF started
<1> QED
  BY <1>1, <1>2

(* What a call has seen of the run at the end of an observation.            *)
Saw(c) ==
    /\ Stands(c)
    /\ Suits(c, c.why)
    /\ c.why # "none"
    /\ Path(c.chain, c.root)
    /\ c.state = "paused" => Kept(Last(c.chain), c.order)
    /\ c.why = "after" => /\ Commanded(c)
                          /\ Moved(c.before) \/ <<c.chain, c.state, c.order>> = c.before

LEMMA CommandReturns ==
    ASSUME EngineInv, NEW c, Saw(c), c.why = "after", NEW timedOut \in BOOLEAN,
           ~timedOut => Moved(c.before)
    PROVE  CallInv(commandReturned(c, timedOut))
<1>0. c \in Call(Len(ctx)) /\ Method(c)
  BY DEF Saw, Stands
<1>1. CASE c.op = "command"
  <2>1. PICK g : g = finished(c, "ok", FALSE)
    OBVIOUS
  <2>2. CallInv(g)
    BY <1>0, <1>1, <2>1, Finishes DEF Method
  <2>3. PICK b : b = IF timedOut THEN << >> ELSE c.before
    OBVIOUS
  <2>4. PICK f : f = [g EXCEPT !.before = b]
    OBVIOUS
  <2>5. b \in Before(Len(ctx))
    BY <1>0, <2>3 DEF Call, Before
  <2>6. /\ g.op = "command" /\ g.pc = "idle" /\ g.stage = "none" /\ g.why = "none" /\ ~g.ended
    BY <1>1, <2>1 DEF finished, Fresh
  <2>7. /\ f \in Call(Len(ctx)) /\ f.op = g.op /\ f.pc = g.pc /\ f.stage = g.stage /\ f.why = g.why
        /\ f.ended = g.ended /\ f.before = b
    BY <2>2, <2>4, <2>5 DEF CallInv, Call
  <2>8. Staged(f)
    BY <1>0, <1>1, <2>6, <2>7 DEF Staged, Method, Suits, Observing, Cancelling
  <2>9. Looking(f)
    BY <2>6, <2>7 DEF Looking, Observing
  <2>10. Over(f)
    <3>1. b # << >> => b[1] # << >> /\ Moved(b)
      BY <2>3 DEF Saw, Commanded, Path
    <3> QED
      BY <2>6, <2>7, <3>1 DEF Over
  <2>11. commandReturned(c, timedOut) = f
    BY <1>1, <2>1, <2>3, <2>4 DEF commandReturned
  <2>12. CallInv(f)
    BY <2>6, <2>7, <2>8, <2>9, <2>10 DEF CallInv
  <2> QED
    BY <2>11, <2>12
<1>2. CASE c.op # "command"
  <2>1. PICK f : f = [c EXCEPT !.pc = "work", !.why = "none", !.before = << >>, !.chain = << >>]
    OBVIOUS
  <2>2. c.stage = "working" /\ c.op \in Launching
    BY <1>0, <1>2 DEF Saw, Suits, Method
  <2>3. "work" \in Pc /\ "none" \in Why /\ << >> \in Before(Len(ctx)) /\ << >> \in Chain(Len(ctx))
    BY StateOf DEF Pc, Why, Before, Chain
  <2>4. /\ f \in Call(Len(ctx)) /\ f.pc = "work" /\ f.stage = c.stage /\ f.why = "none"
        /\ f.root = c.root /\ f.op = c.op
    BY <1>0, <2>1, <2>3 DEF Call
  <2>5. CallInv(f)
    BY <2>2, <2>4, Works DEF Saw
  <2>6. commandReturned(c, timedOut) = f
    BY <1>2, <2>1 DEF commandReturned
  <2> QED
    BY <2>5, <2>6
<1> QED
  BY <1>1, <1>2

LEMMA Observed ==
    ASSUME EngineInv, NEW c, Saw(c), NEW cl, observed(cl, c)
    PROVE  \E f : becomes(cl, f) /\ CallInv(f)
<1> DEFINE n == Len(ctx)
<1>0. /\ c \in Call(n) /\ Method(c) /\ c.op \in Ops \cup {"none"} /\ c.stage # "cancelling"
      /\ c.why \in Why \ {"none"} /\ Stands(c) /\ Suits(c, c.why) /\ c.waited \in BOOLEAN
      /\ c.polls \in Nat
  BY DEF Saw, Stands, Method, Call, Flag, Count
<1>1. CallInv(throws(c))
  BY <1>0, Throws
<1>2. CASE c.why = "inspect"
  <2>1. becomes(cl, finished(c, "ok", FALSE))
    BY <1>2 DEF observed
  <2>2. CallInv(finished(c, "ok", FALSE))
    BY <1>0, <1>2, Finishes DEF Suits
  <2> QED
    BY <2>1, <2>2
<1>3. CASE c.why = "command"
  <2>1. becomes(cl, IF ctx[c.root].debug /\ c.state = "paused"
                    THEN [c EXCEPT !.pc = "command", !.before = <<c.chain, c.state, c.order>>]
                    ELSE throws(c))
    BY <1>3 DEF observed
  <2>2. CASE ctx[c.root].debug /\ c.state = "paused"
    <3>1. PICK b : b = <<c.chain, c.state, c.order>>
      OBVIOUS
    <3>2. PICK f : f = [c EXCEPT !.pc = "command", !.before = b]
      OBVIOUS
    <3>3. b \in Before(n) /\ "command" \in Pc
      BY <1>0, <3>1 DEF Call, Before, Count, Pc
    <3>4. /\ f \in Call(n) /\ f.pc = "command" /\ f.before = b /\ f.why = c.why /\ f.stage = c.stage
          /\ f.root = c.root /\ f.op = c.op /\ f.chain = c.chain /\ f.state = c.state /\ f.order = c.order
      BY <1>0, <3>2, <3>3 DEF Call
    <3>5. Staged(f)
      BY <1>0, <1>3, <3>4 DEF Staged, Stands, Method, Suits, Observing, Cancelling
    <3>6. Looking(f)
      BY <2>2, <3>1, <3>4 DEF Looking, Observing, Saw
    <3>7. CallInv(f)
      BY <1>0, <3>4, <3>5, <3>6 DEF CallInv
    <3> QED
      BY <2>1, <2>2, <3>1, <3>2, <3>7
  <2>3. CASE ~(ctx[c.root].debug /\ c.state = "paused")
    BY <1>1, <2>1, <2>3
  <2> QED
    BY <2>2, <2>3
<1>4. CASE c.why = "setBreakpoints"
  <2>1. becomes(cl, IF ctx[c.root].debug /\ c.state \notin ENDED
                    THEN [c EXCEPT !.pc = "breakpoints"] ELSE throws(c))
    BY <1>4 DEF observed
  <2>2. PICK f : f = [c EXCEPT !.pc = "breakpoints"]
    OBVIOUS
  <2>3. /\ f \in Call(n) /\ f.pc = "breakpoints" /\ f.why = c.why /\ f.stage = c.stage
        /\ f.root = c.root /\ f.op = c.op
    <3>1. "breakpoints" \in Pc
      BY DEF Pc
    <3> QED
      BY <1>0, <2>2, <3>1 DEF Call
  <2>4. Staged(f)
    BY <1>0, <1>4, <2>3 DEF Staged, Stands, Method, Suits, Observing, Cancelling
  <2>5. CallInv(f)
    BY <2>3, <2>4, Pauses
  <2> QED
    BY <1>1, <2>1, <2>2, <2>5
<1>5. CASE c.why \in {"first", "after"}
  <2>0. c.why \notin {"inspect", "command", "setBreakpoints"}
    BY <1>5
  <2>1. PICK lasted \in {FALSE, c.waited}, late \in BOOLEAN :
          LET still == c.state = "executing" \/ (c.state = "waiting" /\ ~lasted)
              done == moved(c) /\ ~still
          IN  /\ c.polls = 0 => late
              /\ IF done \/ late
                 THEN becomes(cl, IF c.why = "first" THEN [c EXCEPT !.pc = "setup"]
                                  ELSE commandReturned(c, ~done))
                 ELSE becomes(cl, [observing(c, c.why) EXCEPT
                                     !.polls = @ - 1, !.waited = (c.state = "waiting")])
    BY <2>0 DEF observed
  <2>2. PICK done \in BOOLEAN :
          /\ done => moved(c)
          /\ c.polls = 0 => late
          /\ IF done \/ late
             THEN becomes(cl, IF c.why = "first" THEN [c EXCEPT !.pc = "setup"]
                              ELSE commandReturned(c, ~done))
             ELSE becomes(cl, [observing(c, c.why) EXCEPT
                                 !.polls = @ - 1, !.waited = (c.state = "waiting")])
    <3> DEFINE still == c.state = "executing" \/ (c.state = "waiting" /\ ~lasted)
               ends == moved(c) /\ ~still
    <3>1. ends \in BOOLEAN /\ (ends => moved(c))
      BY DEF moved
    <3> WITNESS ends \in BOOLEAN
    <3> QED
      BY <2>1, <3>1
  <2>3. CASE (done \/ late) /\ c.why = "first"
    <3>1. PICK f : f = [c EXCEPT !.pc = "setup"]
      OBVIOUS
    <3>2. /\ f \in Call(n) /\ f.pc = "setup" /\ f.why = c.why /\ f.stage = c.stage
          /\ f.root = c.root /\ f.op = c.op
      <4>1. "setup" \in Pc
        BY DEF Pc
      <4> QED
        BY <1>0, <3>1, <4>1 DEF Call
    <3>3. Staged(f)
      BY <1>0, <2>3, <3>2 DEF Staged, Stands, Method, Suits, Observing, Cancelling
    <3>4. CallInv(f)
      BY <3>2, <3>3, Pauses
    <3> QED
      BY <2>2, <2>3, <3>1, <3>4
  <2>4. CASE (done \/ late) /\ c.why = "after"
    <3>1. done => Moved(c.before)
      BY <2>2, <2>4 DEF moved, Saw
    <3>2. CallInv(commandReturned(c, ~done))
      BY <2>4, <3>1, CommandReturns
    <3> QED
      BY <2>2, <2>4, <3>2
  <2>5. CASE ~(done \/ late)
    <3>1. PICK p : p = c.polls - 1
      OBVIOUS
    <3>2. p \in Nat
      BY <1>0, <2>2, <2>5, <3>1
    <3>3. PICK w \in BOOLEAN : w = (c.state = "waiting")
      OBVIOUS
    <3>4. CallInv([observing(c, c.why) EXCEPT !.polls = p, !.waited = w])
      BY <1>0, <3>2, Observes DEF Saw
    <3>5. observing(c, c.why).polls = c.polls
      BY <1>0 DEF observing, Call
    <3>6. becomes(cl, [observing(c, c.why) EXCEPT !.polls = p, !.waited = w])
      BY <2>2, <2>5, <3>1, <3>3, <3>5
    <3> QED
      BY <3>4, <3>6
  <2> QED
    BY <1>5, <2>3, <2>4, <2>5
<1>6. c.why \in {"inspect", "command", "setBreakpoints", "first", "after"}
  BY <1>0 DEF Why
<1> QED
  BY <1>2, <1>3, <1>4, <1>5, <1>6

--------------------------------------------------------------------------------
(* The steps of a call *)

(* The call of cl becomes one that knows what it must of the run.           *)
Becoming(cl) == \E f : becomes(cl, f) /\ CallInv(f)

(* The same after a request that the engine received.                       *)
BecomingLater(cl) == \E f : becomes(cl, f) /\ CallInv(f)'

LEMMA CallMoves ==
    ASSUME FlowInv, NEW cl \in Clients, EngineInv', Grows, calls' \in 0..MaxCalls, BecomingLater(cl)
    PROVE  FlowInv'
<1>0. PICK f : becomes(cl, f) /\ CallInv(f)'
  BY DEF BecomingLater
<1>1. DOMAIN call' = Clients /\ call'[cl] = f /\ \A d \in Clients \ {cl} : call'[d] = call[d]
  BY <1>0 DEF FlowInv, becomes
<1>2. ASSUME NEW d \in Clients PROVE CallInv(call[d])'
  <2>1. CASE d = cl
    <3>1. call'[d] = f
      BY <1>1, <2>1
    <3> QED
      BY <1>0, <3>1
  <2>2. CASE d # cl
    <3>1. PICK c : c = call[d]
      OBVIOUS
    <3>2. CallInv(c)'
      BY <3>1, StableCall DEF FlowInv
    <3>3. call'[d] = c
      BY <1>1, <2>2, <3>1
    <3> QED
      BY <3>2, <3>3
  <2> QED
    BY <2>1, <2>2
<1> QED
  BY <1>1, <1>2 DEF FlowInv

LEMMA NothingMoves ==
    ASSUME EngineInv, UNCHANGED ctx
    PROVE  EngineInv' /\ Grows
<1>1. Grows
  <2>1. Len(ctx) \in Nat /\ \A x \in Contexts : ctx[x].order \in Nat
    BY StateOf
  <2> QED
    BY <2>1 DEF Grows
<1>2. EngineInv'
  BY DEF EngineInv, Contexts, OneOpenChild, open
<1> QED
  BY <1>1, <1>2

LEMMA CallGoesOn ==
    ASSUME FlowInv, NEW cl \in Clients, UNCHANGED ctx, calls' \in 0..MaxCalls, Becoming(cl)
    PROVE  FlowInv'
<1>1. EngineInv' /\ Grows
  BY NothingMoves DEF FlowInv
<1>2. BecomingLater(cl)
  BY <1>1, StableCall DEF Becoming, BecomingLater, FlowInv
<1> QED
  BY <1>1, <1>2, CallMoves

LEMMA Setup ==
    ASSUME EngineInv, NEW cl, CallInv(call[cl]), setup(cl)
    PROVE  Becoming(cl)
<1>1. PICK c : c = call[cl]
  OBVIOUS
<1>2. c \in Call(Len(ctx)) /\ Staged(c) /\ c.pc = "setup"
  BY <1>1 DEF CallInv, setup
<1>3. Stands(c) /\ c.stage = "starting" /\ c.op \in Launching
  BY <1>2 DEF Staged, Stands, Method
<1>4. CallInv(started(c))
  BY <1>3, Starts
<1>5. CallInv(observing(c, "setBreakpoints"))
  BY <1>3, Observes DEF Suits, Why
<1> QED
  BY <1>1, <1>4, <1>5 DEF setup, Becoming

LEMMA SetBreakpoints ==
    ASSUME EngineInv, NEW cl, CallInv(call[cl]), setBreakpoints(cl)
    PROVE  Becoming(cl)
<1>1. PICK c : c = call[cl]
  OBVIOUS
<1>2. c \in Call(Len(ctx)) /\ Staged(c) /\ c.pc = "breakpoints"
  BY <1>1 DEF CallInv, setBreakpoints
<1>3. /\ Stands(c) /\ c.why = "setBreakpoints"
      /\ c.stage = "starting" \/ (c.stage = "single" /\ c.op = "setBreakpoints")
      /\ c.op \in Ops \cup {"none"}
      /\ c.stage = "starting" => c.op \in Launching
  BY <1>2 DEF Staged, Stands, Method, Suits
<1>4. CASE c.stage = "starting"
  <2>1. CallInv(started(c))
    BY <1>3, <1>4, Starts
  <2> QED
    BY <1>1, <1>4, <2>1 DEF setBreakpoints, Becoming
<1>5. CASE c.stage # "starting"
  <2>1. CallInv(finished(c, "ok", FALSE))
    BY <1>2, <1>3, <1>5, Finishes
  <2> QED
    BY <1>1, <1>5, <2>1 DEF setBreakpoints, Becoming
<1> QED
  BY <1>4, <1>5

(* A session works: it sends a command, ends, or fails.                     *)
LEMMA Work ==
    ASSUME EngineInv, NEW cl, CallInv(call[cl]), work(cl)
    PROVE  Becoming(cl)
<1>1. PICK c : c = call[cl]
  OBVIOUS
<1>2. c \in Call(Len(ctx)) /\ Staged(c) /\ c.pc = "work"
  BY <1>1 DEF CallInv, work
<1>3. /\ Stands(c) /\ c.stage = "working" /\ c.op \in Ops \cup {"none"} /\ c.work \in Nat
      /\ c.root \in Contexts
  <2>1. Stands(c) /\ c.stage = "working" /\ c.op \in Ops \cup {"none"}
    BY <1>2 DEF Staged, Stands, Method
  <2> QED
    BY <1>2, <2>1, CallTyped DEF Stands, Call, Count
<1>4. CallInv(throws(c))
  BY <1>2, <1>3, Throws
<1>5. CallInv(cancelling(c, c.root, "ok"))
  BY <1>2, <1>3, StartsCancelling
<1>6. c.op \notin {"withSession", "runTo"} => CallInv(finished(c, "ok", FALSE))
  BY <1>2, <1>3, Finishes
<1>7. c.work > 0 => CallInv(observing([c EXCEPT !.work = @ - 1], "command"))
  <2> SUFFICES ASSUME c.work > 0 PROVE CallInv(observing([c EXCEPT !.work = @ - 1], "command"))
    OBVIOUS
  <2>1. PICK k : k = c.work - 1
    OBVIOUS
  <2>2. PICK f : f = [c EXCEPT !.work = k]
    OBVIOUS
  <2>3. k \in Count
    BY <1>3, <2>1 DEF Count
  <2>4. f \in Call(Len(ctx)) /\ f.op = c.op /\ f.stage = c.stage /\ f.root = c.root
    BY <1>2, <2>2, <2>3 DEF Call
  <2>5. Stands(f) /\ Suits(f, "command")
    BY <1>3, <2>4 DEF Stands, Method, Suits
  <2>6. CallInv(observing(f, "command"))
    BY <2>5, Observes DEF Why
  <2> QED
    BY <2>1, <2>2, <2>6
<1> QED
  BY <1>1, <1>4, <1>5, <1>6, <1>7 DEF work, Becoming

(* A client calls.                                                          *)
LEMMA Begin ==
    ASSUME EngineInv, NEW cl, calls \in 0..MaxCalls, begin(cl)
    PROVE  Becoming(cl) /\ UNCHANGED ctx /\ calls' \in 0..MaxCalls
<1> DEFINE n == Len(ctx)
<1>1. UNCHANGED ctx /\ calls' \in 0..MaxCalls
  BY DEF begin
<1>2. PICK op \in Ops, x \in Contexts, k \in 0..MaxWork :
         CASE op \in {"inspect", "command", "setBreakpoints"} ->
                becomes(cl, observing([[Fresh EXCEPT !.op = op] EXCEPT !.stage = "single", !.root = x], op))
           [] op = "cancel" -> becomes(cl, cancelling([Fresh EXCEPT !.op = op], rootOf(x), "none"))
           [] OTHER -> becomes(cl, [[Fresh EXCEPT !.op = op] EXCEPT !.pc = "launch", !.stage = "starting",
                                                                    !.work = k])
  BY DEF begin
<1>3. op \in {"inspect", "command", "setBreakpoints", "cancel", "start", "withSession", "runTo",
              "runToResume", "runToStay"}
  BY FlowDebuggerAssumption
<1>4. Contexts = 1..n /\ n \in Nat /\ Fresh \in Call(n) /\ op \in OpName /\ x \in Id(n) /\ x # NoContext
      /\ k \in Count
  BY <1>3, StateOf, FreshTyped DEF OpName, Single, Launching, Id, NoContext, Count
<1>5. CASE op \in {"inspect", "command", "setBreakpoints"}
  <2>1. PICK c : c = [[Fresh EXCEPT !.op = op] EXCEPT !.stage = "single", !.root = x]
    OBVIOUS
  <2>2. "single" \in Stage
    BY DEF Stage
  <2>3. c \in Call(n)
    BY <1>4, <2>1, <2>2 DEF Call
  <2>4. c.op = op /\ c.stage = "single" /\ c.root = x
    BY <2>1 DEF Fresh
  <2>5. Stands(c) /\ Suits(c, op) /\ op \in Why \ {"none"} /\ op # "after"
    BY <1>4, <1>5, <2>3, <2>4 DEF Stands, Method, Suits, Single, Why
  <2>6. CallInv(observing(c, op))
    BY <2>5, Observes
  <2> QED
    BY <1>1, <1>2, <1>5, <2>1, <2>6 DEF Becoming
<1>6. CASE op = "cancel"
  <2>1. PICK c : c = [Fresh EXCEPT !.op = op]
    OBVIOUS
  <2>2. c \in Call(n)
    BY <1>4, <2>1 DEF Call
  <2>3. c.op = op
    BY <2>1 DEF Fresh
  <2>4. above = Above(ctx)
    BY DEF above, Above, Contexts
  <2>5. rootOf(x) \in Contexts
    <3>1. \A y \in DOMAIN ctx : ctx[y].parent # NoContext => ctx[y].parent \in DOMAIN ctx
      BY StateOf DEF Contexts
    <3> QED
      BY <2>4, <3>1, AboveTree DEF rootOf, Contexts
  <2>6. CallInv(cancelling(c, rootOf(x), "none"))
    BY <2>2, <2>3, <2>5, StartsCancelling
  <2> QED
    BY <1>1, <1>2, <1>6, <2>1, <2>6 DEF Becoming
<1>7. CASE op \in Launching
  <2>1. PICK c : c = [[Fresh EXCEPT !.op = op] EXCEPT !.pc = "launch", !.stage = "starting", !.work = k]
    OBVIOUS
  <2>2. "starting" \in Stage /\ "launch" \in Pc
    BY DEF Stage, Pc
  <2>3. c \in Call(n)
    BY <1>4, <2>1, <2>2 DEF Call
  <2>4. c.op = op /\ c.pc = "launch" /\ c.stage = "starting" /\ c.root = NoContext /\ c.why = "none"
    BY <2>1 DEF Fresh
  <2>5. Staged(c)
    BY <1>7, <2>4 DEF Staged, Method, Suits, Observing, Cancelling
  <2>6. CallInv(c)
    BY <2>3, <2>4, <2>5, Pauses
  <2>7. op \notin {"inspect", "command", "setBreakpoints", "cancel"}
    BY <1>7 DEF Launching
  <2> QED
    BY <1>1, <1>2, <2>1, <2>6, <2>7 DEF Becoming
<1> QED
  BY <1>3, <1>5, <1>6, <1>7 DEF Launching

(* A command is sent to a context that is paused, which it may have left    *)
(* when the call observes it again.                                         *)
LEMMA Command ==
    ASSUME EngineInv, NEW cl, CallInv(call[cl]), command(cl)
    PROVE  EngineInv' /\ Grows /\ BecomingLater(cl)
<1>1. PICK c : c = call[cl]
  OBVIOUS
<1>2. c \in Call(Len(ctx)) /\ Staged(c) /\ c.pc = "command" /\ Looking(c)
  BY <1>1 DEF CallInv, command, Staged, Cancelling
<1>3. Stands(c) /\ Suits(c, "after") /\ c.op \in Ops \cup {"none"}
  BY <1>2 DEF Staged, Stands, Method, Suits
<1>4. Commanded(c) /\ Last(c.chain) \in Contexts /\ ctx[Last(c.chain)].debug
  <2>1. c.chain \in Seq(Contexts) /\ c.chain # << >>
    BY <1>2, CallTyped DEF Looking, Path
  <2>2. Last(c.chain) = c.chain[Len(c.chain)] /\ Len(c.chain) \in 1..Len(c.chain)
    BY <2>1 DEF Last
  <2>3. Commanded(c)
    <3>1. \A q, s, o : /\ <<q, s, o>> # << >>
                       /\ <<q, s, o>>[1] = q /\ <<q, s, o>>[2] = s /\ <<q, s, o>>[3] = o
      OBVIOUS
    <3>2. /\ Path(c.chain, c.root) /\ ctx[c.root].debug /\ c.state = "paused"
          /\ c.before = <<c.chain, c.state, c.order>> /\ Kept(Last(c.chain), c.order)
      BY <1>2 DEF Looking
    <3> QED
      BY <3>1, <3>2 DEF Commanded
  <2>4. ctx[Last(c.chain)].debug
    BY <1>2, <2>2 DEF Looking, Path
  <2> QED
    BY <2>1, <2>2, <2>3, <2>4
<1>5. CallInv(waiting(c, "after"))
  BY <1>3, <1>4, Observes DEF waiting, Why
<1>6. CallInv(throws(c))
  BY <1>2, <1>3, Throws DEF Stands
<1>7. CASE posts(Last(c.chain), "command") /\ becomes(cl, waiting(c, "after"))
  <2>1. EngineInv' /\ Grows
    BY <1>4, <1>7, Posted
  <2>2. CallInv(waiting(c, "after"))'
    <3>1. PICK f : f = waiting(c, "after")
      OBVIOUS
    <3> QED
      BY <1>5, <2>1, <3>1, StableCall
  <2> QED
    BY <1>7, <2>1, <2>2 DEF BecomingLater
<1>8. CASE UNCHANGED ctx /\ becomes(cl, throws(c))
  <2>1. EngineInv' /\ Grows
    BY <1>8, NothingMoves
  <2>2. PICK f : f = throws(c)
    OBVIOUS
  <2>3. CallInv(f)'
    BY <1>6, <2>1, <2>2, StableCall
  <2> QED
    BY <1>8, <2>1, <2>2, <2>3 DEF BecomingLater
<1> QED
  BY <1>1, <1>7, <1>8 DEF command

(* As long as the run has not moved, an observation can only go down the    *)
(* chain that was seen before the command, to the context it was sent to.   *)
LEMMA OneWayDown ==
    ASSUME EngineInv, NEW c \in Call(Len(ctx)), c.root # NoContext, Path(c.chain, c.root), Awaiting(c),
           ~Moved(c.before)
    PROVE  LET q == c.before[1]
               k == Len(c.chain)
               x == Last(c.chain)
           IN  /\ k \in 1..Len(q) /\ x = q[k] /\ x \in Contexts
               /\ k < Len(q) =>
                    /\ k <= MaxDepth /\ ctx[x].state = "waiting"
                    /\ q[k + 1] \in childrenOf(x) /\ open(q[k + 1])
                    /\ \A y \in childrenOf(x) : open(y) => y = q[k + 1]
               /\ k = Len(q) => c.chain = q /\ ctx[x].state = "paused" /\ ctx[x].order = c.before[3]
<1> DEFINE q == c.before[1]
           k == Len(c.chain)
           x == Last(c.chain)
<1>1. /\ c.chain \in Seq(Contexts) /\ q \in Seq(Contexts) /\ c.chain # << >> /\ q # << >>
      /\ c.before[3] \in Nat /\ c.root \in Contexts
  BY CallTyped DEF Awaiting, Commanded, Path
<1>2. /\ k <= Len(q) /\ \A i \in 1..k : c.chain[i] = q[i]
      /\ Path(q, c.root) /\ ctx[c.root].debug /\ Kept(Last(q), c.before[3])
      /\ \A i \in DOMAIN q : open(q[i])
      /\ ~(ctx[Last(q)].order > c.before[3])
  BY DEF Awaiting, Commanded, Moved
<1> HIDE DEF q
<1>3. k \in 1..Len(q) /\ x = q[k] /\ x \in Contexts /\ Len(q) \in Nat /\ DOMAIN q = 1..Len(q)
  BY <1>1, <1>2, SMTT(30) DEF Last
<1>4. ASSUME k < Len(q)
      PROVE  /\ k <= MaxDepth /\ ctx[x].state = "waiting"
             /\ q[k + 1] \in childrenOf(x) /\ open(q[k + 1])
             /\ \A y \in childrenOf(x) : open(y) => y = q[k + 1]
  <2>1. k \in 1..(Len(q) - 1) /\ k + 1 \in 1..Len(q) /\ Len(q) <= MaxDepth + 1
    BY <1>2, <1>3, <1>4 DEF Path
  <2>2. PICK d : d = q[k + 1]
    OBVIOUS
  <2>3. d \in Contexts /\ ctx[d].parent = x /\ ctx[d].debug /\ open(d) /\ open(x)
    <3>1. ctx[q[k + 1]].parent = q[k] /\ ctx[q[k + 1]].debug = ctx[c.root].debug
      BY <1>2, <2>1 DEF Path
    <3>2. q[k + 1] \in Contexts /\ open(q[k + 1]) /\ open(q[k])
      BY <1>1, <1>2, <1>3, <2>1
    <3> HIDE DEF x, k
    <3> QED
      BY <1>2, <1>3, <2>2, <3>1, <3>2
  <2>4. x # NoContext
    BY <1>3, StateOf DEF NoContext
  <2>5. ctx[x].state \in ENDED \cup {"waiting"} /\ \A y \in Contexts : ctx[y].parent = x /\ open(y) => y = d
    BY <2>3, <2>4 DEF EngineInv, OneOpenChild
  <2>6. ctx[x].state \notin ENDED
    BY <1>3, <2>3, StateOf
  <2> HIDE DEF x, k
  <2> QED
    BY <1>3, <2>1, <2>2, <2>3, <2>5, <2>6 DEF childrenOf
<1>5. ASSUME k = Len(q)
      PROVE  c.chain = q /\ ctx[x].state = "paused" /\ ctx[x].order = c.before[3]
  <2>1. x = Last(q)
    BY <1>1, <1>3, <1>5 DEF Last
  <2>2. open(x) /\ Kept(x, c.before[3]) /\ ~(ctx[x].order > c.before[3])
    BY <1>2, <1>3, <2>1
  <2>3. c.chain = q
    BY <1>1, <1>2, <1>5
  <2> HIDE DEF x
  <2> QED
    BY <2>2, <2>3 DEF Kept
<1> QED
  BY <1>3, <1>4, <1>5 DEF q

(* The context at the end of the chain is read (read).                      *)
LEMMA Read ==
    ASSUME EngineInv, NEW cl, CallInv(call[cl]), read(cl)
    PROVE  Becoming(cl)
<1> DEFINE n == Len(ctx)
<1>1. PICK c : c = call[cl]
  OBVIOUS
<1>2. /\ c \in Call(n) /\ Staged(c) /\ c.pc = "read" /\ c.stage # "cancelling"
  BY <1>1 DEF CallInv, read, Staged, Cancelling, Observing
<1>3. /\ Stands(c) /\ Suits(c, c.why) /\ c.why # "none" /\ Path(c.chain, c.root)
      /\ c.why = "after" => Awaiting(c)
  BY <1>1, <1>2 DEF CallInv, Looking, Staged, Stands, Observing
<1>4. PICK x : x = Last(c.chain)
  OBVIOUS
<1>5. x \in Contexts /\ ctx[x].order \in Count /\ ctx[x].state \in States
  <2>1. x \in Contexts
    BY <1>2, <1>3, <1>4, CallTyped DEF Last, Path
  <2> QED
    BY <2>1, StateOf DEF Context, Count
<1>6. PICK s, o : s = ctx[x].state /\ o = ctx[x].order
  OBVIOUS
<1>7. PICK seen : seen = [c EXCEPT !.state = s, !.order = o]
  OBVIOUS
<1>8. /\ seen \in Call(n) /\ seen.state = s /\ seen.order = o /\ seen.chain = c.chain /\ seen.root = c.root
      /\ seen.op = c.op /\ seen.stage = c.stage /\ seen.why = c.why /\ seen.before = c.before
      /\ seen.pc = c.pc
  BY <1>2, <1>5, <1>6, <1>7 DEF Call, SeenState
<1>9. /\ Stands(seen) /\ Suits(seen, seen.why)
      /\ c.why = "after" => Commanded(seen)
  BY <1>3, <1>8 DEF Stands, Method, Suits, Awaiting, Commanded
<1>10. CASE ctx[x].state = "waiting" /\ Len(c.chain) <= MaxDepth
  <2>1. PICK f : f = [seen EXCEPT !.pc = "children"]
    OBVIOUS
  <2>2. /\ f \in Call(n) /\ f.pc = "children" /\ f.state = "waiting" /\ f.chain = c.chain /\ f.root = c.root
        /\ f.op = c.op /\ f.stage = c.stage /\ f.why = c.why /\ f.before = c.before
    <3>1. "children" \in Pc
      BY DEF Pc, Observing
    <3> QED
      BY <1>6, <1>8, <1>10, <2>1, <3>1 DEF Call
  <2>3. Staged(f)
    BY <1>3, <2>2 DEF Staged, Stands, Method, Suits, Observing, Cancelling
  <2>4. c.why = "after" => Awaiting(f)
    <3> SUFFICES ASSUME c.why = "after", ~Moved(c.before) PROVE Awaiting(f)
      BY <1>3, <2>2 DEF Awaiting, Commanded
    <3>1. Awaiting(c)
      BY <1>3
    <3>2. /\ Len(c.chain) \in 1..Len(c.before[1])
          /\ Len(c.chain) = Len(c.before[1]) => ctx[x].state = "paused"
      BY <1>2, <1>3, <1>4, <3>1, OneWayDown DEF Stands
    <3>3. c.before[1] \in Seq(Contexts)
      BY <1>2, <3>1, CallTyped DEF Awaiting, Commanded
    <3>4. Len(c.chain) < Len(c.before[1])
      BY <1>10, <3>2, <3>3
    <3> QED
      BY <2>2, <3>1, <3>4 DEF Awaiting, Commanded
  <2>5. Looking(f)
    BY <1>3, <1>10, <2>2, <2>4 DEF Looking
  <2>6. CallInv(f)
    BY <1>2, <2>2, <2>3, <2>5 DEF CallInv
  <2>7. becomes(cl, f)
    BY <1>1, <1>4, <1>6, <1>7, <1>10, <2>1 DEF read
  <2> QED
    BY <2>6, <2>7 DEF Becoming
<1>11. CASE ~(ctx[x].state = "waiting" /\ Len(c.chain) <= MaxDepth)
  <2>1. observed(cl, seen)
    BY <1>1, <1>4, <1>6, <1>7, <1>11 DEF read
  <2>2. seen.state = "paused" => Kept(Last(seen.chain), seen.order)
    BY <1>4, <1>6, <1>8 DEF Kept
  <2>3. c.why = "after" => Moved(seen.before) \/ <<seen.chain, seen.state, seen.order>> = seen.before
    <3> SUFFICES ASSUME c.why = "after", ~Moved(c.before) PROVE <<c.chain, s, o>> = c.before
      BY <1>8
    <3>1. Awaiting(c)
      BY <1>3
    <3>2. /\ Len(c.chain) \in 1..Len(c.before[1])
          /\ Len(c.chain) < Len(c.before[1]) => Len(c.chain) <= MaxDepth /\ ctx[x].state = "waiting"
          /\ Len(c.chain) = Len(c.before[1]) =>
               c.chain = c.before[1] /\ ctx[x].state = "paused" /\ ctx[x].order = c.before[3]
      BY <1>2, <1>3, <1>4, <3>1, OneWayDown DEF Stands
    <3>3. c.before[1] \in Seq(Contexts)
      BY <1>2, <3>1, CallTyped DEF Awaiting, Commanded
    <3>4. Len(c.chain) = Len(c.before[1])
      BY <1>11, <3>2, <3>3
    <3>5. c.before[2] = "paused" /\ c.before \in Chain(n) \X SeenState \X Nat
      BY <1>2, <3>1 DEF Awaiting, Commanded, Call, Before
    <3> QED
      BY <1>6, <3>2, <3>4, <3>5
  <2>4. Saw(seen)
    BY <1>3, <1>8, <1>9, <2>2, <2>3 DEF Saw
  <2> QED
    BY <2>1, <2>4, Observed DEF Becoming
<1> QED
  BY <1>10, <1>11

LEMMA Greatest ==
    ASSUME NEW n \in Nat, NEW S \in SUBSET (1..n), S # {}
    PROVE  Max(S) \in S
<1> DEFINE T == {n - x : x \in S}
<1>1. T \in SUBSET Nat /\ T # {}
  <2>1. \A x \in S : n - x \in Nat
    OBVIOUS
  <2>2. PICK x : x \in S
    OBVIOUS
  <2>3. n - x \in T
    BY <2>2
  <2> QED
    BY <2>1, <2>3
<1>2. PICK m \in T : \A k \in T : m <= k
  <2> HIDE DEF T
  <2> QED
    BY <1>1, LeastElement
<1>3. PICK x \in S : m = n - x
  BY <1>2
<1>4. ASSUME NEW y \in S PROVE x >= y
  <2>1. n - y \in T
    OBVIOUS
  <2>2. m <= n - y
    BY <1>2, <2>1
  <2> QED
    BY <1>3, <2>2
<1> QED
  BY <1>4 DEF Max

(* The open children of the context at the end of the chain are listed.     *)
LEMMA OpenChildren ==
    ASSUME EngineInv, NEW cl, CallInv(call[cl]), openChildren(cl)
    PROVE  Becoming(cl)
<1> DEFINE n == Len(ctx)
<1>1. PICK c : c = call[cl]
  OBVIOUS
<1>2. /\ c \in Call(n) /\ Staged(c) /\ c.pc = "children" /\ c.stage # "cancelling"
  BY <1>1 DEF CallInv, openChildren, Staged, Cancelling, Observing
<1>3. /\ Stands(c) /\ Suits(c, c.why) /\ c.why # "none" /\ Path(c.chain, c.root)
      /\ c.why = "after" => Awaiting(c)
      /\ c.state = "waiting" /\ Len(c.chain) <= MaxDepth
  BY <1>1, <1>2 DEF CallInv, Looking, Staged, Stands, Observing
<1>4. PICK x : x = Last(c.chain)
  OBVIOUS
<1>5. c.chain \in Seq(Contexts) /\ c.chain # << >> /\ x \in Contexts /\ x = c.chain[Len(c.chain)] /\ Len(c.chain) \in Nat \ {0}
  BY <1>2, <1>3, <1>4, CallTyped DEF Last, Path
<1>6. PICK opened : opened = {d \in childrenOf(x) : open(d)}
  OBVIOUS
<1>7. CASE opened = {}
  <2>1. observed(cl, c)
    BY <1>1, <1>4, <1>6, <1>7 DEF openChildren
  <2>2. c.why = "after" => Commanded(c) /\ Moved(c.before)
    <3> SUFFICES ASSUME c.why = "after", ~Moved(c.before) PROVE FALSE
      BY <1>3 DEF Awaiting
    <3>1. Awaiting(c) /\ Len(c.chain) < Len(c.before[1])
      BY <1>2, <1>3 DEF Awaiting
    <3>2. c.before[1][Len(c.chain) + 1] \in opened
      BY <1>2, <1>3, <1>4, <1>6, <3>1, OneWayDown DEF Stands
    <3> QED
      BY <1>7, <3>2
  <2>3. Saw(c)
    BY <1>3, <2>2 DEF Saw
  <2> QED
    BY <2>1, <2>3, Observed DEF Becoming
<1>8. CASE opened # {}
  <2>1. PICK paused : paused = {d \in opened : ctx[d].state = "paused"}
    OBVIOUS
  <2>2. PICK d : d = Max(IF paused # {} THEN paused ELSE opened)
    OBVIOUS
  <2>3. d \in opened
    <3>1. opened \in SUBSET (1..n) /\ paused \in SUBSET (1..n) /\ paused \subseteq opened /\ n \in Nat
      BY <1>6, <2>1, StateOf DEF childrenOf
    <3>2. paused # {} => Max(paused) \in paused
      BY <3>1, Greatest
    <3>3. Max(opened) \in opened
      BY <1>8, <3>1, Greatest
    <3> QED
      BY <2>2, <3>1, <3>2, <3>3
  <2>4. d \in Contexts /\ ctx[d].parent = x /\ d \in childrenOf(x) /\ open(d) /\ ctx[d].debug = ctx[x].debug
    <3>1. d \in Contexts /\ ctx[d].parent = x /\ d \in childrenOf(x) /\ open(d)
      BY <1>6, <2>3 DEF childrenOf
    <3>2. x # NoContext /\ \A y \in Contexts : ctx[y].parent # NoContext => ctx[y].debug = ctx[ctx[y].parent].debug
      BY <1>5, StateOf, SMTT(30) DEF EngineInv, NoContext
    <3> QED
      BY <3>1, <3>2
  <2>5. PICK q : q = Append(c.chain, d)
    OBVIOUS
  <2>6. PICK f : f = [c EXCEPT !.pc = "read", !.chain = q]
    OBVIOUS
  <2>7. /\ q \in Seq(Contexts) /\ Len(q) = Len(c.chain) + 1 /\ q # << >>
        /\ q[Len(c.chain) + 1] = d /\ \A i \in 1..Len(c.chain) : q[i] = c.chain[i]
    BY <1>5, <2>4, <2>5
  <2>8. Path(q, c.root)
    <3>1. q[1] = c.root /\ Len(q) <= MaxDepth + 1
      BY <1>3, <1>5, <2>7 DEF Path
    <3>2. ASSUME NEW i \in 1..Len(q) PROVE ctx[q[i]].debug = ctx[c.root].debug
      <4>1. \A j \in 1..Len(c.chain) : ctx[c.chain[j]].debug = ctx[c.root].debug
        BY <1>3 DEF Path
      <4>2. i \in 1..Len(c.chain) \/ i = Len(c.chain) + 1
        BY <1>5, <2>7
      <4>3. Len(c.chain) \in 1..Len(c.chain)
        BY <1>5
      <4> QED
        BY <1>5, <2>4, <2>7, <4>1, <4>2, <4>3
    <3>3. ASSUME NEW i \in 1..(Len(q) - 1) PROVE ctx[q[i + 1]].parent = q[i]
      <4>1. \A j \in 1..(Len(c.chain) - 1) : ctx[c.chain[j + 1]].parent = c.chain[j]
        BY <1>3 DEF Path
      <4>2. CASE i = Len(c.chain)
        BY <1>5, <2>4, <2>7, <4>2
      <4>3. CASE i # Len(c.chain)
        <5>1. i \in 1..(Len(c.chain) - 1) /\ i \in 1..Len(c.chain) /\ i + 1 \in 1..Len(c.chain)
          BY <1>5, <2>7, <4>3
        <5> QED
          BY <2>7, <4>1, <5>1
      <4> QED
        BY <4>2, <4>3
    <3> QED
      BY <2>7, <3>1, <3>2, <3>3 DEF Path
  <2>9. /\ f \in Call(n) /\ f.pc = "read" /\ f.chain = q /\ f.root = c.root /\ f.op = c.op
        /\ f.stage = c.stage /\ f.why = c.why /\ f.before = c.before
    <3>1. "read" \in Pc /\ q \in Chain(n)
      BY <2>7, StateOf DEF Pc, Observing, Chain
    <3> QED
      BY <1>2, <2>6, <3>1 DEF Call
  <2>10. Staged(f)
    BY <1>3, <2>9 DEF Staged, Stands, Method, Suits, Observing, Cancelling
  <2>11. c.why = "after" => Awaiting(f)
    <3> SUFFICES ASSUME c.why = "after", ~Moved(c.before) PROVE Awaiting(f)
      BY <1>3, <2>9 DEF Awaiting, Commanded
    <3>1. Awaiting(c) /\ Len(c.chain) < Len(c.before[1])
      BY <1>2, <1>3 DEF Awaiting
    <3>2. d = c.before[1][Len(c.chain) + 1]
      <4>1. \A y \in childrenOf(x) : open(y) => y = c.before[1][Len(c.chain) + 1]
        BY <1>2, <1>3, <1>4, <3>1, OneWayDown DEF Stands
      <4> QED
        BY <2>4, <4>1
    <3>3. Commanded(c) /\ \A i \in 1..Len(c.chain) : c.chain[i] = c.before[1][i]
      BY <3>1 DEF Awaiting
    <3>4. c.before[1] \in Seq(Contexts)
      BY <1>2, <3>3, CallTyped DEF Commanded
    <3>5. Len(q) <= Len(c.before[1]) /\ \A i \in 1..Len(q) : q[i] = c.before[1][i]
      <4>1. \A i \in 1..Len(q) : i \in 1..Len(c.chain) \/ i = Len(c.chain) + 1
        BY <1>5, <2>7
      <4> QED
        BY <1>5, <2>7, <3>1, <3>2, <3>3, <3>4, <4>1
    <3> QED
      BY <2>9, <3>3, <3>5 DEF Awaiting, Commanded
  <2>12. Looking(f)
    BY <2>8, <2>9, <2>11 DEF Looking
  <2>13. CallInv(f)
    BY <1>2, <2>9, <2>10, <2>12 DEF CallInv
  <2>14. becomes(cl, f)
    BY <1>1, <1>4, <1>6, <1>8, <2>1, <2>2, <2>5, <2>6 DEF openChildren
  <2> QED
    BY <2>13, <2>14 DEF Becoming
<1> QED
  BY <1>7, <1>8

(* A run is started, or none (launch).                                      *)
LEMMA Launch ==
    ASSUME EngineInv, NEW cl, CallInv(call[cl]), launch(cl)
    PROVE  EngineInv' /\ Grows /\ BecomingLater(cl)
<1> DEFINE n == Len(ctx)
<1>1. PICK c : c = call[cl]
  OBVIOUS
<1>2. /\ c \in Call(n) /\ Method(c) /\ c.pc = "launch" /\ c.root = NoContext /\ c.stage = "starting"
      /\ c.op \in Ops \cup {"none"} /\ n \in Nat
  BY <1>1, StateOf DEF CallInv, launch, Staged, Method
<1>3. CASE Len(ctx) < MaxContexts /\ ctx' = Append(ctx, NewContext(NoContext, TRUE))
           /\ becomes(cl, waiting([c EXCEPT !.root = Len(ctx) + 1], "first"))
  <2>1. EngineInv' /\ Grows /\ Len(ctx') = n + 1
    <3>1. PICK debug \in BOOLEAN : ctx' = Append(ctx, NewContext(NoContext, debug))
      BY <1>3
    <3>2. NoContext \in 0..n
      BY <1>2 DEF NoContext
    <3> QED
      BY <1>3, <3>1, <3>2, OneMore
  <2>2. PICK x : x = n + 1
    OBVIOUS
  <2>3. PICK p : p = Polls
    OBVIOUS
  <2>4. PICK q : q = <<x>>
    OBVIOUS
  <2>5. PICK f : f = [c EXCEPT !.root = x, !.pc = "read", !.why = "first", !.chain = q,
                               !.state = "none", !.order = 0, !.polls = p, !.waited = FALSE]
    OBVIOUS
  <2>6. f = waiting([c EXCEPT !.root = x], "first")
    <3>1. [c EXCEPT !.root = x].root = x
      BY <1>2 DEF Call
    <3> QED
      BY <2>3, <2>4, <2>5, <3>1 DEF waiting, observing
  <2>7. x \in 1..(n + 1) /\ x \in Id(n + 1) /\ q \in Chain(n + 1) /\ q # << >> /\ Len(q) = 1 /\ q[1] = x
    BY <1>2, <2>2, <2>4 DEF Id, Chain
  <2>8. c \in Call(n + 1)
    <3>1. n <= n + 1 /\ n + 1 \in Nat
      BY <1>2
    <3> QED
      BY <1>2, <3>1, CallLater
  <2>9. /\ f \in Call(n + 1) /\ f.pc = "read" /\ f.why = "first" /\ f.chain = q /\ f.root = x
        /\ f.op = c.op /\ f.stage = "starting"
    <3>1. "read" \in Pc /\ "first" \in Why /\ "none" \in SeenState /\ 0 \in Count /\ p \in Count /\ FALSE \in Flag
      BY <2>3 DEF Pc, Observing, Why, SeenState, Count, Flag
    <3> QED
      BY <1>2, <2>5, <2>7, <2>8, <3>1 DEF Call
  <2>10. Staged(f)
    BY <1>2, <2>7, <2>9 DEF Staged, Method, Suits, Observing, Cancelling, NoContext
  <2>11. Looking(f)'
    <3>1. \A i \in 1..Len(q) : q[i] = x
      BY <2>7
    <3>2. 1..(Len(q) - 1) = {}
      BY <2>7
    <3>3. Path(q, x)'
      BY <2>7, <3>1, <3>2 DEF Path
    <3> QED
      BY <2>9, <3>3 DEF Looking
  <2>12. (f \in Call(Len(ctx)))'
    BY <2>1, <2>9
  <2>13. CallInv(f)'
    BY <2>9, <2>10, <2>11, <2>12 DEF CallInv, Staged, Method, Suits
  <2> QED
    BY <1>3, <2>1, <2>2, <2>6, <2>13 DEF BecomingLater
<1>4. CASE UNCHANGED ctx /\ becomes(cl, throws(c))
  <2>1. EngineInv' /\ Grows
    BY <1>4, NothingMoves
  <2>2. PICK f : f = throws(c)
    OBVIOUS
  <2>3. CallInv(f)
    BY <1>2, <2>2, Throws
  <2>4. CallInv(f)'
    BY <2>1, <2>3, StableCall
  <2> QED
    BY <1>4, <2>1, <2>2, <2>4 DEF BecomingLater
<1> QED
  BY <1>1, <1>3, <1>4 DEF launch

--------------------------------------------------------------------------------
(* Cancelling a run *)

Cancels(c) ==
    /\ c \in Call(Len(ctx))
    /\ Method(c) /\ Suits(c, c.why)
    /\ c.stage = "cancelling"
    /\ c.root # NoContext

LEMMA Ends ==
    ASSUME NEW f, Cancels(f), f.pc \in Cancelling, Ending(f)
    PROVE  CallInv(f)
<1>1. Staged(f)
  BY DEF Staged, Cancels, Observing, Cancelling
<1> QED
  BY <1>1 DEF CallInv, Cancels, Cancelling

(* What every step of a cancel but the first knows of the run.              *)
Ongoing(c) ==
    /\ Cancels(c)
    /\ c.tree \subseteq below(c.root)
    /\ c.found \cap {c.root} = {}
    /\ ctx[c.root].debug
    /\ \A d \in c.found : ctx[d].debug
    /\ c.first \/ c.after => ~open(c.root)

(* The tree is walked from the root, for the first or the second time.      *)
LEMMA OpensDescendants ==
    ASSUME EngineInv, NEW c, Ongoing(c), c.walked # 2
    PROVE  CallInv(openDescendants(c))
<1> DEFINE n == Len(ctx)
<1>1. /\ c \in Call(n) /\ c.root \in Contexts /\ c.walked \in 0..2 /\ MaxDepth - 0 = MaxDepth
  BY CallTyped DEF Ongoing, Cancels
<1>2. PICK r, k : r = {c.root} /\ k = c.walked + 1
  OBVIOUS
<1>3. PICK f : f = [c EXCEPT !.pc = "walk", !.level = r, !.next = {}, !.depth = 0, !.seen = r, !.walked = k]
  OBVIOUS
<1>4. f = openDescendants(c)
  BY <1>2, <1>3 DEF openDescendants
<1>5. /\ r \in Ids(n) /\ {} \in Ids(n) /\ 0 \in Depth /\ k \in Walks /\ k # 0 /\ "walk" \in Pc
  BY <1>1, <1>2, StateOf DEF Ids, Depth, Walks, Pc, Cancelling, Ongoing
<1>6. /\ f \in Call(n) /\ f.pc = "walk" /\ f.level = r /\ f.next = {} /\ f.depth = 0 /\ f.seen = r
      /\ f.walked = k /\ f.root = c.root /\ f.tree = c.tree /\ f.found = c.found /\ f.op = c.op
      /\ f.why = c.why /\ f.stage = c.stage /\ f.first = c.first /\ f.after = c.after
  BY <1>1, <1>3, <1>5 DEF Call
<1>7. Cancels(f)
  BY <1>6 DEF Cancels, Method, Suits, Ongoing
<1>8. Walking(f)
  <2>1. \A d \in Remaining(f) : d \in within[MaxDepth - f.depth][f.root] \ {f.root}
    BY <1>1, <1>6 DEF Remaining, below, Ongoing
  <2> QED
    BY <1>2, <1>6, <2>1 DEF Walking
<1>9. Ending(f)
  BY <1>2, <1>5, <1>6, <1>8 DEF Ending, Ongoing
<1> QED
  BY <1>4, <1>6, <1>7, <1>9, Ends DEF Cancelling

LEMMA CancelSucceeds ==
    ASSUME EngineInv, NEW c, Cancels(c), ~open(c.root), Remaining(c) = {}
    PROVE  CallInv(finished(c, IF c.outcome = "error" THEN "error" ELSE "ok", TRUE))
<1>1. PICK o \in {"ok", "error"} : o = IF c.outcome = "error" THEN "error" ELSE "ok"
  OBVIOUS
<1>2. CallInv(finished(c, o, TRUE))
  BY Finishes DEF Cancels, Method
<1> QED
  BY <1>1, <1>2

LEMMA WalkEnds ==
    ASSUME EngineInv, NEW c, Ongoing(c), c.pc = "walk", c.walked # 0,
           c.level = {}, c.next = {}, Remaining(c) \subseteq c.found
    PROVE  CallInv(walkEnded(c))
<1>0. c \in Call(Len(ctx)) /\ c.walked \in {1, 2} /\ c.root \in Contexts
  BY CallTyped DEF Ongoing, Cancels
<1>1. CASE c.walked = 1 /\ c.first /\ c.found = {}
  <2>1. CallInv(finished(c, IF c.outcome = "error" THEN "error" ELSE "ok", TRUE))
    BY <1>1, CancelSucceeds DEF Ongoing
  <2> QED
    BY <1>1, <2>1 DEF walkEnded
<1>2. CASE c.walked = 1 /\ c.first /\ c.found # {}
  <2>1. PICK f : f = [c EXCEPT !.after = TRUE]
    OBVIOUS
  <2>2. /\ f \in Call(Len(ctx)) /\ f.root = c.root /\ f.tree = c.tree /\ f.found = c.found /\ f.op = c.op
        /\ f.why = c.why /\ f.stage = c.stage /\ f.first = c.first /\ f.walked = c.walked
    <3>1. TRUE \in Flag
      BY DEF Flag
    <3> QED
      BY <1>0, <2>1, <3>1 DEF Call
  <2>3. Ongoing(f)
    BY <1>2, <2>2 DEF Ongoing, Cancels, Method, Suits
  <2>4. CallInv(openDescendants(f))
    BY <1>2, <2>2, <2>3, OpensDescendants
  <2> QED
    BY <1>2, <2>1, <2>4 DEF walkEnded
<1>3. CASE c.walked = 1 /\ ~c.first
  <2>1. PICK r : r = c.root
    OBVIOUS
  <2>2. PICK f : f = [c EXCEPT !.pc = "cancel", !.cur = r]
    OBVIOUS
  <2>3. r \in Id(Len(ctx)) /\ "cancel" \in Pc
    BY <1>0, <2>1 DEF Pc, Cancelling, Call
  <2>4. /\ f \in Call(Len(ctx)) /\ f.root = c.root /\ f.tree = c.tree /\ f.found = c.found /\ f.op = c.op
        /\ f.why = c.why /\ f.stage = c.stage /\ f.first = c.first /\ f.after = c.after
        /\ f.walked = c.walked /\ f.level = c.level /\ f.next = c.next /\ f.cur = r /\ f.pc = "cancel"
    BY <1>0, <2>2, <2>3 DEF Call
  <2>5. Cancels(f)
    BY <2>4 DEF Ongoing, Cancels, Method, Suits
  <2>6. Ending(f)
    BY <1>3, <2>1, <2>4 DEF Ending, Ongoing, Cancels
  <2>7. CallInv(f)
    BY <2>4, <2>5, <2>6, Ends DEF Cancelling
  <2> QED
    BY <1>3, <2>1, <2>2, <2>7 DEF walkEnded
<1>4. CASE c.walked = 2
  <2>1. PICK f : f = [c EXCEPT !.pc = "child"]
    OBVIOUS
  <2>2. /\ f \in Call(Len(ctx)) /\ f.root = c.root /\ f.tree = c.tree /\ f.found = c.found /\ f.op = c.op
        /\ f.why = c.why /\ f.stage = c.stage /\ f.first = c.first /\ f.after = c.after
        /\ f.walked = c.walked /\ f.level = c.level /\ f.next = c.next /\ f.pc = "child"
    <3>1. "child" \in Pc
      BY DEF Pc, Cancelling
    <3> QED
      BY <1>0, <2>1, <3>1 DEF Call
  <2>3. Cancels(f)
    BY <2>2 DEF Ongoing, Cancels, Method, Suits
  <2>4. Ending(f)
    BY <1>4, <2>2 DEF Ending, Ongoing, Remaining
  <2>5. CallInv(f)
    BY <2>2, <2>3, <2>4, Ends DEF Cancelling
  <2>6. c.walked # 1
    BY <1>4
  <2> QED
    BY <2>1, <2>5, <2>6 DEF walkEnded
<1> QED
  BY <1>0, <1>1, <1>2, <1>3, <1>4

(* The root is read, and the walk begins (readRoot).                        *)
LEMMA ReadRoot ==
    ASSUME EngineInv, NEW cl, CallInv(call[cl]), readRoot(cl)
    PROVE  Becoming(cl)
<1>1. PICK c : c = call[cl]
  OBVIOUS
<1>2. /\ Cancels(c) /\ c.pc = "first" /\ Ending(c) /\ c.root \in Contexts /\ c.op \in Ops \cup {"none"}
  BY <1>1, CallTyped DEF CallInv, readRoot, Staged, Cancels, Cancelling, Method
<1>3. CallInv(throws(c))
  BY <1>2, Throws DEF Cancels
<1>4. ASSUME ctx[c.root].debug PROVE CallInv(openDescendants([c EXCEPT !.first = ~open(c.root)]))
  <2>1. PICK b \in BOOLEAN : b = (~open(c.root))
    OBVIOUS
  <2>2. PICK f : f = [c EXCEPT !.first = b]
    OBVIOUS
  <2>3. b \in Flag
    BY DEF Flag
  <2>4. /\ f \in Call(Len(ctx)) /\ f.root = c.root /\ f.tree = c.tree /\ f.found = c.found /\ f.op = c.op
        /\ f.why = c.why /\ f.stage = c.stage /\ f.first = b /\ f.walked = c.walked /\ f.after = c.after
    BY <1>2, <2>2, <2>3 DEF Call, Cancels
  <2>5. Ongoing(f) /\ f.walked # 2
    <3>1. Cancels(f)
      BY <1>2, <2>4 DEF Cancels, Method, Suits
    <3>2. c.tree \subseteq below(c.root) /\ c.found = {} /\ c.walked = 0 /\ ~c.after
      BY <1>2 DEF Ending
    <3>3. b => ~open(c.root)
      BY <2>1
    <3>4. f.first \/ f.after => ~open(f.root)
      BY <2>4, <3>2, <3>3
    <3>5. f.tree \subseteq below(f.root) /\ f.found \cap {f.root} = {} /\ f.walked # 2
      BY <2>4, <3>2
    <3>6. ctx[f.root].debug /\ \A d \in f.found : ctx[d].debug
      BY <1>4, <2>4, <3>2
    <3> QED
      BY <3>1, <3>4, <3>5, <3>6 DEF Ongoing
  <2>6. CallInv(openDescendants(f))
    BY <2>5, OpensDescendants
  <2> QED
    BY <2>1, <2>2, <2>6
<1> QED
  BY <1>1, <1>3, <1>4 DEF readRoot, Becoming

(* One context is listed (walk): those it calls are found, or listed later. *)
LEMMA Visited ==
    ASSUME EngineInv, NEW c, Ongoing(c), c.pc = "walk", Walking(c), NEW p \in c.level,
           \A d \in c.level \cup c.next : ctx[d].debug
    PROVE  LET w == visit(c, p) IN
           /\ Ongoing(w) /\ Walking(w) /\ w.pc = "walk" /\ w.walked = c.walked /\ w.depth = c.depth
           /\ \A d \in w.level \cup w.next : ctx[d].debug
<1> DEFINE n == Len(ctx)
<1>1. /\ c \in Call(n) /\ c.root \in Contexts /\ c.level \subseteq Contexts /\ c.next \subseteq Contexts
      /\ c.seen \subseteq Contexts /\ c.found \subseteq Contexts /\ c.depth \in 0..(MaxDepth - 1)
      /\ p \in Contexts /\ p \in c.seen
  BY CallTyped DEF Ongoing, Cancels, Walking
<1>2. PICK kids : kids = childrenOf(p) \ c.seen
  OBVIOUS
<1>3. PICK l, m, s, u : /\ l = c.level \ {p} /\ m = c.next \cup kids /\ s = c.seen \cup kids
                        /\ u = c.found \cup {d \in kids : open(d)}
  OBVIOUS
<1>4. PICK w : w = [c EXCEPT !.level = l, !.seen = s, !.next = m, !.found = u]
  OBVIOUS
<1>5. w = visit(c, p)
  BY <1>2, <1>3, <1>4 DEF visit
<1>6. kids \subseteq Contexts /\ \A d \in kids : d \in Contexts /\ ctx[d].parent = p /\ d \notin c.seen
  BY <1>2 DEF childrenOf
<1>7. l \in Ids(n) /\ m \in Ids(n) /\ s \in Ids(n) /\ u \in Ids(n)
  BY <1>1, <1>3, <1>6, StateOf DEF Ids
<1>8. /\ w \in Call(n) /\ w.level = l /\ w.seen = s /\ w.next = m /\ w.found = u /\ w.root = c.root
      /\ w.tree = c.tree /\ w.op = c.op /\ w.why = c.why /\ w.stage = c.stage /\ w.first = c.first
      /\ w.after = c.after /\ w.walked = c.walked /\ w.depth = c.depth /\ w.pc = c.pc
  BY <1>1, <1>4, <1>7 DEF Call
<1>9. \A d \in kids : ctx[d].debug /\ d > p /\ d # c.root
  <2> TAKE d \in kids
  <2>1. ctx[d].parent = p /\ d \in Contexts /\ p # NoContext /\ p \in 1..n /\ d \in 1..n
    BY <1>1, <1>6, StateOf DEF NoContext
  <2>2. ctx[d].debug = ctx[p].debug /\ p \in 0..(d - 1)
    BY <2>1 DEF EngineInv
  <2>3. c.root \in c.seen
    BY DEF Walking
  <2> QED
    BY <1>6, <2>1, <2>2, <2>3
<1>10. Ongoing(w)
  BY <1>3, <1>8, <1>9 DEF Ongoing, Cancels, Method, Suits
<1>11. \A d \in w.level \cup w.next : ctx[d].debug
  BY <1>3, <1>8, <1>9
<1>12. p \notin c.next /\ c.root \in Nat /\ p >= c.root
  <2>1. p \notin c.next /\ (p = c.root \/ p > c.root)
    BY <1>1 DEF Walking
  <2>2. c.root \in Nat /\ p \in Nat
    BY <1>1, StateOf
  <2> QED
    BY <2>1, <2>2
<1>13. \A e \in s : \/ e = c.root
                    \/ e > c.root /\ ctx[e].parent \in s \ (l \cup m)
  <2> TAKE e \in s
  <2>1. CASE e \in c.seen
    <3>1. e = c.root \/ (e > c.root /\ ctx[e].parent \in c.seen \ (c.level \cup c.next))
      BY <2>1 DEF Walking
    <3> QED
      BY <1>3, <1>6, <3>1
  <2>2. CASE e \in kids
    <3>1. ctx[e].parent = p /\ e > p /\ e \in Nat /\ p \in Nat
      BY <1>1, <1>6, <1>9, <2>2, StateOf
    <3>2. p \in s /\ p \notin l /\ p \notin m
      BY <1>1, <1>3, <1>6, <1>12
    <3> QED
      BY <1>12, <3>1, <3>2
  <2> QED
    BY <1>3, <2>1, <2>2
<1>14. ASSUME NEW d \in Remaining(c)
       PROVE  \/ d \in u
              \/ \E q \in l : d \in within[MaxDepth - c.depth][q] \ {q}
              \/ \E q \in m : d \in within[MaxDepth - c.depth - 1][q] \ {q}
  <2> DEFINE k == MaxDepth - c.depth
  <2>0. k \in 1..MaxDepth
    BY <1>1
  <2>1. \/ d \in c.found
        \/ \E q \in c.level : d \in within[k][q] \ {q}
        \/ \E q \in c.next : d \in within[k - 1][q] \ {q}
    BY DEF Walking
  <2> HIDE DEF k
  <2>2. CASE d \in within[k][p] \ {p}
    <3>1. PICK e \in childrenOf(p) : d \in within[k - 1][e]
      BY <1>1, <2>0, <2>2, Below DEF EngineInv
    <3>2. e \in kids
      <4> SUFFICES ASSUME e \in c.seen PROVE FALSE
        BY <1>2, <3>1
      <4>1. ctx[e].parent = p /\ e \in Contexts
        BY <3>1 DEF childrenOf
      <4>2. e = c.root \/ ctx[e].parent \in c.seen \ (c.level \cup c.next)
        BY DEF Walking
      <4>3. e = c.root
        BY <4>1, <4>2
      <4>4. p \in 0..(e - 1) /\ e \in Nat
        BY <4>1, StateOf
      <4> QED
        BY <1>12, <4>3, <4>4
    <3>3. CASE d = e
      BY <1>3, <3>2, <3>3 DEF Remaining
    <3>4. CASE d # e
      BY <1>3, <3>1, <3>2, <3>4 DEF k
    <3> QED
      BY <3>3, <3>4
  <2>3. CASE d \notin within[k][p] \ {p}
    BY <1>3, <2>1, <2>3 DEF k
  <2> QED
    BY <2>2, <2>3
<1>15. Walking(w)
  <2>1. c.root \in s /\ l \cup m \subseteq s /\ l \cap m = {}
    BY <1>1, <1>2, <1>3 DEF Walking
  <2>2. Remaining(w) = Remaining(c)
    BY <1>8 DEF Remaining
  <2> QED
    BY <1>8, <1>13, <1>14, <2>1, <2>2 DEF Walking
<1> QED
  BY <1>5, <1>8, <1>10, <1>11, <1>15

(* The walk goes on, one level down when this one is done, as deep as it    *)
(* goes; what it did not find has ended.                                    *)
LEMMA Walk ==
    ASSUME EngineInv, NEW cl, CallInv(call[cl]), walk(cl)
    PROVE  Becoming(cl)
<1> DEFINE n == Len(ctx)
<1>1. PICK c : c = call[cl]
  OBVIOUS
<1>2. /\ Ongoing(c) /\ c.pc = "walk" /\ Walking(c) /\ c.walked # 0 /\ c.stage = "cancelling"
      /\ \A d \in c.level \cup c.next : ctx[d].debug
  BY <1>1 DEF CallInv, walk, Staged, Cancels, Cancelling, Ending, Ongoing
<1>3. PICK p \in c.level :
        LET w == visit(c, p) IN
        becomes(cl, IF w.level # {} THEN w
                    ELSE IF w.next # {} /\ w.depth + 1 < MaxDepth
                    THEN [w EXCEPT !.level = w.next, !.next = {}, !.depth = @ + 1]
                    ELSE walkEnded([w EXCEPT !.next = {}, !.seen = {}, !.depth = 0]))
  BY <1>1 DEF walk
<1>4. PICK w : w = visit(c, p)
  OBVIOUS
<1>5. /\ Ongoing(w) /\ Walking(w) /\ w.pc = "walk" /\ w.walked # 0
      /\ \A d \in w.level \cup w.next : ctx[d].debug
  BY <1>2, <1>4, Visited
<1>6. /\ w \in Call(n) /\ w.depth \in 0..(MaxDepth - 1) /\ w.level \in Ids(n) /\ w.next \in Ids(n)
      /\ {} \in Ids(n) /\ n \in Nat /\ w.next \subseteq Contexts
  BY <1>5, CallTyped, StateOf DEF Ongoing, Cancels, Call, Ids
<1>7. CASE w.level # {}
  <2>1. Ending(w)
    BY <1>5 DEF Ending, Ongoing
  <2>2. CallInv(w)
    BY <1>5, <2>1, Ends DEF Ongoing, Cancelling
  <2> QED
    BY <1>3, <1>4, <1>7, <2>2 DEF Becoming
<1>8. CASE w.level = {} /\ w.next # {} /\ w.depth + 1 < MaxDepth
  <2>1. PICK m, k : m = w.next /\ k = w.depth + 1
    OBVIOUS
  <2>2. PICK f : f = [w EXCEPT !.level = m, !.next = {}, !.depth = k]
    OBVIOUS
  <2>3. k \in Depth /\ m \in Ids(n) /\ MaxDepth - k = MaxDepth - w.depth - 1
    BY <1>6, <1>8, <2>1 DEF Depth
  <2>4. /\ f \in Call(n) /\ f.level = m /\ f.seen = w.seen /\ f.next = {} /\ f.found = w.found /\ f.root = w.root
        /\ f.tree = w.tree /\ f.op = w.op /\ f.why = w.why /\ f.stage = w.stage /\ f.first = w.first
        /\ f.after = w.after /\ f.walked = w.walked /\ f.depth = k /\ f.pc = w.pc
    BY <1>6, <2>2, <2>3 DEF Call
  <2>5. Walking(f)
    <3>1. Remaining(f) = Remaining(w) /\ f.level \cup f.next = w.level \cup w.next
      BY <1>8, <2>1, <2>4 DEF Remaining
    <3>2. \A d \in Remaining(w) : \/ d \in w.found
                                  \/ \E q \in m : d \in within[MaxDepth - k][q] \ {q}
      BY <1>5, <1>8, <2>1, <2>3 DEF Walking
    <3> QED
      BY <1>5, <2>4, <3>1, <3>2 DEF Walking
  <2>6. Ongoing(f)
    BY <1>5, <2>4 DEF Ongoing, Cancels, Method, Suits
  <2>7. Ending(f)
    BY <1>5, <2>1, <2>4, <2>5, <2>6 DEF Ending, Ongoing
  <2>8. CallInv(f)
    BY <1>5, <2>4, <2>6, <2>7, Ends DEF Ongoing, Cancelling
  <2> QED
    BY <1>3, <1>4, <1>8, <2>1, <2>2, <2>8 DEF Becoming
<1>9. CASE w.level = {} /\ ~(w.next # {} /\ w.depth + 1 < MaxDepth)
  <2>1. PICK f : f = [w EXCEPT !.next = {}, !.seen = {}, !.depth = 0]
    OBVIOUS
  <2>2. 0 \in Depth
    BY DEF Depth
  <2>3. /\ f \in Call(n) /\ f.level = w.level /\ f.next = {} /\ f.found = w.found /\ f.root = w.root
        /\ f.tree = w.tree /\ f.op = w.op /\ f.why = w.why /\ f.stage = w.stage /\ f.first = w.first
        /\ f.after = w.after /\ f.walked = w.walked /\ f.pc = w.pc
    BY <1>6, <2>1, <2>2 DEF Call
  <2>4. Ongoing(f)
    BY <1>5, <2>3 DEF Ongoing, Cancels, Method, Suits
  <2>5. \A d \in Remaining(w) : d \in w.found
    <3> TAKE d \in Remaining(w)
    <3>1. d \in w.found \/ \E q \in w.next : d \in within[MaxDepth - w.depth - 1][q] \ {q}
      BY <1>5, <1>9 DEF Walking
    <3>2. ASSUME NEW q \in w.next, d \in within[MaxDepth - w.depth - 1][q] \ {q} PROVE FALSE
      <4>1. MaxDepth - w.depth - 1 = 0
        BY <1>6, <1>9
      <4>2. within[0][q] = {q}
        BY <1>6, Below DEF EngineInv
      <4> QED
        BY <3>2, <4>1, <4>2
    <3> QED
      BY <3>1, <3>2
  <2>6. Remaining(f) \subseteq f.found
    BY <2>3, <2>5 DEF Remaining
  <2>7. CallInv(walkEnded(f))
    BY <1>5, <1>9, <2>3, <2>4, <2>6, WalkEnds
  <2> QED
    BY <1>3, <1>4, <1>9, <2>1, <2>7 DEF Becoming
<1> QED
  BY <1>7, <1>8, <1>9

(* A step of the cancel that knows more: it is in or past the walk.         *)
LEMMA Cancelled ==
    ASSUME EngineInv, NEW c, CallInv(c), c.pc \in {"cancel", "settle", "child"}
    PROVE  /\ Ongoing(c) /\ c.root \in Contexts /\ c.op \in Ops \cup {"none"} /\ c.walked \in {1, 2}
           /\ Ending(c) /\ c.cur \in 0..Len(ctx) /\ c.found \subseteq Contexts
           /\ \A d \in c.level \cup c.next : ctx[d].debug
           /\ c.pc \in {"cancel", "settle"} => c.cur \in Contexts /\ ctx[c.cur].debug
<1>1. Staged(c) /\ Cancels(c) /\ Ending(c)
  BY DEF CallInv, Staged, Cancels, Cancelling
<1>2. c \in Call(Len(ctx)) /\ c.root # NoContext
  BY <1>1 DEF Cancels
<1>3. /\ c.root \in Contexts /\ c.walked \in 0..2 /\ c.cur \in 0..Len(ctx) /\ c.found \subseteq Contexts
      /\ c.cur # NoContext => c.cur \in Contexts
  BY <1>2, CallTyped
<1>4. Ongoing(c) /\ c.walked # 0 /\ \A d \in c.level \cup c.next : ctx[d].debug
  BY <1>1 DEF Ending, Ongoing
<1>5. c.pc \in {"cancel", "settle"} => c.cur # NoContext /\ ctx[c.cur].debug
  BY <1>1 DEF Ending
<1>6. c.op \in Ops \cup {"none"}
  BY <1>1 DEF Cancels, Method
<1> QED
  BY <1>1, <1>3, <1>4, <1>5, <1>6

LEMMA PostCancel ==
    ASSUME EngineInv, NEW cl, CallInv(call[cl]), postCancel(cl)
    PROVE  EngineInv' /\ Grows /\ BecomingLater(cl)
<1>1. PICK c : c = call[cl]
  OBVIOUS
<1>2. CallInv(c) /\ c.pc = "cancel"
  BY <1>1 DEF postCancel
<1>3. /\ Ongoing(c) /\ Ending(c) /\ c.walked \in {1, 2} /\ c.cur \in Contexts /\ ctx[c.cur].debug
      /\ \A d \in c.level \cup c.next : ctx[d].debug
  BY <1>2, Cancelled
<1>4. PICK k : k = Attempts
  OBVIOUS
<1>5. PICK f : f = [c EXCEPT !.pc = "settle", !.polls = k]
  OBVIOUS
<1>6. /\ f \in Call(Len(ctx)) /\ f.root = c.root /\ f.tree = c.tree /\ f.found = c.found /\ f.op = c.op
      /\ f.why = c.why /\ f.stage = c.stage /\ f.first = c.first /\ f.after = c.after
      /\ f.walked = c.walked /\ f.level = c.level /\ f.next = c.next /\ f.cur = c.cur /\ f.pc = "settle"
  <2>1. "settle" \in Pc /\ k \in Count
    BY <1>4 DEF Pc, Cancelling, Count
  <2> QED
    BY <1>3, <1>5, <2>1 DEF Ongoing, Cancels, Call
<1>7. Cancels(f)
  BY <1>3, <1>6 DEF Ongoing, Cancels, Method, Suits
<1>8. Ending(f)
  BY <1>2, <1>3, <1>6 DEF Ending, Ongoing, Remaining
<1>9. CallInv(f)
  BY <1>6, <1>7, <1>8, Ends DEF Cancelling
<1>10. EngineInv' /\ Grows
  BY <1>1, <1>3, Posted DEF postCancel
<1>11. CallInv(f)'
  BY <1>9, <1>10, StableCall
<1> QED
  BY <1>1, <1>4, <1>5, <1>10, <1>11 DEF postCancel, BecomingLater

(* The rest of the cancel, when a context is settled or was ended already.  *)
LEMMA NextOne ==
    ASSUME EngineInv, NEW c, Ongoing(c), c.walked = 2, Remaining(c) \subseteq c.found,
           \A d \in c.level \cup c.next : ctx[d].debug,
           NEW f, f \in Call(Len(ctx)), f.pc = "child", f.root = c.root, f.tree = c.tree,
           f.found = c.found, f.op = c.op, f.why = c.why, f.stage = c.stage, f.first = c.first,
           f.after = c.after, f.walked = c.walked, f.level = c.level, f.next = c.next
    PROVE  CallInv(f)
<1>1. Cancels(f)
  BY DEF Ongoing, Cancels, Method, Suits
<1>2. Ending(f)
  BY DEF Ending, Ongoing, Remaining
<1> QED
  BY <1>1, <1>2, Ends DEF Cancelling

LEMMA ChildrenEnded ==
    ASSUME EngineInv, NEW c, Ongoing(c), c.walked = 2, c.found = {}, Remaining(c) = {},
           \A d \in c.level \cup c.next : ctx[d].debug
    PROVE  CallInv(childrenEnded(c))
<1>1. CASE c.after
  <2>1. CallInv(finished(c, IF c.outcome = "error" THEN "error" ELSE "ok", TRUE))
    BY <1>1, CancelSucceeds DEF Ongoing
  <2> QED
    BY <1>1, <2>1 DEF childrenEnded
<1>2. CASE ~c.after
  <2>1. PICK r : r = c.root
    OBVIOUS
  <2>2. PICK f : f = [c EXCEPT !.pc = "cancel", !.cur = r]
    OBVIOUS
  <2>3. r \in Id(Len(ctx)) /\ "cancel" \in Pc
    BY <2>1 DEF Pc, Cancelling, Ongoing, Cancels, Call
  <2>4. /\ f \in Call(Len(ctx)) /\ f.root = c.root /\ f.tree = c.tree /\ f.found = c.found /\ f.op = c.op
        /\ f.why = c.why /\ f.stage = c.stage /\ f.first = c.first /\ f.after = c.after
        /\ f.walked = c.walked /\ f.level = c.level /\ f.next = c.next /\ f.cur = r /\ f.pc = "cancel"
    BY <2>2, <2>3 DEF Call, Ongoing, Cancels
  <2>5. Cancels(f)
    BY <2>4 DEF Ongoing, Cancels, Method, Suits
  <2>6. Ending(f)
    BY <2>1, <2>4 DEF Ending, Ongoing, Cancels, Remaining
  <2>7. CallInv(f)
    BY <2>4, <2>5, <2>6, Ends DEF Cancelling
  <2> QED
    BY <1>2, <2>1, <2>2, <2>7 DEF childrenEnded
<1> QED
  BY <1>1, <1>2

(* The state read last decides (settled): an ended root is left, an ended   *)
(* descendant gone on from, and one that is still open an error.            *)
LEMMA Settled ==
    ASSUME EngineInv, NEW c, CallInv(c), c.pc = "settle", NEW state, state = ctx[c.cur].state
    PROVE  CallInv(settled(c, state))
<1> DEFINE n == Len(ctx)
<1>1. /\ Ongoing(c) /\ c.root \in Contexts /\ c.op \in Ops \cup {"none"} /\ c.walked \in {1, 2}
      /\ Ending(c) /\ c.cur \in Contexts /\ c \in Call(n) /\ c.root # NoContext
      /\ \A d \in c.level \cup c.next : ctx[d].debug
  BY Cancelled DEF Ongoing, Cancels
<1>2. state \in ENDED <=> ~open(c.cur)
  BY <1>1, StateOf
<1>3. CallInv(throws(c))
  BY <1>1, Throws
<1>4. CASE c.cur = c.root /\ c.walked = 1
  <2>1. PICK b : b = (state \in ENDED)
    OBVIOUS
  <2>2. PICK f : f = [c EXCEPT !.cur = NoContext, !.after = b]
    OBVIOUS
  <2>3. b \in Flag /\ NoContext \in Id(n)
    BY <2>1, StateOf DEF Flag, NoContext, Id
  <2>4. /\ f \in Call(n) /\ f.root = c.root /\ f.tree = c.tree /\ f.found = c.found /\ f.op = c.op
        /\ f.why = c.why /\ f.stage = c.stage /\ f.first = c.first /\ f.walked = c.walked /\ f.after = b
    BY <1>1, <2>2, <2>3 DEF Call
  <2>5. Ongoing(f)
    <3>1. Cancels(f)
      BY <1>1, <2>4 DEF Ongoing, Cancels, Method, Suits
    <3>2. b => ~open(c.root)
      BY <1>2, <1>4, <2>1
    <3>3. f.first \/ f.after => ~open(f.root)
      BY <1>1, <2>4, <3>2 DEF Ongoing
    <3>4. /\ f.tree \subseteq below(f.root) /\ f.found \cap {f.root} = {}
          /\ ctx[f.root].debug /\ \A d \in f.found : ctx[d].debug
      BY <1>1, <2>4 DEF Ongoing
    <3> QED
      BY <3>1, <3>3, <3>4 DEF Ongoing
  <2>6. CallInv(openDescendants(f))
    BY <1>4, <2>4, <2>5, OpensDescendants
  <2>7. settled(c, state) = openDescendants(f)
    <3>1. settled(c, state) = openDescendants([c EXCEPT !.cur = NoContext, !.after = state \in ENDED])
      BY <1>4 DEF settled
    <3> QED
      BY <2>1, <2>2, <3>1
  <2> QED
    BY <2>6, <2>7
<1>5. CASE c.cur = c.root /\ c.walked = 2
  <2>1. CASE state \in ENDED
    <3>1. PICK f : f = [c EXCEPT !.after = TRUE]
      OBVIOUS
    <3>2. TRUE \in Flag
      BY DEF Flag
    <3>3. /\ f \in Call(n) /\ f.root = c.root /\ f.tree = c.tree /\ f.found = c.found /\ f.op = c.op
          /\ f.why = c.why /\ f.stage = c.stage /\ f.first = c.first /\ f.walked = c.walked
          /\ f.level = c.level /\ f.next = c.next
      BY <1>1, <3>1, <3>2 DEF Call
    <3>4. ~open(c.root) /\ c.found = {} /\ Remaining(c) \subseteq {c.root}
      BY <1>1, <1>2, <1>5, <2>1 DEF Ending
    <3>5. Ongoing(f)
      BY <1>1, <3>3, <3>4 DEF Ongoing, Cancels, Method, Suits
    <3>6. Remaining(f) = {}
      BY <3>3, <3>4 DEF Remaining
    <3>7. CallInv(childrenEnded(f))
      BY <1>1, <1>5, <3>3, <3>4, <3>5, <3>6, ChildrenEnded
    <3>8. settled(c, state) = childrenEnded(f)
      BY <1>5, <2>1, <3>1 DEF settled
    <3> QED
      BY <3>7, <3>8
  <2>2. CASE state \notin ENDED
    <3>1. settled(c, state) = throws(c)
      BY <1>5, <2>2 DEF settled
    <3> QED
      BY <1>3, <3>1
  <2> QED
    BY <2>1, <2>2
<1>6. CASE c.cur # c.root
  <2>0. c.walked = 2
    BY <1>1, <1>6 DEF Ending
  <2>1. CASE state \in ENDED
    <3>1. PICK f : f = [c EXCEPT !.pc = "child", !.cur = NoContext]
      OBVIOUS
    <3>2. "child" \in Pc /\ NoContext \in Id(n)
      BY StateOf DEF Pc, Cancelling, NoContext, Id
    <3>3. /\ f \in Call(n) /\ f.root = c.root /\ f.tree = c.tree /\ f.found = c.found /\ f.op = c.op
          /\ f.why = c.why /\ f.stage = c.stage /\ f.first = c.first /\ f.walked = c.walked
          /\ f.level = c.level /\ f.next = c.next /\ f.after = c.after /\ f.pc = "child"
      BY <1>1, <3>1, <3>2 DEF Call
    <3>4. Remaining(c) \subseteq c.found
      BY <1>1, <1>2, <2>0, <2>1 DEF Ending, Remaining
    <3>5. CallInv(f)
      BY <1>1, <2>0, <3>3, <3>4, NextOne
    <3>6. settled(c, state) = f
      BY <1>6, <2>1, <3>1 DEF settled
    <3> QED
      BY <3>5, <3>6
  <2>2. CASE state \notin ENDED
    <3>1. settled(c, state) = throws(c)
      BY <1>6, <2>2 DEF settled
    <3> QED
      BY <1>3, <3>1
  <2> QED
    BY <2>1, <2>2
<1> QED
  BY <1>1, <1>4, <1>5, <1>6

LEMMA SettleCancel ==
    ASSUME EngineInv, NEW cl, CallInv(call[cl]), settleCancel(cl)
    PROVE  Becoming(cl)
<1>1. PICK c : c = call[cl]
  OBVIOUS
<1>2. CallInv(c) /\ c.pc = "settle" /\ c \in Call(Len(ctx)) /\ c.polls \in Nat
  BY <1>1 DEF settleCancel, CallInv, Call, Count
<1>3. ASSUME NEW k \in Nat PROVE CallInv([c EXCEPT !.polls = k])
  <2>1. PICK f : f = [c EXCEPT !.polls = k]
    OBVIOUS
  <2>2. k \in Count
    BY DEF Count
  <2>3. /\ f \in Call(Len(ctx)) /\ f.root = c.root /\ f.tree = c.tree /\ f.found = c.found /\ f.op = c.op
        /\ f.why = c.why /\ f.stage = c.stage /\ f.first = c.first /\ f.after = c.after
        /\ f.walked = c.walked /\ f.level = c.level /\ f.next = c.next /\ f.cur = c.cur /\ f.pc = "settle"
    BY <1>2, <2>1, <2>2 DEF Call
  <2>4. Cancels(c) /\ Ending(c)
    BY <1>2, Cancelled DEF Ongoing
  <2>5. Cancels(f)
    BY <2>3, <2>4 DEF Cancels, Method, Suits
  <2>6. Ending(f)
    BY <1>2, <2>3, <2>4 DEF Ending, Remaining
  <2>7. CallInv(f)
    BY <2>3, <2>5, <2>6, Ends DEF Cancelling
  <2> QED
    BY <2>1, <2>7
<1>4. CASE open(c.cur) /\ c.polls > 0
  <2>1. PICK k : k = c.polls - 1
    OBVIOUS
  <2>2. CallInv([c EXCEPT !.polls = k])
    <3>1. k \in Nat
      BY <1>2, <1>4, <2>1
    <3> QED
      BY <1>3, <3>1
  <2> QED
    BY <1>1, <1>4, <2>1, <2>2 DEF settleCancel, Becoming
<1>5. CASE ~(open(c.cur) /\ c.polls > 0)
  <2>1. PICK f : f = [c EXCEPT !.polls = 0]
    OBVIOUS
  <2>2. CallInv(f)
    BY <1>3, <2>1
  <2>3. f.pc = "settle" /\ f.cur = c.cur
    BY <1>2, <2>1 DEF Call
  <2>4. CallInv(settled(f, ctx[c.cur].state))
    BY <2>2, <2>3, Settled
  <2> QED
    BY <1>1, <1>5, <2>1, <2>4 DEF settleCancel, Becoming
<1> QED
  BY <1>4, <1>5

LEMMA NextChild ==
    ASSUME EngineInv, NEW cl, CallInv(call[cl]), nextChild(cl)
    PROVE  Becoming(cl)
<1> DEFINE n == Len(ctx)
<1>1. PICK c : c = call[cl]
  OBVIOUS
<1>2. CallInv(c) /\ c.pc = "child"
  BY <1>1 DEF nextChild
<1>3. /\ Ongoing(c) /\ Ending(c) /\ c.found \subseteq Contexts /\ c \in Call(n)
      /\ \A d \in c.level \cup c.next : ctx[d].debug
  BY <1>2, Cancelled DEF Ongoing, Cancels
<1>4. c.walked = 2 /\ Remaining(c) \subseteq c.found
  BY <1>2, <1>3 DEF Ending
<1>5. CASE c.found = {}
  <2>1. CallInv(childrenEnded(c))
    BY <1>3, <1>4, <1>5, ChildrenEnded
  <2> QED
    BY <1>1, <1>5, <2>1 DEF nextChild, Becoming
<1>6. CASE c.found # {}
  <2>1. PICK x \in c.found :
          becomes(cl, IF open(x) THEN [[c EXCEPT !.found = @ \ {x}] EXCEPT !.pc = "cancel", !.cur = x]
                      ELSE [c EXCEPT !.found = @ \ {x}])
    BY <1>1, <1>6 DEF nextChild
  <2>2. PICK u : u = c.found \ {x}
    OBVIOUS
  <2>3. PICK g : g = [c EXCEPT !.found = u]
    OBVIOUS
  <2>4. /\ u \in Ids(n) /\ x \in Id(n) /\ x # NoContext /\ x \in Contexts /\ ctx[x].debug /\ x # c.root
        /\ "cancel" \in Pc
    BY <1>3, <2>2, StateOf DEF Ids, Id, Ongoing, NoContext, Pc, Cancelling
  <2>5. /\ g \in Call(n) /\ g.root = c.root /\ g.tree = c.tree /\ g.found = u /\ g.op = c.op
        /\ g.why = c.why /\ g.stage = c.stage /\ g.first = c.first /\ g.after = c.after
        /\ g.walked = c.walked /\ g.level = c.level /\ g.next = c.next /\ g.pc = "child"
    BY <1>2, <1>3, <2>3, <2>4 DEF Call
  <2>6. CASE open(x)
    <3>1. PICK f : f = [g EXCEPT !.pc = "cancel", !.cur = x]
      OBVIOUS
    <3>2. /\ f \in Call(n) /\ f.root = c.root /\ f.tree = c.tree /\ f.found = u /\ f.op = c.op
          /\ f.why = c.why /\ f.stage = c.stage /\ f.first = c.first /\ f.after = c.after
          /\ f.walked = c.walked /\ f.level = c.level /\ f.next = c.next /\ f.pc = "cancel" /\ f.cur = x
      BY <2>4, <2>5, <3>1 DEF Call
    <3>3. Cancels(f)
      BY <1>3, <3>2 DEF Ongoing, Cancels, Method, Suits
    <3>4. Remaining(f) \subseteq u \cup {x}
      BY <1>4, <2>2, <3>2 DEF Remaining
    <3>5. Ending(f)
      BY <1>3, <1>4, <2>2, <2>4, <3>2, <3>4 DEF Ending, Ongoing
    <3>6. CallInv(f)
      BY <3>2, <3>3, <3>5, Ends DEF Cancelling
    <3> QED
      BY <2>1, <2>2, <2>3, <2>6, <3>1, <3>6 DEF Becoming
  <2>7. CASE ~open(x)
    <3>1. Cancels(g)
      BY <1>3, <2>5 DEF Ongoing, Cancels, Method, Suits
    <3>2. Remaining(g) \subseteq u
      BY <1>4, <2>2, <2>5, <2>7 DEF Remaining
    <3>3. Ending(g)
      BY <1>3, <1>4, <2>2, <2>5, <3>2 DEF Ending, Ongoing
    <3>4. CallInv(g)
      BY <2>5, <3>1, <3>3, Ends DEF Cancelling
    <3> QED
      BY <2>1, <2>2, <2>3, <2>7, <3>4 DEF Becoming
  <2> QED
    BY <2>6, <2>7
<1> QED
  BY <1>5, <1>6

(* A request fails, whether the engine received it or not.                  *)
LEMMA RequestFails ==
    ASSUME EngineInv, NEW cl, CallInv(call[cl]), requestFails(cl)
    PROVE  EngineInv' /\ Grows /\ BecomingLater(cl)
<1>1. PICK c : c = call[cl]
  OBVIOUS
<1>2. /\ CallInv(c) /\ Staged(c) /\ c \in Call(Len(ctx)) /\ c.op \in Ops \cup {"none"}
      /\ c.stage = "cancelling" => c.root # NoContext
  BY <1>1 DEF CallInv, Staged, Method, Cancelling
<1>3. EngineInv' /\ Grows
  <2>1. CASE UNCHANGED ctx
    BY <2>1, NothingMoves
  <2>2. CASE Len(ctx) < MaxContexts /\ ctx' = Append(ctx, NewContext(NoContext, TRUE))
    <3>1. PICK debug \in BOOLEAN : ctx' = Append(ctx, NewContext(NoContext, debug))
      BY <2>2
    <3>2. NoContext \in 0..Len(ctx)
      BY StateOf DEF NoContext
    <3> QED
      BY <2>2, <3>1, <3>2, OneMore
  <2>3. CASE c.pc = "command" /\ posts(Last(c.chain), "command")
    <3>1. Looking(c) /\ c.root # NoContext
      BY <1>2, <2>3 DEF CallInv, Staged
    <3>2. c.chain \in Seq(Contexts) /\ c.chain # << >>
      BY <1>2, <2>3, <3>1, CallTyped DEF Looking, Path
    <3>3. Last(c.chain) = c.chain[Len(c.chain)] /\ Len(c.chain) \in 1..Len(c.chain)
      BY <3>2 DEF Last
    <3>4. Last(c.chain) \in Contexts /\ ctx[Last(c.chain)].debug
      BY <2>3, <3>1, <3>2, <3>3 DEF Looking, Path
    <3> QED
      BY <2>3, <3>4, Posted
  <2>4. CASE c.pc = "cancel" /\ posts(c.cur, "cancel")
    <3>1. c.cur \in Contexts /\ ctx[c.cur].debug
      BY <1>2, <2>4, Cancelled
    <3> QED
      BY <2>4, <3>1, Posted
  <2> QED
    BY <1>1, <2>1, <2>2, <2>3, <2>4 DEF requestFails
<1>4. PICK f : f = throws(c)
  OBVIOUS
<1>5. CallInv(f)'
  <2>1. CallInv(f)
    BY <1>2, <1>4, Throws
  <2> QED
    BY <1>3, <2>1, StableCall
<1> QED
  BY <1>1, <1>3, <1>4, <1>5 DEF requestFails, BecomingLater

--------------------------------------------------------------------------------
(* The theorems *)

LEMMA InitFlow == Init => FlowInv
<1> SUFFICES ASSUME Init PROVE FlowInv
  OBVIOUS
<1>1. EngineInv
  BY InitEngine
<1>2. CallInv(Fresh)
  <2>1. PICK f : f = Fresh
    OBVIOUS
  <2>2. f \in Call(Len(ctx))
    BY <1>1, <2>1, StateOf, FreshTyped
  <2>3. /\ f.op = "none" /\ f.pc = "idle" /\ f.stage = "none" /\ f.why = "none" /\ f.outcome = "none" /\ ~f.ended
    BY <2>1 DEF Fresh
  <2>4. Staged(f)
    BY <2>3 DEF Staged, Method, Suits, Observing, Cancelling
  <2>5. Looking(f) /\ Over(f)
    BY <2>3 DEF Looking, Over, Observing
  <2> QED
    BY <2>1, <2>2, <2>3, <2>4, <2>5 DEF CallInv
<1>3. DOMAIN call = Clients /\ \A cl \in Clients : call[cl] = Fresh
  BY DEF Init
<1>4. calls \in 0..MaxCalls
  BY DEF Init
<1> QED
  BY <1>1, <1>2, <1>3, <1>4 DEF FlowInv

(* Everything the engine keeps and every call knows is so in every state:   *)
(* what the properties below follow from.                                   *)
THEOREM FlowSafe == Spec => []FlowInv
<1>1. ASSUME FlowInv, [Next]_vars PROVE FlowInv'
  <2>0. EngineInv /\ calls \in 0..MaxCalls /\ \A cl \in Clients : CallInv(call[cl])
    BY <1>1 DEF FlowInv
  <2>1. ASSUME NEW cl \in Clients, begin(cl) PROVE FlowInv'
    BY <1>1, <2>0, <2>1, Begin, CallGoesOn
  <2>2. ASSUME NEW cl \in Clients, answered(cl) PROVE FlowInv'
    <3>1. CASE read(cl) \/ openChildren(cl) \/ setup(cl) \/ setBreakpoints(cl) \/ work(cl)
               \/ readRoot(cl) \/ walk(cl) \/ settleCancel(cl) \/ nextChild(cl)
      <4>1. Becoming(cl)
        BY <2>0, <3>1, Read, OpenChildren, Setup, SetBreakpoints, Work, ReadRoot, Walk, SettleCancel, NextChild
      <4>2. UNCHANGED <<ctx, calls>>
        BY <3>1 DEF read, openChildren, setup, setBreakpoints, work, readRoot, walk, settleCancel, nextChild
      <4> QED
        BY <1>1, <2>0, <4>1, <4>2, CallGoesOn
    <3>2. CASE launch(cl) \/ command(cl) \/ postCancel(cl)
      <4>1. EngineInv' /\ Grows /\ BecomingLater(cl)
        BY <2>0, <3>2, Launch, Command, PostCancel
      <4>2. UNCHANGED calls
        BY <3>2 DEF launch, command, postCancel
      <4> QED
        BY <1>1, <2>0, <4>1, <4>2, CallMoves
    <3> QED
      BY <2>2, <3>1, <3>2 DEF answered
  <2>3. ASSUME NEW cl \in Clients, requestFails(cl) PROVE FlowInv'
    <3>1. EngineInv' /\ Grows /\ BecomingLater(cl)
      BY <2>0, <2>3, RequestFails
    <3>2. UNCHANGED calls
      BY <2>3 DEF requestFails
    <3> QED
      BY <1>1, <2>0, <3>1, <3>2, CallMoves
  <2>4. ASSUME NEW x \in Contexts, engine(x) PROVE FlowInv'
    <3>1. EngineInv' /\ Grows
      BY <2>0, <2>4, EngineStep
    <3>2. UNCHANGED <<call, calls>>
      BY <2>4 DEF engine
    <3>3. \A c : CallInv(c) => CallInv(c)'
      BY <2>0, <3>1, StableCall
    <3> QED
      BY <1>1, <3>1, <3>2, <3>3 DEF FlowInv
  <2>5. CASE UNCHANGED vars
    <3>1. UNCHANGED ctx /\ UNCHANGED <<call, calls>>
      BY <2>5 DEF vars
    <3>2. EngineInv' /\ Grows
      BY <2>0, <3>1, NothingMoves
    <3>3. \A c : CallInv(c) => CallInv(c)'
      BY <2>0, <3>2, StableCall
    <3> QED
      BY <1>1, <3>1, <3>2, <3>3 DEF FlowInv
  <2> QED
    BY <1>1, <2>1, <2>2, <2>3, <2>4, <2>5 DEF Next
<1> QED
  BY <1>1, InitFlow, PTL DEF Spec

(* TypeOK: what the instance holds, and what a call may.                    *)
THEOREM FlowTyped == Spec => []TypeOK
<1>1. FlowInv => TypeOK
  <2> SUFFICES ASSUME FlowInv PROVE TypeOK
    OBVIOUS
  <2>1. EngineInv /\ calls \in 0..MaxCalls /\ Len(ctx) <= MaxContexts
    BY DEF FlowInv, EngineInv
  <2>2. ASSUME NEW x \in Contexts
        PROVE  ctx[x] \in [state : ENDED \cup OPEN, parent : 0..(x - 1), debug : BOOLEAN,
                           order : 0..MaxOrder, posted : SUBSET {"command", "cancel"}]
    <3>1. ctx[x] \in Context /\ ctx[x].parent \in 0..(x - 1)
      BY <2>1, StateOf
    <3> QED
      BY <3>1 DEF Context, States
  <2>3. ASSUME NEW cl \in Clients
        PROVE  LET c == call[cl] IN
               /\ DOMAIN c = DOMAIN Fresh
               /\ c.op \in Ops \cup {"none"} /\ c.root \in 0..Len(ctx)
               /\ \A i \in DOMAIN c.chain : c.chain[i] \in Contexts
               /\ c.polls \in Nat /\ c.walked \in 0..2 /\ c.depth \in 0..(MaxDepth - 1)
               /\ c.level \cup c.next \cup c.found \cup c.tree \subseteq Contexts
               /\ c.outcome \in {"none", "ok", "error"}
    <3>1. PICK c : c = call[cl]
      OBVIOUS
    <3>2. c \in Call(Len(ctx)) /\ c.op \in Ops \cup {"none"}
      BY <3>1 DEF FlowInv, CallInv, Staged, Method
    <3>3. DOMAIN c = DOMAIN Fresh
      BY <3>2 DEF Call, Fresh
    <3>4. /\ c.root \in 0..Len(ctx) /\ c.chain \in Seq(Contexts) /\ c.walked \in 0..2
          /\ c.depth \in 0..(MaxDepth - 1)
          /\ c.level \cup c.next \cup c.found \cup c.tree \subseteq Contexts
      BY <2>1, <3>2, CallTyped
    <3>5. c.polls \in Count /\ c.outcome \in Outcome
      BY <3>2 DEF Call
    <3>6. \A i \in DOMAIN c.chain : c.chain[i] \in Contexts
      BY <3>4
    <3> QED
      BY <3>1, <3>2, <3>3, <3>4, <3>5, <3>6 DEF Count, Outcome
  <2> QED
    BY <2>1, <2>2, <2>3 DEF TypeOK
<1> QED
  BY <1>1, FlowSafe, PTL

(* RealRunsUntouched: command and cancel send nothing to a run that the     *)
(* debugger did not start.                                                  *)
THEOREM RealRunsStandBy == Spec => []RealRunsUntouched
<1>1. FlowInv => RealRunsUntouched
  BY DEF FlowInv, EngineInv, RealRunsUntouched
<1> QED
  BY <1>1, FlowSafe, PTL

(* CancelledRunsEnd: after a cancel that succeeds, the root and all that    *)
(* was below it, as deep as MAX_DEPTH, have ended.                          *)
THEOREM CancelsAreThorough == Spec => []CancelledRunsEnd
<1>1. FlowInv => CancelledRunsEnd
  <2> SUFFICES ASSUME FlowInv, NEW cl \in Clients, NEW c, c = call[cl], c.pc = "idle", c.ended,
                      NEW x \in {c.root} \cup c.tree
               PROVE  ~open(x)
    BY DEF CancelledRunsEnd
  <2>1. Over(c)
    BY DEF FlowInv, CallInv
  <2> QED
    BY <2>1 DEF Over, Remaining
<1> QED
  BY <1>1, FlowSafe, PTL

(* SessionsClosed: withSession and runTo return a result only of a run that *)
(* has ended.                                                               *)
THEOREM SessionsEnd == Spec => []SessionsClosed
<1>1. FlowInv => SessionsClosed
  <2> SUFFICES ASSUME FlowInv, NEW cl \in Clients, NEW c, c = call[cl], c.pc = "idle",
                      c.op \in {"withSession", "runTo"}, c.outcome = "ok"
               PROVE  ~open(c.root)
    BY DEF SessionsClosed
  <2>1. Over(c)
    BY DEF FlowInv, CallInv
  <2> QED
    BY <2>1 DEF Over
<1> QED
  BY <1>1, FlowSafe, PTL

(* CommandSeesProgress: a command that does not time out reports a run that *)
(* has moved since it was looked at.                                        *)
THEOREM CommandsReportProgress == Spec => []CommandSeesProgress
<1>1. FlowInv => CommandSeesProgress
  <2> SUFFICES ASSUME FlowInv, NEW cl \in Clients, NEW c, c = call[cl], c.pc = "idle",
                      c.op = "command", c.outcome = "ok", c.before # << >>
               PROVE  Moved(c.before)
    BY DEF CommandSeesProgress, Moved
  <2>1. Over(c)
    BY DEF FlowInv, CallInv
  <2> QED
    BY <2>1 DEF Over
<1> QED
  BY <1>1, FlowSafe, PTL
================================================================================
