---------------------------- MODULE WorkflowProofs ----------------------------
(* Theorems of WorkflowManager: its types, that its steps are steps of      *)
(* WorkflowDrafts, that a refusal leaves nothing behind and that an answer  *)
(* is true.                                                                 *)
(*                                                                          *)
(* A method is a sequence of requests that rely on one another: a path is   *)
(* drawn from an exit that an earlier request found. The invariant says of  *)
(* every step that is still to come what the steps it relies on have        *)
(* established, once they are behind (FactsOf), for as long as the version  *)
(* is the caller's and nobody else has had a hand in it (Free).             *)
EXTENDS WorkflowManager, LeastElements, FiniteSetTheorems, TLAPS

(****************************************************************************)
(* The steps of a call                                                      *)
(****************************************************************************)
(* Steps that ask and may refuse.                                           *)
Reads == {"requireDraft", "resolveDefinition", "resolveStage", "readActivity", "readFrom", "readTo", "readCondition",
          "readTransition", "pickExit", "checkDuplicate", "readSiblings", "checkName", "readTouching", "readJoined",
          "readLeaving", "readRest", "resolveWorkflow", "readVersions", "chooseCheckout"}

(* What is done to a draft and relies on an earlier requireDraft.           *)
Guarded == {"insertActivity", "newEdgeControlNode", "connectFrom", "connectTo", "newEdge", "changeEdge", "deleteEdge",
            "deleteLeaving", "deleteExit", "deleteNode", "deleteDraft", "verifyDeleted", "publishValidated", "publishAnyway"}

(* What relies on the version still being of the workflow it was read for.  *)
Placed == {"takeCheckout", "verifyInitialized"}

Rank(s) ==
    IF s \in Reads THEN 0
    ELSE IF s \in {"insertActivity", "postWorkflow"} THEN 1
    ELSE IF s \in {"pickOwnExit", "postVersion"} THEN 2
    ELSE IF s \in {"newEdgeControlNode", "postActivity", "postNext"} THEN 3
    ELSE IF s \in {"connectFrom", "findEnds", "postTransition"} THEN 4
    ELSE IF s \in {"connectTo", "requireStart", "findings", "noteFindings"} THEN 5
    ELSE IF s = "touch" THEN 6
    ELSE IF s \in {"deleteExit", "publishAnyway", "forceCheckout"} THEN 8
    ELSE IF s \in {"verifyRemoved", "verifyDeleted", "verifyWorkflowGone", "verifyInitialized", "readPublished"} THEN 9
    ELSE IF s = "rethrow" THEN 10
    ELSE 7

Wiring == {"requireDraft", "resolveDefinition", "readTransition", "readFrom", "readTo", "resolveStage", "pickExit",
           "insertActivity", "pickOwnExit", "newEdgeControlNode", "connectFrom", "connectTo", "touch"}

Cleanup == {"readActivity", "requireDraft", "readTouching", "deleteNode", "verifyRemoved", "rethrow"}

StepsOf(op) ==
    CASE op = "checkout" -> {"chooseCheckout", "takeCheckout", "forceCheckout"}
      [] op = "publish" -> {"requireDraft", "publishValidated", "findings", "noteFindings", "publishAnyway"}
      [] op = "discardCheckout" -> {"requireDraft", "readSiblings", "deleteDraft", "verifyDeleted"}
      [] op = "deleteWorkflow" -> {"resolveWorkflow", "readVersions", "deleteVersions", "verifyWorkflowGone"}
      [] op = "setWorkflowActive" -> {"touch"}
      [] op = "updateWorkflowProperties" -> {"requireDraft", "touch"}
      [] op = "addActivity" -> Wiring
      [] op = "updateActivity" -> {"readActivity", "requireDraft", "resolveStage", "touch"}
      [] op = "removeActivity" -> {"readActivity", "requireDraft", "readTouching", "readJoined", "deleteNode", "verifyRemoved"}
      [] op = "moveActivities" -> {"readActivity", "readRest", "requireDraft", "touch", "moveRest"}
      [] op = "addTransition" -> {"readFrom", "requireDraft", "readTo", "pickExit", "checkDuplicate", "newEdge"}
      [] op = "retargetTransition" -> {"readTransition", "requireDraft", "readTo", "changeEdge"}
      [] op = "removeTransition" -> {"readTransition", "requireDraft", "deleteEdge"}
      [] op = "addCondition" -> {"readActivity", "requireDraft", "newExit"}
      [] op = "updateCondition" -> {"readCondition", "requireDraft", "touch"}
      [] op = "removeCondition" -> {"readCondition", "requireDraft", "readLeaving", "deleteLeaving", "deleteExit"}
      [] op = "newWorkflow" -> {"checkName", "initializeWorkflow", "verifyInitialized"}
      [] op = "createWorkflow" -> {"postWorkflow"}
      [] op = "createWorkflowVersion" -> {"postVersion"}
      [] op = "createActivity" -> {"postActivity"}
      [] op = "createTransition" -> {"postTransition"}
      [] op = "createCondition" -> {"newExit"}
      [] op = "publishWorkflow" -> {"touch", "publishQuietly", "readPublished"}
      [] op = "createCompleteWorkflow" -> {"postWorkflow", "postVersion", "postActivity", "postNext", "findEnds",
                                           "postTransition", "requireStart", "touch", "publishQuietly", "readPublished"}
      [] OTHER -> {}

Steps == (UNION {StepsOf(op) : op \in Ops}) \cup Cleanup

(* Reads come first; of the other steps, each comes once and in its place.  *)
Before(a, b) == Rank(a) <= Rank(b) /\ (a # b \/ a = "touch")

Ordered(s) == \A i, j \in 1..Len(s) : i < j => Before(s[i], s[j])

In(s) == {s[i] : i \in 1..Len(s)}

Family(c) == IF "rethrow" \in In(c.todo) THEN Cleanup ELSE StepsOf(c.req.op)

LastOf(op) ==
    CASE op = "publish" -> {"publishValidated", "findings", "publishAnyway"}
      [] op = "publishWorkflow" -> {"publishQuietly", "readPublished"}
      [] op = "removeActivity" -> {"verifyRemoved"}
      [] op = "discardCheckout" -> {"verifyDeleted"}
      [] op = "deleteWorkflow" -> {"verifyWorkflowGone"}
      [] op = "newWorkflow" -> {"verifyInitialized"}
      [] OTHER -> Steps

Shaped(c) ==
    /\ Ordered(c.todo)
    /\ In(c.todo) \subseteq Family(c)
    /\ c.todo # <<>> /\ "rethrow" \notin In(c.todo) => c.todo[Len(c.todo)] \in LastOf(c.req.op)
    /\ "rethrow" \in In(c.todo) => c.req.op = "addActivity"
    /\ "rethrow" \in In(c.todo) /\ "verifyRemoved" \notin In(c.todo) => In(c.todo) = {"rethrow"}
    /\ "publishAnyway" \in In(c.todo) => "publishValidated" \notin In(c.todo)

(****************************************************************************)
(* The inductive invariant                                                  *)
(****************************************************************************)
Results == {"none", "ok", "refused", "findings", "failed"}

Readings == [ver : Versions, published : BOOLEAN]

AnyEdge == [id : Nat, from : Names, exit : Exits \cup {NoExit}, to : Names]

Call == [todo : Seq(Steps), req : Request \cup {NoRequest}, seen : SUBSET (AnyEdge \cup Readings),
         picked : Exits \cup {NoExit}, own : Exits \cup {NoExit}, drawn : BOOLEAN, left : SUBSET Versions,
         owned : SUBSET Versions, spared : SUBSET Versions, wrote : SUBSET Versions, spoilt : BOOLEAN, result : Results]

TypedCall(c) ==
    /\ c \in Call
    /\ c.todo # <<>> => c.req \in Request /\ c.result = "none"
    /\ c.seen \subseteq IF c.req.op = "deleteWorkflow" THEN Readings ELSE Edges
    /\ c.req.op \in {"addCondition", "createCondition"} => c.req.exit # NoExit

(* A version is not written to before the last refusal for it; what         *)
(* addActivity's cleanup has to take out again is gone, or the cleanup was  *)
(* cut short.                                                               *)
Cautious(c) ==
    /\ Touched(c) /\ "rethrow" \notin In(c.todo) /\ c.req.op # "createCompleteWorkflow"
        => In(c.todo) \cap (Reads \cup {"findings", "publishValidated"}) = {}
    /\ "rethrow" \in In(c.todo) /\ "verifyRemoved" \notin In(c.todo) => ~Touched(c) \/ c.spoilt

(* What a call in which the steps P are still to come knows of the graph g. *)
FactsOf(P, c, g) ==
    /\ P \cap {"newEdge", "connectFrom"} # {} /\ "readFrom" \notin P => c.req.from \in g.nodes
    /\ P \cap {"newEdge", "connectFrom"} # {} /\ "pickExit" \notin P => <<c.req.from, c.picked>> \in g.exits
    /\ P \cap {"newEdge", "connectTo", "changeEdge"} # {} /\ "readTo" \notin P => c.req.to \in g.nodes
    /\ P \cap {"connectFrom", "connectTo", "newEdgeControlNode"} # {} /\ "insertActivity" \notin P => c.req.act \in g.nodes
    /\ P \cap {"connectTo", "newEdgeControlNode"} # {} /\ "pickOwnExit" \notin P => <<c.req.act, c.own>> \in g.exits
    /\ P \cap {"newEdgeControlNode", "changeEdge"} # {} /\ "readTransition" \notin P => c.seen \subseteq g.edges
    /\ "deleteNode" \in P /\ "readTouching" \notin P => c.seen = {e \in g.edges : c.req.act \in {e.from, e.to}}
    /\ "deleteExit" \in P /\ "readLeaving" \notin P => {e \in g.edges : e.from = c.req.act /\ e.exit = c.req.exit} \subseteq c.seen

(* What it knows of itself, and what it has seen of its version.            *)
Prepared(P, c) ==
    /\ P \cap Guarded # {} /\ "requireDraft" \notin P => c.req.ver \in c.owned
    /\ "deleteDraft" \in P /\ "readSiblings" \notin P => c.req.ver \in c.spared
    /\ "deleteExit" \in P /\ "deleteLeaving" \notin P => c.seen = {} /\ "readLeaving" \notin P
    /\ P \cap {"connectTo", "newEdgeControlNode"} # {} => c.req.opt \cap {"insertOn", "connectTo"} # {}

Free(u, v) == HeldBy(u, v) /\ v \notin loose

Siblings(v) == {w \in Versions \ {v} : Exists(w) /\ version[w].wf = version[v].wf}

Checked(P, u, v) ==
    P \cap Guarded # {} /\ "requireDraft" \notin P =>
        version[v].st # "absent" /\ (v \in loose \/ version[v].st = "deleted" \/ HeldBy(u, v))

Accompanied(P, u, v) ==
    "deleteDraft" \in P /\ "readSiblings" \notin P /\ Free(u, v) => Siblings(v) # {}

Drawing(P, v, wf) ==
    P \cap Placed # {} /\ "initializeWorkflow" \notin P =>
        version[v].st # "absent" /\ (version[v].st = "deleted" \/ version[v].wf = wf)

Knows(P, u, c) ==
    /\ Prepared(P, c)
    /\ Free(u, c.req.ver) => FactsOf(P, c, graph[c.req.ver])
    /\ Checked(P, u, c.req.ver) /\ Accompanied(P, u, c.req.ver) /\ Drawing(P, c.req.ver, c.req.wf)

Informed(u, c) == c.todo # <<>> => Knows(In(c.todo), u, c)

CallInv(u) ==
    /\ TypedCall(call[u]) /\ Shaped(call[u]) /\ Cautious(call[u])
    /\ Informed(u, call[u])

Sound(g) == \A e \in g.edges : e.from \in g.nodes /\ e.to \in g.nodes /\ (e.exit = NoExit \/ <<e.from, e.exit>> \in g.exits)

Version == [st : {"absent", "draft", "published", "retired", "deleted"}, by : Users \cup {"nobody"},
            wf : Workflows \cup {"none"}]

Graph == [nodes : SUBSET Names, exits : SUBSET (Names \X Exits), edges : SUBSET Edges]

InstanceInv ==
    /\ version \in [Versions -> Version]
    /\ \A v \in Versions : version[v].st = "draft" <=> version[v].by # "nobody"
    /\ graph \in [Versions -> Graph]
    /\ workflows \subseteq Workflows /\ lastEdge \in Nat /\ loose \subseteq Versions
    /\ \A v \in Versions : v \in loose \/ Sound(graph[v])
    /\ \A v \in Versions : (Exists(v) => version[v].wf \in workflows) /\ (~Exists(v) => graph[v].edges = {})

WorkflowInv ==
    /\ InstanceInv
    /\ calls \in 0..MaxCalls
    /\ call \in [Users -> Call]
    /\ \A u \in Users : CallInv(u)

(****************************************************************************)
(* Sequences of steps                                                       *)
(****************************************************************************)
(* Every step of a method is a step.                                        *)
LEMMA StepsOfSteps == \A op \in Ops : StepsOf(op) \subseteq Steps
  BY DEF Steps

(* The ranks are numbers.                                                   *)
LEMMA Ranks == \A s : Rank(s) \in 0..10
  BY DEF Rank

(* What is left of a call when its first step is done: the other steps, in  *)
(* their order, up to the same last one.                                    *)
LEMMA TailSteps ==
    ASSUME NEW s \in Seq(Steps), s # <<>>, Ordered(s)
    PROVE  /\ Tail(s) \in Seq(Steps) /\ Ordered(Tail(s)) /\ Head(s) \in In(s)
           /\ In(Tail(s)) \subseteq In(s) /\ In(s) \subseteq In(Tail(s)) \cup {Head(s)}
           /\ Head(s) # "touch" => Head(s) \notin In(Tail(s))
           /\ \A x \in In(s) : Rank(Head(s)) <= Rank(x)
           /\ Tail(s) # <<>> => Tail(s)[Len(Tail(s))] = s[Len(s)]
           /\ Tail(s) = <<>> => s[Len(s)] = Head(s)
  <1>1. /\ Len(s) \in Nat \ {0} /\ Head(s) = s[1] /\ Tail(s) \in Seq(Steps) /\ Len(Tail(s)) = Len(s) - 1
        /\ \A i \in 1..Len(Tail(s)) : Tail(s)[i] = s[i + 1]
    OBVIOUS
  <1>2. Ordered(Tail(s))
    BY <1>1 DEF Ordered
  <1>3. Head(s) \in In(s) /\ In(Tail(s)) \subseteq In(s)
    BY <1>1 DEF In
  <1>4. In(s) \subseteq In(Tail(s)) \cup {Head(s)}
    <2>1. SUFFICES ASSUME NEW i \in 1..Len(s), i # 1 PROVE s[i] \in In(Tail(s))
      BY <1>1 DEF In
    <2>2. i - 1 \in 1..Len(Tail(s)) /\ Tail(s)[i - 1] = s[i]
      BY <2>1, <1>1
    <2> QED BY <2>2 DEF In
  <1>5. \A j \in 1..Len(s) : j # 1 => Before(s[1], s[j])
    BY <1>1 DEF Ordered
  <1>6. Head(s) # "touch" => Head(s) \notin In(Tail(s))
    <2>1. SUFFICES ASSUME Head(s) # "touch", NEW i \in 1..Len(Tail(s)), Head(s) = Tail(s)[i] PROVE FALSE
      BY DEF In
    <2>2. i + 1 \in 1..Len(s) /\ i + 1 # 1 /\ s[i + 1] = Tail(s)[i]
      BY <2>1, <1>1
    <2> QED BY <2>1, <2>2, <1>1, <1>5 DEF Before
  <1>7. \A x \in In(s) : Rank(Head(s)) <= Rank(x)
    <2>1. SUFFICES ASSUME NEW j \in 1..Len(s) PROVE Rank(s[1]) <= Rank(s[j])
      BY <1>1 DEF In
    <2>2. CASE j = 1
      BY <2>2, Ranks
    <2>3. CASE j # 1
      BY <2>3, <1>5 DEF Before
    <2> QED BY <2>2, <2>3
  <1>8. Tail(s) # <<>> => Tail(s)[Len(Tail(s))] = s[Len(s)]
    <2>1. ASSUME Tail(s) # <<>> PROVE Len(Tail(s)) \in 1..Len(Tail(s)) /\ Len(Tail(s)) + 1 = Len(s)
      BY <2>1, <1>1
    <2> QED BY <2>1, <1>1
  <1>9. Tail(s) = <<>> => s[Len(s)] = Head(s)
    BY <1>1
  <1> QED BY <1>1, <1>2, <1>3, <1>4, <1>6, <1>7, <1>8, <1>9

(* One sequence after another.                                              *)
LEMMA Concatenated ==
    ASSUME NEW s \in Seq(Steps), NEW t \in Seq(Steps), Ordered(s), Ordered(t),
           \A a \in In(s), b \in In(t) : Before(a, b)
    PROVE  /\ s \o t \in Seq(Steps) /\ Ordered(s \o t) /\ In(s \o t) = In(s) \cup In(t)
           /\ t # <<>> => s \o t # <<>> /\ (s \o t)[Len(s \o t)] = t[Len(t)]
  <1> DEFINE w == s \o t
  <1>1. /\ w \in Seq(Steps) /\ Len(w) = Len(s) + Len(t) /\ Len(s) \in Nat /\ Len(t) \in Nat
        /\ \A i \in 1..Len(w) : w[i] = IF i <= Len(s) THEN s[i] ELSE t[i - Len(s)]
    OBVIOUS
  <1> HIDE DEF w
  <1>2. \A i \in 1..Len(w) : (i <= Len(s) => i \in 1..Len(s)) /\ (~(i <= Len(s)) => i - Len(s) \in 1..Len(t))
    BY <1>1
  <1>3. Ordered(w)
    <2>1. SUFFICES ASSUME NEW i \in 1..Len(w), NEW j \in 1..Len(w), i < j PROVE Before(w[i], w[j])
      BY DEF Ordered
    <2>2. CASE j <= Len(s)
      BY <2>1, <2>2, <1>1, <1>2 DEF Ordered
    <2>3. CASE i <= Len(s) /\ ~(j <= Len(s))
      <3>1. w[i] \in In(s) /\ w[j] \in In(t)
        BY <2>1, <2>3, <1>1, <1>2 DEF In
      <3> QED BY <3>1
    <2>4. CASE ~(i <= Len(s))
      <3>1. ~(j <= Len(s)) /\ i - Len(s) < j - Len(s)
        BY <2>1, <2>4, <1>1
      <3> QED BY <3>1, <2>1, <2>4, <1>1, <1>2 DEF Ordered
    <2> QED BY <2>2, <2>3, <2>4, <2>1, <1>1
  <1>4. In(w) \subseteq In(s) \cup In(t)
    BY <1>1, <1>2 DEF In
  <1>5. In(s) \subseteq In(w)
    <2>1. SUFFICES ASSUME NEW i \in 1..Len(s) PROVE s[i] \in In(w)
      BY DEF In
    <2>2. i \in 1..Len(w) /\ w[i] = s[i]
      BY <2>1, <1>1
    <2> QED BY <2>2 DEF In
  <1>6. In(t) \subseteq In(w)
    <2>1. SUFFICES ASSUME NEW i \in 1..Len(t) PROVE t[i] \in In(w)
      BY DEF In
    <2>2. i + Len(s) \in 1..Len(w) /\ ~(i + Len(s) <= Len(s)) /\ (i + Len(s)) - Len(s) = i
      BY <2>1, <1>1
    <2>3. w[i + Len(s)] = t[i]
      BY <2>2, <1>1
    <2> QED BY <2>2, <2>3 DEF In
  <1>7. ASSUME t # <<>> PROVE w # <<>> /\ w[Len(w)] = t[Len(t)]
    <2>1. Len(t) # 0
      BY <1>7, <1>1
    <2>2. Len(w) \in 1..Len(w) /\ ~(Len(w) <= Len(s)) /\ Len(w) - Len(s) = Len(t)
      BY <2>1, <1>1
    <2> QED BY <2>2, <1>1
  <1> QED BY <1>1, <1>3, <1>4, <1>5, <1>6, <1>7 DEF w

(****************************************************************************)
(* The methods                                                              *)
(****************************************************************************)
(* What a step relies on is asked by the same call, before it.              *)
Complete(P, opt) ==
    /\ P \cap {"newEdge", "connectFrom"} # {} => "readFrom" \in P /\ "pickExit" \in P
    /\ P \cap {"newEdge", "connectTo", "changeEdge"} # {} => "readTo" \in P
    /\ P \cap {"connectFrom", "connectTo", "newEdgeControlNode"} # {} => "insertActivity" \in P
    /\ P \cap {"connectTo", "newEdgeControlNode"} # {} => "pickOwnExit" \in P /\ opt \cap {"insertOn", "connectTo"} # {}
    /\ P \cap {"newEdgeControlNode", "changeEdge"} # {} => "readTransition" \in P
    /\ "deleteNode" \in P => "readTouching" \in P
    /\ "deleteExit" \in P => "readLeaving" \in P /\ "deleteLeaving" \in P
    /\ P \cap Guarded # {} => "requireDraft" \in P
    /\ "deleteDraft" \in P => "readSiblings" \in P
    /\ P \cap Placed # {} => "initializeWorkflow" \in P
    /\ "publishAnyway" \notin P

Proper(s, r) ==
    /\ s \in Seq(Steps) /\ s # <<>> /\ Ordered(s)
    /\ In(s) \subseteq StepsOf(r.op) /\ "rethrow" \notin In(s)
    /\ s[Len(s)] \in LastOf(r.op)
    /\ Complete(In(s), r.opt)

(* Sequences of one step, and the optional parts of a method.               *)
LEMMA OneStep ==
    ASSUME NEW x \in Steps
    PROVE  <<x>> \in Seq(Steps) /\ <<x>> # <<>> /\ Ordered(<<x>>) /\ In(<<x>>) = {x} /\ <<x>>[Len(<<x>>)] = x
  BY DEF Ordered, In

LEMMA OptStep ==
    ASSUME NEW x \in Steps, NEW r \in Request, NEW o
    PROVE  /\ Opt(r, o, <<x>>) \in Seq(Steps) /\ Ordered(Opt(r, o, <<x>>))
           /\ In(Opt(r, o, <<x>>)) = IF o \in r.opt THEN {x} ELSE {}
  <1>1. CASE o \in r.opt
    BY <1>1, OneStep DEF Opt
  <1>2. CASE o \notin r.opt
    BY <1>2 DEF Opt, Ordered, In
  <1> QED BY <1>1, <1>2

(* Methods whose steps do not depend on their options.                      *)
LEMMA FixedMethods ==
    ASSUME NEW r \in Request
    PROVE  /\ r.op = "checkout" => Proper(checkout(r), r)
           /\ r.op = "publish" => Proper(publish(r), r)
           /\ r.op = "discardCheckout" => Proper(discardCheckout(r), r)
           /\ r.op = "deleteWorkflow" => Proper(deleteWorkflow(r), r)
           /\ r.op = "setWorkflowActive" => Proper(setWorkflowActive(r), r)
           /\ r.op = "moveActivities" => Proper(moveActivities(r), r)
           /\ r.op = "addTransition" => Proper(addTransition(r), r)
           /\ r.op = "retargetTransition" => Proper(retargetTransition(r), r)
           /\ r.op = "removeTransition" => Proper(removeTransition(r), r)
           /\ r.op = "addCondition" => Proper(addCondition(r), r)
           /\ r.op = "removeCondition" => Proper(removeCondition(r), r)
           /\ r.op = "newWorkflow" => Proper(newWorkflow(r), r)
           /\ r.op = "createWorkflow" => Proper(createWorkflow(r), r)
           /\ r.op = "createWorkflowVersion" => Proper(createWorkflowVersion(r), r)
           /\ r.op = "createActivity" => Proper(createActivity(r), r)
           /\ r.op = "createTransition" => Proper(createTransition(r), r)
           /\ r.op = "createCondition" => Proper(createCondition(r), r)
           /\ r.op = "publishWorkflow" => Proper(publishWorkflow(r), r)
  <1>1. ASSUME r.op = "checkout" PROVE Proper(checkout(r), r)
    <2> DEFINE s == <<"chooseCheckout">>
    <2>1. s \in Seq(Steps) /\ s # <<>> /\ s[Len(s)] = "chooseCheckout" /\ "chooseCheckout" \in Steps
      <3>1. StepsOf("checkout") \subseteq Steps
        BY StepsOfSteps DEF Ops
      <3> QED BY <3>1 DEF StepsOf
    <2>2. In(s) = {"chooseCheckout"}
      BY DEF In
    <2>3. Ordered(s)
      BY DEF Ordered, Before, Rank, Reads
    <2>4. In(s) \subseteq StepsOf(r.op) /\ "rethrow" \notin In(s) /\ s[Len(s)] \in LastOf(r.op)
      BY <1>1, <2>1, <2>2 DEF StepsOf, LastOf
    <2>5. Complete(In(s), r.opt)
      BY <2>2 DEF Complete, Guarded, Placed
    <2> QED BY <2>1, <2>3, <2>4, <2>5 DEF Proper, checkout
  <1>2. ASSUME r.op = "publish" PROVE Proper(publish(r), r)
    <2> DEFINE s == <<"requireDraft", "publishValidated">>
    <2>1. s \in Seq(Steps) /\ s # <<>> /\ s[Len(s)] = "publishValidated" /\ "publishValidated" \in Steps
      <3>1. StepsOf("publish") \subseteq Steps
        BY StepsOfSteps DEF Ops
      <3> QED BY <3>1 DEF StepsOf
    <2>2. In(s) = {"requireDraft", "publishValidated"}
      BY DEF In
    <2>3. Ordered(s)
      BY DEF Ordered, Before, Rank, Reads
    <2>4. In(s) \subseteq StepsOf(r.op) /\ "rethrow" \notin In(s) /\ s[Len(s)] \in LastOf(r.op)
      BY <1>2, <2>1, <2>2 DEF StepsOf, LastOf
    <2>5. Complete(In(s), r.opt)
      BY <2>2 DEF Complete, Guarded, Placed
    <2> QED BY <2>1, <2>3, <2>4, <2>5 DEF Proper, publish
  <1>3. ASSUME r.op = "discardCheckout" PROVE Proper(discardCheckout(r), r)
    <2> DEFINE s == <<"requireDraft", "readSiblings", "deleteDraft", "verifyDeleted">>
    <2>1. s \in Seq(Steps) /\ s # <<>> /\ s[Len(s)] = "verifyDeleted" /\ "verifyDeleted" \in Steps
      <3>1. StepsOf("discardCheckout") \subseteq Steps
        BY StepsOfSteps DEF Ops
      <3> QED BY <3>1 DEF StepsOf
    <2>2. In(s) = {"requireDraft", "readSiblings", "deleteDraft", "verifyDeleted"}
      BY DEF In
    <2>3. Ordered(s)
      BY DEF Ordered, Before, Rank, Reads
    <2>4. In(s) \subseteq StepsOf(r.op) /\ "rethrow" \notin In(s) /\ s[Len(s)] \in LastOf(r.op)
      BY <1>3, <2>1, <2>2 DEF StepsOf, LastOf
    <2>5. Complete(In(s), r.opt)
      BY <2>2 DEF Complete, Guarded, Placed
    <2> QED BY <2>1, <2>3, <2>4, <2>5 DEF Proper, discardCheckout
  <1>4. ASSUME r.op = "deleteWorkflow" PROVE Proper(deleteWorkflow(r), r)
    <2> DEFINE s == <<"resolveWorkflow", "readVersions", "deleteVersions", "verifyWorkflowGone">>
    <2>1. s \in Seq(Steps) /\ s # <<>> /\ s[Len(s)] = "verifyWorkflowGone" /\ "verifyWorkflowGone" \in Steps
      <3>1. StepsOf("deleteWorkflow") \subseteq Steps
        BY StepsOfSteps DEF Ops
      <3> QED BY <3>1 DEF StepsOf
    <2>2. In(s) = {"resolveWorkflow", "readVersions", "deleteVersions", "verifyWorkflowGone"}
      BY DEF In
    <2>3. Ordered(s)
      BY DEF Ordered, Before, Rank, Reads
    <2>4. In(s) \subseteq StepsOf(r.op) /\ "rethrow" \notin In(s) /\ s[Len(s)] \in LastOf(r.op)
      BY <1>4, <2>1, <2>2 DEF StepsOf, LastOf
    <2>5. Complete(In(s), r.opt)
      BY <2>2 DEF Complete, Guarded, Placed
    <2> QED BY <2>1, <2>3, <2>4, <2>5 DEF Proper, deleteWorkflow
  <1>5. ASSUME r.op = "setWorkflowActive" PROVE Proper(setWorkflowActive(r), r)
    <2> DEFINE s == <<"touch">>
    <2>1. s \in Seq(Steps) /\ s # <<>> /\ s[Len(s)] = "touch" /\ "touch" \in Steps
      <3>1. StepsOf("setWorkflowActive") \subseteq Steps
        BY StepsOfSteps DEF Ops
      <3> QED BY <3>1 DEF StepsOf
    <2>2. In(s) = {"touch"}
      BY DEF In
    <2>3. Ordered(s)
      BY DEF Ordered, Before, Rank, Reads
    <2>4. In(s) \subseteq StepsOf(r.op) /\ "rethrow" \notin In(s) /\ s[Len(s)] \in LastOf(r.op)
      BY <1>5, <2>1, <2>2 DEF StepsOf, LastOf
    <2>5. Complete(In(s), r.opt)
      BY <2>2 DEF Complete, Guarded, Placed
    <2> QED BY <2>1, <2>3, <2>4, <2>5 DEF Proper, setWorkflowActive
  <1>6. ASSUME r.op = "moveActivities" PROVE Proper(moveActivities(r), r)
    <2> DEFINE s == <<"readActivity", "readRest", "requireDraft", "touch", "moveRest">>
    <2>1. s \in Seq(Steps) /\ s # <<>> /\ s[Len(s)] = "moveRest" /\ "moveRest" \in Steps
      <3>1. StepsOf("moveActivities") \subseteq Steps
        BY StepsOfSteps DEF Ops
      <3> QED BY <3>1 DEF StepsOf
    <2>2. In(s) = {"readActivity", "readRest", "requireDraft", "touch", "moveRest"}
      BY DEF In
    <2>3. Ordered(s)
      BY DEF Ordered, Before, Rank, Reads
    <2>4. In(s) \subseteq StepsOf(r.op) /\ "rethrow" \notin In(s) /\ s[Len(s)] \in LastOf(r.op)
      BY <1>6, <2>1, <2>2 DEF StepsOf, LastOf
    <2>5. Complete(In(s), r.opt)
      BY <2>2 DEF Complete, Guarded, Placed
    <2> QED BY <2>1, <2>3, <2>4, <2>5 DEF Proper, moveActivities
  <1>7. ASSUME r.op = "addTransition" PROVE Proper(addTransition(r), r)
    <2> DEFINE s == <<"readFrom", "requireDraft", "readTo", "pickExit", "checkDuplicate", "newEdge">>
    <2>1. s \in Seq(Steps) /\ s # <<>> /\ s[Len(s)] = "newEdge" /\ "newEdge" \in Steps
      <3>1. StepsOf("addTransition") \subseteq Steps
        BY StepsOfSteps DEF Ops
      <3> QED BY <3>1 DEF StepsOf
    <2>2. In(s) = {"readFrom", "requireDraft", "readTo", "pickExit", "checkDuplicate", "newEdge"}
      BY DEF In
    <2>3. Ordered(s)
      BY DEF Ordered, Before, Rank, Reads
    <2>4. In(s) \subseteq StepsOf(r.op) /\ "rethrow" \notin In(s) /\ s[Len(s)] \in LastOf(r.op)
      BY <1>7, <2>1, <2>2 DEF StepsOf, LastOf
    <2>5. Complete(In(s), r.opt)
      BY <2>2 DEF Complete, Guarded, Placed
    <2> QED BY <2>1, <2>3, <2>4, <2>5 DEF Proper, addTransition
  <1>8. ASSUME r.op = "retargetTransition" PROVE Proper(retargetTransition(r), r)
    <2> DEFINE s == <<"readTransition", "requireDraft", "readTo", "changeEdge">>
    <2>1. s \in Seq(Steps) /\ s # <<>> /\ s[Len(s)] = "changeEdge" /\ "changeEdge" \in Steps
      <3>1. StepsOf("retargetTransition") \subseteq Steps
        BY StepsOfSteps DEF Ops
      <3> QED BY <3>1 DEF StepsOf
    <2>2. In(s) = {"readTransition", "requireDraft", "readTo", "changeEdge"}
      BY DEF In
    <2>3. Ordered(s)
      BY DEF Ordered, Before, Rank, Reads
    <2>4. In(s) \subseteq StepsOf(r.op) /\ "rethrow" \notin In(s) /\ s[Len(s)] \in LastOf(r.op)
      BY <1>8, <2>1, <2>2 DEF StepsOf, LastOf
    <2>5. Complete(In(s), r.opt)
      BY <2>2 DEF Complete, Guarded, Placed
    <2> QED BY <2>1, <2>3, <2>4, <2>5 DEF Proper, retargetTransition
  <1>9. ASSUME r.op = "removeTransition" PROVE Proper(removeTransition(r), r)
    <2> DEFINE s == <<"readTransition", "requireDraft", "deleteEdge">>
    <2>1. s \in Seq(Steps) /\ s # <<>> /\ s[Len(s)] = "deleteEdge" /\ "deleteEdge" \in Steps
      <3>1. StepsOf("removeTransition") \subseteq Steps
        BY StepsOfSteps DEF Ops
      <3> QED BY <3>1 DEF StepsOf
    <2>2. In(s) = {"readTransition", "requireDraft", "deleteEdge"}
      BY DEF In
    <2>3. Ordered(s)
      BY DEF Ordered, Before, Rank, Reads
    <2>4. In(s) \subseteq StepsOf(r.op) /\ "rethrow" \notin In(s) /\ s[Len(s)] \in LastOf(r.op)
      BY <1>9, <2>1, <2>2 DEF StepsOf, LastOf
    <2>5. Complete(In(s), r.opt)
      BY <2>2 DEF Complete, Guarded, Placed
    <2> QED BY <2>1, <2>3, <2>4, <2>5 DEF Proper, removeTransition
  <1>10. ASSUME r.op = "addCondition" PROVE Proper(addCondition(r), r)
    <2> DEFINE s == <<"readActivity", "requireDraft", "newExit">>
    <2>1. s \in Seq(Steps) /\ s # <<>> /\ s[Len(s)] = "newExit" /\ "newExit" \in Steps
      <3>1. StepsOf("addCondition") \subseteq Steps
        BY StepsOfSteps DEF Ops
      <3> QED BY <3>1 DEF StepsOf
    <2>2. In(s) = {"readActivity", "requireDraft", "newExit"}
      BY DEF In
    <2>3. Ordered(s)
      BY DEF Ordered, Before, Rank, Reads
    <2>4. In(s) \subseteq StepsOf(r.op) /\ "rethrow" \notin In(s) /\ s[Len(s)] \in LastOf(r.op)
      BY <1>10, <2>1, <2>2 DEF StepsOf, LastOf
    <2>5. Complete(In(s), r.opt)
      BY <2>2 DEF Complete, Guarded, Placed
    <2> QED BY <2>1, <2>3, <2>4, <2>5 DEF Proper, addCondition
  <1>11. ASSUME r.op = "removeCondition" PROVE Proper(removeCondition(r), r)
    <2> DEFINE s == <<"readCondition", "requireDraft", "readLeaving", "deleteLeaving", "deleteExit">>
    <2>1. s \in Seq(Steps) /\ s # <<>> /\ s[Len(s)] = "deleteExit" /\ "deleteExit" \in Steps
      <3>1. StepsOf("removeCondition") \subseteq Steps
        BY StepsOfSteps DEF Ops
      <3> QED BY <3>1 DEF StepsOf
    <2>2. In(s) = {"readCondition", "requireDraft", "readLeaving", "deleteLeaving", "deleteExit"}
      BY DEF In
    <2>3. Ordered(s)
      BY DEF Ordered, Before, Rank, Reads
    <2>4. In(s) \subseteq StepsOf(r.op) /\ "rethrow" \notin In(s) /\ s[Len(s)] \in LastOf(r.op)
      BY <1>11, <2>1, <2>2 DEF StepsOf, LastOf
    <2>5. Complete(In(s), r.opt)
      BY <2>2 DEF Complete, Guarded, Placed
    <2> QED BY <2>1, <2>3, <2>4, <2>5 DEF Proper, removeCondition
  <1>12. ASSUME r.op = "newWorkflow" PROVE Proper(newWorkflow(r), r)
    <2> DEFINE s == <<"checkName", "initializeWorkflow", "verifyInitialized">>
    <2>1. s \in Seq(Steps) /\ s # <<>> /\ s[Len(s)] = "verifyInitialized" /\ "verifyInitialized" \in Steps
      <3>1. StepsOf("newWorkflow") \subseteq Steps
        BY StepsOfSteps DEF Ops
      <3> QED BY <3>1 DEF StepsOf
    <2>2. In(s) = {"checkName", "initializeWorkflow", "verifyInitialized"}
      BY DEF In
    <2>3. Ordered(s)
      BY DEF Ordered, Before, Rank, Reads
    <2>4. In(s) \subseteq StepsOf(r.op) /\ "rethrow" \notin In(s) /\ s[Len(s)] \in LastOf(r.op)
      BY <1>12, <2>1, <2>2 DEF StepsOf, LastOf
    <2>5. Complete(In(s), r.opt)
      BY <2>2 DEF Complete, Guarded, Placed
    <2> QED BY <2>1, <2>3, <2>4, <2>5 DEF Proper, newWorkflow
  <1>13. ASSUME r.op = "createWorkflow" PROVE Proper(createWorkflow(r), r)
    <2> DEFINE s == <<"postWorkflow">>
    <2>1. s \in Seq(Steps) /\ s # <<>> /\ s[Len(s)] = "postWorkflow" /\ "postWorkflow" \in Steps
      <3>1. StepsOf("createWorkflow") \subseteq Steps
        BY StepsOfSteps DEF Ops
      <3> QED BY <3>1 DEF StepsOf
    <2>2. In(s) = {"postWorkflow"}
      BY DEF In
    <2>3. Ordered(s)
      BY DEF Ordered, Before, Rank, Reads
    <2>4. In(s) \subseteq StepsOf(r.op) /\ "rethrow" \notin In(s) /\ s[Len(s)] \in LastOf(r.op)
      BY <1>13, <2>1, <2>2 DEF StepsOf, LastOf
    <2>5. Complete(In(s), r.opt)
      BY <2>2 DEF Complete, Guarded, Placed
    <2> QED BY <2>1, <2>3, <2>4, <2>5 DEF Proper, createWorkflow
  <1>14. ASSUME r.op = "createWorkflowVersion" PROVE Proper(createWorkflowVersion(r), r)
    <2> DEFINE s == <<"postVersion">>
    <2>1. s \in Seq(Steps) /\ s # <<>> /\ s[Len(s)] = "postVersion" /\ "postVersion" \in Steps
      <3>1. StepsOf("createWorkflowVersion") \subseteq Steps
        BY StepsOfSteps DEF Ops
      <3> QED BY <3>1 DEF StepsOf
    <2>2. In(s) = {"postVersion"}
      BY DEF In
    <2>3. Ordered(s)
      BY DEF Ordered, Before, Rank, Reads
    <2>4. In(s) \subseteq StepsOf(r.op) /\ "rethrow" \notin In(s) /\ s[Len(s)] \in LastOf(r.op)
      BY <1>14, <2>1, <2>2 DEF StepsOf, LastOf
    <2>5. Complete(In(s), r.opt)
      BY <2>2 DEF Complete, Guarded, Placed
    <2> QED BY <2>1, <2>3, <2>4, <2>5 DEF Proper, createWorkflowVersion
  <1>15. ASSUME r.op = "createActivity" PROVE Proper(createActivity(r), r)
    <2> DEFINE s == <<"postActivity">>
    <2>1. s \in Seq(Steps) /\ s # <<>> /\ s[Len(s)] = "postActivity" /\ "postActivity" \in Steps
      <3>1. StepsOf("createActivity") \subseteq Steps
        BY StepsOfSteps DEF Ops
      <3> QED BY <3>1 DEF StepsOf
    <2>2. In(s) = {"postActivity"}
      BY DEF In
    <2>3. Ordered(s)
      BY DEF Ordered, Before, Rank, Reads
    <2>4. In(s) \subseteq StepsOf(r.op) /\ "rethrow" \notin In(s) /\ s[Len(s)] \in LastOf(r.op)
      BY <1>15, <2>1, <2>2 DEF StepsOf, LastOf
    <2>5. Complete(In(s), r.opt)
      BY <2>2 DEF Complete, Guarded, Placed
    <2> QED BY <2>1, <2>3, <2>4, <2>5 DEF Proper, createActivity
  <1>16. ASSUME r.op = "createTransition" PROVE Proper(createTransition(r), r)
    <2> DEFINE s == <<"postTransition">>
    <2>1. s \in Seq(Steps) /\ s # <<>> /\ s[Len(s)] = "postTransition" /\ "postTransition" \in Steps
      <3>1. StepsOf("createTransition") \subseteq Steps
        BY StepsOfSteps DEF Ops
      <3> QED BY <3>1 DEF StepsOf
    <2>2. In(s) = {"postTransition"}
      BY DEF In
    <2>3. Ordered(s)
      BY DEF Ordered, Before, Rank, Reads
    <2>4. In(s) \subseteq StepsOf(r.op) /\ "rethrow" \notin In(s) /\ s[Len(s)] \in LastOf(r.op)
      BY <1>16, <2>1, <2>2 DEF StepsOf, LastOf
    <2>5. Complete(In(s), r.opt)
      BY <2>2 DEF Complete, Guarded, Placed
    <2> QED BY <2>1, <2>3, <2>4, <2>5 DEF Proper, createTransition
  <1>17. ASSUME r.op = "createCondition" PROVE Proper(createCondition(r), r)
    <2> DEFINE s == <<"newExit">>
    <2>1. s \in Seq(Steps) /\ s # <<>> /\ s[Len(s)] = "newExit" /\ "newExit" \in Steps
      <3>1. StepsOf("createCondition") \subseteq Steps
        BY StepsOfSteps DEF Ops
      <3> QED BY <3>1 DEF StepsOf
    <2>2. In(s) = {"newExit"}
      BY DEF In
    <2>3. Ordered(s)
      BY DEF Ordered, Before, Rank, Reads
    <2>4. In(s) \subseteq StepsOf(r.op) /\ "rethrow" \notin In(s) /\ s[Len(s)] \in LastOf(r.op)
      BY <1>17, <2>1, <2>2 DEF StepsOf, LastOf
    <2>5. Complete(In(s), r.opt)
      BY <2>2 DEF Complete, Guarded, Placed
    <2> QED BY <2>1, <2>3, <2>4, <2>5 DEF Proper, createCondition
  <1>18. ASSUME r.op = "publishWorkflow" PROVE Proper(publishWorkflow(r), r)
    <2> DEFINE s == <<"touch", "publishQuietly">>
    <2>1. s \in Seq(Steps) /\ s # <<>> /\ s[Len(s)] = "publishQuietly" /\ "publishQuietly" \in Steps
      <3>1. StepsOf("publishWorkflow") \subseteq Steps
        BY StepsOfSteps DEF Ops
      <3> QED BY <3>1 DEF StepsOf
    <2>2. In(s) = {"touch", "publishQuietly"}
      BY DEF In
    <2>3. Ordered(s)
      BY DEF Ordered, Before, Rank, Reads
    <2>4. In(s) \subseteq StepsOf(r.op) /\ "rethrow" \notin In(s) /\ s[Len(s)] \in LastOf(r.op)
      BY <1>18, <2>1, <2>2 DEF StepsOf, LastOf
    <2>5. Complete(In(s), r.opt)
      BY <2>2 DEF Complete, Guarded, Placed
    <2> QED BY <2>1, <2>3, <2>4, <2>5 DEF Proper, publishWorkflow
  <1> QED BY <1>1, <1>2, <1>3, <1>4, <1>5, <1>6, <1>7, <1>8, <1>9, <1>10, <1>11, <1>12, <1>13, <1>14, <1>15, <1>16, <1>17, <1>18

(* A step, or an optional one, after the others.                            *)
LEMMA StepAfter ==
    ASSUME NEW s \in Seq(Steps), Ordered(s), NEW x \in Steps, \A a \in In(s) : Before(a, x)
    PROVE  /\ s \o <<x>> \in Seq(Steps) /\ Ordered(s \o <<x>>) /\ In(s \o <<x>>) = In(s) \cup {x}
           /\ s \o <<x>> # <<>> /\ (s \o <<x>>)[Len(s \o <<x>>)] = x
  <1>1. <<x>> \in Seq(Steps) /\ <<x>> # <<>> /\ Ordered(<<x>>) /\ In(<<x>>) = {x} /\ <<x>>[Len(<<x>>)] = x
    BY OneStep
  <1>2. \A a \in In(s), b \in In(<<x>>) : Before(a, b)
    BY <1>1
  <1> QED BY <1>1, <1>2, Concatenated

LEMMA OptAfter ==
    ASSUME NEW s \in Seq(Steps), s # <<>>, Ordered(s), NEW x \in Steps, NEW r \in Request, NEW o,
           \A a \in In(s) : Before(a, x)
    PROVE  /\ s \o Opt(r, o, <<x>>) \in Seq(Steps) /\ s \o Opt(r, o, <<x>>) # <<>> /\ Ordered(s \o Opt(r, o, <<x>>))
           /\ In(s \o Opt(r, o, <<x>>)) = In(s) \cup (IF o \in r.opt THEN {x} ELSE {})
  <1>1. /\ Opt(r, o, <<x>>) \in Seq(Steps) /\ Ordered(Opt(r, o, <<x>>))
        /\ In(Opt(r, o, <<x>>)) = IF o \in r.opt THEN {x} ELSE {}
    BY OptStep
  <1>2. \A a \in In(s), b \in In(Opt(r, o, <<x>>)) : Before(a, b)
    BY <1>1
  <1>3. \A t \in Seq(Steps) : s \o t # <<>>
    OBVIOUS
  <1> QED BY <1>1, <1>2, <1>3, Concatenated

(* Two steps, one by one or together.                                       *)
LEMMA TwoSteps ==
    ASSUME NEW t \in Seq(Steps), NEW x \in Steps, NEW y \in Steps
    PROVE  (t \o <<x>>) \o <<y>> = t \o <<x, y>>
  <1> DEFINE a == (t \o <<x>>) \o <<y>>
             b == t \o <<x, y>>
  <1>1. a \in Seq(Steps) /\ b \in Seq(Steps) /\ Len(a) = Len(t) + 2 /\ Len(b) = Len(t) + 2 /\ Len(t) \in Nat
    OBVIOUS
  <1>2. ASSUME NEW i \in 1..(Len(t) + 2) PROVE a[i] = b[i]
    <2>1. CASE i <= Len(t)
      BY <2>1
    <2>2. CASE i = Len(t) + 1
      BY <2>2
    <2>3. CASE i = Len(t) + 2
      BY <2>3
    <2> QED BY <2>1, <2>2, <2>3
  <1> HIDE DEF a, b
  <1>3. DOMAIN a = 1..(Len(t) + 2) /\ DOMAIN b = 1..(Len(t) + 2)
    BY <1>1
  <1>4. a = [i \in 1..(Len(t) + 2) |-> a[i]] /\ b = [i \in 1..(Len(t) + 2) |-> b[i]]
    BY <1>1, <1>3
  <1> QED BY <1>2, <1>4 DEF a, b

(* The last of a sequence is in it.                                         *)
LEMMA LastIn ==
    ASSUME NEW s \in Seq(Steps), s # <<>>
    PROVE  s[Len(s)] \in In(s) /\ s[Len(s)] \in Steps
  <1>1. Len(s) \in 1..Len(s)
    OBVIOUS
  <1> QED BY <1>1 DEF In

(* Methods whose steps depend on their options.                             *)
LEMMA updateWorkflowPropertiesProper ==
    ASSUME NEW r \in Request, r.op = "updateWorkflowProperties"
    PROVE  Proper(updateWorkflowProperties(r), r)
  <1>1. {"requireDraft", "touch"} \subseteq Steps
    <2>1. StepsOf("updateWorkflowProperties") \subseteq Steps
      BY StepsOfSteps DEF Ops
    <2> QED BY <2>1 DEF StepsOf, Wiring
  <1> DEFINE s0 == <<"requireDraft">>
  <1>2. s0 \in Seq(Steps) /\ s0 # <<>> /\ Ordered(s0) /\ In(s0) = {"requireDraft"}
    <2>1. In(s0) = {"requireDraft"}
      BY DEF In
    <2>2. Ordered(s0)
      BY DEF Ordered, Before, Rank, Reads
    <2> QED BY <1>1, <2>1, <2>2
  <1> HIDE DEF s0
  <1> DEFINE s1 == s0 \o Opt(r, "fields", <<"touch">>)
  <1>3. s1 \in Seq(Steps) /\ s1 # <<>> /\ Ordered(s1) /\ In(s1) = In(s0) \cup (IF "fields" \in r.opt THEN {"touch"} ELSE {})
    <2>1. \A a \in In(s0) : Before(a, "touch")
      BY <1>2 DEF Before, Rank, Reads
    <2> QED BY <2>1, <1>1, <1>2, OptAfter
  <1> HIDE DEF s1
  <1>4. In(s1) \subseteq StepsOf(r.op) /\ "rethrow" \notin In(s1)
    BY <1>2, <1>3 DEF StepsOf, Wiring
  <1>5. s1[Len(s1)] \in LastOf(r.op)
    BY <1>3, LastIn DEF LastOf
  <1>6. Complete(In(s1), r.opt)
    BY <1>2, <1>3 DEF Complete, Guarded, Placed
  <1>7. s1 = updateWorkflowProperties(r)
    BY DEF updateWorkflowProperties, s0, s1
  <1> QED BY <1>3, <1>4, <1>5, <1>6, <1>7 DEF Proper

LEMMA updateActivityProper ==
    ASSUME NEW r \in Request, r.op = "updateActivity"
    PROVE  Proper(updateActivity(r), r)
  <1>1. {"readActivity", "requireDraft", "resolveStage", "touch"} \subseteq Steps
    <2>1. StepsOf("updateActivity") \subseteq Steps
      BY StepsOfSteps DEF Ops
    <2> QED BY <2>1 DEF StepsOf, Wiring
  <1> DEFINE s0 == <<"readActivity", "requireDraft">>
  <1>2. s0 \in Seq(Steps) /\ s0 # <<>> /\ Ordered(s0) /\ In(s0) = {"readActivity", "requireDraft"}
    <2>1. In(s0) = {"readActivity", "requireDraft"}
      BY DEF In
    <2>2. Ordered(s0)
      BY DEF Ordered, Before, Rank, Reads
    <2> QED BY <1>1, <2>1, <2>2
  <1> HIDE DEF s0
  <1> DEFINE s1 == s0 \o Opt(r, "stage", <<"resolveStage">>)
  <1>3. s1 \in Seq(Steps) /\ s1 # <<>> /\ Ordered(s1) /\ In(s1) = In(s0) \cup (IF "stage" \in r.opt THEN {"resolveStage"} ELSE {})
    <2>1. \A a \in In(s0) : Before(a, "resolveStage")
      BY <1>2 DEF Before, Rank, Reads
    <2> QED BY <2>1, <1>1, <1>2, OptAfter
  <1> HIDE DEF s1
  <1> DEFINE s2 == s1 \o Opt(r, "fields", <<"touch">>)
  <1>4. s2 \in Seq(Steps) /\ s2 # <<>> /\ Ordered(s2) /\ In(s2) = In(s1) \cup (IF "fields" \in r.opt THEN {"touch"} ELSE {})
    <2>1. \A a \in In(s1) : Before(a, "touch")
      BY <1>2, <1>3 DEF Before, Rank, Reads
    <2> QED BY <2>1, <1>1, <1>3, OptAfter
  <1> HIDE DEF s2
  <1> DEFINE s3 == s2 \o Opt(r, "move", <<"touch">>)
  <1>5. s3 \in Seq(Steps) /\ s3 # <<>> /\ Ordered(s3) /\ In(s3) = In(s2) \cup (IF "move" \in r.opt THEN {"touch"} ELSE {})
    <2>1. \A a \in In(s2) : Before(a, "touch")
      BY <1>2, <1>3, <1>4 DEF Before, Rank, Reads
    <2> QED BY <2>1, <1>1, <1>4, OptAfter
  <1> HIDE DEF s3
  <1> DEFINE s4 == s3 \o Opt(r, "stage", <<"touch">>)
  <1>6. s4 \in Seq(Steps) /\ s4 # <<>> /\ Ordered(s4) /\ In(s4) = In(s3) \cup (IF "stage" \in r.opt THEN {"touch"} ELSE {})
    <2>1. \A a \in In(s3) : Before(a, "touch")
      BY <1>2, <1>3, <1>4, <1>5 DEF Before, Rank, Reads
    <2> QED BY <2>1, <1>1, <1>5, OptAfter
  <1> HIDE DEF s4
  <1>7. In(s4) \subseteq StepsOf(r.op) /\ "rethrow" \notin In(s4)
    BY <1>2, <1>3, <1>4, <1>5, <1>6 DEF StepsOf, Wiring
  <1>8. s4[Len(s4)] \in LastOf(r.op)
    BY <1>6, LastIn DEF LastOf
  <1>9. Complete(In(s4), r.opt)
    BY <1>2, <1>3, <1>4, <1>5, <1>6 DEF Complete, Guarded, Placed
  <1>10. s4 = updateActivity(r)
    BY DEF updateActivity, s0, s1, s2, s3, s4
  <1> QED BY <1>6, <1>7, <1>8, <1>9, <1>10 DEF Proper

LEMMA updateConditionProper ==
    ASSUME NEW r \in Request, r.op = "updateCondition"
    PROVE  Proper(updateCondition(r), r)
  <1>1. {"readCondition", "requireDraft", "touch"} \subseteq Steps
    <2>1. StepsOf("updateCondition") \subseteq Steps
      BY StepsOfSteps DEF Ops
    <2> QED BY <2>1 DEF StepsOf, Wiring
  <1> DEFINE s0 == <<"readCondition", "requireDraft">>
  <1>2. s0 \in Seq(Steps) /\ s0 # <<>> /\ Ordered(s0) /\ In(s0) = {"readCondition", "requireDraft"}
    <2>1. In(s0) = {"readCondition", "requireDraft"}
      BY DEF In
    <2>2. Ordered(s0)
      BY DEF Ordered, Before, Rank, Reads
    <2> QED BY <1>1, <2>1, <2>2
  <1> HIDE DEF s0
  <1> DEFINE s1 == s0 \o Opt(r, "fields", <<"touch">>)
  <1>3. s1 \in Seq(Steps) /\ s1 # <<>> /\ Ordered(s1) /\ In(s1) = In(s0) \cup (IF "fields" \in r.opt THEN {"touch"} ELSE {})
    <2>1. \A a \in In(s0) : Before(a, "touch")
      BY <1>2 DEF Before, Rank, Reads
    <2> QED BY <2>1, <1>1, <1>2, OptAfter
  <1> HIDE DEF s1
  <1>4. In(s1) \subseteq StepsOf(r.op) /\ "rethrow" \notin In(s1)
    BY <1>2, <1>3 DEF StepsOf, Wiring
  <1>5. s1[Len(s1)] \in LastOf(r.op)
    BY <1>3, LastIn DEF LastOf
  <1>6. Complete(In(s1), r.opt)
    BY <1>2, <1>3 DEF Complete, Guarded, Placed
  <1>7. s1 = updateCondition(r)
    BY DEF updateCondition, s0, s1
  <1> QED BY <1>3, <1>4, <1>5, <1>6, <1>7 DEF Proper

LEMMA addActivityProper ==
    ASSUME NEW r \in Request, r.op = "addActivity"
    PROVE  Proper(addActivity(r), r)
  <1>1. {"requireDraft", "resolveDefinition", "readTransition", "readFrom", "readTo", "resolveStage", "pickExit", "insertActivity", "pickOwnExit", "newEdgeControlNode", "connectFrom", "connectTo", "touch"} \subseteq Steps
    <2>1. StepsOf("addActivity") \subseteq Steps
      BY StepsOfSteps DEF Ops
    <2> QED BY <2>1 DEF StepsOf, Wiring
  <1> DEFINE s0 == <<"requireDraft", "resolveDefinition">>
  <1>2. s0 \in Seq(Steps) /\ s0 # <<>> /\ Ordered(s0) /\ In(s0) = {"requireDraft", "resolveDefinition"}
    <2>1. In(s0) = {"requireDraft", "resolveDefinition"}
      BY DEF In
    <2>2. Ordered(s0)
      BY DEF Ordered, Before, Rank, Reads
    <2> QED BY <1>1, <2>1, <2>2
  <1> HIDE DEF s0
  <1> DEFINE s1 == s0 \o Opt(r, "insertOn", <<"readTransition">>)
  <1>3. s1 \in Seq(Steps) /\ s1 # <<>> /\ Ordered(s1) /\ In(s1) = In(s0) \cup (IF "insertOn" \in r.opt THEN {"readTransition"} ELSE {})
    <2>1. \A a \in In(s0) : Before(a, "readTransition")
      BY <1>2 DEF Before, Rank, Reads
    <2> QED BY <2>1, <1>1, <1>2, OptAfter
  <1> HIDE DEF s1
  <1> DEFINE s2 == s1 \o Opt(r, "connectFrom", <<"readFrom">>)
  <1>4. s2 \in Seq(Steps) /\ s2 # <<>> /\ Ordered(s2) /\ In(s2) = In(s1) \cup (IF "connectFrom" \in r.opt THEN {"readFrom"} ELSE {})
    <2>1. \A a \in In(s1) : Before(a, "readFrom")
      BY <1>2, <1>3 DEF Before, Rank, Reads
    <2> QED BY <2>1, <1>1, <1>3, OptAfter
  <1> HIDE DEF s2
  <1> DEFINE s3 == s2 \o Opt(r, "connectTo", <<"readTo">>)
  <1>5. s3 \in Seq(Steps) /\ s3 # <<>> /\ Ordered(s3) /\ In(s3) = In(s2) \cup (IF "connectTo" \in r.opt THEN {"readTo"} ELSE {})
    <2>1. \A a \in In(s2) : Before(a, "readTo")
      BY <1>2, <1>3, <1>4 DEF Before, Rank, Reads
    <2> QED BY <2>1, <1>1, <1>4, OptAfter
  <1> HIDE DEF s3
  <1> DEFINE s4 == s3 \o Opt(r, "stage", <<"resolveStage">>)
  <1>6. s4 \in Seq(Steps) /\ s4 # <<>> /\ Ordered(s4) /\ In(s4) = In(s3) \cup (IF "stage" \in r.opt THEN {"resolveStage"} ELSE {})
    <2>1. \A a \in In(s3) : Before(a, "resolveStage")
      BY <1>2, <1>3, <1>4, <1>5 DEF Before, Rank, Reads
    <2> QED BY <2>1, <1>1, <1>5, OptAfter
  <1> HIDE DEF s4
  <1> DEFINE s5 == s4 \o Opt(r, "connectFrom", <<"pickExit">>)
  <1>7. s5 \in Seq(Steps) /\ s5 # <<>> /\ Ordered(s5) /\ In(s5) = In(s4) \cup (IF "connectFrom" \in r.opt THEN {"pickExit"} ELSE {})
    <2>1. \A a \in In(s4) : Before(a, "pickExit")
      BY <1>2, <1>3, <1>4, <1>5, <1>6 DEF Before, Rank, Reads
    <2> QED BY <2>1, <1>1, <1>6, OptAfter
  <1> HIDE DEF s5
  <1> DEFINE s6 == s5 \o <<"insertActivity">>
  <1>8. s6 \in Seq(Steps) /\ s6 # <<>> /\ Ordered(s6) /\ In(s6) = In(s5) \cup {"insertActivity"} /\ s6[Len(s6)] = "insertActivity"
    <2>1. \A a \in In(s5) : Before(a, "insertActivity")
      BY <1>2, <1>3, <1>4, <1>5, <1>6, <1>7 DEF Before, Rank, Reads
    <2> QED BY <2>1, <1>1, <1>7, StepAfter
  <1> HIDE DEF s6
  <1> DEFINE s7 == s6 \o <<"pickOwnExit">>
  <1>9. s7 \in Seq(Steps) /\ s7 # <<>> /\ Ordered(s7) /\ In(s7) = In(s6) \cup {"pickOwnExit"} /\ s7[Len(s7)] = "pickOwnExit"
    <2>1. \A a \in In(s6) : Before(a, "pickOwnExit")
      BY <1>2, <1>3, <1>4, <1>5, <1>6, <1>7, <1>8 DEF Before, Rank, Reads
    <2> QED BY <2>1, <1>1, <1>8, StepAfter
  <1> HIDE DEF s7
  <1> DEFINE s8 == s7 \o Opt(r, "insertOn", <<"newEdgeControlNode">>)
  <1>10. s8 \in Seq(Steps) /\ s8 # <<>> /\ Ordered(s8) /\ In(s8) = In(s7) \cup (IF "insertOn" \in r.opt THEN {"newEdgeControlNode"} ELSE {})
    <2>1. \A a \in In(s7) : Before(a, "newEdgeControlNode")
      BY <1>2, <1>3, <1>4, <1>5, <1>6, <1>7, <1>8, <1>9 DEF Before, Rank, Reads
    <2> QED BY <2>1, <1>1, <1>9, OptAfter
  <1> HIDE DEF s8
  <1> DEFINE s9 == s8 \o Opt(r, "connectFrom", <<"connectFrom">>)
  <1>11. s9 \in Seq(Steps) /\ s9 # <<>> /\ Ordered(s9) /\ In(s9) = In(s8) \cup (IF "connectFrom" \in r.opt THEN {"connectFrom"} ELSE {})
    <2>1. \A a \in In(s8) : Before(a, "connectFrom")
      BY <1>2, <1>3, <1>4, <1>5, <1>6, <1>7, <1>8, <1>9, <1>10 DEF Before, Rank, Reads
    <2> QED BY <2>1, <1>1, <1>10, OptAfter
  <1> HIDE DEF s9
  <1> DEFINE s10 == s9 \o Opt(r, "connectTo", <<"connectTo">>)
  <1>12. s10 \in Seq(Steps) /\ s10 # <<>> /\ Ordered(s10) /\ In(s10) = In(s9) \cup (IF "connectTo" \in r.opt THEN {"connectTo"} ELSE {})
    <2>1. \A a \in In(s9) : Before(a, "connectTo")
      BY <1>2, <1>3, <1>4, <1>5, <1>6, <1>7, <1>8, <1>9, <1>10, <1>11 DEF Before, Rank, Reads
    <2> QED BY <2>1, <1>1, <1>11, OptAfter
  <1> HIDE DEF s10
  <1> DEFINE s11 == s10 \o <<"touch">>
  <1>13. s11 \in Seq(Steps) /\ s11 # <<>> /\ Ordered(s11) /\ In(s11) = In(s10) \cup {"touch"} /\ s11[Len(s11)] = "touch"
    <2>1. \A a \in In(s10) : Before(a, "touch")
      <3>1. In(s10) \subseteq Reads \cup {"insertActivity", "pickOwnExit", "newEdgeControlNode", "connectFrom", "connectTo"}
        BY <1>2, <1>3, <1>4, <1>5, <1>6, <1>7, <1>8, <1>9, <1>10, <1>11, <1>12 DEF Reads
      <3> QED BY ONLY <3>1 DEF Before, Rank, Reads
    <2> QED BY <2>1, <1>1, <1>12, StepAfter
  <1> HIDE DEF s11
  <1>14. In(s11) \subseteq StepsOf(r.op) /\ "rethrow" \notin In(s11)
    BY <1>2, <1>3, <1>4, <1>5, <1>6, <1>7, <1>8, <1>9, <1>10, <1>11, <1>12, <1>13 DEF StepsOf, Wiring
  <1>15. s11[Len(s11)] \in LastOf(r.op)
    BY <1>13, LastIn DEF LastOf
  <1>16. Complete(In(s11), r.opt)
    BY <1>2, <1>3, <1>4, <1>5, <1>6, <1>7, <1>8, <1>9, <1>10, <1>11, <1>12, <1>13, SMTT(30) DEF Complete, Guarded, Placed
  <1>17. s11 = addActivity(r)
    <2>1. \A t \in Seq(Steps), x \in Steps, y \in Steps : (t \o <<x>>) \o <<y>> = t \o <<x, y>>
      BY TwoSteps
    <2>2. s7 = s5 \o <<"insertActivity", "pickOwnExit">>
      BY <2>1, <1>1, <1>7 DEF s6, s7
    <2> QED BY <2>2 DEF addActivity, s0, s1, s2, s3, s4, s5, s8, s9, s10, s11
  <1> QED BY <1>13, <1>14, <1>15, <1>16, <1>17 DEF Proper

LEMMA removeActivityProper ==
    ASSUME NEW r \in Request, r.op = "removeActivity"
    PROVE  Proper(removeActivity(r), r)
  <1>1. {"readActivity", "requireDraft", "readTouching", "readJoined", "deleteNode", "verifyRemoved"} \subseteq Steps
    <2>1. StepsOf("removeActivity") \subseteq Steps
      BY StepsOfSteps DEF Ops
    <2> QED BY <2>1 DEF StepsOf, Wiring
  <1> DEFINE s0 == <<"readActivity", "requireDraft", "readTouching">>
  <1>2. s0 \in Seq(Steps) /\ s0 # <<>> /\ Ordered(s0) /\ In(s0) = {"readActivity", "requireDraft", "readTouching"}
    <2>1. In(s0) = {"readActivity", "requireDraft", "readTouching"}
      BY DEF In
    <2>2. Ordered(s0)
      BY DEF Ordered, Before, Rank, Reads
    <2> QED BY <1>1, <2>1, <2>2
  <1> HIDE DEF s0
  <1> DEFINE s1 == s0 \o Opt(r, "reconnect", <<"readJoined">>)
  <1>3. s1 \in Seq(Steps) /\ s1 # <<>> /\ Ordered(s1) /\ In(s1) = In(s0) \cup (IF "reconnect" \in r.opt THEN {"readJoined"} ELSE {})
    <2>1. \A a \in In(s0) : Before(a, "readJoined")
      BY <1>2 DEF Before, Rank, Reads
    <2> QED BY <2>1, <1>1, <1>2, OptAfter
  <1> HIDE DEF s1
  <1> DEFINE s2 == s1 \o <<"deleteNode">>
  <1>4. s2 \in Seq(Steps) /\ s2 # <<>> /\ Ordered(s2) /\ In(s2) = In(s1) \cup {"deleteNode"} /\ s2[Len(s2)] = "deleteNode"
    <2>1. \A a \in In(s1) : Before(a, "deleteNode")
      BY <1>2, <1>3 DEF Before, Rank, Reads
    <2> QED BY <2>1, <1>1, <1>3, StepAfter
  <1> HIDE DEF s2
  <1> DEFINE s3 == s2 \o <<"verifyRemoved">>
  <1>5. s3 \in Seq(Steps) /\ s3 # <<>> /\ Ordered(s3) /\ In(s3) = In(s2) \cup {"verifyRemoved"} /\ s3[Len(s3)] = "verifyRemoved"
    <2>1. \A a \in In(s2) : Before(a, "verifyRemoved")
      BY <1>2, <1>3, <1>4 DEF Before, Rank, Reads
    <2> QED BY <2>1, <1>1, <1>4, StepAfter
  <1> HIDE DEF s3
  <1>6. In(s3) \subseteq StepsOf(r.op) /\ "rethrow" \notin In(s3)
    BY <1>2, <1>3, <1>4, <1>5 DEF StepsOf, Wiring
  <1>7. s3[Len(s3)] \in LastOf(r.op)
    BY <1>5, LastIn DEF LastOf
  <1>8. Complete(In(s3), r.opt)
    BY <1>2, <1>3, <1>4, <1>5 DEF Complete, Guarded, Placed
  <1>9. s3 = removeActivity(r)
    <2>1. \A t \in Seq(Steps), x \in Steps, y \in Steps : (t \o <<x>>) \o <<y>> = t \o <<x, y>>
      BY TwoSteps
    <2> QED BY <2>1, <1>1, <1>3 DEF removeActivity, s0, s1, s2, s3
  <1> QED BY <1>5, <1>6, <1>7, <1>8, <1>9 DEF Proper

LEMMA createCompleteWorkflowProper ==
    ASSUME NEW r \in Request, r.op = "createCompleteWorkflow"
    PROVE  Proper(createCompleteWorkflow(r), r)
  <1>1. StepsOf("createCompleteWorkflow") \subseteq Steps
    BY StepsOfSteps DEF Ops
  <1>2. {"postWorkflow", "postVersion", "postActivity", "postNext", "findEnds", "postTransition", "requireStart", "touch",
         "publishQuietly"} \subseteq Steps
    BY <1>1 DEF StepsOf
  <1> DEFINE s0 == <<"postWorkflow">>
             s1 == s0 \o <<"postVersion">>
             s2 == s1 \o <<"postActivity">>
             s3 == s2 \o Opt(r, "more", <<"postNext">>)
             s4 == s3 \o <<"findEnds">>
             s5 == s4 \o <<"postTransition">>
             t == <<"requireStart">> \o <<"touch", "publishQuietly">>
  <1>3. s0 \in Seq(Steps) /\ Ordered(s0) /\ In(s0) = {"postWorkflow"}
    BY <1>2, OneStep
  <1> HIDE DEF s0
  <1>4. s1 \in Seq(Steps) /\ s1 # <<>> /\ Ordered(s1) /\ In(s1) = In(s0) \cup {"postVersion"}
    <2>1. \A a \in In(s0) : Before(a, "postVersion")
      BY <1>3 DEF Before, Rank, Reads
    <2> QED BY <2>1, <1>2, <1>3, StepAfter
  <1> HIDE DEF s1
  <1>5. s2 \in Seq(Steps) /\ s2 # <<>> /\ Ordered(s2) /\ In(s2) = In(s1) \cup {"postActivity"}
    <2>1. \A a \in In(s1) : Before(a, "postActivity")
      BY <1>3, <1>4 DEF Before, Rank, Reads
    <2> QED BY <2>1, <1>2, <1>4, StepAfter
  <1> HIDE DEF s2
  <1>6. s3 \in Seq(Steps) /\ s3 # <<>> /\ Ordered(s3) /\ In(s3) = In(s2) \cup (IF "more" \in r.opt THEN {"postNext"} ELSE {})
    <2>1. \A a \in In(s2) : Before(a, "postNext")
      BY <1>3, <1>4, <1>5 DEF Before, Rank, Reads
    <2> QED BY <2>1, <1>2, <1>5, OptAfter
  <1> HIDE DEF s3
  <1>7. s4 \in Seq(Steps) /\ s4 # <<>> /\ Ordered(s4) /\ In(s4) = In(s3) \cup {"findEnds"}
    <2>1. \A a \in In(s3) : Before(a, "findEnds")
      BY <1>3, <1>4, <1>5, <1>6 DEF Before, Rank, Reads
    <2> QED BY <2>1, <1>2, <1>6, StepAfter
  <1> HIDE DEF s4
  <1>8. s5 \in Seq(Steps) /\ s5 # <<>> /\ Ordered(s5) /\ In(s5) = In(s4) \cup {"postTransition"}
    <2>1. \A a \in In(s4) : Before(a, "postTransition")
      BY <1>3, <1>4, <1>5, <1>6, <1>7 DEF Before, Rank, Reads
    <2> QED BY <2>1, <1>2, <1>7, StepAfter
  <1> HIDE DEF s5
  <1>9. t \in Seq(Steps) /\ t # <<>> /\ Ordered(t) /\ In(t) = {"requireStart", "touch", "publishQuietly"}
    <2>1. <<"touch", "publishQuietly">> \in Seq(Steps) /\ In(<<"touch", "publishQuietly">>) = {"touch", "publishQuietly"}
      BY <1>2 DEF In
    <2>2. Ordered(<<"touch", "publishQuietly">>)
      BY DEF Ordered, Before, Rank, Reads
    <2>3. \A a \in In(<<"requireStart">>), b \in In(<<"touch", "publishQuietly">>) : Before(a, b)
      BY <2>1, <1>2, OneStep DEF Before, Rank, Reads
    <2>4. <<"requireStart">> \in Seq(Steps) /\ Ordered(<<"requireStart">>) /\ In(<<"requireStart">>) = {"requireStart"}
      BY <1>2, OneStep
    <2>5. /\ t \in Seq(Steps) /\ Ordered(t) /\ In(t) = In(<<"requireStart">>) \cup In(<<"touch", "publishQuietly">>)
          /\ <<"touch", "publishQuietly">> # <<>> => t # <<>>
      BY <2>1, <2>2, <2>3, <2>4, Concatenated
    <2> HIDE DEF t
    <2> QED BY <2>1, <2>4, <2>5
  <1> HIDE DEF t
  <1>10. createCompleteWorkflow(r) = s5 \o (IF "publish" \in r.opt THEN t ELSE <<>>)
    BY DEF createCompleteWorkflow, createWorkflow, createWorkflowVersion, createActivity, createTransition,
           publishWorkflow, Opt, s0, s1, s2, s3, s4, s5, t
  <1> DEFINE s == createCompleteWorkflow(r)
  <1>11. /\ s \in Seq(Steps) /\ s # <<>> /\ Ordered(s)
         /\ In(s) \subseteq {"postWorkflow", "postVersion", "postActivity", "postNext", "findEnds", "postTransition"} \cup {"requireStart", "touch", "publishQuietly"}
    <2>1. In(s5) \subseteq {"postWorkflow", "postVersion", "postActivity", "postNext", "findEnds", "postTransition"}
      BY <1>3, <1>4, <1>5, <1>6, <1>7, <1>8
    <2>2. CASE "publish" \in r.opt
      <3>1. \A a \in In(s5), b \in In(t) : Before(a, b)
        BY <2>1, <1>9 DEF Before, Rank, Reads
      <3>2. s5 \o t \in Seq(Steps) /\ Ordered(s5 \o t) /\ In(s5 \o t) = In(s5) \cup In(t) /\ s5 \o t # <<>>
        BY <3>1, <1>8, <1>9, Concatenated
      <3>3. s = s5 \o t
        BY <2>2, <1>10
      <3> QED BY <3>2, <3>3, <2>1, <1>9
    <2>3. CASE "publish" \notin r.opt
      <3>1. s = s5
        BY <2>3, <1>8, <1>10
      <3> QED BY <3>1, <2>1, <1>8
    <2> QED BY <2>2, <2>3
  <1> HIDE DEF s
  <1>12. In(s) \subseteq StepsOf(r.op) /\ "rethrow" \notin In(s) /\ Complete(In(s), r.opt)
    BY <1>11 DEF StepsOf, Complete, Guarded, Placed
  <1>13. s[Len(s)] \in LastOf(r.op)
    BY <1>11, LastIn DEF LastOf
  <1> QED BY <1>11, <1>12, <1>13 DEF Proper, s

(* Every method is a proper sequence of steps.                              *)
LEMMA MethodProper ==
    ASSUME NEW r \in Request
    PROVE  Proper(Method(r), r)
  <1>1. r.op \in Ops
    BY DEF Request
  <1>2. CASE r.op \in {"checkout", "publish", "discardCheckout", "deleteWorkflow", "setWorkflowActive", "moveActivities"}
    BY <1>2, FixedMethods DEF Method
  <1>3. CASE r.op \in {"addTransition", "retargetTransition", "removeTransition", "addCondition", "removeCondition", "newWorkflow"}
    BY <1>3, FixedMethods DEF Method
  <1>4. CASE r.op \in {"createWorkflow", "createWorkflowVersion", "createActivity", "createTransition", "createCondition", "publishWorkflow"}
    BY <1>4, FixedMethods DEF Method
  <1>5. CASE r.op \in {"updateWorkflowProperties", "updateActivity", "updateCondition"}
    BY <1>5, updateWorkflowPropertiesProper, updateActivityProper, updateConditionProper DEF Method
  <1>6. CASE r.op \in {"addActivity", "removeActivity", "createCompleteWorkflow"}
    BY <1>6, addActivityProper, removeActivityProper, createCompleteWorkflowProper DEF Method
  <1> QED BY <1>1, <1>2, <1>3, <1>4, <1>5, <1>6 DEF Ops

(* What addActivity does when the exit of its new activity is not there.    *)
LEMMA CleanupProper ==
    ASSUME NEW r \in Request
    PROVE  LET s == removeActivity([r EXCEPT !.opt = {}]) \o <<"rethrow">>
           IN /\ s \in Seq(Steps) /\ s # <<>> /\ Ordered(s)
              /\ In(s) = Cleanup
  <1>1. Cleanup \subseteq Steps
    BY DEF Steps
  <1> DEFINE q == [r EXCEPT !.opt = {}]
             s0 == <<"readActivity", "requireDraft", "readTouching">>
             s1 == s0 \o <<"deleteNode">>
             s2 == s1 \o <<"verifyRemoved">>
             s3 == s2 \o <<"rethrow">>
  <1>2. s0 \in Seq(Steps) /\ Ordered(s0) /\ In(s0) = {"readActivity", "requireDraft", "readTouching"}
    <2>1. In(s0) = {"readActivity", "requireDraft", "readTouching"}
      BY DEF In
    <2>2. Ordered(s0)
      BY DEF Ordered, Before, Rank, Reads
    <2> QED BY <1>1, <2>1, <2>2 DEF Cleanup
  <1>3. removeActivity(q) = s2
    <2>1. Opt(q, "reconnect", <<"readJoined">>) = <<>>
      <3>1. "reconnect" \notin q.opt
        BY DEF Request
      <3> QED BY <3>1 DEF Opt
    <2>2. s0 \o <<>> = s0
      BY <1>2
    <2>3. s2 = s0 \o <<"deleteNode", "verifyRemoved">>
      BY <1>1, <1>2, TwoSteps DEF Cleanup
    <2> QED BY <2>1, <2>2, <2>3 DEF removeActivity
  <1> HIDE DEF s0, q
  <1>4. s1 \in Seq(Steps) /\ Ordered(s1) /\ In(s1) = In(s0) \cup {"deleteNode"}
    <2>1. \A a \in In(s0) : Before(a, "deleteNode")
      BY <1>2 DEF Before, Rank, Reads
    <2> QED BY <2>1, <1>1, <1>2, StepAfter DEF Cleanup
  <1> HIDE DEF s1
  <1>5. s2 \in Seq(Steps) /\ Ordered(s2) /\ In(s2) = In(s1) \cup {"verifyRemoved"}
    <2>1. \A a \in In(s1) : Before(a, "verifyRemoved")
      BY <1>2, <1>4 DEF Before, Rank, Reads
    <2> QED BY <2>1, <1>1, <1>4, StepAfter DEF Cleanup
  <1> HIDE DEF s2
  <1>6. s3 \in Seq(Steps) /\ s3 # <<>> /\ Ordered(s3) /\ In(s3) = In(s2) \cup {"rethrow"}
    <2>1. \A a \in In(s2) : Before(a, "rethrow")
      BY <1>2, <1>4, <1>5 DEF Before, Rank, Reads
    <2> QED BY <2>1, <1>1, <1>5, StepAfter DEF Cleanup
  <1> HIDE DEF s3
  <1>7. In(s3) = Cleanup
    BY <1>2, <1>4, <1>5, <1>6 DEF Cleanup
  <1> QED BY <1>3, <1>6, <1>7 DEF s3, q

(****************************************************************************)
(* What a step makes of the other calls                                     *)
(****************************************************************************)
(* Version v, as the call of u that is not in this step relies on it.       *)
Kept(u, v) ==
    /\ version[v].st # "absent" => version'[v].st # "absent" /\ (version'[v].st = "deleted" \/ version'[v].wf = version[v].wf)
    /\ version[v].st = "deleted" => version'[v].st = "deleted"
    /\ v \in loose => v \in loose' \/ version'[v].st = "deleted"
    /\ HeldBy(u, v) => v \in loose' \/ version'[v].st = "deleted" \/ HeldBy(u, v)'
    /\ Free(u, v)' => Free(u, v) /\ graph'[v] = graph[v] /\ (Siblings(v) # {} => Siblings(v)' # {})

(* Path ids only grow.                                                      *)
LEMMA EdgesGrow ==
    ASSUME lastEdge \in Nat, lastEdge' \in Nat, lastEdge <= lastEdge'
    PROVE  Edges \subseteq Edges'
  <1>1. 1..lastEdge \subseteq 1..lastEdge'
    OBVIOUS
  <1> QED BY <1>1 DEF Edges

LEMMA KnowsKept ==
    ASSUME NEW w, NEW c, NEW P, Kept(w, c.req.ver), Knows(P, w, c)
    PROVE  Knows(P, w, c)'
  <1> DEFINE v == c.req.ver
  <1>1. Prepared(P, c)'
    BY DEF Knows, Prepared
  <1>2. (Free(w, v) => FactsOf(P, c, graph[v]))'
    <2>1. SUFFICES ASSUME Free(w, v)' PROVE FactsOf(P, c, graph'[v])
      BY DEF FactsOf
    <2>2. graph'[v] = graph[v] /\ FactsOf(P, c, graph[v])
      BY <2>1 DEF Kept, Knows
    <2> QED BY <2>2
  <1>3. Checked(P, w, v)'
    BY DEF Kept, Knows, Checked
  <1>4. Accompanied(P, w, v)'
    BY DEF Kept, Knows, Accompanied
  <1>5. Drawing(P, v, c.req.wf)'
    BY DEF Kept, Knows, Drawing
  <1> QED BY <1>1, <1>2, <1>3, <1>4, <1>5 DEF Knows

LEMMA BystanderKeeps ==
    ASSUME NEW w \in Users, CallInv(w), call'[w] = call[w], lastEdge \in Nat, lastEdge' \in Nat, lastEdge <= lastEdge',
           \A v \in Versions : Kept(w, v)
    PROVE  CallInv(w)'
  <1>1. PICK c : c = call[w]
    OBVIOUS
  <1>2. TypedCall(c)'
    BY <1>1, EdgesGrow DEF CallInv, TypedCall
  <1>3. Shaped(c)' /\ Cautious(c)'
    BY <1>1 DEF CallInv, Shaped, Cautious, Family
  <1>4. ASSUME c.todo # <<>> PROVE Knows(In(c.todo), w, c)'
    <2>1. Kept(w, c.req.ver)
      BY <1>1, <1>4 DEF CallInv, TypedCall, Request
    <2> QED BY <2>1, <1>1, <1>4, KnowsKept DEF CallInv, Informed
  <1>5. Informed(w, c)'
    BY <1>4 DEF Informed
  <1> QED BY <1>1, <1>2, <1>3, <1>5 DEF CallInv

(****************************************************************************)
(* What a step makes of its own call                                        *)
(****************************************************************************)
OwnMoves(u) == call' \in [Users -> Call] /\ CallInv(u)' /\ \A w \in Users \ {u} : call'[w] = call[w]

LEMMA OwnEnds ==
    ASSUME NEW u \in Users, NEW x \in Results, call \in [Users -> Call], call' = [call EXCEPT ![u] = Ended(x)]
    PROVE  OwnMoves(u)
  <1>1. PICK c : c = Ended(x)
    OBVIOUS
  <1>2. /\ c \in Call /\ c.todo = <<>> /\ c.req = NoRequest /\ c.seen = {} /\ ~Touched(c)
        /\ c.req.op = "none"
    <2>1. c = [todo |-> <<>>, req |-> NoRequest, seen |-> {}, picked |-> NoExit, own |-> NoExit, drawn |-> FALSE,
               left |-> {}, owned |-> {}, spared |-> {}, wrote |-> {}, spoilt |-> FALSE, result |-> x]
      BY <1>1 DEF Ended, Idle
    <2>2. c \in Call
      BY <2>1 DEF Call
    <2>3. ~Touched(c)
      BY <2>1 DEF Touched, NoRequest
    <2> QED BY <2>1, <2>2, <2>3 DEF NoRequest
  <1>3. In(c.todo) = {} /\ Ordered(c.todo)
    BY <1>2 DEF In, Ordered
  <1>4. TypedCall(c)'
    BY <1>2 DEF TypedCall
  <1>5. Shaped(c)' /\ Cautious(c)' /\ Informed(u, c)'
    BY <1>2, <1>3 DEF Shaped, Cautious, Informed
  <1>6. call'[u] = c /\ call' \in [Users -> Call] /\ \A w \in Users \ {u} : call'[w] = call[w]
    BY <1>1, <1>2
  <1> QED BY <1>4, <1>5, <1>6 DEF CallInv, OwnMoves

(* The call that goes on as k with the steps t.                             *)
Onward(d, k, t) ==
    /\ d \in Call /\ d.todo = t /\ d.req = k.req /\ d.seen = k.seen /\ d.picked = k.picked /\ d.own = k.own
    /\ d.drawn = k.drawn /\ d.left = k.left /\ d.owned = k.owned /\ d.spared = k.spared /\ d.wrote = k.wrote /\ d.result = k.result

LEMMA FollowCases ==
    ASSUME NEW u \in Users, NEW k \in Call, NEW t \in Seq(Steps), call \in [Users -> Call], Follow(u, k, t)
    PROVE  /\ call' \in [Users -> Call] /\ \A w \in Users \ {u} : call'[w] = call[w]
           /\ t = <<>> => call' = [call EXCEPT ![u] = Ended("ok")]
           /\ t # <<>> => \E d : d = call'[u] /\ Onward(d, k, t) /\ d.spoilt = k.spoilt
  <1>1. CASE t = <<>>
    <2>1. call' = [call EXCEPT ![u] = Ended("ok")]
      BY <1>1 DEF Follow
    <2> QED BY <1>1, <2>1, OwnEnds DEF Results, OwnMoves
  <1>2. CASE t # <<>>
    <2>1. PICK d : d = [k EXCEPT !.todo = t]
      OBVIOUS
    <2>2. Onward(d, k, t) /\ d.spoilt = k.spoilt
      BY <2>1 DEF Onward, Call
    <2>3. call' = [call EXCEPT ![u] = d]
      BY <1>2, <2>1 DEF Follow
    <2> QED BY <1>2, <2>2, <2>3 DEF Onward
  <1> QED BY <1>1, <1>2

(* The cleanup ends with its rethrow.                                       *)
LEMMA RethrowLast ==
    ASSUME NEW s \in Seq(Steps), Ordered(s), "rethrow" \in In(s)
    PROVE  s # <<>> /\ s[Len(s)] = "rethrow"
  <1>1. Len(s) \in Nat
    OBVIOUS
  <1>2. PICK i \in 1..Len(s) : s[i] = "rethrow"
    BY DEF In
  <1>3. Len(s) \in 1..Len(s) /\ s # <<>>
    BY <1>1, <1>2
  <1>4. ASSUME i # Len(s) PROVE FALSE
    <2>1. i < Len(s)
      BY <1>1, <1>2, <1>4
    <2>2. Before("rethrow", s[Len(s)])
      BY <1>2, <1>3, <2>1 DEF Ordered
    <2>3. Rank("rethrow") = 10
      BY DEF Rank, Reads
    <2>4. \A x : Rank(x) >= 10 => x = "rethrow"
      BY DEF Rank
    <2>5. Rank(s[Len(s)]) \in 0..10
      BY Ranks
    <2> QED BY <2>2, <2>3, <2>4, <2>5 DEF Before
  <1> QED BY <1>2, <1>3, <1>4

LEMMA CleanupRethrows ==
    ASSUME NEW u \in Users, call \in [Users -> Call], InCleanup(u)
    PROVE  "rethrow" \in In(call[u].todo)
  <1>1. PICK s \in Seq(Steps) : s = call[u].todo
    BY DEF Call
  <1>2. Len(s) \in Nat /\ Len(s) > 1 /\ s[Len(s)] = "rethrow"
    BY <1>1 DEF InCleanup, Last
  <1>3. Len(s) \in 1..Len(s)
    BY <1>2
  <1> QED BY <1>1, <1>2, <1>3 DEF In

(* The call throws, in its cleanup or not.                                  *)
LEMMA OwnStops ==
    ASSUME NEW u \in Users, NEW k \in Call, NEW x \in Results, call \in [Users -> Call], TypedCall(k)', k.req \in Request,
           k.result = "none", CallInv(u), k.req.op = call[u].req.op, Stopped(u, k, x)
    PROVE  OwnMoves(u)
  <1>1. CASE InCleanup(u)
    <2>1. PICK d : d = [k EXCEPT !.todo = <<"rethrow">>, !.spoilt = TRUE]
      OBVIOUS
    <2>2. "rethrow" \in Steps
      BY DEF Steps, Cleanup
    <2>3. Onward(d, k, <<"rethrow">>) /\ d.spoilt = TRUE
      BY <2>1, <2>2, OneStep DEF Onward, Call
    <2>4. Ordered(d.todo) /\ In(d.todo) = {"rethrow"}
      BY <2>2, <2>3, OneStep DEF Onward
    <2>5. TypedCall(d)'
      BY <2>3 DEF Onward, TypedCall
    <2>0. d.req.op = "addActivity"
      BY <1>1, <2>3, CleanupRethrows DEF Onward, CallInv, Shaped
    <2>6. Shaped(d)' /\ Cautious(d)'
      BY <2>0, <2>3, <2>4 DEF Shaped, Cautious, Family, Cleanup
    <2>7. Informed(u, d)'
      BY <2>4 DEF Informed, Knows, Prepared, FactsOf, Checked, Guarded, Accompanied, Drawing, Placed
    <2>8. call' = [call EXCEPT ![u] = d]
      BY <1>1, <2>1 DEF Stopped
    <2> QED BY <2>3, <2>5, <2>6, <2>7, <2>8 DEF CallInv, Onward, OwnMoves
  <1>2. CASE ~InCleanup(u)
    BY <1>2, OwnEnds DEF Stopped
  <1> QED BY <1>1, <1>2

(* What is left to refuse when something has been written.                  *)
LEMMA WritesComeLate ==
    ASSUME NEW c \in Call, Shaped(c), c.todo # <<>>, "rethrow" \notin In(c.todo), Rank(Head(c.todo)) >= 1,
           Head(c.todo) \notin {"findings", "noteFindings"}
    PROVE  In(Tail(c.todo)) \cap (Reads \cup {"findings", "publishValidated"}) = {}
  <1> DEFINE x == Head(c.todo)
             R == In(Tail(c.todo))
  <1>1. c.todo \in Seq(Steps) /\ Ordered(c.todo)
    BY DEF Call, Shaped
  <1>2. /\ x \in In(c.todo) /\ R \subseteq In(c.todo) /\ (x # "touch" => x \notin R)
        /\ \A y \in In(c.todo) : Rank(x) <= Rank(y)
    BY <1>1, TailSteps
  <1>3. In(c.todo) \subseteq StepsOf(c.req.op)
    BY DEF Shaped, Family
  <1> HIDE DEF x, R
  <1>4. Rank(x) \in 0..10 /\ \A y : Rank(y) \in 0..10
    BY Ranks
  <1>5. R \cap Reads = {}
    <2>1. \A y \in Reads : Rank(y) = 0
      BY DEF Rank
    <2> QED BY <2>1, <1>2, <1>4 DEF x
  <1>6. ASSUME "findings" \in StepsOf(c.req.op) \/ "publishValidated" \in StepsOf(c.req.op)
        PROVE  c.req.op = "publish"
    BY <1>6 DEF StepsOf, Wiring
  <1>7. ASSUME c.req.op = "publish" PROVE x \in {"requireDraft", "publishValidated", "findings", "noteFindings", "publishAnyway"}
    BY <1>7, <1>2, <1>3 DEF StepsOf
  <1>8. Rank("requireDraft") = 0
    BY DEF Rank, Reads
  <1>9. /\ Rank("findings") = 5 /\ Rank("publishValidated") = 7 /\ Rank("publishAnyway") = 8
    BY DEF Rank, Reads
  <1>10. "findings" \notin R
    BY <1>2, <1>3, <1>4, <1>6, <1>7, <1>8, <1>9 DEF x
  <1>11. "publishValidated" \notin R
    BY <1>2, <1>3, <1>4, <1>6, <1>7, <1>8, <1>9 DEF x
  <1> QED BY <1>5, <1>10, <1>11 DEF R

(* A call of which the first step is done.                                  *)
LEMMA Shortened ==
    ASSUME NEW c \in Call, NEW d \in Call, NEW x, c.todo # <<>>, Shaped(c), Cautious(c), x = Head(c.todo), x # "rethrow",
           d.todo = Tail(c.todo), d.todo # <<>>, d.req.op = c.req.op, d.spoilt = c.spoilt,
           Touched(d) => Touched(c) \/ (Rank(x) >= 1 /\ x \notin {"findings", "noteFindings"}),
           x = "verifyRemoved" /\ "rethrow" \in In(c.todo) => ~Touched(d)
    PROVE  Shaped(d) /\ Cautious(d)
  <1> DEFINE P == In(c.todo)
             R == In(d.todo)
  <1>1. c.todo \in Seq(Steps) /\ Ordered(c.todo)
    BY DEF Call, Shaped
  <1>2. /\ Ordered(d.todo) /\ x \in P /\ R \subseteq P /\ P \subseteq R \cup {x} /\ (x # "touch" => x \notin R)
        /\ \A y \in P : Rank(x) <= Rank(y)
        /\ d.todo[Len(d.todo)] = c.todo[Len(c.todo)]
    BY <1>1, TailSteps
  <1>3. /\ P \subseteq Family(c)
        /\ "rethrow" \notin P => c.todo[Len(c.todo)] \in LastOf(c.req.op)
        /\ "rethrow" \in P => c.req.op = "addActivity"
        /\ "rethrow" \in P /\ "verifyRemoved" \notin P => P = {"rethrow"}
        /\ "publishAnyway" \in P => "publishValidated" \notin P
    BY DEF Shaped
  <1>4. /\ Touched(c) /\ "rethrow" \notin P /\ c.req.op # "createCompleteWorkflow"
            => P \cap (Reads \cup {"findings", "publishValidated"}) = {}
        /\ "rethrow" \in P /\ "verifyRemoved" \notin P => ~Touched(c) \/ c.spoilt
    BY DEF Cautious
  <1>5. c.spoilt \in BOOLEAN /\ d.spoilt \in BOOLEAN
    BY DEF Call
  <1>6. "rethrow" \notin P /\ Rank(x) >= 1 /\ x \notin {"findings", "noteFindings"} => R \cap (Reads \cup {"findings", "publishValidated"}) = {}
    BY <1>2, WritesComeLate
  <1> HIDE DEF P, R
  <1>7. "rethrow" \in P <=> "rethrow" \in R
    BY <1>2
  <1>8. "rethrow" \in R /\ "verifyRemoved" \notin R => R = {"rethrow"} /\ x = "verifyRemoved"
    <2>1. SUFFICES ASSUME "rethrow" \in R, "verifyRemoved" \notin R PROVE R = {"rethrow"} /\ x = "verifyRemoved"
      OBVIOUS
    <2>2. x = "verifyRemoved"
      BY <2>1, <1>2, <1>3, <1>7
    <2>3. P \subseteq Cleanup
      BY <2>1, <1>3, <1>7 DEF Family, P
    <2>4. /\ Rank("verifyRemoved") = 9 /\ Rank("readActivity") = 0 /\ Rank("requireDraft") = 0 /\ Rank("readTouching") = 0
          /\ Rank("deleteNode") = 7
      BY DEF Rank, Reads
    <2>5. ASSUME NEW y \in R PROVE y = "rethrow"
      <3>1. y \in Cleanup /\ Rank("verifyRemoved") <= Rank(y) /\ y # "verifyRemoved"
        BY <2>1, <2>2, <2>3, <1>2, <2>5
      <3> QED BY <3>1, <2>4 DEF Cleanup
    <2> QED BY <2>1, <2>2, <2>5
  <1>9. Shaped(d)
    <2>1. Family(d) = Family(c)
      BY <1>7 DEF Family, P, R
    <2> QED BY <2>1, <1>2, <1>3, <1>7, <1>8 DEF Shaped, R
  <1>10. Cautious(d)
    <2>1. Touched(d) /\ "rethrow" \notin R /\ c.req.op # "createCompleteWorkflow"
            => R \cap (Reads \cup {"findings", "publishValidated"}) = {}
      BY <1>2, <1>4, <1>5, <1>6, <1>7
    <2>2. "rethrow" \in R /\ "verifyRemoved" \notin R => ~Touched(d) \/ d.spoilt
      BY <1>7, <1>8 DEF P
    <2> QED BY <2>1, <2>2 DEF Cautious, R
  <1> QED BY <1>9, <1>10

LEMMA OwnGoes ==
    ASSUME NEW u \in Users, NEW x, CallInv(u), call \in [Users -> Call], NEW k \in Call, At(u, x), x # "rethrow",
           TypedCall(k)', k.req \in Request, k.result = "none", k.req.op = call[u].req.op, k.spoilt = call[u].spoilt,
           Touched(k) => Touched(call[u]) \/ (Rank(x) >= 1 /\ x \notin {"findings", "noteFindings"}),
           x = "verifyRemoved" /\ "rethrow" \in In(call[u].todo) => ~Touched(k),
           NEW R, R = In(Tail(call[u].todo)), Knows(R, u, k)', Go(u, k)
    PROVE  OwnMoves(u)
  <1>1. PICK c \in Call : c = call[u]
    OBVIOUS
  <1>2. /\ Shaped(c) /\ Cautious(c) /\ c.todo # <<>> /\ Head(c.todo) = x
        /\ c.todo \in Seq(Steps) /\ Tail(c.todo) \in Seq(Steps)
    <2>1. Shaped(c) /\ Cautious(c) /\ c.todo # <<>> /\ Head(c.todo) = x
      BY <1>1 DEF CallInv, At
    <2>2. c.todo \in Seq(Steps)
      BY DEF Call
    <2> QED BY <2>1, <2>2
  <1>3. Follow(u, k, Tail(c.todo))
    BY <1>1 DEF Go
  <1>4. CASE Tail(c.todo) = <<>>
    <2>1. call' = [call EXCEPT ![u] = Ended("ok")]
      BY <1>3, <1>4 DEF Follow
    <2> QED BY <2>1, OwnEnds DEF Results
  <1>5. CASE Tail(c.todo) # <<>>
    <2> DEFINE t == Tail(c.todo)
    <2>0. t \in Seq(Steps) /\ Follow(u, k, t) /\ t # <<>>
      BY <1>2, <1>3, <1>5
    <2> HIDE DEF t
    <2>1. PICK d : d = call'[u] /\ Onward(d, k, t) /\ d.spoilt = k.spoilt
      BY <2>0, FollowCases
    <2>2. TypedCall(d)'
      BY <2>1 DEF Onward, TypedCall
    <2>3. Shaped(d)' /\ Cautious(d)'
      <3>1. /\ d \in Call /\ d.todo = Tail(c.todo) /\ d.todo # <<>> /\ d.req.op = c.req.op /\ d.spoilt = c.spoilt
            /\ d.req = k.req /\ d.wrote = k.wrote
        BY <1>1, <2>0, <2>1 DEF Onward, t
      <3>0. Touched(d) = Touched(k)
        BY <3>1 DEF Touched
      <3>2. Touched(d) => Touched(c) \/ (Rank(x) >= 1 /\ x \notin {"findings", "noteFindings"})
        BY ONLY <1>1, <3>0, Touched(k) => Touched(call[u]) \/ (Rank(x) >= 1 /\ x \notin {"findings", "noteFindings"})
      <3>3. x = "verifyRemoved" /\ "rethrow" \in In(c.todo) => ~Touched(d)
        BY <1>1, <3>0
      <3>4. Shaped(d) /\ Cautious(d)
        BY <1>1, <1>2, <3>1, <3>2, <3>3, Shortened, ZenonT(60)
      <3> QED BY <3>4 DEF Shaped, Cautious, Family
    <2>4. Knows(R, u, d)'
      BY <2>1 DEF Knows, Prepared, FactsOf, Onward
    <2>5. Informed(u, d)'
      BY <2>1, <2>4, <1>1 DEF Informed, Onward, t
    <2> QED BY <2>0, <2>1, <2>2, <2>3, <2>5, FollowCases DEF CallInv, OwnMoves
  <1> QED BY <1>4, <1>5

(* A call that is left with other steps than those it had.                  *)
LEMMA OwnTurns ==
    ASSUME NEW u \in Users, call \in [Users -> Call], NEW k \in Call, TypedCall(k)', k.req \in Request, k.result = "none",
           NEW t \in Seq(Steps), t # <<>>, Follow(u, k, t),
           \A d \in Call : d.todo = t /\ d.req = k.req /\ d.wrote = k.wrote /\ d.spoilt = k.spoilt => Shaped(d) /\ Cautious(d),
           NEW P, P = In(t), Knows(P, u, k)'
    PROVE  OwnMoves(u)
  <1>1. PICK d : d = call'[u] /\ Onward(d, k, t) /\ d.spoilt = k.spoilt
    BY FollowCases
  <1>2. TypedCall(d)'
    BY <1>1 DEF Onward, TypedCall
  <1>3. Shaped(d)' /\ Cautious(d)'
    <2>1. Shaped(d) /\ Cautious(d)
      BY <1>1 DEF Onward
    <2> QED BY <2>1 DEF Shaped, Cautious, Family
  <1>4. Knows(P, u, d)'
    BY <1>1 DEF Knows, Prepared, FactsOf, Onward
  <1>5. Informed(u, d)'
    BY <1>1, <1>4 DEF Informed, Onward
  <1> QED BY <1>1, <1>2, <1>3, <1>5, FollowCases DEF CallInv, OwnMoves

(* Steps that rely on nothing.                                              *)
LEMMA Quiet ==
    ASSUME NEW u, NEW k, NEW R, R \cap (Guarded \cup Placed) = {}
    PROVE  Knows(R, u, k)'
  <1>1. Prepared(R, k)'
    BY DEF Prepared, Guarded
  <1>2. ASSUME NEW g PROVE FactsOf(R, k, g)
    BY DEF FactsOf, Guarded
  <1>3. FactsOf(R, k, graph[k.req.ver])'
    BY <1>2
  <1>4. (Checked(R, u, k.req.ver) /\ Accompanied(R, u, k.req.ver) /\ Drawing(R, k.req.ver, k.req.wf))'
    BY DEF Checked, Accompanied, Drawing, Guarded
  <1> QED BY <1>1, <1>3, <1>4 DEF Knows

(* A write, its answer lost or not.                                         *)
LEMMA OwnWrites ==
    ASSUME NEW u \in Users, NEW x, CallInv(u), call \in [Users -> Call], NEW k \in Call, At(u, x),
           x \notin Reads \cup {"findings", "noteFindings", "rethrow", "verifyRemoved"},
           TypedCall(k)', k.req \in Request, k.result = "none", k.req.op = call[u].req.op, k.spoilt = call[u].spoilt,
           NEW R, R = In(Tail(call[u].todo)), Knows(R, u, k)', Go(u, k) \/ Stopped(u, k, "failed")
    PROVE  OwnMoves(u)
  <1>1. Rank(x) >= 1
    BY DEF Rank
  <1>2. CASE Go(u, k)
    BY <1>1, <1>2, OwnGoes
  <1>3. CASE Stopped(u, k, "failed")
    BY <1>3, OwnStops DEF Results
  <1> QED BY <1>2, <1>3

LEMMA OwnWritten ==
    ASSUME NEW u \in Users, NEW x, CallInv(u), call \in [Users -> Call], At(u, x),
           x \notin Reads \cup {"findings", "noteFindings", "rethrow", "verifyRemoved"}, Edges \subseteq Edges',
           NEW c, c = call[u], NEW R, R = In(Tail(call[u].todo)), Knows(R, u, c)', Written(u)
    PROVE  OwnMoves(u)
  <1>1. PICK k : k = [c EXCEPT !.wrote = @ \cup {c.req.ver}]
    OBVIOUS
  <1>2. c \in Call /\ c.req.ver \in Versions
    BY DEF CallInv, At, TypedCall, Request
  <1>3. /\ k \in Call /\ k.todo = c.todo /\ k.req = c.req /\ k.seen = c.seen /\ k.picked = c.picked /\ k.own = c.own
        /\ k.drawn = c.drawn /\ k.spoilt = c.spoilt /\ k.result = c.result /\ k.owned = c.owned /\ k.spared = c.spared
    BY <1>1, <1>2 DEF Call
  <1>4. TypedCall(k)' /\ k.req \in Request /\ k.result = "none"
    <2>1. TypedCall(c) /\ c.todo # <<>>
      BY DEF CallInv, At
    <2> QED BY <2>1, <1>3 DEF TypedCall
  <1>5. Knows(R, u, k)'
    <2>1. Prepared(R, c) => Prepared(R, k)
      BY <1>3 DEF Prepared
    <2>2. ASSUME NEW g, FactsOf(R, c, g) PROVE FactsOf(R, k, g)
      BY <1>3, <2>2 DEF FactsOf
    <2> QED BY <1>3, <2>1, <2>2 DEF Knows
  <1>6. Go(u, k) \/ Stopped(u, k, "failed")
    BY <1>1 DEF Written
  <1> QED BY <1>3, <1>4, <1>5, <1>6, OwnWrites

(* What follows a step, where it matters.                                   *)
LEMMA StepsLeft ==
    ASSUME NEW c \in Call, Shaped(c), c.todo # <<>>, NEW x, x = Head(c.todo), NEW R, R = In(Tail(c.todo))
    PROVE  /\ R \subseteq In(c.todo) /\ In(c.todo) \subseteq R \cup {x} /\ x \in In(c.todo) /\ (x # "touch" => x \notin R)
           /\ \A y \in In(c.todo) : Rank(x) <= Rank(y)
           /\ R \subseteq Family(c) /\ x \in Family(c)
  BY TailSteps DEF Shaped, Call

(* Steps after which nothing relies on anything.                            *)
Closing == {"newEdge", "connectTo", "changeEdge", "deleteEdge", "deleteExit", "newExit", "deleteNode", "takeCheckout",
            "forceCheckout", "publishValidated", "publishAnyway", "publishQuietly", "deleteVersions", "postWorkflow",
            "postVersion", "postActivity", "postNext", "findEnds", "postTransition", "touch", "moveRest", "requireStart",
            "verifyRemoved", "verifyDeleted", "verifyWorkflowGone", "verifyInitialized", "readPublished",
            "rethrow"}

LEMMA ClosingSteps ==
    ASSUME NEW c \in Call, Shaped(c), c.todo # <<>>, Head(c.todo) \in Closing
    PROVE  In(Tail(c.todo)) \cap (Guarded \cup Placed) = {}
  <1> DEFINE x == Head(c.todo)
             R == In(Tail(c.todo))
  <1>1. /\ x \notin R \/ x = "touch"
        /\ \A y \in R : Rank(x) <= Rank(y)
        /\ R \subseteq Family(c) /\ x \in Family(c)
    BY StepsLeft
  <1> HIDE DEF x, R
  <1>2. CASE "rethrow" \in In(c.todo)
    <2>1. R \subseteq Cleanup /\ x \in {"deleteNode", "verifyRemoved", "rethrow"}
      BY <1>1, <1>2 DEF Family, Cleanup, Closing, x
    <2>2. Rank("deleteNode") = 7 /\ Rank("verifyRemoved") = 9 /\ Rank("rethrow") = 10 /\ Rank("requireDraft") = 0
      BY DEF Rank, Reads
    <2> QED BY <1>1, <2>1, <2>2 DEF Cleanup, Guarded, Placed, R
  <1>3. CASE "rethrow" \notin In(c.todo)
    <2>1. R \subseteq StepsOf(c.req.op) /\ x \in StepsOf(c.req.op)
      BY <1>1, <1>3 DEF Family
    <2>2. x \in Closing
      BY DEF x
    <2>3. ASSUME NEW y \in R, y \in Guarded \cup Placed PROVE FALSE
      <3>1. x = "publishValidated" => "publishAnyway" \notin R
        <4>1. x \in In(c.todo) /\ R \subseteq In(c.todo)
          BY StepsLeft DEF x, R
        <4> QED BY <4>1 DEF Shaped
      <3>2. CASE y \in Guarded
        BY <3>1, <3>2, <2>1, <2>2, <2>3, <1>1, SMTT(20) DEF StepsOf, Wiring, Closing, Guarded, Rank, Reads
      <3>3. CASE y \in Placed
        BY <3>3, <2>1, <2>2, <2>3, <1>1, SMTT(20) DEF StepsOf, Wiring, Closing, Placed, Rank, Reads
      <3> QED BY <2>3, <3>2, <3>3
    <2> QED BY <2>3 DEF R
  <1> QED BY <1>2, <1>3

(****************************************************************************)
(* What a call knows when a step is behind it                               *)
(****************************************************************************)
(* What has been read (k) stands in for the step that read it (x).          *)
Learnt(x, R, k, g) ==
    /\ x = "readFrom" => k.req.from \in g.nodes
    /\ x = "pickExit" => <<k.req.from, k.picked>> \in g.exits
    /\ x = "readTo" => k.req.to \in g.nodes
    /\ x = "insertActivity" => k.req.act \in g.nodes
    /\ x = "pickOwnExit" /\ R \cap {"connectTo", "newEdgeControlNode"} # {} => <<k.req.act, k.own>> \in g.exits
    /\ x = "readTransition" => k.seen \subseteq g.edges /\ R \cap {"deleteNode", "deleteExit"} = {}
    /\ x = "readTouching" => /\ k.seen = {e \in g.edges : k.req.act \in {e.from, e.to}}
                             /\ R \cap {"newEdgeControlNode", "changeEdge", "deleteExit"} = {}
    /\ x = "readLeaving" => /\ {e \in g.edges : e.from = k.req.act /\ e.exit = k.req.exit} \subseteq k.seen
                            /\ R \cap {"newEdgeControlNode", "changeEdge", "deleteNode"} = {}

(* Only that is new in k.                                                   *)
Learns(x, c, k) ==
    /\ k.req = c.req
    /\ x # "pickExit" => k.picked = c.picked
    /\ x # "pickOwnExit" => k.own = c.own
    /\ x \notin {"readTransition", "readTouching", "readLeaving"} => k.seen = c.seen
    /\ c.owned \subseteq k.owned /\ (x = "requireDraft" => k.req.ver \in k.owned)
    /\ c.spared \subseteq k.spared /\ (x = "readSiblings" => k.req.ver \in k.spared)

LEMMA FactsLearnt ==
    ASSUME NEW P, NEW R, NEW x, NEW c, NEW k, NEW g, R \subseteq P, P \subseteq R \cup {x}, FactsOf(P, c, g),
           Learns(x, c, k), Learnt(x, R, k, g)
    PROVE  FactsOf(R, k, g)
  <1>1. R \cap {"newEdge", "connectFrom"} # {} /\ "readFrom" \notin R => k.req.from \in g.nodes
    BY DEF FactsOf, Learns, Learnt
  <1>2. R \cap {"newEdge", "connectFrom"} # {} /\ "pickExit" \notin R => <<k.req.from, k.picked>> \in g.exits
    BY DEF FactsOf, Learns, Learnt
  <1>3. R \cap {"newEdge", "connectTo", "changeEdge"} # {} /\ "readTo" \notin R => k.req.to \in g.nodes
    BY DEF FactsOf, Learns, Learnt
  <1>4. R \cap {"connectFrom", "connectTo", "newEdgeControlNode"} # {} /\ "insertActivity" \notin R => k.req.act \in g.nodes
    BY DEF FactsOf, Learns, Learnt
  <1>5. R \cap {"connectTo", "newEdgeControlNode"} # {} /\ "pickOwnExit" \notin R => <<k.req.act, k.own>> \in g.exits
    BY DEF FactsOf, Learns, Learnt
  <1>6. R \cap {"newEdgeControlNode", "changeEdge"} # {} /\ "readTransition" \notin R => k.seen \subseteq g.edges
    <2>1. CASE x \in {"readTransition", "readTouching", "readLeaving"}
      BY <2>1 DEF Learnt, FactsOf
    <2>2. CASE x \notin {"readTransition", "readTouching", "readLeaving"}
      BY <2>2 DEF FactsOf, Learns
    <2> QED BY <2>1, <2>2
  <1>7. "deleteNode" \in R /\ "readTouching" \notin R => k.seen = {e \in g.edges : k.req.act \in {e.from, e.to}}
    <2>1. CASE x \in {"readTransition", "readTouching", "readLeaving"}
      BY <2>1 DEF Learnt, FactsOf
    <2>2. CASE x \notin {"readTransition", "readTouching", "readLeaving"}
      BY <2>2 DEF FactsOf, Learns
    <2> QED BY <2>1, <2>2
  <1>8. "deleteExit" \in R /\ "readLeaving" \notin R
            => {e \in g.edges : e.from = k.req.act /\ e.exit = k.req.exit} \subseteq k.seen
    <2>1. CASE x \in {"readTransition", "readTouching", "readLeaving"}
      BY <2>1 DEF Learnt, FactsOf
    <2>2. CASE x \notin {"readTransition", "readTouching", "readLeaving"}
      BY <2>2 DEF FactsOf, Learns
    <2> QED BY <2>1, <2>2
  <1> QED BY <1>1, <1>2, <1>3, <1>4, <1>5, <1>6, <1>7, <1>8 DEF FactsOf

LEMMA KnowsLearnt ==
    ASSUME NEW u, NEW P, NEW R, NEW x, NEW c, NEW k, R \subseteq P, P \subseteq R \cup {x}, Knows(P, u, c),
           Learns(x, c, k), Free(u, c.req.ver) => Learnt(x, R, k, graph[c.req.ver]),
           x = "requireDraft" => HeldBy(u, c.req.ver),
           x = "readSiblings" => Siblings(c.req.ver) # {}, x # "initializeWorkflow",
           "deleteExit" \in R /\ "deleteLeaving" \notin R => k.seen = {} /\ "readLeaving" \notin R
    PROVE  Knows(R, u, k)
  <1>1. Prepared(R, k)
    BY DEF Prepared, Knows, Learns
  <1>2. ASSUME Free(u, k.req.ver) PROVE FactsOf(R, k, graph[k.req.ver])
    BY <1>2, FactsLearnt DEF Knows, Learns
  <1>3. Checked(R, u, k.req.ver)
    BY DEF Checked, Knows, Learns, HeldBy
  <1>4. Accompanied(R, u, k.req.ver)
    BY DEF Accompanied, Knows, Learns
  <1>5. Drawing(R, k.req.ver, k.req.wf)
    BY DEF Drawing, Knows, Learns
  <1> QED BY <1>1, <1>2, <1>3, <1>4, <1>5 DEF Knows

(* Steps that others rely on.                                               *)
Telling == {"requireDraft", "readSiblings", "readFrom", "pickExit", "readTo", "insertActivity", "pickOwnExit",
            "readTransition", "readTouching", "readLeaving", "deleteLeaving", "initializeWorkflow"}

LEMMA KnowsLess ==
    ASSUME NEW u, NEW P, NEW R, NEW x, NEW c, R \subseteq P, P \subseteq R \cup {x}, Knows(P, u, c), x \notin Telling
    PROVE  Knows(R, u, c)
  <1>1. Learns(x, c, c) /\ Learnt(x, R, c, graph[c.req.ver])
    BY DEF Learns, Learnt, Telling
  <1>2. "deleteExit" \in R /\ "deleteLeaving" \notin R => c.seen = {} /\ "readLeaving" \notin R
    BY DEF Knows, Prepared, Telling
  <1> QED BY <1>1, <1>2, KnowsLearnt DEF Telling

LEMMA Unmoved ==
    ASSUME UNCHANGED Instance, NEW u, NEW v
    PROVE  Kept(u, v)
  BY DEF Instance, Kept, Free, HeldBy, Siblings, Exists

(****************************************************************************)
(* Steps that read                                                          *)
(****************************************************************************)
LEMMA OwnReads ==
    ASSUME NEW u \in Users, NEW x, CallInv(u), call \in [Users -> Call], UNCHANGED Instance, At(u, x), x # "rethrow",
           NEW k \in Call, TypedCall(k), k.req.op = call[u].req.op, k.req \in Request, k.result = "none",
           k.spoilt = call[u].spoilt,
           Touched(k) => Touched(call[u]) \/ (Rank(x) >= 1 /\ x \notin {"findings", "noteFindings"}),
           x = "verifyRemoved" /\ "rethrow" \in In(call[u].todo) => ~Touched(k),
           NEW R, R = In(Tail(call[u].todo)), Knows(R, u, k), Go(u, k)
    PROVE  OwnMoves(u)
  <1>1. Knows(R, u, k)'
    BY Unmoved, KnowsKept
  <1>2. TypedCall(k)'
    BY DEF TypedCall, Edges, Instance
  <1> QED BY <1>1, <1>2, OwnGoes

LEMMA OwnThrows ==
    ASSUME NEW u \in Users, NEW x \in Results, CallInv(u), call \in [Users -> Call], Edges \subseteq Edges',
           call[u].todo # <<>>, Throw(u, x)
    PROVE  OwnMoves(u)
  <1>1. PICK c \in Call : c = call[u]
    OBVIOUS
  <1>2. TypedCall(c)' /\ c.req \in Request /\ c.result = "none"
    BY <1>1 DEF CallInv, TypedCall
  <1>3. Stopped(u, c, x)
    BY <1>1 DEF Throw
  <1> QED BY <1>1, <1>2, <1>3, OwnStops

(* A check on which nothing relies.                                         *)
LEMMA OwnChecks ==
    ASSUME NEW u \in Users, NEW x, CallInv(u), call \in [Users -> Call], UNCHANGED Instance, At(u, x),
           x \notin Telling \cup {"rethrow", "verifyRemoved"}, Go(u, call[u])
    PROVE  OwnMoves(u)
  <1>1. PICK c \in Call : c = call[u]
    OBVIOUS
  <1>2. PICK R : R = In(Tail(c.todo))
    OBVIOUS
  <1>3. TypedCall(c) /\ Shaped(c) /\ c.todo # <<>> /\ Head(c.todo) = x /\ Knows(In(c.todo), u, c)
    BY <1>1 DEF CallInv, At, Informed
  <1>4. R \subseteq In(c.todo) /\ In(c.todo) \subseteq R \cup {x}
    BY <1>1, <1>2, <1>3, StepsLeft
  <1>5. Knows(R, u, c)
    BY <1>3, <1>4, KnowsLess
  <1>6. c.req \in Request /\ c.result = "none" /\ Go(u, c)
    BY <1>1, <1>3 DEF TypedCall
  <1> QED BY <1>1, <1>2, <1>3, <1>5, <1>6, OwnReads

LEMMA OwnLearns ==
    ASSUME NEW u \in Users, NEW x, CallInv(u), call \in [Users -> Call], UNCHANGED Instance, At(u, x),
           x \notin {"rethrow", "verifyRemoved", "initializeWorkflow"}, NEW c, c = call[u], NEW k \in Call, Learns(x, c, k), k.wrote = c.wrote,
           k.spoilt = c.spoilt, k.result = c.result,
           k.seen \subseteq IF c.req.op = "deleteWorkflow" THEN Readings ELSE Edges,
           NEW R, R = In(Tail(c.todo)), Free(u, c.req.ver) => Learnt(x, R, k, graph[c.req.ver]),
           x = "requireDraft" => HeldBy(u, c.req.ver),
           x = "readSiblings" => Siblings(c.req.ver) # {},
           "deleteExit" \in R /\ "deleteLeaving" \notin R => k.seen = {} /\ "readLeaving" \notin R,
           Go(u, k)
    PROVE  OwnMoves(u)
  <1>1. c \in Call /\ TypedCall(c) /\ Shaped(c) /\ c.todo # <<>> /\ Head(c.todo) = x /\ Knows(In(c.todo), u, c)
    BY DEF CallInv, At, Informed
  <1>2. R \subseteq In(c.todo) /\ In(c.todo) \subseteq R \cup {x}
    BY <1>1, StepsLeft
  <1>3. Knows(R, u, k)
    <2>1. PICK P : P = In(c.todo)
      OBVIOUS
    <2>2. R \subseteq P /\ P \subseteq R \cup {x} /\ Knows(P, u, c) /\ x # "initializeWorkflow"
      BY <1>1, <1>2, <2>1
    <2> QED BY ONLY <2>2, Learns(x, c, k), Free(u, c.req.ver) => Learnt(x, R, k, graph[c.req.ver]),
               x = "requireDraft" => HeldBy(u, c.req.ver), x = "readSiblings" => Siblings(c.req.ver) # {},
               "deleteExit" \in R /\ "deleteLeaving" \notin R => k.seen = {} /\ "readLeaving" \notin R, KnowsLearnt
  <1>4. TypedCall(k) /\ k.req \in Request /\ k.result = "none" /\ k.req.op = c.req.op
    BY <1>1 DEF TypedCall, Learns
  <1>5. Touched(k) => Touched(c)
    BY DEF Touched, Learns
  <1> QED BY <1>3, <1>4, <1>5, OwnReads

(* What the reads are followed by.                                          *)
LEMMA AfterReads ==
    ASSUME NEW c \in Call, Shaped(c), NEW u, Knows(In(c.todo), u, c), c.todo # <<>>, NEW x, x = Head(c.todo),
           NEW R, R = In(Tail(c.todo))
    PROVE  /\ x \notin {"readLeaving", "deleteLeaving"} /\ "deleteExit" \in R /\ "deleteLeaving" \notin R
                => c.seen = {} /\ "readLeaving" \notin R
           /\ x = "deleteLeaving" => "readLeaving" \notin R
           /\ x = "readLeaving" /\ "deleteExit" \in R => "deleteLeaving" \in R
           /\ x = "readTransition" => R \cap {"deleteNode", "deleteExit"} = {}
           /\ x = "readTouching" => R \cap {"newEdgeControlNode", "changeEdge", "deleteExit"} = {}
           /\ x = "readLeaving" => R \cap {"newEdgeControlNode", "changeEdge", "deleteNode"} = {}
           /\ x \in {"readTransition", "readTouching", "readLeaving", "readJoined", "pickExit", "pickOwnExit"}
                => c.req.op # "deleteWorkflow"
           /\ x = "readVersions" => c.req.op = "deleteWorkflow" /\ R \cap (Guarded \cup Placed) = {}
  <1>1. /\ R \subseteq In(c.todo) /\ In(c.todo) \subseteq R \cup {x} /\ x \in In(c.todo) /\ (x # "touch" => x \notin R)
        /\ \A y \in R : Rank(x) <= Rank(y)
        /\ R \subseteq Family(c) /\ x \in Family(c)
    BY ONLY c \in Call, Shaped(c), c.todo # <<>>, x = Head(c.todo), R = In(Tail(c.todo)), StepsLeft
  <1>2. "deleteExit" \in In(c.todo) /\ "deleteLeaving" \notin In(c.todo) => c.seen = {} /\ "readLeaving" \notin In(c.todo)
    BY DEF Knows, Prepared
  <1>3. x \notin {"readLeaving", "deleteLeaving"} /\ "deleteExit" \in R /\ "deleteLeaving" \notin R
            => c.seen = {} /\ "readLeaving" \notin R
    BY <1>1, <1>2
  <1>4. x = "deleteLeaving" => "readLeaving" \notin R
    <2>1. Rank("deleteLeaving") = 7 /\ Rank("readLeaving") = 0
      BY DEF Rank, Reads
    <2> QED BY <1>1, <2>1
  <1>5. x = "readLeaving" /\ "deleteExit" \in R => "deleteLeaving" \in R
    BY <1>1, <1>2
  <1>6. "rethrow" \in In(c.todo) => In(c.todo) \subseteq Cleanup
    BY <1>1 DEF Family
  <1>7. "rethrow" \notin In(c.todo) => In(c.todo) \subseteq StepsOf(c.req.op)
    BY <1>1 DEF Family
  <1>8. x = "readTransition" => R \cap {"deleteNode", "deleteExit"} = {}
    BY <1>1, <1>6, <1>7 DEF StepsOf, Cleanup, Wiring
  <1>9. x = "readTouching" => R \cap {"newEdgeControlNode", "changeEdge", "deleteExit"} = {}
    BY <1>1, <1>6, <1>7 DEF StepsOf, Cleanup, Wiring
  <1>10. x = "readLeaving" => R \cap {"newEdgeControlNode", "changeEdge", "deleteNode"} = {}
    BY <1>1, <1>6, <1>7 DEF StepsOf, Cleanup, Wiring
  <1>11. ASSUME x \in {"readTransition", "readTouching", "readLeaving", "readJoined", "pickExit", "pickOwnExit"},
                c.req.op = "deleteWorkflow"
         PROVE  FALSE
    <2>1. "rethrow" \in In(c.todo) => c.req.op = "addActivity"
      BY DEF Shaped
    <2> QED BY <2>1, <1>1, <1>7, <1>11 DEF StepsOf
  <1>12. x = "readVersions" => c.req.op = "deleteWorkflow" /\ R \cap (Guarded \cup Placed) = {}
    BY <1>1, <1>6, <1>7 DEF StepsOf, Cleanup, Wiring, Guarded, Placed
  <1> QED BY <1>3, <1>4, <1>5, <1>8, <1>9, <1>10, <1>11, <1>12

(* A check that holds, as the steps rely on it.                             *)
LEMMA OwnPasses ==
    ASSUME NEW u \in Users, NEW x, CallInv(u), call \in [Users -> Call], UNCHANGED Instance, At(u, x), Go(u, call[u]),
           x \notin {"rethrow", "verifyRemoved", "pickExit", "pickOwnExit", "insertActivity", "readTransition", "readTouching",
                     "readLeaving", "deleteLeaving", "requireDraft", "readSiblings", "initializeWorkflow"},
           NEW r, r = call[u].req,
           x = "readFrom" => r.from \in graph[r.ver].nodes,
           x = "readTo" => r.to \in graph[r.ver].nodes
    PROVE  OwnMoves(u)
  <1>1. PICK c \in Call : c = call[u]
    OBVIOUS
  <1>2. PICK R : R = In(Tail(c.todo))
    OBVIOUS
  <1>3. TypedCall(c) /\ Shaped(c) /\ c.todo # <<>> /\ Head(c.todo) = x /\ Knows(In(c.todo), u, c)
    BY <1>1 DEF CallInv, At, Informed
  <1>4. "deleteExit" \in R /\ "deleteLeaving" \notin R => c.seen = {} /\ "readLeaving" \notin R
    BY <1>2, <1>3, AfterReads
  <1>5. Learns(x, c, c) /\ Learnt(x, R, c, graph[c.req.ver])
    BY <1>1 DEF Learns, Learnt
  <1>6. Go(u, c)
    BY <1>1
  <1>7. c.seen \subseteq IF c.req.op = "deleteWorkflow" THEN Readings ELSE Edges
    BY <1>3 DEF TypedCall
  <1> QED BY <1>1, <1>2, <1>4, <1>5, <1>6, <1>7, OwnLearns

LEMMA OwnRefuses ==
    ASSUME NEW u \in Users, NEW y \in Results, CallInv(u), call \in [Users -> Call], UNCHANGED Instance, call[u].todo # <<>>,
           Throw(u, y)
    PROVE  OwnMoves(u)
  <1>1. Edges' = Edges
    BY DEF Edges, Instance
  <1> QED BY <1>1, OwnThrows

(* A check is passed, or the call throws.                                   *)
LEMMA CheckCases ==
    ASSUME NEW u \in Users, NEW x, CallInv(u), call \in [Users -> Call], NEW holds, Check(u, x, holds)
    PROVE  /\ UNCHANGED <<Instance, calls>> /\ UNCHANGED Instance /\ At(u, x) /\ call[u].todo # <<>>
           /\ (holds /\ Go(u, call[u])) \/ OwnMoves(u)
  <1>1. UNCHANGED <<Instance, calls>> /\ UNCHANGED Instance /\ At(u, x) /\ call[u].todo # <<>>
    BY DEF Check, At
  <1>2. CASE holds
    BY <1>1, <1>2 DEF Check
  <1>3. CASE ~holds
    BY <1>1, <1>3, OwnRefuses DEF Check, Results
  <1> QED BY <1>1, <1>2, <1>3

LEMMA requireDraftMoves ==
    ASSUME NEW u \in Users, CallInv(u), call \in [Users -> Call], requireDraft(u, call[u].req)
    PROVE  OwnMoves(u) /\ UNCHANGED <<Instance, calls>>
  <1>1. PICK c \in Call : c = call[u]
    OBVIOUS
  <1>2. PICK v : v = c.req.ver
    OBVIOUS
  <1>3. /\ UNCHANGED <<Instance, calls>> /\ UNCHANGED Instance /\ At(u, "requireDraft") /\ call[u].todo # <<>>
        /\ Throw(u, "refused") \/ (HeldBy(u, v) /\ Go(u, [call[u] EXCEPT !.owned = @ \cup {v}]))
    BY <1>1, <1>2 DEF requireDraft, At
  <1>4. CASE Throw(u, "refused")
    BY <1>3, <1>4, OwnRefuses DEF Results
  <1>5. CASE HeldBy(u, v) /\ Go(u, [call[u] EXCEPT !.owned = @ \cup {v}])
    <2>1. PICK k : k = [c EXCEPT !.owned = @ \cup {v}]
      OBVIOUS
    <2>2. PICK R : R = In(Tail(c.todo))
      OBVIOUS
    <2>3. TypedCall(c) /\ Shaped(c) /\ c.todo # <<>> /\ Head(c.todo) = "requireDraft" /\ Knows(In(c.todo), u, c)
      BY <1>1, <1>3 DEF CallInv, At, Informed
    <2>4. "deleteExit" \in R /\ "deleteLeaving" \notin R => c.seen = {} /\ "readLeaving" \notin R
      BY <2>2, <2>3, AfterReads
    <2>5. v \in Versions
      BY <1>2, <2>3 DEF TypedCall, Request
    <2>6. /\ k \in Call /\ k.req = c.req /\ k.picked = c.picked /\ k.own = c.own /\ k.wrote = c.wrote /\ k.spoilt = c.spoilt
          /\ k.result = c.result /\ k.seen = c.seen /\ v \in k.owned /\ c.owned \subseteq k.owned /\ c.spared \subseteq k.spared
      BY <2>1, <2>5 DEF Call
    <2>7. Learns("requireDraft", c, k) /\ Learnt("requireDraft", R, k, graph[c.req.ver])
      BY <1>2, <2>6 DEF Learns, Learnt
    <2>8. Go(u, k)
      BY <1>1, <1>5, <2>1
    <2>9. c.seen \subseteq IF c.req.op = "deleteWorkflow" THEN Readings ELSE Edges
      BY <2>3 DEF TypedCall
    <2>10. HeldBy(u, c.req.ver)
      BY <1>2, <1>5
    <2> QED BY <1>1, <1>3, <2>2, <2>4, <2>6, <2>7, <2>8, <2>9, <2>10, OwnLearns
  <1> QED BY <1>3, <1>4, <1>5

LEMMA readActivityMoves ==
    ASSUME NEW u \in Users, CallInv(u), call \in [Users -> Call], readActivity(u, call[u].req)
    PROVE  OwnMoves(u) /\ UNCHANGED <<Instance, calls>>
  <1>1. PICK r : r = call[u].req
    OBVIOUS
  <1>2. CASE Check(u, "readActivity", r.act \in graph[r.ver].nodes)
    <2>1. /\ UNCHANGED <<Instance, calls>> /\ UNCHANGED Instance /\ At(u, "readActivity") /\ call[u].todo # <<>>
          /\ (r.act \in graph[r.ver].nodes /\ Go(u, call[u])) \/ OwnMoves(u)
      BY <1>2, CheckCases
    <2> QED BY <1>1, <2>1, OwnPasses
  <1>3. CASE Check(u, "readFrom", r.from \in graph[r.ver].nodes)
    <2>1. /\ UNCHANGED <<Instance, calls>> /\ UNCHANGED Instance /\ At(u, "readFrom") /\ call[u].todo # <<>>
          /\ (r.from \in graph[r.ver].nodes /\ Go(u, call[u])) \/ OwnMoves(u)
      BY <1>3, CheckCases
    <2> QED BY <1>1, <2>1, OwnPasses
  <1>4. CASE Check(u, "readTo", r.to \in graph[r.ver].nodes)
    <2>1. /\ UNCHANGED <<Instance, calls>> /\ UNCHANGED Instance /\ At(u, "readTo") /\ call[u].todo # <<>>
          /\ (r.to \in graph[r.ver].nodes /\ Go(u, call[u])) \/ OwnMoves(u)
      BY <1>4, CheckCases
    <2> QED BY <1>1, <2>1, OwnPasses
  <1> QED BY <1>1, <1>2, <1>3, <1>4 DEF readActivity

LEMMA readSiblingsMoves ==
    ASSUME NEW u \in Users, CallInv(u), call \in [Users -> Call], readSiblings(u, call[u].req)
    PROVE  OwnMoves(u) /\ UNCHANGED <<Instance, calls>>
  <1>1. PICK c \in Call : c = call[u]
    OBVIOUS
  <1>2. PICK v : v = c.req.ver
    OBVIOUS
  <1>3. /\ UNCHANGED <<Instance, calls>> /\ UNCHANGED Instance /\ At(u, "readSiblings") /\ call[u].todo # <<>>
        /\ Throw(u, "refused") \/ (Siblings(v) # {} /\ Go(u, [call[u] EXCEPT !.spared = @ \cup {v}]))
    BY <1>1, <1>2 DEF readSiblings, At, OfWorkflow, Siblings
  <1>4. CASE Throw(u, "refused")
    BY <1>3, <1>4, OwnRefuses DEF Results
  <1>5. CASE Siblings(v) # {} /\ Go(u, [call[u] EXCEPT !.spared = @ \cup {v}])
    <2>1. PICK k : k = [c EXCEPT !.spared = @ \cup {v}]
      OBVIOUS
    <2>2. PICK R : R = In(Tail(c.todo))
      OBVIOUS
    <2>3. TypedCall(c) /\ Shaped(c) /\ c.todo # <<>> /\ Head(c.todo) = "readSiblings" /\ Knows(In(c.todo), u, c)
      BY <1>1, <1>3 DEF CallInv, At, Informed
    <2>4. "deleteExit" \in R /\ "deleteLeaving" \notin R => c.seen = {} /\ "readLeaving" \notin R
      BY <2>2, <2>3, AfterReads
    <2>5. v \in Versions
      BY <1>2, <2>3 DEF TypedCall, Request
    <2>6. /\ k \in Call /\ k.req = c.req /\ k.picked = c.picked /\ k.own = c.own /\ k.wrote = c.wrote /\ k.spoilt = c.spoilt
          /\ k.result = c.result /\ k.seen = c.seen /\ v \in k.spared /\ c.owned \subseteq k.owned /\ c.spared \subseteq k.spared
      BY <2>1, <2>5 DEF Call
    <2>7. Learns("readSiblings", c, k) /\ Learnt("readSiblings", R, k, graph[c.req.ver])
      BY <1>2, <2>6 DEF Learns, Learnt
    <2>8. Go(u, k)
      BY <1>1, <1>5, <2>1
    <2>9. c.seen \subseteq IF c.req.op = "deleteWorkflow" THEN Readings ELSE Edges
      BY <2>3 DEF TypedCall
    <2>10. Siblings(c.req.ver) # {}
      BY <1>2, <1>5
    <2>11. PICK x : x = "readSiblings"
      OBVIOUS
    <2>12. /\ x \notin {"rethrow", "verifyRemoved", "initializeWorkflow"} /\ x # "requireDraft"
           /\ At(u, x) /\ Learns(x, c, k) /\ Learnt(x, R, k, graph[c.req.ver])
      BY <1>3, <2>7, <2>11
    <2> QED BY <1>1, <1>3, <2>2, <2>4, <2>6, <2>8, <2>9, <2>10, <2>12, OwnLearns
  <1> QED BY <1>3, <1>4, <1>5

(* Checks of what no later step relies on.                                  *)
LEMMA OtherChecksMove ==
    ASSUME NEW u \in Users, CallInv(u), call \in [Users -> Call], NEW holds, NEW x, Check(u, x, holds),
           x \in {"readCondition", "resolveDefinition", "resolveStage", "checkDuplicate", "checkName", "requireStart",
                  "findEnds", "resolveWorkflow"}
    PROVE  OwnMoves(u) /\ UNCHANGED <<Instance, calls>>
  <1>1. PICK r : r = call[u].req
    OBVIOUS
  <1>2. /\ UNCHANGED <<Instance, calls>> /\ UNCHANGED Instance /\ At(u, x) /\ call[u].todo # <<>>
        /\ (holds /\ Go(u, call[u])) \/ OwnMoves(u)
    BY CheckCases
  <1> QED BY <1>1, <1>2, OwnPasses

(* The least exit is an exit.                                               *)
LEMMA LeastExit ==
    ASSUME NEW S \in SUBSET Exits, S # {}
    PROVE  Min(S) \in S
  <1>1. S \in SUBSET Nat
    BY RequestsAssumption
  <1>2. \E n \in S : \A m \in S : n <= m
    BY <1>1, LeastElement
  <1> QED BY <1>1, <1>2 DEF Min

LEMMA PickedExit ==
    ASSUME NEW S \in SUBSET Exits, NEW ref, NEW first, NEW exit, exit = Picked(S, ref, first), exit # NoExit
    PROVE  exit \in S
  BY LeastExit DEF Picked

LEMMA readTransitionMoves ==
    ASSUME NEW u \in Users, InstanceInv, CallInv(u), call \in [Users -> Call], readTransition(u, call[u].req)
    PROVE  OwnMoves(u) /\ UNCHANGED <<Instance, calls>>
  <1>1. PICK c \in Call : c = call[u]
    OBVIOUS
  <1>2. PICK S : S = EdgeWith(c.req.ver, c.req.edge)
    OBVIOUS
  <1>3. /\ UNCHANGED <<Instance, calls>> /\ UNCHANGED Instance /\ At(u, "readTransition") /\ call[u].todo # <<>>
        /\ IF S = {} THEN Throw(u, "refused") ELSE Go(u, [call[u] EXCEPT !.seen = S])
    BY <1>1, <1>2 DEF readTransition, At
  <1>4. CASE S = {}
    BY <1>3, <1>4, OwnRefuses DEF Results
  <1>5. CASE S # {}
    <2>1. PICK k : k = [c EXCEPT !.seen = S]
      OBVIOUS
    <2>2. PICK R : R = In(Tail(c.todo))
      OBVIOUS
    <2>3. TypedCall(c) /\ Shaped(c) /\ c.todo # <<>> /\ Head(c.todo) = "readTransition" /\ Knows(In(c.todo), u, c)
      BY <1>1, <1>3 DEF CallInv, At, Informed
    <2>4. /\ c.req.op # "deleteWorkflow" /\ R \cap {"deleteNode", "deleteExit"} = {}
          /\ "deleteExit" \in R /\ "deleteLeaving" \notin R => FALSE
      BY <2>2, <2>3, AfterReads
    <2>5. c.req \in Request /\ c.req.ver \in Versions
      BY <2>3 DEF TypedCall, Request
    <2>6. S \subseteq graph[c.req.ver].edges /\ S \subseteq Edges
      BY <1>2, <2>5 DEF EdgeWith, InstanceInv, Graph
    <2>7. Edges \subseteq AnyEdge
      BY DEF Edges, AnyEdge, InstanceInv
    <2>8. /\ k \in Call /\ k.req = c.req /\ k.picked = c.picked /\ k.own = c.own /\ k.wrote = c.wrote /\ k.spoilt = c.spoilt
          /\ k.result = c.result /\ k.seen = S /\ k.owned = c.owned /\ k.spared = c.spared
      BY <2>1, <2>6, <2>7 DEF Call
    <2>9. Learns("readTransition", c, k) /\ Learnt("readTransition", R, k, graph[c.req.ver])
      BY <2>4, <2>6, <2>8 DEF Learns, Learnt
    <2>10. Go(u, k)
      BY <1>1, <1>3, <1>5, <2>1
    <2> QED BY <1>1, <1>3, <2>2, <2>4, <2>6, <2>8, <2>9, <2>10, OwnLearns
  <1> QED BY <1>3, <1>4, <1>5

LEMMA readTouchingMoves ==
    ASSUME NEW u \in Users, InstanceInv, CallInv(u), call \in [Users -> Call], readTouching(u, call[u].req)
    PROVE  OwnMoves(u) /\ UNCHANGED <<Instance, calls>>
  <1>1. PICK c \in Call : c = call[u]
    OBVIOUS
  <1>2. PICK S : S = {e \in graph[c.req.ver].edges : c.req.act \in {e.from, e.to}}
    OBVIOUS
  <1>3. /\ UNCHANGED <<Instance, calls>> /\ UNCHANGED Instance /\ At(u, "readTouching") /\ call[u].todo # <<>>
        /\ Throw(u, "refused") \/ Go(u, [call[u] EXCEPT !.seen = S])
    BY <1>1, <1>2 DEF readTouching, At
  <1>4. CASE Throw(u, "refused")
    BY <1>3, <1>4, OwnRefuses DEF Results
  <1>5. CASE Go(u, [call[u] EXCEPT !.seen = S])
    <2>1. PICK k : k = [c EXCEPT !.seen = S]
      OBVIOUS
    <2>2. PICK R : R = In(Tail(c.todo))
      OBVIOUS
    <2>3. TypedCall(c) /\ Shaped(c) /\ c.todo # <<>> /\ Head(c.todo) = "readTouching" /\ Knows(In(c.todo), u, c)
      BY <1>1, <1>3 DEF CallInv, At, Informed
    <2>4. c.req.op # "deleteWorkflow" /\ R \cap {"newEdgeControlNode", "changeEdge", "deleteExit"} = {}
      BY <2>2, <2>3, AfterReads
    <2>5. c.req \in Request /\ c.req.ver \in Versions
      BY <2>3 DEF TypedCall, Request
    <2>6. S \subseteq Edges
      BY <1>2, <2>5 DEF InstanceInv, Graph
    <2>7. Edges \subseteq AnyEdge
      BY DEF Edges, AnyEdge, InstanceInv
    <2>8. /\ k \in Call /\ k.req = c.req /\ k.picked = c.picked /\ k.own = c.own /\ k.wrote = c.wrote /\ k.spoilt = c.spoilt
          /\ k.result = c.result /\ k.seen = S /\ k.owned = c.owned /\ k.spared = c.spared
      BY <2>1, <2>6, <2>7 DEF Call
    <2>9. Learns("readTouching", c, k) /\ Learnt("readTouching", R, k, graph[c.req.ver])
      BY <1>2, <2>4, <2>8 DEF Learns, Learnt
    <2>10. Go(u, k)
      BY <1>1, <1>5, <2>1
    <2> QED BY <1>1, <1>3, <2>2, <2>4, <2>6, <2>8, <2>9, <2>10, OwnLearns
  <1> QED BY <1>3, <1>4, <1>5

LEMMA readLeavingMoves ==
    ASSUME NEW u \in Users, InstanceInv, CallInv(u), call \in [Users -> Call], readLeaving(u, call[u].req)
    PROVE  OwnMoves(u) /\ UNCHANGED <<Instance, calls>>
  <1>1. PICK c \in Call : c = call[u]
    OBVIOUS
  <1>2. PICK S : S = {e \in graph[c.req.ver].edges : e.from = c.req.act /\ e.exit = c.req.exit}
    OBVIOUS
  <1>3. /\ UNCHANGED <<Instance, calls>> /\ UNCHANGED Instance /\ At(u, "readLeaving") /\ call[u].todo # <<>>
        /\ Go(u, [call[u] EXCEPT !.seen = S])
    BY <1>1, <1>2 DEF readLeaving, At
  <1>4. PICK k : k = [c EXCEPT !.seen = S]
    OBVIOUS
  <1>5. PICK R : R = In(Tail(c.todo))
    OBVIOUS
  <1>6. TypedCall(c) /\ Shaped(c) /\ c.todo # <<>> /\ Head(c.todo) = "readLeaving" /\ Knows(In(c.todo), u, c)
    BY <1>1, <1>3 DEF CallInv, At, Informed
  <1>7. /\ c.req.op # "deleteWorkflow" /\ R \cap {"newEdgeControlNode", "changeEdge", "deleteNode"} = {}
        /\ "deleteExit" \in R => "deleteLeaving" \in R
    BY <1>5, <1>6, AfterReads
  <1>8. c.req \in Request /\ c.req.ver \in Versions
    BY <1>6 DEF TypedCall, Request
  <1>9. S \subseteq Edges
    BY <1>2, <1>8 DEF InstanceInv, Graph
  <1>10. Edges \subseteq AnyEdge
    BY DEF Edges, AnyEdge, InstanceInv
  <1>11. /\ k \in Call /\ k.req = c.req /\ k.picked = c.picked /\ k.own = c.own /\ k.wrote = c.wrote /\ k.spoilt = c.spoilt
         /\ k.result = c.result /\ k.seen = S /\ k.owned = c.owned /\ k.spared = c.spared
    BY <1>4, <1>9, <1>10 DEF Call
  <1>12. Learns("readLeaving", c, k) /\ Learnt("readLeaving", R, k, graph[c.req.ver])
    BY <1>2, <1>7, <1>11 DEF Learns, Learnt
  <1>13. Go(u, k)
    BY <1>1, <1>3, <1>4
  <1> QED BY <1>1, <1>3, <1>5, <1>7, <1>9, <1>11, <1>12, <1>13, OwnLearns

LEMMA pickExitMoves ==
    ASSUME NEW u \in Users, InstanceInv, CallInv(u), call \in [Users -> Call], pickExit(u, call[u].req)
    PROVE  OwnMoves(u) /\ UNCHANGED <<Instance, calls>>
  <1>1. PICK c \in Call : c = call[u]
    OBVIOUS
  <1>2. PICK x : x = Picked(ExitsOf(c.req.ver, c.req.from), c.req.exit, FALSE)
    OBVIOUS
  <1>3. /\ UNCHANGED <<Instance, calls>> /\ UNCHANGED Instance /\ At(u, "pickExit") /\ call[u].todo # <<>>
        /\ IF x = NoExit THEN Throw(u, "refused") ELSE Go(u, [call[u] EXCEPT !.picked = x])
    BY <1>1, <1>2 DEF pickExit, At
  <1>4. CASE x = NoExit
    BY <1>3, <1>4, OwnRefuses DEF Results
  <1>5. CASE x # NoExit
    <2>1. PICK k : k = [c EXCEPT !.picked = x]
      OBVIOUS
    <2>2. PICK R : R = In(Tail(c.todo))
      OBVIOUS
    <2>3. TypedCall(c) /\ Shaped(c) /\ c.todo # <<>> /\ Head(c.todo) = "pickExit" /\ Knows(In(c.todo), u, c)
      BY <1>1, <1>3 DEF CallInv, At, Informed
    <2>4. "deleteExit" \in R /\ "deleteLeaving" \notin R => c.seen = {} /\ "readLeaving" \notin R
      BY <2>2, <2>3, AfterReads
    <2>5. x \in ExitsOf(c.req.ver, c.req.from)
      BY <1>2, <1>5, PickedExit DEF ExitsOf
    <2>6. x \in Exits /\ <<c.req.from, x>> \in graph[c.req.ver].exits
      BY <2>5 DEF ExitsOf
    <2>7. /\ k \in Call /\ k.req = c.req /\ k.picked = x /\ k.own = c.own /\ k.wrote = c.wrote /\ k.spoilt = c.spoilt
          /\ k.result = c.result /\ k.seen = c.seen /\ k.owned = c.owned /\ k.spared = c.spared
      BY <2>1, <2>6 DEF Call
    <2>8. Learns("pickExit", c, k) /\ Learnt("pickExit", R, k, graph[c.req.ver])
      BY <2>6, <2>7 DEF Learns, Learnt
    <2>9. Go(u, k)
      BY <1>1, <1>3, <1>5, <2>1
    <2>10. c.seen \subseteq IF c.req.op = "deleteWorkflow" THEN Readings ELSE Edges
      BY <2>3 DEF TypedCall
    <2> QED BY <1>1, <1>3, <2>2, <2>4, <2>7, <2>8, <2>9, <2>10, OwnLearns
  <1> QED BY <1>3, <1>4, <1>5

LEMMA readJoinedMoves ==
    ASSUME NEW u \in Users, InstanceInv, CallInv(u), call \in [Users -> Call], readJoined(u, call[u].req)
    PROVE  OwnMoves(u) /\ UNCHANGED <<Instance, calls>>
  <1>1. PICK c \in Call : c = call[u]
    OBVIOUS
  <1>2. PICK x \in BOOLEAN : x = \E p \in Joined(u, c.req) : Drawn(c.req.ver, p)
    OBVIOUS
  <1>3. /\ UNCHANGED <<Instance, calls>> /\ UNCHANGED Instance /\ At(u, "readJoined") /\ call[u].todo # <<>>
        /\ Throw(u, "refused") \/ Go(u, [call[u] EXCEPT !.drawn = x])
    BY <1>1, <1>2 DEF readJoined, At
  <1>4. CASE Throw(u, "refused")
    BY <1>3, <1>4, OwnRefuses DEF Results
  <1>5. CASE Go(u, [call[u] EXCEPT !.drawn = x])
    <2>1. PICK k : k = [c EXCEPT !.drawn = x]
      OBVIOUS
    <2>2. PICK R : R = In(Tail(c.todo))
      OBVIOUS
    <2>3. TypedCall(c) /\ Shaped(c) /\ c.todo # <<>> /\ Head(c.todo) = "readJoined" /\ Knows(In(c.todo), u, c)
      BY <1>1, <1>3 DEF CallInv, At, Informed
    <2>4. "deleteExit" \in R /\ "deleteLeaving" \notin R => c.seen = {} /\ "readLeaving" \notin R
      <3>1. PICK y : y = Head(c.todo)
        OBVIOUS
      <3>2. y \notin {"readLeaving", "deleteLeaving"}
        BY <2>3, <3>1
      <3> QED BY <2>2, <2>3, <3>1, <3>2, AfterReads
    <2>5. /\ k \in Call /\ k.req = c.req /\ k.picked = c.picked /\ k.own = c.own /\ k.wrote = c.wrote /\ k.spoilt = c.spoilt
          /\ k.result = c.result /\ k.seen = c.seen /\ k.owned = c.owned /\ k.spared = c.spared
      BY <2>1 DEF Call
    <2>6. Learns("readJoined", c, k) /\ Learnt("readJoined", R, k, graph[c.req.ver])
      BY <2>5 DEF Learns, Learnt
    <2>7. Go(u, k)
      BY <1>1, <1>5, <2>1
    <2>8. c.seen \subseteq IF c.req.op = "deleteWorkflow" THEN Readings ELSE Edges
      BY <2>3 DEF TypedCall
    <2> QED BY <1>1, <1>3, <2>2, <2>4, <2>5, <2>6, <2>7, <2>8, OwnLearns
  <1> QED BY <1>3, <1>4, <1>5

(* A call that is left with one step.                                       *)
LEMMA OwnTurnsTo ==
    ASSUME NEW u \in Users, call \in [Users -> Call], NEW k \in Call, TypedCall(k)', k.req \in Request, k.result = "none",
           NEW y \in Steps, y # "rethrow", y \in StepsOf(k.req.op), y \in LastOf(k.req.op),
           Touched(k) => y \notin Reads \cup {"findings", "publishValidated"},
           Knows({y}, u, k)', Follow(u, k, <<y>>)
    PROVE  OwnMoves(u)
  <1> DEFINE t == <<y>>
  <1>1. t \in Seq(Steps) /\ t # <<>> /\ Ordered(t) /\ In(t) = {y} /\ t[Len(t)] = y
    BY OneStep
  <1>2. Follow(u, k, t)
    OBVIOUS
  <1> HIDE DEF t
  <1>3. ASSUME NEW d \in Call, d.todo = t, d.req = k.req, d.wrote = k.wrote, d.spoilt = k.spoilt
        PROVE  Shaped(d) /\ Cautious(d)
    <2>1. Touched(d) = Touched(k)
      BY <1>3 DEF Touched
    <2> QED BY <1>1, <1>3, <2>1 DEF Shaped, Cautious, Family
  <1> QED BY <1>1, <1>2, <1>3, OwnTurns

LEMMA readVersionsMoves ==
    ASSUME NEW u \in Users, InstanceInv, CallInv(u), call \in [Users -> Call], readVersions(u, call[u].req)
    PROVE  OwnMoves(u) /\ UNCHANGED <<Instance, calls>>
  <1>1. PICK c \in Call : c = call[u]
    OBVIOUS
  <1>2. PICK S : S = {[ver |-> v, published |-> version[v].st = "published"] : v \in OfWorkflow(c.req.wf)}
    OBVIOUS
  <1>3. /\ UNCHANGED <<Instance, calls>> /\ UNCHANGED Instance /\ At(u, "readVersions") /\ call[u].todo # <<>>
        /\ Go(u, [call[u] EXCEPT !.seen = S])
    BY <1>1, <1>2 DEF readVersions, At
  <1>4. PICK k : k = [c EXCEPT !.seen = S]
    OBVIOUS
  <1>5. PICK R : R = In(Tail(c.todo))
    OBVIOUS
  <1>6. TypedCall(c) /\ Shaped(c) /\ c.todo # <<>> /\ Head(c.todo) = "readVersions" /\ Knows(In(c.todo), u, c)
    BY <1>1, <1>3 DEF CallInv, At, Informed
  <1>7. c.req.op = "deleteWorkflow" /\ R \cap (Guarded \cup Placed) = {}
    BY <1>5, <1>6, AfterReads
  <1>8. S \subseteq Readings
    <2>1. SUFFICES ASSUME NEW s \in S PROVE s \in Readings
      OBVIOUS
    <2>2. PICK v \in Versions : s = [ver |-> v, published |-> version[v].st = "published"]
      BY <1>2 DEF OfWorkflow
    <2>3. PICK b \in BOOLEAN : b = (version[v].st = "published")
      OBVIOUS
    <2> QED BY <2>2, <2>3 DEF Readings
  <1>9. /\ k \in Call /\ k.req = c.req /\ k.wrote = c.wrote /\ k.spoilt = c.spoilt /\ k.result = c.result /\ k.seen = S
    BY <1>4, <1>8 DEF Call
  <1>10. TypedCall(k)' /\ k.req \in Request /\ k.result = "none"
    BY <1>6, <1>7, <1>8, <1>9 DEF TypedCall
  <1>11. Go(u, k)
    BY <1>1, <1>3, <1>4
  <1>12. Knows(R, u, k)'
    BY <1>7, Quiet
  <1>13. Touched(k) = Touched(c)
    BY <1>9 DEF Touched
  <1> QED BY <1>1, <1>3, <1>5, <1>9, <1>10, <1>11, <1>12, <1>13, OwnGoes

LEMMA chooseCheckoutMoves ==
    ASSUME NEW u \in Users, InstanceInv, CallInv(u), call \in [Users -> Call], chooseCheckout(u, call[u].req)
    PROVE  OwnMoves(u) /\ UNCHANGED <<Instance, calls>>
  <1>1. PICK c \in Call : c = call[u]
    OBVIOUS
  <1>2. /\ UNCHANGED <<Instance, calls>> /\ UNCHANGED Instance /\ At(u, "chooseCheckout") /\ call[u].todo # <<>>
        /\ \/ Throw(u, "refused") \/ Go(u, c)
           \/ Follow(u, c, <<"forceCheckout">>)
           \/ \E p \in PublishedOf(c.req.wf) : Follow(u, [c EXCEPT !.req.ver = p], <<"takeCheckout">>)
    BY <1>1 DEF chooseCheckout, At
  <1>3. TypedCall(c) /\ Shaped(c) /\ Cautious(c) /\ c.todo # <<>> /\ Head(c.todo) = "chooseCheckout"
    BY <1>1, <1>2 DEF CallInv, At
  <1>4. c.req.op = "checkout" /\ c.req \in Request /\ c.result = "none"
    <2>1. "chooseCheckout" \in Family(c)
      BY <1>3, StepsLeft
    <2> QED BY <2>1, <1>3 DEF Family, StepsOf, Cleanup, Wiring, TypedCall
  <1>5. {"forceCheckout", "takeCheckout"} \subseteq StepsOf("checkout") /\ {"forceCheckout", "takeCheckout"} \subseteq Steps
    BY StepsOfSteps DEF StepsOf, Ops
  <1>6. LastOf("checkout") = Steps
    BY DEF LastOf
  <1>7. CASE Throw(u, "refused")
    BY <1>2, <1>7, OwnRefuses DEF Results
  <1>8. CASE Go(u, c)
    <2>1. PICK r : r = call[u].req
      OBVIOUS
    <2> QED BY <1>1, <1>2, <1>8, <2>1, OwnPasses
  <1>9. CASE Follow(u, c, <<"forceCheckout">>)
    <2>1. Knows({"forceCheckout"}, u, c)'
      BY Quiet DEF Guarded, Placed
    <2>2. TypedCall(c)'
      BY <1>2, <1>3 DEF TypedCall, Edges, Instance
    <2>3. "forceCheckout" \notin Reads \cup {"findings", "publishValidated"}
      BY DEF Reads
    <2> QED BY <1>2, <1>3, <1>4, <1>5, <1>6, <1>9, <2>1, <2>2, <2>3, OwnTurnsTo
  <1>10. ASSUME NEW p \in PublishedOf(c.req.wf), Follow(u, [c EXCEPT !.req.ver = p], <<"takeCheckout">>)
         PROVE  OwnMoves(u)
    <2>1. p \in Versions /\ version[p].st = "published" /\ version[p].wf = c.req.wf
      BY DEF PublishedOf, OfWorkflow
    <2>2. PICK q : q = [c.req EXCEPT !.ver = p]
      OBVIOUS
    <2>3. q \in Request /\ q.op = "checkout" /\ q.ver = p /\ q.wf = c.req.wf
      BY <1>4, <2>1, <2>2 DEF Request
    <2>4. PICK k : k = [c EXCEPT !.req = q]
      OBVIOUS
    <2>5. /\ k \in Call /\ k.req = q /\ k.wrote = c.wrote /\ k.spoilt = c.spoilt /\ k.result = c.result /\ k.seen = c.seen
      BY <2>3, <2>4 DEF Call
    <2>6. Follow(u, k, <<"takeCheckout">>)
      BY <1>10, <2>2, <2>4
    <2>7. TypedCall(k)'
      BY <1>2, <1>3, <1>4, <2>3, <2>5 DEF TypedCall, Edges, Instance
    <2>8. Knows({"takeCheckout"}, u, k)
      <3>1. Drawing({"takeCheckout"}, k.req.ver, k.req.wf)
        BY <2>1, <2>3, <2>5 DEF Drawing
      <3> QED BY <3>1 DEF Knows, Prepared, FactsOf, Checked, Accompanied, Guarded
    <2>9. Knows({"takeCheckout"}, u, k)'
      BY <1>2, <2>8, Unmoved, KnowsKept
    <2>10. "takeCheckout" \notin Reads \cup {"findings", "publishValidated"}
      BY DEF Reads
    <2> QED BY <1>4, <1>5, <1>6, <2>3, <2>5, <2>6, <2>7, <2>9, <2>10, OwnTurnsTo
  <1> QED BY <1>2, <1>7, <1>8, <1>9, <1>10

LEMMA findingsMove ==
    ASSUME NEW u \in Users, InstanceInv, CallInv(u), call \in [Users -> Call], findings(u, call[u].req)
    PROVE  OwnMoves(u) /\ UNCHANGED <<Instance, calls>>
  <1>1. CASE At(u, "findings") /\ Throw(u, "findings") /\ UNCHANGED <<Instance, calls>>
    <2>1. UNCHANGED Instance /\ call[u].todo # <<>>
      BY <1>1 DEF At
    <2> QED BY <1>1, <2>1, OwnRefuses DEF Results
  <1>2. CASE At(u, "noteFindings") /\ Go(u, call[u]) /\ UNCHANGED <<Instance, calls>>
    <2>1. PICK r : r = call[u].req
      OBVIOUS
    <2>2. UNCHANGED Instance
      BY <1>2
    <2> QED BY <1>2, <2>1, <2>2, OwnPasses
  <1> QED BY <1>1, <1>2 DEF findings

LEMMA rethrowMoves ==
    ASSUME NEW u \in Users, call \in [Users -> Call], rethrow(u, call[u].req)
    PROVE  OwnMoves(u) /\ UNCHANGED <<Instance, calls>>
  BY OwnEnds DEF rethrow, Results

LEMMA verifyMoves ==
    ASSUME NEW u \in Users, InstanceInv, CallInv(u), call \in [Users -> Call], verify(u, call[u].req)
    PROVE  OwnMoves(u) /\ UNCHANGED <<Instance, calls>>
  <1>1. ASSUME NEW x, x \in {"verifyDeleted", "verifyWorkflowGone", "verifyInitialized", "readPublished"}, NEW done,
               Verify(u, x, done)
        PROVE  OwnMoves(u) /\ UNCHANGED <<Instance, calls>>
    <2>1. /\ UNCHANGED <<Instance, calls>> /\ UNCHANGED Instance /\ At(u, x) /\ call[u].todo # <<>>
          /\ Go(u, call[u]) \/ Throw(u, "failed")
      BY <1>1 DEF Verify, At
    <2>2. PICK r : r = call[u].req
      OBVIOUS
    <2>3. CASE Throw(u, "failed")
      BY <2>1, <2>3, OwnRefuses DEF Results
    <2>4. CASE Go(u, call[u])
      BY <1>1, <2>1, <2>2, <2>4, OwnPasses
    <2> QED BY <2>1, <2>3, <2>4
  <1>2. ASSUME At(u, "verifyRemoved"), UNCHANGED <<Instance, calls>>,
               Throw(u, "failed") \/ Go(u, [call[u] EXCEPT !.wrote = IF InCleanup(u) THEN {} ELSE @])
        PROVE  OwnMoves(u) /\ UNCHANGED <<Instance, calls>>
    <2>1. UNCHANGED Instance /\ call[u].todo # <<>>
      BY <1>2 DEF At
    <2>2. CASE Throw(u, "failed")
      BY <1>2, <2>1, <2>2, OwnRefuses DEF Results
    <2>3. CASE Go(u, [call[u] EXCEPT !.wrote = IF InCleanup(u) THEN {} ELSE @])
      <3>1. PICK c \in Call : c = call[u]
        OBVIOUS
      <3>2. PICK w \in SUBSET Versions : w = IF InCleanup(u) THEN {} ELSE c.wrote
        BY DEF Call
      <3>3. PICK k : k = [c EXCEPT !.wrote = w]
        OBVIOUS
      <3>4. /\ k \in Call /\ k.req = c.req /\ k.picked = c.picked /\ k.own = c.own /\ k.wrote = w /\ k.spoilt = c.spoilt
            /\ k.result = c.result /\ k.seen = c.seen
        BY <3>2, <3>3 DEF Call
      <3>5. /\ TypedCall(c) /\ Shaped(c) /\ c.todo # <<>> /\ Head(c.todo) = "verifyRemoved" /\ Ordered(c.todo)
            /\ c.todo \in Seq(Steps)
        BY <1>2, <3>1 DEF CallInv, At, Shaped, Call
      <3>6. PICK R : R = In(Tail(c.todo))
        OBVIOUS
      <3>7. Knows(R, u, k)'
        <4>1. R \cap (Guarded \cup Placed) = {}
          BY <3>5, <3>6, ClosingSteps DEF Closing
        <4> QED BY <4>1, Quiet
      <3>8. "rethrow" \in In(c.todo) => ~Touched(k)
        <4>1. SUFFICES ASSUME "rethrow" \in In(c.todo) PROVE InCleanup(u)
          BY <3>2, <3>4 DEF Touched
        <4>2. c.todo[Len(c.todo)] = "rethrow" /\ Len(c.todo) \in Nat
          BY <3>5, <4>1, RethrowLast
        <4>3. Len(c.todo) # 1 /\ Len(c.todo) # 0
          BY <3>5, <4>2
        <4>4. Len(c.todo) > 1
          <5>1. PICK n \in Nat : n = Len(c.todo)
            BY <4>2
          <5>2. n # 0 /\ n # 1
            BY <4>3, <5>1
          <5>3. n > 1
            BY <5>2
          <5> QED BY <5>1, <5>3
        <4>5. Last(c.todo) = "rethrow"
          BY <4>2 DEF Last
        <4> QED BY <3>1, <4>4, <4>5 DEF InCleanup
      <3>9. TypedCall(k)' /\ k.req \in Request /\ k.result = "none"
        BY <2>1, <3>4, <3>5 DEF TypedCall, Edges, Instance
      <3>10. Go(u, k)
        BY <2>3, <3>1, <3>2, <3>3
      <3>11. Rank("verifyRemoved") >= 1
        BY DEF Rank, Reads
      <3> QED BY <1>2, <3>1, <3>4, <3>6, <3>7, <3>8, <3>9, <3>10, <3>11, OwnGoes
    <2> QED BY <1>2, <2>2, <2>3
  <1> QED BY <1>1, <1>2 DEF verify

LEMMA pickOwnExitMoves ==
    ASSUME NEW u \in Users, InstanceInv, CallInv(u), call \in [Users -> Call], pickOwnExit(u, call[u].req)
    PROVE  OwnMoves(u) /\ UNCHANGED <<Instance, calls>>
  <1>1. PICK c \in Call : c = call[u]
    OBVIOUS
  <1>2. PICK ref : ref = IF "otherExit" \in c.req.opt THEN 9 ELSE NoExit
    OBVIOUS
  <1>3. PICK x : x = Picked(ExitsOf(c.req.ver, c.req.act), ref, TRUE)
    OBVIOUS
  <1>4. PICK t : t = removeActivity([c.req EXCEPT !.opt = {}]) \o <<"rethrow">>
    OBVIOUS
  <1>5. /\ UNCHANGED <<Instance, calls>> /\ UNCHANGED Instance /\ At(u, "pickOwnExit") /\ call[u].todo # <<>>
        /\ \/ /\ c.req.opt \cap {"insertOn", "connectTo"} = {} \/ x # NoExit
              /\ Go(u, [call[u] EXCEPT !.own = x])
           \/ Follow(u, c, t)
    BY <1>1, <1>2, <1>3, <1>4 DEF pickOwnExit, At
  <1>6. TypedCall(c) /\ Shaped(c) /\ Cautious(c) /\ c.todo # <<>> /\ Head(c.todo) = "pickOwnExit" /\ Knows(In(c.todo), u, c)
    BY <1>1, <1>5 DEF CallInv, At, Informed
  <1>7. c.req \in Request /\ c.result = "none"
    BY <1>6 DEF TypedCall
  <1>8. x \in Exits \cup {NoExit} /\ (x # NoExit => <<c.req.act, x>> \in graph[c.req.ver].exits)
    <2>1. ExitsOf(c.req.ver, c.req.act) \in SUBSET Exits
      BY DEF ExitsOf
    <2>2. x # NoExit => x \in ExitsOf(c.req.ver, c.req.act)
      BY <1>3, <2>1, PickedExit
    <2> QED BY <2>1, <2>2 DEF ExitsOf
  <1>9. ASSUME c.req.opt \cap {"insertOn", "connectTo"} = {} \/ x # NoExit, Go(u, [call[u] EXCEPT !.own = x])
        PROVE  OwnMoves(u)
    <2>1. PICK k : k = [c EXCEPT !.own = x]
      OBVIOUS
    <2>2. PICK R : R = In(Tail(c.todo))
      OBVIOUS
    <2>3. "deleteExit" \in R /\ "deleteLeaving" \notin R => c.seen = {} /\ "readLeaving" \notin R
      BY <1>6, <2>2, AfterReads
    <2>4. /\ k \in Call /\ k.req = c.req /\ k.picked = c.picked /\ k.own = x /\ k.wrote = c.wrote /\ k.spoilt = c.spoilt
          /\ k.result = c.result /\ k.seen = c.seen /\ k.owned = c.owned /\ k.spared = c.spared
      BY <1>8, <2>1 DEF Call
    <2>5. R \cap {"connectTo", "newEdgeControlNode"} # {} => x # NoExit
      <3>1. R \subseteq In(c.todo)
        BY <1>6, <2>2, StepsLeft
      <3> QED BY <1>6, <1>9, <3>1 DEF Knows, Prepared
    <2>6. Learns("pickOwnExit", c, k) /\ Learnt("pickOwnExit", R, k, graph[c.req.ver])
      BY <1>8, <2>4, <2>5 DEF Learns, Learnt
    <2>7. Go(u, k)
      BY <1>1, <1>9, <2>1
    <2>8. c.seen \subseteq IF c.req.op = "deleteWorkflow" THEN Readings ELSE Edges
      BY <1>6 DEF TypedCall
    <2> QED BY <1>1, <1>5, <2>2, <2>3, <2>4, <2>6, <2>7, <2>8, OwnLearns
  <1>10. ASSUME Follow(u, c, t) PROVE OwnMoves(u)
    <2>1. t \in Seq(Steps) /\ t # <<>> /\ Ordered(t) /\ In(t) = Cleanup
      BY <1>4, <1>7, CleanupProper
    <2>2. c.req.op = "addActivity"
      <3>1. "pickOwnExit" \in Family(c)
        BY <1>6, StepsLeft
      <3> QED BY <3>1 DEF Family, StepsOf, Cleanup, Wiring
    <2>3. ASSUME NEW d \in Call, d.todo = t, d.req = c.req, d.wrote = c.wrote, d.spoilt = c.spoilt
          PROVE  Shaped(d) /\ Cautious(d)
      BY <2>1, <2>2, <2>3 DEF Shaped, Cautious, Family, Cleanup
    <2>4. Knows(Cleanup, u, c)'
      <3>1. Prepared(Cleanup, c)
        BY DEF Prepared, Cleanup, Guarded
      <3>2. \A g : FactsOf(Cleanup, c, g)
        BY DEF FactsOf, Cleanup
      <3>3. Checked(Cleanup, u, c.req.ver) /\ Accompanied(Cleanup, u, c.req.ver) /\ Drawing(Cleanup, c.req.ver, c.req.wf)
        BY DEF Checked, Accompanied, Drawing, Cleanup, Placed
      <3>4. Knows(Cleanup, u, c)
        BY <3>1, <3>2, <3>3 DEF Knows
      <3> QED BY <3>4, <1>5, Unmoved, KnowsKept
    <2>5. TypedCall(c)'
      BY <1>5, <1>6 DEF TypedCall, Edges, Instance
    <2> QED BY <1>7, <1>10, <2>1, <2>3, <2>4, <2>5, OwnTurns
  <1> QED BY <1>5, <1>9, <1>10

LEMMA RequestFailsMoves ==
    ASSUME NEW u \in Users, InstanceInv, CallInv(u), call \in [Users -> Call], RequestFails(u)
    PROVE  OwnMoves(u) /\ UNCHANGED <<Instance, calls>>
  <1>1. /\ UNCHANGED <<Instance, calls>> /\ UNCHANGED Instance /\ call[u].todo # <<>>
        /\ \/ At(u, "publishQuietly") /\ Follow(u, call[u], <<"readPublished">>)
           \/ Throw(u, "findings") \/ Throw(u, "failed")
    BY DEF RequestFails
  <1>2. CASE Throw(u, "findings") \/ Throw(u, "failed")
    BY <1>1, <1>2, OwnRefuses DEF Results
  <1>3. CASE At(u, "publishQuietly") /\ Follow(u, call[u], <<"readPublished">>)
    <2>1. PICK c \in Call : c = call[u]
      OBVIOUS
    <2>2. TypedCall(c) /\ Shaped(c) /\ c.todo # <<>> /\ Head(c.todo) = "publishQuietly"
      BY <1>3, <2>1 DEF CallInv, At
    <2>3. "readPublished" \in StepsOf(c.req.op) /\ "readPublished" \in LastOf(c.req.op) /\ "readPublished" \in Steps
      <3>1. "publishQuietly" \in Family(c)
        BY <2>2, StepsLeft
      <3>2. c.req.op \in {"publishWorkflow", "createCompleteWorkflow"}
        BY <3>1 DEF Family, StepsOf, Cleanup, Wiring
      <3>3. "readPublished" \in StepsOf("publishWorkflow") /\ "publishWorkflow" \in Ops
        BY DEF StepsOf, Ops
      <3> QED BY <3>2, <3>3, StepsOfSteps DEF StepsOf, LastOf
    <2>4. Knows({"readPublished"}, u, c)'
      BY Quiet DEF Guarded, Placed
    <2>5. TypedCall(c)' /\ c.req \in Request /\ c.result = "none"
      BY <1>1, <2>2 DEF TypedCall, Edges, Instance
    <2>6. "readPublished" \notin Reads \cup {"findings", "publishValidated"}
      BY DEF Reads
    <2> QED BY <1>1, <1>3, <2>1, <2>3, <2>4, <2>5, <2>6, OwnTurnsTo
  <1> QED BY <1>1, <1>2, <1>3

(* The other versions of moveActivities: first all are looked up, then each *)
(* is checked and moved.                                                    *)
LEMMA readRestMoves ==
    ASSUME NEW u \in Users, InstanceInv, CallInv(u), call \in [Users -> Call], readRest(u, call[u].req)
    PROVE  OwnMoves(u) /\ UNCHANGED <<Instance, calls>>
  <1>1. PICK c \in Call : c = call[u]
    OBVIOUS
  <1>2. /\ UNCHANGED <<Instance, calls>> /\ UNCHANGED Instance /\ At(u, "readRest") /\ call[u].todo # <<>>
        /\ \/ Throw(u, "refused") \/ Go(u, call[u])
           \/ \E v \in c.left : Follow(u, [c EXCEPT !.left = @ \ {v}], c.todo)
    BY <1>1 DEF readRest, At
  <1>3. CASE Throw(u, "refused")
    BY <1>2, <1>3, OwnRefuses DEF Results
  <1>4. CASE Go(u, call[u])
    <2>1. PICK r : r = call[u].req
      OBVIOUS
    <2> QED BY <1>2, <1>4, <2>1, OwnPasses
  <1>5. ASSUME NEW v \in c.left, Follow(u, [c EXCEPT !.left = @ \ {v}], c.todo) PROVE OwnMoves(u)
    <2>1. PICK k : k = [c EXCEPT !.left = @ \ {v}]
      OBVIOUS
    <2>2. PICK t \in Seq(Steps) : t = c.todo
      BY DEF Call
    <2>3. /\ k \in Call /\ k.req = c.req /\ k.wrote = c.wrote /\ k.spoilt = c.spoilt /\ k.result = c.result /\ k.seen = c.seen
          /\ k.picked = c.picked /\ k.own = c.own /\ k.owned = c.owned /\ k.spared = c.spared
      BY <2>1 DEF Call
    <2>4. TypedCall(c) /\ Shaped(c) /\ Cautious(c) /\ t # <<>> /\ Knows(In(t), u, c)
      BY <1>1, <1>2, <2>2 DEF CallInv, At, Informed
    <2>5. Follow(u, k, t)
      BY <1>5, <2>1, <2>2
    <2>6. TypedCall(k)' /\ k.req \in Request /\ k.result = "none"
      BY <1>2, <2>2, <2>3, <2>4 DEF TypedCall, Edges, Instance
    <2>7. ASSUME NEW d \in Call, d.todo = t, d.req = k.req, d.wrote = k.wrote, d.spoilt = k.spoilt
          PROVE  Shaped(d) /\ Cautious(d)
      <3>1. Touched(d) = Touched(c)
        BY <2>3, <2>7 DEF Touched
      <3> QED BY <2>2, <2>3, <2>4, <2>7, <3>1 DEF Shaped, Cautious, Family
    <2>8. Knows(In(t), u, k)
      BY <2>3, <2>4 DEF Knows, Prepared, FactsOf
    <2>9. PICK P : P = In(t)
      OBVIOUS
    <2>10. Knows(P, u, k)'
      BY <1>2, <2>8, <2>9, Unmoved, KnowsKept
    <2> QED BY <2>3, <2>4, <2>5, <2>6, <2>7, <2>9, <2>10, OwnTurns
  <1> QED BY <1>2, <1>3, <1>4, <1>5

LEMMA moveRestMoves ==
    ASSUME NEW u \in Users, InstanceInv, CallInv(u), call \in [Users -> Call], moveRest(u, call[u].req)
    PROVE  OwnMoves(u) /\ UNCHANGED <<Instance, calls>>
  <1>1. PICK c \in Call : c = call[u]
    OBVIOUS
  <1>2. PICK t : t = <<"requireDraft", "touch", "moveRest">>
    OBVIOUS
  <1>3. /\ UNCHANGED <<Instance, calls>> /\ UNCHANGED Instance /\ At(u, "moveRest") /\ call[u].todo # <<>>
        /\ \/ Go(u, call[u])
           \/ \E v \in c.req.also \ c.wrote : Follow(u, [c EXCEPT !.req.ver = v], t)
    BY <1>1, <1>2 DEF moveRest, At
  <1>4. CASE Go(u, call[u])
    <2>1. PICK r : r = call[u].req
      OBVIOUS
    <2> QED BY <1>3, <1>4, <2>1, OwnPasses
  <1>5. ASSUME NEW v \in c.req.also \ c.wrote, Follow(u, [c EXCEPT !.req.ver = v], t) PROVE OwnMoves(u)
    <2>1. TypedCall(c) /\ Shaped(c) /\ c.todo # <<>> /\ Head(c.todo) = "moveRest"
      BY <1>1, <1>3 DEF CallInv, At
    <2>2. c.req.op = "moveActivities"
      <3>1. "moveRest" \in Family(c)
        BY <2>1, StepsLeft
      <3> QED BY <3>1 DEF Family, StepsOf, Cleanup, Wiring
    <2>3. PICK q : q = [c.req EXCEPT !.ver = v]
      OBVIOUS
    <2>4. q \in Request /\ q.op = "moveActivities" /\ q.ver = v /\ c.result = "none"
      BY <2>1, <2>2, <2>3 DEF TypedCall, Request
    <2>5. PICK k : k = [c EXCEPT !.req = q]
      OBVIOUS
    <2>6. k \in Call /\ k.req = q /\ k.wrote = c.wrote /\ k.spoilt = c.spoilt /\ k.result = c.result /\ k.seen = c.seen
      BY <2>4, <2>5 DEF Call
    <2>7. Follow(u, k, t)
      BY <1>5, <2>3, <2>5
    <2>8. TypedCall(k)' /\ k.req \in Request /\ k.result = "none"
      BY <1>3, <2>1, <2>2, <2>4, <2>6 DEF TypedCall, Edges, Instance
    <2>9. {"requireDraft", "touch", "moveRest"} \subseteq StepsOf("moveActivities") /\ "moveActivities" \in Ops
      BY DEF StepsOf, Ops
    <2>10. t \in Seq(Steps) /\ t # <<>> /\ In(t) = {"requireDraft", "touch", "moveRest"} /\ t[Len(t)] = "moveRest"
      <3>1. {"requireDraft", "touch", "moveRest"} \subseteq Steps
        BY <2>9, StepsOfSteps
      <3> QED BY <3>1, <1>2 DEF In
    <2>11. Ordered(t)
      BY <1>2 DEF Ordered, Before, Rank, Reads
    <2>12. ASSUME NEW d \in Call, d.todo = t, d.req = k.req, d.wrote = k.wrote, d.spoilt = k.spoilt
           PROVE  Shaped(d) /\ Cautious(d)
      <3>1. ~Touched(d)
        BY <2>4, <2>6, <2>12 DEF Touched
      <3>2. d.req.op = "moveActivities" /\ In(d.todo) = {"requireDraft", "touch", "moveRest"} /\ Ordered(d.todo)
            /\ d.todo[Len(d.todo)] \in LastOf("moveActivities")
        BY <2>4, <2>6, <2>9, <2>10, <2>11, <2>12, StepsOfSteps DEF LastOf
      <3> QED BY <3>1, <3>2, <2>9 DEF Shaped, Cautious, Family
    <2>13. PICK P : P = In(t)
      OBVIOUS
    <2>14. Knows(P, u, k)'
      BY <2>10, <2>13, Quiet DEF Guarded, Placed
    <2> QED BY <2>6, <2>7, <2>8, <2>10, <2>12, <2>13, <2>14, OwnTurns
  <1> QED BY <1>3, <1>4, <1>5

(* The steps that read change nothing but their own call.                   *)
LEMMA ReadStepMoves ==
    ASSUME NEW u \in Users, InstanceInv, CallInv(u), call \in [Users -> Call], ReadStep(u)
    PROVE  OwnMoves(u) /\ UNCHANGED <<Instance, calls>>
  <1>1. CASE requireDraft(u, call[u].req)
    BY <1>1, requireDraftMoves
  <1>2. CASE readActivity(u, call[u].req)
    BY <1>2, readActivityMoves
  <1>3. CASE readCondition(u, call[u].req)
    BY <1>3, OtherChecksMove DEF readCondition
  <1>4. CASE readTransition(u, call[u].req)
    BY <1>4, readTransitionMoves
  <1>5. CASE resolve(u)
    BY <1>5, OtherChecksMove DEF resolve
  <1>6. CASE pickExit(u, call[u].req)
    BY <1>6, pickExitMoves
  <1>7. CASE checkDuplicate(u, call[u].req)
    BY <1>7, OtherChecksMove DEF checkDuplicate
  <1>8. CASE readSiblings(u, call[u].req)
    BY <1>8, readSiblingsMoves
  <1>9. CASE checkName(u, call[u].req)
    BY <1>9, OtherChecksMove DEF checkName
  <1>10. CASE readTouching(u, call[u].req)
    BY <1>10, readTouchingMoves
  <1>11. CASE readJoined(u, call[u].req)
    BY <1>11, readJoinedMoves
  <1>12. CASE readLeaving(u, call[u].req)
    BY <1>12, readLeavingMoves
  <1>13. CASE verify(u, call[u].req)
    BY <1>13, verifyMoves
  <1>14. CASE requireStart(u, call[u].req)
    BY <1>14, OtherChecksMove DEF requireStart
  <1>15. CASE resolveWorkflow(u, call[u].req)
    BY <1>15, OtherChecksMove DEF resolveWorkflow
  <1>16. CASE readVersions(u, call[u].req)
    BY <1>16, readVersionsMoves
  <1>17. CASE chooseCheckout(u, call[u].req)
    BY <1>17, chooseCheckoutMoves
  <1>18. CASE findings(u, call[u].req)
    BY <1>18, findingsMove
  <1>19. CASE pickOwnExit(u, call[u].req)
    BY <1>19, pickOwnExitMoves
  <1>20. CASE rethrow(u, call[u].req)
    BY <1>20, rethrowMoves
  <1>21. CASE readRest(u, call[u].req)
    BY <1>21, readRestMoves
  <1>22. CASE moveRest(u, call[u].req)
    BY <1>22, moveRestMoves
  <1>23. CASE findEnds(u, call[u].req)
    BY <1>23, OtherChecksMove DEF findEnds
  <1> QED BY <1>1, <1>2, <1>3, <1>4, <1>5, <1>6, <1>7, <1>8, <1>9, <1>10, <1>11, <1>12, <1>13, <1>14, <1>15, <1>16,
             <1>17, <1>18, <1>19, <1>20, <1>21, <1>22, <1>23 DEF ReadStep

(****************************************************************************)
(* Steps that write to a version's graph                                    *)
(****************************************************************************)
(* A step of u keeps the instance, its own call and the others'.            *)
StepKeeps(u) ==
    /\ InstanceInv' /\ OwnMoves(u)
    /\ \A w \in Users \ {u}, v \in Versions : Kept(w, v)
    /\ lastEdge \in Nat /\ lastEdge' \in Nat /\ lastEdge <= lastEdge'

LEMMA GraphWritten ==
    ASSUME InstanceInv, NEW u \in Users, NEW v \in Versions, Exists(v), NEW g, graph' = [graph EXCEPT ![v] = g], version' = version,
           workflows' = workflows, loose' = loose \/ loose' = loose \cup {v}, lastEdge' = lastEdge \/ lastEdge' = lastEdge + 1,
           g \in Graph', v \in loose' \/ Sound(g), v \in loose' \/ HeldBy(u, v) \/ g = graph[v]
    PROVE  /\ InstanceInv' /\ Edges \subseteq Edges' /\ lastEdge \in Nat /\ lastEdge' \in Nat /\ lastEdge <= lastEdge'
           /\ \A w \in Users, x \in Versions : w # u \/ x # v \/ g = graph[v] => Kept(w, x)
  <1>1. lastEdge \in Nat /\ lastEdge' \in Nat /\ lastEdge <= lastEdge'
    BY DEF InstanceInv
  <1>2. Edges \subseteq Edges'
    BY <1>1, EdgesGrow
  <1>3. graph \in [Versions -> Graph']
    <2>1. Graph \subseteq Graph'
      BY <1>2 DEF Graph
    <2> QED BY <2>1 DEF InstanceInv
  <1>4. graph' \in [Versions -> Graph'] /\ graph'[v] = g /\ \A x \in Versions : x # v => graph'[x] = graph[x]
    BY <1>3
  <1>5. \A x \in Versions : x \in loose' \/ Sound(graph'[x])
    BY <1>4 DEF InstanceInv
  <1>6. Version' = Version /\ Version = Version
    BY DEF Version
  <1>7. InstanceInv'
    <2>1. (\A x \in Versions : x \in loose \/ Sound(graph[x]))'
      BY <1>5 DEF Sound
    <2>2. \A x \in Versions : (Exists(x)' => version'[x].wf \in workflows') /\ (~Exists(x)' => graph'[x].edges = {})
      BY <1>4 DEF InstanceInv, Exists
    <2> QED BY <2>1, <2>2, <1>1, <1>4 DEF InstanceInv, Version, Graph
  <1>8. ASSUME NEW w \in Users, NEW x \in Versions, w # u \/ x # v \/ g = graph[v] PROVE Kept(w, x)
    <2>1. x # v => (x \in loose' <=> x \in loose)
      OBVIOUS
    <2>2. x # v \/ g = graph[v] => graph'[x] = graph[x]
      BY <1>4
    <2>3. Siblings(x)' = Siblings(x)
      BY DEF Siblings, Exists
    <2>4. HeldBy(w, x)' <=> HeldBy(w, x)
      BY DEF HeldBy
    <2>5. Free(w, x)' => Free(w, x) /\ graph'[x] = graph[x]
      <3>1. CASE x # v \/ g = graph[v]
        BY <2>1, <2>2, <2>4, <3>1 DEF Free
      <3>2. CASE x = v /\ g # graph[v]
        BY <1>8, <2>4, <3>2 DEF Free, HeldBy
      <3> QED BY <3>1, <3>2
    <2> QED BY <2>3, <2>4, <2>5 DEF Kept
  <1> QED BY <1>1, <1>2, <1>7, <1>8

(* A write after which nothing relies on anything.                          *)
LEMMA ClosingWrites ==
    ASSUME NEW u \in Users, NEW x, x \in Closing, x \notin Reads \cup {"findings", "noteFindings", "rethrow", "verifyRemoved"},
           CallInv(u), call \in [Users -> Call], At(u, x), Edges \subseteq Edges', Written(u)
    PROVE  OwnMoves(u)
  <1>1. PICK c \in Call : c = call[u]
    OBVIOUS
  <1>2. PICK R : R = In(Tail(c.todo))
    OBVIOUS
  <1>3. Shaped(c) /\ c.todo # <<>> /\ Head(c.todo) = x
    BY <1>1 DEF CallInv, At
  <1>4. R \cap (Guarded \cup Placed) = {}
    BY <1>2, <1>3, ClosingSteps
  <1>5. Knows(R, u, c)'
    BY <1>4, Quiet
  <1> QED BY <1>1, <1>2, <1>5, OwnWritten

(* What an edit can rely on when it arrives.                                *)
Relied(x, c, g) ==
    /\ x \in {"newEdge", "connectFrom"} => c.req.from \in g.nodes /\ <<c.req.from, c.picked>> \in g.exits
    /\ x \in {"newEdge", "connectTo", "changeEdge"} => c.req.to \in g.nodes
    /\ x \in {"connectFrom", "connectTo", "newEdgeControlNode"} => c.req.act \in g.nodes
    /\ x \in {"connectTo", "newEdgeControlNode"} => <<c.req.act, c.own>> \in g.exits
    /\ x \in {"newEdgeControlNode", "changeEdge"} => c.seen \subseteq g.edges
    /\ x = "deleteNode" => c.seen = {e \in g.edges : c.req.act \in {e.from, e.to}}
    /\ x = "deleteExit" => {e \in g.edges : e.from = c.req.act /\ e.exit = c.req.exit} = {}

LEMMA Editing ==
    ASSUME NEW u \in Users, NEW c \in Call, c = call[u], CallInv(u), call \in [Users -> Call], NEW x, At(u, x),
           x \notin Reads \cup {"insertActivity", "pickOwnExit"},
           NEW v, v = c.req.ver
    PROVE  /\ v \in Versions /\ c.req \in Request /\ TypedCall(c)
           /\ x \in Guarded /\ Exists(v) => v \in loose \/ HeldBy(u, v)
           /\ Free(u, v) => Relied(x, c, graph[v])
  <1>1. TypedCall(c) /\ Shaped(c) /\ c.todo # <<>> /\ Head(c.todo) = x /\ Knows(In(c.todo), u, c)
    BY DEF CallInv, At, Informed
  <1>2. v \in Versions /\ c.req \in Request
    BY <1>1 DEF TypedCall, Request
  <1> DEFINE P == In(c.todo)
  <1>3. x \in P /\ \A y \in P : Rank(x) <= Rank(y)
    BY <1>1, StepsLeft
  <1>4. P \cap Reads = {}
    <2>1. Rank(x) >= 1 /\ \A y \in Reads : Rank(y) = 0
      BY DEF Rank
    <2> QED BY <1>3, <2>1, Ranks
  <1>5. x \in Guarded /\ Exists(v) => v \in loose \/ HeldBy(u, v)
    <2>1. "requireDraft" \notin P
      BY <1>4 DEF Reads
    <2> QED BY <1>1, <1>3, <2>1 DEF Knows, Checked, Exists
  <1>6. ASSUME x \in {"connectFrom", "connectTo", "newEdgeControlNode"}
        PROVE  "insertActivity" \notin P /\ "pickOwnExit" \notin P
    <2>1. Rank(x) >= 3 /\ Rank("insertActivity") = 1 /\ Rank("pickOwnExit") = 2
      BY <1>6 DEF Rank, Reads
    <2> QED BY <1>3, <2>1, Ranks
  <1>7. ASSUME x = "deleteExit" PROVE "deleteLeaving" \notin P
    <2>1. Rank("deleteExit") = 8 /\ Rank("deleteLeaving") = 7
      BY DEF Rank, Reads
    <2> QED BY <1>3, <1>7, <2>1
  <1>8. /\ "readFrom" \notin P /\ "pickExit" \notin P /\ "readTo" \notin P /\ "readTransition" \notin P
        /\ "readTouching" \notin P /\ "readLeaving" \notin P
    BY <1>4 DEF Reads
  <1>9. ASSUME Free(u, v) PROVE Relied(x, c, graph[v])
    <2>1. FactsOf(P, c, graph[v]) /\ Prepared(P, c)
      BY <1>1, <1>9 DEF Knows
    <2> HIDE DEF P
    <2>2. x \in {"newEdge", "connectFrom"} => c.req.from \in graph[v].nodes /\ <<c.req.from, c.picked>> \in graph[v].exits
      BY <1>3, <1>8, <2>1 DEF FactsOf
    <2>3. x \in {"newEdge", "connectTo", "changeEdge"} => c.req.to \in graph[v].nodes
      BY <1>3, <1>8, <2>1 DEF FactsOf
    <2>4. x \in {"connectFrom", "connectTo", "newEdgeControlNode"} => c.req.act \in graph[v].nodes
      BY <1>3, <1>6, <2>1 DEF FactsOf
    <2>5. x \in {"connectTo", "newEdgeControlNode"} => <<c.req.act, c.own>> \in graph[v].exits
      BY <1>3, <1>6, <2>1 DEF FactsOf
    <2>6. x \in {"newEdgeControlNode", "changeEdge"} => c.seen \subseteq graph[v].edges
      BY <1>3, <1>8, <2>1 DEF FactsOf
    <2>7. x = "deleteNode" => c.seen = {e \in graph[v].edges : c.req.act \in {e.from, e.to}}
      BY <1>3, <1>8, <2>1 DEF FactsOf
    <2>8. x = "deleteExit" => {e \in graph[v].edges : e.from = c.req.act /\ e.exit = c.req.exit} = {}
      BY <1>3, <1>7, <1>8, <2>1 DEF FactsOf, Prepared
    <2> QED BY <2>2, <2>3, <2>4, <2>5, <2>6, <2>7, <2>8 DEF Relied
  <1> QED BY <1>1, <1>2, <1>5, <1>9

LEMMA touchKeeps ==
    ASSUME InstanceInv, NEW u \in Users, CallInv(u), call \in [Users -> Call], touch(u, call[u].req)
    PROVE  StepKeeps(u) /\ calls' = calls
  <1>1. PICK c \in Call : c = call[u]
    OBVIOUS
  <1>2. PICK v : v = c.req.ver
    OBVIOUS
  <1>3. PICK g : g = graph[v]
    OBVIOUS
  <1>4. /\ At(u, "touch") /\ graph' = [graph EXCEPT ![v] = g] /\ Written(u) /\ version' = version /\ workflows' = workflows
        /\ calls' = calls /\ lastEdge' = lastEdge /\ loose' = loose
    BY <1>1, <1>2, <1>3 DEF touch, Change
  <1>5. v \in Versions
    BY <1>1, <1>2, <1>4, Editing DEF Reads
  <1>6. graph' = graph
    BY <1>3, <1>4 DEF InstanceInv
  <1>7. InstanceInv' /\ Edges \subseteq Edges' /\ lastEdge \in Nat
    BY <1>4, <1>6 DEF InstanceInv, Edges, Version, Graph, Sound, Exists
  <1>8. \A w, x : Kept(w, x)
    BY <1>4, <1>6, Unmoved DEF Instance
  <1>9. OwnMoves(u)
    BY <1>4, <1>7, ClosingWrites DEF Closing, Reads
  <1> QED BY <1>4, <1>7, <1>8, <1>9 DEF StepKeeps

(* One path more in a version.                                              *)
LEMMA PathDrawn ==
    ASSUME InstanceInv, NEW u \in Users, NEW v \in Versions, NEW from \in Names, NEW exit \in Exits \cup {NoExit},
           NEW to \in Names, Change(u, v, [graph[v] EXCEPT !.edges = @ \cup {NewPath(from, exit, to)}]),
           lastEdge' = lastEdge + 1, loose' = loose \/ loose' = loose \cup {v},
           v \in loose' \/ HeldBy(u, v),
           Free(u, v) => from \in graph[v].nodes /\ to \in graph[v].nodes /\ <<from, exit>> \in graph[v].exits
    PROVE  /\ InstanceInv' /\ Edges \subseteq Edges' /\ lastEdge \in Nat /\ lastEdge' \in Nat /\ lastEdge <= lastEdge'
           /\ \A w \in Users, x \in Versions : w # u \/ x # v => Kept(w, x)
           /\ Written(u) /\ calls' = calls /\ version' = version
           /\ graph'[v].nodes = graph[v].nodes /\ graph'[v].exits = graph[v].exits
           /\ graph[v].edges \subseteq graph'[v].edges
  <1>1. PICK p : p = NewPath(from, exit, to)
    OBVIOUS
  <1>2. lastEdge \in Nat /\ graph[v] \in Graph /\ (v \in loose \/ Sound(graph[v]))
    BY DEF InstanceInv
  <1>3. p \in Edges' /\ p.from = from /\ p.exit = exit /\ p.to = to
    <2>1. lastEdge + 1 \in 1..(lastEdge + 1)
      BY <1>2
    <2> QED BY <1>1, <2>1 DEF NewPath, Edges
  <1>4. Edges \subseteq Edges'
    BY <1>2, EdgesGrow
  <1>5. PICK g : g = [graph[v] EXCEPT !.edges = @ \cup {p}]
    OBVIOUS
  <1>6. g.nodes = graph[v].nodes /\ g.exits = graph[v].exits /\ g.edges = graph[v].edges \cup {p} /\ g \in Graph'
    BY <1>2, <1>3, <1>4, <1>5 DEF Graph
  <1>7. /\ graph' = [graph EXCEPT ![v] = g] /\ Written(u) /\ version' = version /\ workflows' = workflows /\ calls' = calls
        /\ Exists(v)
    BY <1>1, <1>5 DEF Change
  <1>8. v \in loose' \/ Sound(g)
    BY <1>2, <1>3, <1>6 DEF Sound, Free
  <1>9. graph'[v] = g
    BY <1>7 DEF InstanceInv
  <1>10. /\ InstanceInv' /\ lastEdge' \in Nat /\ lastEdge <= lastEdge'
         /\ \A w \in Users, x \in Versions : w # u \/ x # v => Kept(w, x)
    <2>1. (v \in loose' \/ HeldBy(u, v) \/ g = graph[v]) /\ (lastEdge' = lastEdge \/ lastEdge' = lastEdge + 1)
      OBVIOUS
    <2>2. loose' = loose \/ loose' = loose \cup {v}
      OBVIOUS
    <2>3. graph' = [graph EXCEPT ![v] = g] /\ version' = version /\ workflows' = workflows /\ Exists(v)
      BY <1>7
    <2>4. v \in Versions /\ g \in Graph'
      BY <1>6
    <2> QED BY ONLY InstanceInv, u \in Users, <1>8, <2>1, <2>2, <2>3, <2>4, GraphWritten
  <1> QED BY <1>2, <1>4, <1>6, <1>7, <1>9, <1>10

(* The steps of addActivity rely on what the version has; it only grows.    *)
LEMMA GrownKnows ==
    ASSUME NEW u \in Users, NEW c \in Call, c = call[u], CallInv(u), call \in [Users -> Call], NEW x, At(u, x),
           x \in {"connectFrom", "newEdgeControlNode", "insertActivity"}, NEW R, R = In(Tail(c.todo)),
           NEW v, v = c.req.ver, version' = version, loose' = loose, graph[v].nodes \subseteq graph'[v].nodes,
           graph[v].exits \subseteq graph'[v].exits,
           x = "insertActivity" => graph'[v].edges = graph[v].edges /\ c.req.act \in graph'[v].nodes
    PROVE  Knows(R, u, c)'
  <1>1. TypedCall(c) /\ Shaped(c) /\ c.todo # <<>> /\ Head(c.todo) = x /\ Knows(In(c.todo), u, c)
    BY DEF CallInv, At, Informed
  <1> DEFINE P == In(c.todo)
  <1>2. /\ R \subseteq P /\ P \subseteq R \cup {x} /\ x \in P /\ x \notin R
        /\ \A y \in P : Rank(x) <= Rank(y)
        /\ R \subseteq Family(c) /\ x \in Family(c)
    BY <1>1, StepsLeft
  <1>3. R \subseteq Wiring
    <2>1. Family(c) = StepsOf(c.req.op)
      BY <1>2 DEF Family, Cleanup
    <2>2. c.req.op = "addActivity"
      <3>1. x \in StepsOf(c.req.op) /\ x \in {"connectFrom", "newEdgeControlNode", "insertActivity"}
        BY <1>2, <2>1
      <3> QED BY ONLY <3>1 DEF StepsOf, Wiring
    <2> QED BY <1>2, <2>1, <2>2 DEF StepsOf
  <1>4. P \cap Reads = {}
    <2>1. Rank(x) >= 1 /\ \A y \in Reads : Rank(y) = 0
      BY DEF Rank, Reads
    <2>2. ASSUME NEW y \in P, y \in Reads PROVE FALSE
      <3>1. Rank(x) <= Rank(y) /\ Rank(y) = 0
        BY <1>2, <2>1, <2>2
      <3> QED BY <2>1, <3>1, Ranks
    <2> QED BY <2>2
  <1>5. x # "insertActivity" => "newEdgeControlNode" \notin R /\ "insertActivity" \notin P /\ "pickOwnExit" \notin P
    <2>1. /\ Rank("newEdgeControlNode") = 3 /\ Rank("connectFrom") = 4 /\ Rank("insertActivity") = 1
          /\ Rank("pickOwnExit") = 2
      BY DEF Rank, Reads
    <2> QED BY <1>2, <2>1
  <1>6. Knows(P, u, c)
    BY <1>1
  <1> HIDE DEF P
  <1>7. Prepared(R, c)'
    <2>1. P \cap {"connectTo", "newEdgeControlNode"} # {} => c.req.opt \cap {"insertOn", "connectTo"} # {}
      BY <1>6 DEF Knows, Prepared
    <2>2. "deleteExit" \notin R /\ "deleteDraft" \notin R
      BY <1>3 DEF Wiring
    <2>3. v \in c.owned
      BY <1>2, <1>4, <1>6 DEF Knows, Prepared, Reads, Guarded
    <2> QED BY <1>2, <2>1, <2>2, <2>3 DEF Prepared
  <1>8. (Free(u, v) => FactsOf(R, c, graph[v]))'
    <2>1. SUFFICES ASSUME Free(u, v) PROVE FactsOf(R, c, graph'[v])
      BY DEF Free, HeldBy, FactsOf
    <2>2. FactsOf(P, c, graph[v])
      BY <1>6, <2>1 DEF Knows
    <2>3. R \cap {"newEdge", "changeEdge", "deleteNode", "deleteExit"} = {}
      BY <1>3 DEF Wiring
    <2>4. "connectFrom" \in R => c.req.from \in graph[v].nodes /\ <<c.req.from, c.picked>> \in graph[v].exits
      BY <1>2, <1>4, <2>2 DEF FactsOf, Reads
    <2>5. "connectTo" \in R => c.req.to \in graph[v].nodes
      BY <1>2, <1>4, <2>2 DEF FactsOf, Reads
    <2>6. R \cap {"connectFrom", "connectTo", "newEdgeControlNode"} # {} /\ x # "insertActivity" => c.req.act \in graph[v].nodes
      BY <1>2, <1>5, <2>2 DEF FactsOf
    <2>7. R \cap {"connectTo", "newEdgeControlNode"} # {} /\ x # "insertActivity" => <<c.req.act, c.own>> \in graph[v].exits
      BY <1>2, <1>5, <2>2 DEF FactsOf
    <2>8. R \cap {"connectTo", "newEdgeControlNode"} # {} /\ "pickOwnExit" \notin R => <<c.req.act, c.own>> \in graph[v].exits
      BY <1>2, <2>2, <2>7 DEF FactsOf
    <2>9. "newEdgeControlNode" \in R => x = "insertActivity" /\ c.seen \subseteq graph[v].edges
      BY <1>2, <1>4, <1>5, <2>2 DEF FactsOf, Reads
    <2> QED BY <2>3, <2>4, <2>5, <2>6, <2>8, <2>9 DEF FactsOf
  <1>9. Checked(R, u, v)'
    <2>1. Checked(P, u, v) /\ "requireDraft" \notin P /\ x \in Guarded
      BY <1>4, <1>6 DEF Knows, Reads, Guarded
    <2> QED BY <1>2, <2>1 DEF Checked, HeldBy
  <1>10. (Accompanied(R, u, v) /\ Drawing(R, v, c.req.wf))'
    BY <1>3 DEF Accompanied, Drawing, Wiring, Placed
  <1> QED BY <1>7, <1>8, <1>9, <1>10 DEF Knows

LEMMA newEdgeKeeps ==
    ASSUME InstanceInv, NEW u \in Users, CallInv(u), call \in [Users -> Call], newEdge(u, call[u].req)
    PROVE  StepKeeps(u) /\ calls' = calls
  <1>1. PICK c \in Call : c = call[u]
    OBVIOUS
  <1>2. PICK v : v = c.req.ver
    OBVIOUS
  <1>3. c.picked \in Exits \cup {NoExit} /\ c.own \in Exits \cup {NoExit}
    BY DEF Call
  <1>4. PICK x, from, exit, to :
           /\ \/ x = "newEdge" /\ from = c.req.from /\ exit = c.picked /\ to = c.req.to
              \/ x = "connectFrom" /\ from = c.req.from /\ exit = c.picked /\ to = c.req.act
              \/ x = "connectTo" /\ from = c.req.act /\ exit = c.own /\ to = c.req.to
           /\ At(u, x) /\ Change(u, v, [graph[v] EXCEPT !.edges = @ \cup {NewPath(from, exit, to)}])
           /\ lastEdge' = lastEdge + 1 /\ loose' = loose
    BY <1>1, <1>2 DEF newEdge
  <1>5. /\ v \in Versions /\ c.req \in Request /\ (Exists(v) => v \in loose \/ HeldBy(u, v))
        /\ (Free(u, v) => Relied(x, c, graph[v]))
    BY <1>1, <1>2, <1>4, Editing DEF Guarded, Reads
  <1>6. from \in Names /\ exit \in Exits \cup {NoExit} /\ to \in Names
    BY <1>3, <1>4, <1>5 DEF Request
  <1>7. v \in loose' \/ HeldBy(u, v)
    BY <1>4, <1>5 DEF Change
  <1>8. Free(u, v) => from \in graph[v].nodes /\ to \in graph[v].nodes /\ <<from, exit>> \in graph[v].exits
    BY <1>4, <1>5 DEF Relied
  <1>9. /\ InstanceInv' /\ Edges \subseteq Edges' /\ lastEdge \in Nat /\ lastEdge' \in Nat /\ lastEdge <= lastEdge'
        /\ \A w \in Users, y \in Versions : w # u \/ y # v => Kept(w, y)
        /\ Written(u) /\ calls' = calls /\ version' = version
        /\ graph'[v].nodes = graph[v].nodes /\ graph'[v].exits = graph[v].exits
    BY <1>4, <1>5, <1>6, <1>7, <1>8, PathDrawn
  <1>10. OwnMoves(u)
    <2>1. CASE x \in {"newEdge", "connectTo"}
      BY <1>4, <1>9, <2>1, ClosingWrites DEF Closing, Reads
    <2>2. CASE x = "connectFrom"
      <3>1. PICK R : R = In(Tail(c.todo))
        OBVIOUS
      <3>2. Knows(R, u, c)'
        BY <1>1, <1>2, <1>4, <1>9, <2>2, <3>1, GrownKnows
      <3> QED BY <1>1, <1>4, <1>9, <2>2, <3>1, <3>2, OwnWritten DEF Reads
    <2> QED BY <1>4, <2>1, <2>2
  <1> QED BY <1>9, <1>10 DEF StepKeeps

LEMMA insertActivityKeeps ==
    ASSUME InstanceInv, NEW u \in Users, CallInv(u), call \in [Users -> Call], insertActivity(u, call[u].req)
    PROVE  StepKeeps(u) /\ calls' = calls
  <1>1. PICK c \in Call : c = call[u]
    OBVIOUS
  <1>2. PICK v : v = c.req.ver
    OBVIOUS
  <1>3. PICK g : g = WithActivity(graph[v], c.req.act)
    OBVIOUS
  <1>4. /\ At(u, "insertActivity") /\ graph' = [graph EXCEPT ![v] = g] /\ Written(u) /\ version' = version
        /\ workflows' = workflows /\ calls' = calls /\ lastEdge' = lastEdge /\ loose' = loose /\ Exists(v)
    BY <1>1, <1>2, <1>3 DEF insertActivity, Change
  <1>5. TypedCall(c) /\ Shaped(c) /\ c.todo # <<>> /\ Head(c.todo) = "insertActivity" /\ Knows(In(c.todo), u, c)
    BY <1>1, <1>4 DEF CallInv, At, Informed
  <1>6. v \in Versions /\ c.req.act \in Names
    BY <1>2, <1>5 DEF TypedCall, Request
  <1>7. v \in loose \/ HeldBy(u, v)
    <2>1. "insertActivity" \in In(c.todo) /\ \A y \in In(c.todo) : Rank("insertActivity") <= Rank(y)
      BY <1>5, StepsLeft
    <2>2. Rank("insertActivity") = 1 /\ Rank("requireDraft") = 0
      BY DEF Rank, Reads
    <2>3. "requireDraft" \notin In(c.todo)
      BY <2>1, <2>2
    <2> QED BY <1>2, <1>4, <1>5, <2>1, <2>3 DEF Knows, Checked, Exists, Guarded
  <1>8. graph[v] \in Graph /\ (v \in loose \/ Sound(graph[v]))
    BY <1>6 DEF InstanceInv
  <1>9. /\ g.nodes = graph[v].nodes \cup {c.req.act} /\ g.exits = graph[v].exits \cup ({c.req.act} \X Exits)
        /\ g.edges = graph[v].edges /\ g \in Graph
    BY <1>3, <1>6, <1>8 DEF Graph, WithActivity
  <1>10. g \in Graph'
    BY <1>4, <1>9 DEF Graph, Edges
  <1>11. v \in loose \/ Sound(g)
    BY <1>8, <1>9 DEF Sound
  <1>12. /\ InstanceInv' /\ Edges \subseteq Edges' /\ lastEdge \in Nat /\ lastEdge' \in Nat /\ lastEdge <= lastEdge'
         /\ \A w \in Users, y \in Versions : w # u \/ y # v => Kept(w, y)
    BY <1>4, <1>6, <1>7, <1>10, <1>11, GraphWritten
  <1>13. graph'[v] = g
    BY <1>4, <1>6 DEF InstanceInv
  <1>14. OwnMoves(u)
    <2>1. PICK R : R = In(Tail(c.todo))
      OBVIOUS
    <2>2. Knows(R, u, c)'
      BY <1>1, <1>2, <1>4, <1>9, <1>13, <2>1, GrownKnows
    <2> QED BY <1>1, <1>4, <1>12, <2>1, <2>2, OwnWritten DEF Reads
  <1> QED BY <1>4, <1>12, <1>14 DEF StepKeeps

LEMMA newEdgeControlNodeKeeps ==
    ASSUME InstanceInv, NEW u \in Users, CallInv(u), call \in [Users -> Call], newEdgeControlNode(u, call[u].req)
    PROVE  StepKeeps(u) /\ calls' = calls
  <1>1. PICK c \in Call : c = call[u]
    OBVIOUS
  <1>2. PICK v : v = c.req.ver
    OBVIOUS
  <1>3. PICK E : E = {e \in graph[v].edges : \A o \in c.seen : e.id # o.id}
                     \cup {[o EXCEPT !.to = c.req.act] : o \in c.seen}
                     \cup {NewPath(c.req.act, c.own, o.to) : o \in c.seen}
    OBVIOUS
  <1>4. PICK g : g = [graph[v] EXCEPT !.edges = E]
    OBVIOUS
  <1>5. /\ At(u, "newEdgeControlNode") /\ graph' = [graph EXCEPT ![v] = g] /\ Written(u) /\ version' = version
        /\ workflows' = workflows /\ calls' = calls /\ lastEdge' = lastEdge + 1 /\ loose' = loose /\ Exists(v)
    BY <1>1, <1>2, <1>3, <1>4 DEF newEdgeControlNode, Change
  <1>6. /\ v \in Versions /\ c.req \in Request /\ TypedCall(c) /\ (v \in loose \/ HeldBy(u, v))
        /\ (Free(u, v) => Relied("newEdgeControlNode", c, graph[v]))
    BY <1>1, <1>2, <1>5, Editing DEF Guarded, Reads
  <1>7. c.req.act \in Names /\ c.own \in Exits \cup {NoExit}
    BY <1>6 DEF Request, Call
  <1>8. c.req.op # "deleteWorkflow"
    <2>1. Shaped(c) /\ c.todo # <<>> /\ Head(c.todo) = "newEdgeControlNode"
      BY <1>1, <1>5 DEF CallInv, At
    <2>2. "newEdgeControlNode" \in Family(c)
      BY <2>1, StepsLeft
    <2> QED BY <2>2 DEF Family, StepsOf, Cleanup
  <1>9. c.seen \subseteq Edges
    BY <1>6, <1>8 DEF TypedCall
  <1>10. lastEdge \in Nat /\ graph[v] \in Graph /\ (v \in loose \/ Sound(graph[v]))
    BY <1>6 DEF InstanceInv
  <1>11. Edges \subseteq Edges'
    BY <1>5, <1>10, EdgesGrow
  <1>12. ASSUME NEW o \in c.seen
         PROVE  /\ NewPath(c.req.act, c.own, o.to) \in Edges' /\ NewPath(c.req.act, c.own, o.to).from = c.req.act
                /\ NewPath(c.req.act, c.own, o.to).exit = c.own /\ NewPath(c.req.act, c.own, o.to).to = o.to
                /\ [o EXCEPT !.to = c.req.act] \in Edges' /\ [o EXCEPT !.to = c.req.act].from = o.from
                /\ [o EXCEPT !.to = c.req.act].exit = o.exit /\ [o EXCEPT !.to = c.req.act].to = c.req.act
    <2>1. lastEdge + 1 \in 1..(lastEdge + 1) /\ o.to \in Names
      BY <1>9, <1>10 DEF Edges
    <2>2. NewPath(c.req.act, c.own, o.to) \in Edges'
      BY <1>5, <1>7, <2>1 DEF NewPath, Edges
    <2>3. o \in Edges
      BY <1>9
    <2>4. [o EXCEPT !.to = c.req.act] \in Edges
      BY <1>7, <2>3 DEF Edges
    <2>5. /\ [o EXCEPT !.to = c.req.act].from = o.from
          /\ [o EXCEPT !.to = c.req.act].exit = o.exit /\ [o EXCEPT !.to = c.req.act].to = c.req.act
      BY <2>3 DEF Edges
    <2> QED BY <2>2, <2>4, <2>5, <1>11 DEF NewPath
  <1>13. E \subseteq Edges'
    <2>1. graph[v].edges \subseteq Edges'
      BY <1>10, <1>11 DEF Graph
    <2> QED BY <1>3, <1>12, <2>1
  <1>14. g.nodes = graph[v].nodes /\ g.exits = graph[v].exits /\ g.edges = E /\ g \in Graph'
    BY <1>4, <1>10, <1>13 DEF Graph
  <1>15. v \in loose \/ Sound(g)
    <2>1. SUFFICES ASSUME v \notin loose, NEW e \in E
                   PROVE  e.from \in g.nodes /\ e.to \in g.nodes /\ (e.exit = NoExit \/ <<e.from, e.exit>> \in g.exits)
      BY <1>14 DEF Sound
    <2>2. Sound(graph[v]) /\ Relied("newEdgeControlNode", c, graph[v])
      BY <1>6, <1>10, <2>1 DEF Free
    <2>3. CASE e \in graph[v].edges
      BY <1>14, <2>2, <2>3 DEF Sound
    <2>4. ASSUME NEW o \in c.seen, e = [o EXCEPT !.to = c.req.act]
          PROVE  e.from \in g.nodes /\ e.to \in g.nodes /\ (e.exit = NoExit \/ <<e.from, e.exit>> \in g.exits)
      BY <1>12, <1>14, <2>2, <2>4 DEF Sound, Relied
    <2>5. ASSUME NEW o \in c.seen, e = NewPath(c.req.act, c.own, o.to)
          PROVE  e.from \in g.nodes /\ e.to \in g.nodes /\ (e.exit = NoExit \/ <<e.from, e.exit>> \in g.exits)
      BY <1>12, <1>14, <2>2, <2>5 DEF Sound, Relied
    <2> QED BY <1>3, <2>1, <2>3, <2>4, <2>5
  <1>16. /\ InstanceInv' /\ Edges \subseteq Edges' /\ lastEdge \in Nat /\ lastEdge' \in Nat /\ lastEdge <= lastEdge'
         /\ \A w \in Users, y \in Versions : w # u \/ y # v => Kept(w, y)
    BY <1>5, <1>6, <1>14, <1>15, GraphWritten
  <1>17. graph'[v] = g
    BY <1>5, <1>6 DEF InstanceInv
  <1>18. OwnMoves(u)
    <2>1. PICK R : R = In(Tail(c.todo))
      OBVIOUS
    <2>2. Knows(R, u, c)'
      BY <1>1, <1>2, <1>5, <1>14, <1>17, <2>1, GrownKnows
    <2> QED BY <1>1, <1>5, <1>16, <2>1, <2>2, OwnWritten DEF Reads
  <1> QED BY <1>5, <1>16, <1>18 DEF StepKeeps

(* Steps that change the paths of a version, and then rely on nothing.      *)
LEMMA EdgesChanged ==
    ASSUME InstanceInv, NEW u \in Users, CallInv(u), call \in [Users -> Call], NEW c \in Call, c = call[u],
           NEW x, x \in {"changeEdge", "deleteEdge"}, At(u, x), NEW v, v = c.req.ver,
           NEW E, E \subseteq Edges, Change(u, v, [graph[v] EXCEPT !.edges = E]), lastEdge' = lastEdge, loose' = loose,
           Free(u, v) /\ Sound(graph[v]) /\ Relied(x, c, graph[v])
             => \A e \in E : /\ e.from \in graph[v].nodes /\ e.to \in graph[v].nodes
                             /\ e.exit = NoExit \/ <<e.from, e.exit>> \in graph[v].exits
    PROVE  StepKeeps(u) /\ calls' = calls
  <1>1. PICK g : g = [graph[v] EXCEPT !.edges = E]
    OBVIOUS
  <1>2. /\ graph' = [graph EXCEPT ![v] = g] /\ Written(u) /\ version' = version /\ workflows' = workflows /\ calls' = calls
        /\ Exists(v)
    BY <1>1 DEF Change
  <1>3. v \in Versions /\ (v \in loose \/ HeldBy(u, v)) /\ (Free(u, v) => Relied(x, c, graph[v]))
    BY <1>2, Editing DEF Guarded, Reads
  <1>4. graph[v] \in Graph /\ (v \in loose \/ Sound(graph[v])) /\ Edges' = Edges
    BY <1>3 DEF InstanceInv, Edges
  <1>5. g.nodes = graph[v].nodes /\ g.exits = graph[v].exits /\ g.edges = E /\ g \in Graph'
    BY ONLY <1>1, <1>4, E \subseteq Edges DEF Graph
  <1>6. v \in loose \/ Sound(g)
    BY <1>3, <1>4, <1>5 DEF Free, Sound
  <1>7. /\ InstanceInv' /\ Edges \subseteq Edges' /\ lastEdge \in Nat /\ lastEdge' \in Nat /\ lastEdge <= lastEdge'
        /\ \A w \in Users, y \in Versions : w # u \/ y # v => Kept(w, y)
    <2>1. v \in loose' \/ Sound(g)
      BY <1>6
    <2>2. v \in loose' \/ HeldBy(u, v) \/ g = graph[v]
      BY <1>3
    <2>3. /\ loose' = loose \/ loose' = loose \cup {v}
          /\ lastEdge' = lastEdge \/ lastEdge' = lastEdge + 1
      OBVIOUS
    <2>4. v \in Versions /\ g \in Graph'
      BY <1>3, <1>5
    <2> QED BY ONLY InstanceInv, u \in Users, <1>2, <2>1, <2>2, <2>3, <2>4, GraphWritten
  <1>8. OwnMoves(u)
    BY <1>2, <1>7, ClosingWrites DEF Closing, Reads
  <1> QED BY <1>2, <1>7, <1>8 DEF StepKeeps

LEMMA SeenEdges ==
    ASSUME NEW u \in Users, NEW c \in Call, c = call[u], CallInv(u), NEW x, At(u, x),
           x \in {"changeEdge", "deleteEdge", "deleteLeaving", "deleteNode"}
    PROVE  c.seen \subseteq Edges
  <1>1. Shaped(c) /\ c.todo # <<>> /\ Head(c.todo) = x /\ TypedCall(c)
    BY DEF CallInv, At
  <1>2. x \in Family(c)
    BY <1>1, StepsLeft
  <1>3. c.req.op # "deleteWorkflow"
    BY <1>1, <1>2 DEF Family, StepsOf, Cleanup, Shaped
  <1> QED BY <1>1, <1>3 DEF TypedCall

LEMMA changeEdgeKeeps ==
    ASSUME InstanceInv, NEW u \in Users, CallInv(u), call \in [Users -> Call], changeEdge(u, call[u].req)
    PROVE  StepKeeps(u) /\ calls' = calls
  <1>1. PICK c \in Call : c = call[u]
    OBVIOUS
  <1>2. PICK v : v = c.req.ver
    OBVIOUS
  <1> DEFINE E == {IF e.id = c.req.edge THEN [o EXCEPT !.to = c.req.to] ELSE e : e \in graph[v].edges, o \in c.seen}
  <1>4. /\ At(u, "changeEdge") /\ Change(u, v, [graph[v] EXCEPT !.edges = E]) /\ lastEdge' = lastEdge /\ loose' = loose
    BY <1>1, <1>2 DEF changeEdge
  <1>5. v \in Versions /\ c.req \in Request
    BY <1>1, <1>2, <1>4, Editing DEF Reads
  <1>6. c.seen \subseteq Edges /\ graph[v].edges \subseteq Edges /\ c.req.to \in Names
    <2>1. c.seen \subseteq Edges
      BY <1>1, <1>4, SeenEdges
    <2> QED BY <1>5, <2>1 DEF InstanceInv, Graph, Request
  <1>7. ASSUME NEW o \in c.seen
        PROVE  /\ [o EXCEPT !.to = c.req.to] \in Edges /\ [o EXCEPT !.to = c.req.to].from = o.from
               /\ [o EXCEPT !.to = c.req.to].exit = o.exit /\ [o EXCEPT !.to = c.req.to].to = c.req.to
    BY <1>6 DEF Edges
  <1>8. \A f \in E : f \in graph[v].edges \/ \E o \in c.seen : f = [o EXCEPT !.to = c.req.to]
    OBVIOUS
  <1> HIDE DEF E
  <1>9. E \subseteq Edges
    BY <1>6, <1>7, <1>8
  <1>10. ASSUME Sound(graph[v]), Relied("changeEdge", c, graph[v]), NEW f \in E
         PROVE  f.from \in graph[v].nodes /\ f.to \in graph[v].nodes /\ (f.exit = NoExit \/ <<f.from, f.exit>> \in graph[v].exits)
    <2>1. CASE f \in graph[v].edges
      BY <1>10, <2>1 DEF Sound
    <2>2. ASSUME NEW o \in c.seen, f = [o EXCEPT !.to = c.req.to]
          PROVE  f.from \in graph[v].nodes /\ f.to \in graph[v].nodes /\ (f.exit = NoExit \/ <<f.from, f.exit>> \in graph[v].exits)
      BY <1>7, <1>10, <2>2 DEF Sound, Relied
    <2> QED BY <1>8, <2>1, <2>2
  <1> QED BY <1>1, <1>2, <1>4, <1>9, <1>10, EdgesChanged

LEMMA deleteEdgeKeeps ==
    ASSUME InstanceInv, NEW u \in Users, CallInv(u), call \in [Users -> Call], deleteEdge(u, call[u].req)
    PROVE  StepKeeps(u) /\ calls' = calls
  <1>1. PICK c \in Call : c = call[u]
    OBVIOUS
  <1>2. PICK v : v = c.req.ver
    OBVIOUS
  <1>3. PICK E : E = Without(graph[v].edges, c.seen)
    OBVIOUS
  <1>4. /\ At(u, "deleteEdge") /\ Change(u, v, [graph[v] EXCEPT !.edges = E]) /\ lastEdge' = lastEdge /\ loose' = loose
    BY <1>1, <1>2, <1>3 DEF deleteEdge
  <1>5. v \in Versions /\ c.req \in Request
    BY <1>1, <1>2, <1>4, Editing DEF Reads
  <1>6. E \subseteq graph[v].edges /\ E \subseteq Edges
    BY <1>3, <1>5 DEF Without, InstanceInv, Graph
  <1>7. Sound(graph[v]) => \A f \in E : /\ f.from \in graph[v].nodes /\ f.to \in graph[v].nodes
                                        /\ f.exit = NoExit \/ <<f.from, f.exit>> \in graph[v].exits
    BY <1>6 DEF Sound
  <1> QED BY <1>1, <1>2, <1>4, <1>6, <1>7, EdgesChanged

LEMMA deleteLeavingKeeps ==
    ASSUME InstanceInv, NEW u \in Users, CallInv(u), call \in [Users -> Call], deleteLeaving(u, call[u].req)
    PROVE  StepKeeps(u) /\ calls' = calls
  <1>1. PICK c \in Call : c = call[u]
    OBVIOUS
  <1>2. PICK v : v = c.req.ver
    OBVIOUS
  <1>3. At(u, "deleteLeaving")
    BY DEF deleteLeaving
  <1>4. TypedCall(c) /\ Shaped(c) /\ c.todo # <<>> /\ Head(c.todo) = "deleteLeaving" /\ Knows(In(c.todo), u, c)
    BY <1>1, <1>3 DEF CallInv, At, Informed
  <1>5. /\ v \in Versions /\ c.req \in Request /\ (Exists(v) => v \in loose \/ HeldBy(u, v))
    BY <1>1, <1>2, <1>3, Editing DEF Guarded, Reads
  <1>6. CASE c.seen = {}
    <2>1. Go(u, c) /\ UNCHANGED Instance /\ calls' = calls
      BY <1>1, <1>6 DEF deleteLeaving
    <2>2. PICK R : R = In(Tail(c.todo))
      OBVIOUS
    <2>3. "readLeaving" \notin R
      BY <1>4, <2>2, AfterReads
    <2>4. Learns("deleteLeaving", c, c) /\ Learnt("deleteLeaving", R, c, graph[c.req.ver])
      BY DEF Learns, Learnt
    <2>5. OwnMoves(u)
      BY <1>1, <1>3, <1>4, <1>6, <2>1, <2>2, <2>3, <2>4, OwnLearns DEF TypedCall
    <2>6. InstanceInv' /\ lastEdge \in Nat /\ lastEdge' = lastEdge
      BY <2>1 DEF InstanceInv, Edges, Version, Graph, Sound, Instance, Exists
    <2>7. \A w, x : Kept(w, x)
      BY <2>1, Unmoved
    <2> QED BY <2>1, <2>5, <2>6, <2>7 DEF StepKeeps
  <1>7. CASE c.seen # {}
    <2>1. PICK e \in c.seen :
             /\ Exists(v) /\ graph' = [graph EXCEPT ![v].edges = Without(@, {e})]
             /\ \/ Follow(u, [c EXCEPT !.seen = @ \ {e}, !.wrote = @ \cup {v}], c.todo)
                \/ Stopped(u, [c EXCEPT !.seen = @ \ {e}, !.wrote = @ \cup {v}], "failed")
             /\ version' = version /\ workflows' = workflows /\ calls' = calls /\ lastEdge' = lastEdge /\ loose' = loose
      BY <1>1, <1>2, <1>7 DEF deleteLeaving
    <2>2. PICK k : k = [c EXCEPT !.seen = @ \ {e}, !.wrote = @ \cup {v}]
      OBVIOUS
    <2>3. /\ k \in Call /\ k.req = c.req /\ k.spoilt = c.spoilt /\ k.result = c.result
          /\ k.seen = c.seen \ {e} /\ k.owned = c.owned /\ k.spared = c.spared
      BY <1>5, <2>2 DEF Call
    <2>4. PICK g : g = [graph[v] EXCEPT !.edges = Without(graph[v].edges, {e})]
      OBVIOUS
    <2>5. graph[v] \in Graph /\ (v \in loose \/ Sound(graph[v])) /\ Edges' = Edges
      BY <1>5, <2>1 DEF InstanceInv, Edges
    <2>6. /\ g.nodes = graph[v].nodes /\ g.exits = graph[v].exits /\ g.edges = Without(graph[v].edges, {e})
          /\ g.edges \subseteq graph[v].edges
      BY <2>4, <2>5 DEF Graph, Without
    <2>7. g \in Graph'
      BY <2>4, <2>5, <2>6 DEF Graph
    <2>8. graph' = [graph EXCEPT ![v] = g] /\ graph'[v] = g
      BY <1>5, <2>1, <2>4 DEF InstanceInv
    <2>9. v \in loose' \/ Sound(g)
      BY <2>1, <2>5, <2>6 DEF Sound
    <2>10. /\ InstanceInv' /\ Edges \subseteq Edges' /\ lastEdge \in Nat /\ lastEdge' \in Nat /\ lastEdge <= lastEdge'
           /\ \A w \in Users, y \in Versions : w # u \/ y # v => Kept(w, y)
      <3>1. v \in loose' \/ HeldBy(u, v) \/ g = graph[v]
        BY <1>5, <2>1
      <3>2. (loose' = loose \/ loose' = loose \cup {v}) /\ (lastEdge' = lastEdge \/ lastEdge' = lastEdge + 1)
        BY <2>1
      <3> QED BY ONLY InstanceInv, u \in Users, <1>5, <2>1, <2>7, <2>8, <2>9, <3>1, <3>2, GraphWritten
    <2>11. TypedCall(k)' /\ k.req \in Request /\ k.result = "none"
      BY <1>4, <2>3, <2>5 DEF TypedCall
    <2>12. c.req.op = "removeCondition" /\ In(c.todo) \subseteq {"deleteLeaving", "deleteExit"} /\ "deleteLeaving" \in In(c.todo)
      <3>1. /\ "deleteLeaving" \in In(c.todo) /\ \A y \in In(c.todo) : Rank("deleteLeaving") <= Rank(y)
            /\ In(c.todo) \subseteq Family(c)
        BY <1>4, StepsLeft DEF Shaped
      <3>2. Family(c) = StepsOf(c.req.op)
        BY <3>1 DEF Family, Cleanup
      <3>3. c.req.op = "removeCondition"
        BY <3>1, <3>2 DEF StepsOf, Wiring
      <3>4. In(c.todo) \subseteq {"readCondition", "requireDraft", "readLeaving", "deleteLeaving", "deleteExit"}
        BY <3>1, <3>2, <3>3 DEF StepsOf
      <3>5. /\ Rank("deleteLeaving") = 7 /\ Rank("readCondition") = 0 /\ Rank("requireDraft") = 0 /\ Rank("readLeaving") = 0
        BY DEF Rank, Reads
      <3> QED BY <3>1, <3>3, <3>4, <3>5
    <2>13. ASSUME Follow(u, k, c.todo) PROVE OwnMoves(u)
      <3>1. PICK t \in Seq(Steps) : t = c.todo
        BY DEF Call
      <3>2. ASSUME NEW d \in Call, d.todo = t, d.req = k.req, d.wrote = k.wrote, d.spoilt = k.spoilt
            PROVE  Shaped(d) /\ Cautious(d)
        <4>1. "rethrow" \notin In(d.todo) /\ In(d.todo) \cap (Reads \cup {"findings", "publishValidated"}) = {}
          BY <2>12, <3>1, <3>2 DEF Reads
        <4>2. Shaped(d)
          BY <1>4, <2>3, <3>1, <3>2 DEF Shaped, Family
        <4> QED BY <4>1, <4>2 DEF Cautious
      <3>3. PICK P : P = In(t)
        OBVIOUS
      <3>4. P \subseteq {"deleteLeaving", "deleteExit"} /\ "deleteLeaving" \in P
        BY <2>12, <3>1, <3>3
      <3>5. Knows(P, u, k)'
        <4>1. Prepared(P, k)'
          <5>1. "deleteLeaving" \in In(c.todo) /\ "requireDraft" \notin In(c.todo)
            BY <2>12
          <5>2. k.req.ver \in k.owned
            BY <1>4, <2>3, <5>1 DEF Knows, Prepared, Guarded
          <5> QED BY <3>4, <5>2 DEF Prepared
        <4>2. (Free(u, v) => FactsOf(P, k, graph[v]))'
          <5>1. SUFFICES ASSUME Free(u, v) PROVE FactsOf(P, k, g)
            BY <2>1, <2>8 DEF Free, HeldBy, FactsOf
          <5>2. FactsOf(P, c, graph[v])
            BY <1>2, <1>4, <3>1, <3>3, <5>1 DEF Knows
          <5>3. ASSUME NEW o \in g.edges, o.from = c.req.act, o.exit = c.req.exit, "deleteExit" \in P PROVE o \in k.seen
            <6>1. o \in c.seen
              BY <2>6, <3>4, <5>2, <5>3 DEF FactsOf
            <6>2. o # e
              BY <2>6, <5>3 DEF Without
            <6> QED BY <2>3, <6>1, <6>2
          <5> QED BY <2>3, <3>4, <5>3 DEF FactsOf
        <4>3. Checked(P, u, v)'
          BY <1>5, <2>1 DEF Checked, HeldBy, Exists
        <4>4. (Accompanied(P, u, v) /\ Drawing(P, v, k.req.wf))'
          BY <3>4 DEF Accompanied, Drawing, Placed
        <4> QED BY <1>2, <2>3, <4>1, <4>2, <4>3, <4>4 DEF Knows
      <3>6. Follow(u, k, t) /\ t # <<>>
        BY <1>4, <2>13, <3>1
      <3>7. \A d \in Call : d.todo = t /\ d.req = k.req /\ d.wrote = k.wrote /\ d.spoilt = k.spoilt => Shaped(d) /\ Cautious(d)
        BY <3>2
      <3>8. k \in Call /\ t \in Seq(Steps) /\ u \in Users /\ call \in [Users -> Call]
        BY <2>3
      <3> QED BY ONLY <2>11, <3>3, <3>5, <3>6, <3>7, <3>8, OwnTurns
    <2>14. ASSUME Stopped(u, k, "failed") PROVE OwnMoves(u)
      <3>1. k \in Call /\ k.req.op = call[u].req.op /\ "failed" \in Results
        BY <1>1, <2>3 DEF Results
      <3> QED BY <2>11, <2>14, <3>1, OwnStops
    <2>15. Follow(u, k, c.todo) \/ Stopped(u, k, "failed")
      BY <2>1, <2>2
    <2>16. OwnMoves(u)
      BY <2>13, <2>14, <2>15
    <2> QED BY <2>1, <2>10, <2>16 DEF StepKeeps
  <1> QED BY <1>6, <1>7

LEMMA deleteExitKeeps ==
    ASSUME InstanceInv, NEW u \in Users, CallInv(u), call \in [Users -> Call], deleteExit(u, call[u].req)
    PROVE  StepKeeps(u) /\ calls' = calls
  <1>1. PICK c \in Call : c = call[u]
    OBVIOUS
  <1>2. PICK v : v = c.req.ver
    OBVIOUS
  <1>3. PICK g : g = [graph[v] EXCEPT !.exits = @ \ {<<c.req.act, c.req.exit>>}]
    OBVIOUS
  <1>4. /\ At(u, "deleteExit") /\ HeldBy(u, v) /\ graph' = [graph EXCEPT ![v] = g] /\ Written(u) /\ version' = version
        /\ workflows' = workflows /\ calls' = calls /\ lastEdge' = lastEdge /\ loose' = loose /\ Exists(v)
    BY <1>1, <1>2, <1>3 DEF deleteExit, Change
  <1>5. v \in Versions /\ c.req \in Request /\ (Free(u, v) => Relied("deleteExit", c, graph[v]))
    BY <1>1, <1>2, <1>4, Editing DEF Guarded, Reads
  <1>6. graph[v] \in Graph /\ (v \in loose \/ Sound(graph[v])) /\ Edges' = Edges
    BY <1>4, <1>5 DEF InstanceInv, Edges
  <1>7. /\ g.nodes = graph[v].nodes /\ g.exits = graph[v].exits \ {<<c.req.act, c.req.exit>>} /\ g.edges = graph[v].edges
        /\ g \in Graph'
    BY <1>3, <1>6 DEF Graph
  <1>8. v \in loose \/ Sound(g)
    <2>1. SUFFICES ASSUME v \notin loose, NEW e \in graph[v].edges
                   PROVE  e.from \in g.nodes /\ e.to \in g.nodes /\ (e.exit = NoExit \/ <<e.from, e.exit>> \in g.exits)
      BY <1>7 DEF Sound
    <2>2. Sound(graph[v]) /\ Relied("deleteExit", c, graph[v])
      BY <1>4, <1>5, <1>6, <2>1 DEF Free
    <2>3. ~(e.from = c.req.act /\ e.exit = c.req.exit)
      BY <2>2 DEF Relied
    <2> QED BY <1>7, <2>2, <2>3 DEF Sound
  <1>9. /\ InstanceInv' /\ Edges \subseteq Edges' /\ lastEdge \in Nat /\ lastEdge' \in Nat /\ lastEdge <= lastEdge'
        /\ \A w \in Users, y \in Versions : w # u \/ y # v => Kept(w, y)
    <2>1. (v \in loose' \/ Sound(g)) /\ (v \in loose' \/ HeldBy(u, v) \/ g = graph[v])
      BY <1>4, <1>8
    <2>2. (loose' = loose \/ loose' = loose \cup {v}) /\ (lastEdge' = lastEdge \/ lastEdge' = lastEdge + 1)
      BY <1>4
    <2>3. graph' = [graph EXCEPT ![v] = g] /\ version' = version /\ workflows' = workflows /\ Exists(v)
      BY <1>4
    <2>4. v \in Versions /\ g \in Graph'
      BY <1>5, <1>7
    <2> QED BY ONLY InstanceInv, u \in Users, <2>1, <2>2, <2>3, <2>4, GraphWritten
  <1>10. OwnMoves(u)
    BY <1>4, <1>9, ClosingWrites DEF Closing, Reads
  <1> QED BY <1>4, <1>9, <1>10 DEF StepKeeps

LEMMA newExitKeeps ==
    ASSUME InstanceInv, NEW u \in Users, CallInv(u), call \in [Users -> Call], newExit(u, call[u].req)
    PROVE  StepKeeps(u) /\ calls' = calls
  <1>1. PICK c \in Call : c = call[u]
    OBVIOUS
  <1>2. PICK v : v = c.req.ver
    OBVIOUS
  <1>3. PICK g : g = [graph[v] EXCEPT !.exits = @ \cup {<<c.req.act, c.req.exit>>}]
    OBVIOUS
  <1>4. /\ At(u, "newExit") /\ HeldBy(u, v) /\ graph' = [graph EXCEPT ![v] = g] /\ Written(u) /\ version' = version
        /\ workflows' = workflows /\ calls' = calls /\ lastEdge' = lastEdge /\ loose' = loose /\ Exists(v)
    BY <1>1, <1>2, <1>3 DEF newExit, Change
  <1>5. v \in Versions /\ c.req \in Request /\ TypedCall(c)
    BY <1>1, <1>2, <1>4, Editing DEF Guarded, Reads
  <1>6. graph[v] \in Graph /\ (v \in loose \/ Sound(graph[v])) /\ Edges' = Edges
    BY <1>4, <1>5 DEF InstanceInv, Edges
  <1>7. c.req.act \in Names /\ c.req.exit \in Exits
    <2>1. Shaped(c) /\ c.todo # <<>> /\ Head(c.todo) = "newExit"
      BY <1>1, <1>4 DEF CallInv, At
    <2>2. "newExit" \in Family(c)
      BY <2>1, StepsLeft
    <2>3. c.req.op \in {"addCondition", "createCondition"}
      BY <2>2 DEF Family, StepsOf, Cleanup, Wiring
    <2> QED BY <1>5, <2>3 DEF TypedCall, Request
  <1>8. /\ g.nodes = graph[v].nodes /\ g.exits = graph[v].exits \cup {<<c.req.act, c.req.exit>>} /\ g.edges = graph[v].edges
        /\ g \in Graph'
    BY <1>3, <1>6, <1>7 DEF Graph
  <1>9. v \in loose \/ Sound(g)
    BY <1>6, <1>8 DEF Sound
  <1>10. /\ InstanceInv' /\ Edges \subseteq Edges' /\ lastEdge \in Nat /\ lastEdge' \in Nat /\ lastEdge <= lastEdge'
         /\ \A w \in Users, y \in Versions : w # u \/ y # v => Kept(w, y)
    <2>1. (v \in loose' \/ Sound(g)) /\ (v \in loose' \/ HeldBy(u, v) \/ g = graph[v])
      BY <1>4, <1>9
    <2>2. (loose' = loose \/ loose' = loose \cup {v}) /\ (lastEdge' = lastEdge \/ lastEdge' = lastEdge + 1)
      BY <1>4
    <2>3. graph' = [graph EXCEPT ![v] = g] /\ version' = version /\ workflows' = workflows /\ Exists(v)
      BY <1>4
    <2>4. v \in Versions /\ g \in Graph'
      BY <1>5, <1>8
    <2> QED BY ONLY InstanceInv, u \in Users, <2>1, <2>2, <2>3, <2>4, GraphWritten
  <1>11. OwnMoves(u)
    BY <1>4, <1>10, ClosingWrites DEF Closing, Reads
  <1> QED BY <1>4, <1>10, <1>11 DEF StepKeeps

LEMMA deleteNodeKeeps ==
    ASSUME InstanceInv, NEW u \in Users, CallInv(u), call \in [Users -> Call], deleteNode(u, call[u].req)
    PROVE  StepKeeps(u) /\ calls' = calls
  <1>1. PICK c \in Call : c = call[u]
    OBVIOUS
  <1>2. PICK v : v = c.req.ver
    OBVIOUS
  <1>3. PICK a : a = c.req.act
    OBVIOUS
  <1>20. PICK around : around = IF "reconnect" \in c.req.opt /\ ~c.drawn THEN Joined(u, c.req) ELSE {}
    OBVIOUS
  <1>4. /\ around = IF "reconnect" \in c.req.opt /\ ~c.drawn THEN Joined(u, c.req) ELSE {}
        /\ At(u, "deleteNode")
        /\ Change(u, v, [nodes |-> graph[v].nodes \ {a}, exits |-> {x \in graph[v].exits : x[1] # a},
                         edges |-> Without(graph[v].edges, c.seen) \cup around])
        /\ loose' = IF \E p \in around : p.to = a THEN loose \cup {v} ELSE loose
        /\ lastEdge' = lastEdge
    BY <1>1, <1>2, <1>3, <1>20 DEF deleteNode
  <1>5. PICK g : g = [nodes |-> graph[v].nodes \ {a}, exits |-> {x \in graph[v].exits : x[1] # a},
                      edges |-> Without(graph[v].edges, c.seen) \cup around]
    OBVIOUS
  <1>6. /\ g.nodes = graph[v].nodes \ {a} /\ g.exits = {x \in graph[v].exits : x[1] # a}
        /\ g.edges = Without(graph[v].edges, c.seen) \cup around
    BY <1>5
  <1>7. /\ graph' = [graph EXCEPT ![v] = g] /\ Written(u) /\ version' = version /\ workflows' = workflows /\ calls' = calls
        /\ Exists(v)
    BY <1>4, <1>5 DEF Change
  <1>8. v \in Versions /\ c.req \in Request /\ (v \in loose \/ HeldBy(u, v)) /\ (Free(u, v) => Relied("deleteNode", c, graph[v]))
    BY <1>1, <1>2, <1>4, <1>7, Editing DEF Guarded, Reads
  <1>9. c.seen \subseteq Edges
    BY <1>1, <1>4, SeenEdges
  <1>10. graph[v] \in Graph /\ (v \in loose \/ Sound(graph[v])) /\ Edges' = Edges
    BY <1>4, <1>8 DEF InstanceInv, Edges
  <1>11. ASSUME NEW p \in around
         PROVE  p \in Edges /\ \E i \in c.seen, o \in c.seen : /\ p.from = i.from /\ p.exit = i.exit /\ p.to = o.to
                                                               /\ i.from # a /\ i.to = a /\ o.from = a
    <2>1. p \in Joined(u, c.req)
      BY <1>4, <1>11
    <2>2. PICK i \in Incoming(u, c.req), o \in Outgoing(u, c.req) : p = [i EXCEPT !.to = o.to]
      BY <2>1 DEF Joined
    <2>3. i \in c.seen /\ o \in c.seen /\ i.from # a /\ i.to = a /\ o.from = a
      BY <1>1, <1>3, <2>2 DEF Incoming, Outgoing
    <2>4. i \in Edges /\ o \in Edges
      BY <1>9, <2>3
    <2>5. p \in Edges /\ p.from = i.from /\ p.exit = i.exit /\ p.to = o.to
      BY <2>2, <2>4 DEF Edges
    <2> QED BY <2>3, <2>5
  <1>12. g \in Graph'
    <2>1. g.edges \subseteq Edges
      BY <1>6, <1>10, <1>11 DEF Without, Graph
    <2>2. g.nodes \subseteq Names /\ g.exits \subseteq Names \X Exits
      BY <1>6, <1>10 DEF Graph
    <2> QED BY <1>5, <1>6, <1>10, <2>1, <2>2 DEF Graph
  <1>13. v \in loose' \/ Sound(g)
    <2>1. SUFFICES ASSUME v \notin loose', NEW e \in g.edges
                   PROVE  e.from \in g.nodes /\ e.to \in g.nodes /\ (e.exit = NoExit \/ <<e.from, e.exit>> \in g.exits)
      BY DEF Sound
    <2>2. v \notin loose /\ \A p \in around : p.to # a
      BY <1>4, <2>1
    <2>3. Sound(graph[v]) /\ c.seen = {f \in graph[v].edges : a \in {f.from, f.to}}
      BY <1>3, <1>8, <1>10, <2>2 DEF Free, Relied
    <2>4. CASE e \in Without(graph[v].edges, c.seen)
      <3>1. e \in graph[v].edges /\ e \notin c.seen
        BY <2>4 DEF Without
      <3>2. e.from # a /\ e.to # a
        BY <2>3, <3>1
      <3> QED BY <1>6, <2>3, <3>1, <3>2 DEF Sound
    <2>5. CASE e \in around
      <3>1. PICK i \in c.seen, o \in c.seen : e.from = i.from /\ e.exit = i.exit /\ e.to = o.to /\ i.from # a
        BY <1>11, <2>5
      <3>2. i \in graph[v].edges /\ o \in graph[v].edges /\ e.to # a
        BY <2>2, <2>3, <2>5, <3>1
      <3> QED BY <1>6, <2>3, <3>1, <3>2 DEF Sound
    <2> QED BY <1>6, <2>1, <2>4, <2>5
  <1>14. /\ InstanceInv' /\ Edges \subseteq Edges' /\ lastEdge \in Nat /\ lastEdge' \in Nat /\ lastEdge <= lastEdge'
         /\ \A w \in Users, y \in Versions : w # u \/ y # v => Kept(w, y)
    <2>1. (v \in loose' \/ Sound(g)) /\ (v \in loose' \/ HeldBy(u, v) \/ g = graph[v])
      BY <1>4, <1>8, <1>13
    <2>2. (loose' = loose \/ loose' = loose \cup {v}) /\ (lastEdge' = lastEdge \/ lastEdge' = lastEdge + 1)
      BY <1>4
    <2>3. v \in Versions
      BY <1>8
    <2> QED BY ONLY InstanceInv, u \in Users, <1>7, <1>12, <2>1, <2>2, <2>3, GraphWritten
  <1>15. OwnMoves(u)
    BY <1>4, <1>7, <1>14, ClosingWrites DEF Closing, Reads
  <1> QED BY <1>7, <1>14, <1>15 DEF StepKeeps

LEMMA postActivityKeeps ==
    ASSUME InstanceInv, NEW u \in Users, CallInv(u), call \in [Users -> Call], postActivity(u, call[u].req)
    PROVE  StepKeeps(u) /\ calls' = calls
  <1>1. PICK c \in Call : c = call[u]
    OBVIOUS
  <1>2. PICK v : v = c.req.ver
    OBVIOUS
  <1>3. PICK g : g = WithActivity(graph[v], c.req.act)
    OBVIOUS
  <1>4. /\ At(u, "postActivity") /\ graph' = [graph EXCEPT ![v] = g] /\ Written(u) /\ version' = version
        /\ workflows' = workflows /\ calls' = calls /\ lastEdge' = lastEdge /\ loose' = loose \cup {v} /\ Exists(v)
    BY <1>1, <1>2, <1>3 DEF postActivity, Post, Change
  <1>5. v \in Versions /\ c.req.act \in Names
    <2>1. v \in Versions /\ c.req \in Request
      BY <1>1, <1>2, <1>4, Editing DEF Reads
    <2> QED BY <2>1 DEF Request
  <1>6. graph[v] \in Graph /\ Edges' = Edges
    BY <1>4, <1>5 DEF InstanceInv, Edges
  <1>7. /\ g.nodes = graph[v].nodes \cup {c.req.act} /\ g.exits = graph[v].exits \cup ({c.req.act} \X Exits)
        /\ g.edges = graph[v].edges /\ g \in Graph'
    BY <1>3, <1>5, <1>6 DEF Graph, WithActivity
  <1>8. /\ InstanceInv' /\ Edges \subseteq Edges' /\ lastEdge \in Nat /\ lastEdge' \in Nat /\ lastEdge <= lastEdge'
        /\ \A w \in Users, y \in Versions : w # u \/ y # v => Kept(w, y)
    <2>1. v \in loose' /\ (loose' = loose \/ loose' = loose \cup {v}) /\ (lastEdge' = lastEdge \/ lastEdge' = lastEdge + 1)
      BY <1>4
    <2> QED BY ONLY InstanceInv, u \in Users, <1>4, <1>5, <1>7, <2>1, GraphWritten
  <1>9. OwnMoves(u)
    BY <1>4, <1>8, ClosingWrites DEF Closing, Reads
  <1> QED BY <1>4, <1>8, <1>9 DEF StepKeeps

LEMMA postNextKeeps ==
    ASSUME InstanceInv, NEW u \in Users, CallInv(u), call \in [Users -> Call], postNext(u, call[u].req)
    PROVE  StepKeeps(u) /\ calls' = calls
  <1>1. PICK c \in Call : c = call[u]
    OBVIOUS
  <1>2. PICK v : v = c.req.ver
    OBVIOUS
  <1>3. PICK g : g = WithActivity(graph[v], c.req.to)
    OBVIOUS
  <1>4. /\ At(u, "postNext") /\ graph' = [graph EXCEPT ![v] = g] /\ Written(u) /\ version' = version
        /\ workflows' = workflows /\ calls' = calls /\ lastEdge' = lastEdge /\ loose' = loose \cup {v} /\ Exists(v)
    BY <1>1, <1>2, <1>3 DEF postNext, Post, Change
  <1>5. v \in Versions /\ c.req.to \in Names
    <2>1. v \in Versions /\ c.req \in Request
      BY <1>1, <1>2, <1>4, Editing DEF Reads
    <2> QED BY <2>1 DEF Request
  <1>6. graph[v] \in Graph /\ Edges' = Edges
    BY <1>4, <1>5 DEF InstanceInv, Edges
  <1>7. /\ g.nodes = graph[v].nodes \cup {c.req.to} /\ g.exits = graph[v].exits \cup ({c.req.to} \X Exits)
        /\ g.edges = graph[v].edges /\ g \in Graph'
    BY <1>3, <1>5, <1>6 DEF Graph, WithActivity
  <1>8. /\ InstanceInv' /\ Edges \subseteq Edges' /\ lastEdge \in Nat /\ lastEdge' \in Nat /\ lastEdge <= lastEdge'
        /\ \A w \in Users, y \in Versions : w # u \/ y # v => Kept(w, y)
    <2>1. v \in loose' /\ (loose' = loose \/ loose' = loose \cup {v}) /\ (lastEdge' = lastEdge \/ lastEdge' = lastEdge + 1)
      BY <1>4
    <2> QED BY ONLY InstanceInv, u \in Users, <1>4, <1>5, <1>7, <2>1, GraphWritten
  <1>9. OwnMoves(u)
    BY <1>4, <1>8, ClosingWrites DEF Closing, Reads
  <1> QED BY <1>4, <1>8, <1>9 DEF StepKeeps

LEMMA postTransitionKeeps ==
    ASSUME InstanceInv, NEW u \in Users, CallInv(u), call \in [Users -> Call], postTransition(u, call[u].req)
    PROVE  StepKeeps(u) /\ calls' = calls
  <1>1. PICK c \in Call : c = call[u]
    OBVIOUS
  <1>2. PICK v : v = c.req.ver
    OBVIOUS
  <1>3. /\ At(u, "postTransition")
        /\ Change(u, v, [graph[v] EXCEPT !.edges = @ \cup {NewPath(c.req.from, c.req.exit, c.req.to)}])
        /\ lastEdge' = lastEdge + 1 /\ loose' = loose \cup {v}
    BY <1>1, <1>2 DEF postTransition, Post
  <1>4. v \in Versions /\ c.req \in Request
    BY <1>1, <1>2, <1>3, Editing DEF Reads
  <1>5. PICK p : p = NewPath(c.req.from, c.req.exit, c.req.to)
    OBVIOUS
  <1>6. lastEdge \in Nat /\ graph[v] \in Graph
    BY <1>4 DEF InstanceInv
  <1>7. p \in Edges' /\ Edges \subseteq Edges'
    <2>1. lastEdge + 1 \in 1..(lastEdge + 1)
      BY <1>6
    <2>2. c.req.from \in Names /\ c.req.to \in Names /\ c.req.exit \in Exits \cup {NoExit}
      BY <1>4 DEF Request
    <2>3. p \in Edges'
      BY <1>3, <1>5, <2>1, <2>2 DEF NewPath, Edges
    <2> QED BY <1>3, <1>6, <2>3, EdgesGrow
  <1>8. PICK g : g = [graph[v] EXCEPT !.edges = @ \cup {p}]
    OBVIOUS
  <1>9. g \in Graph'
    BY <1>6, <1>7, <1>8 DEF Graph
  <1>10. /\ graph' = [graph EXCEPT ![v] = g] /\ Written(u) /\ version' = version /\ workflows' = workflows /\ calls' = calls
         /\ Exists(v)
    BY <1>3, <1>5, <1>8 DEF Change
  <1>11. /\ InstanceInv' /\ lastEdge \in Nat /\ lastEdge' \in Nat /\ lastEdge <= lastEdge'
         /\ \A w \in Users, y \in Versions : w # u \/ y # v => Kept(w, y)
    <2>1. v \in loose' /\ (loose' = loose \/ loose' = loose \cup {v}) /\ (lastEdge' = lastEdge \/ lastEdge' = lastEdge + 1)
      BY <1>3
    <2> QED BY ONLY InstanceInv, u \in Users, <1>4, <1>9, <1>10, <2>1, GraphWritten
  <1>12. OwnMoves(u)
    BY <1>3, <1>7, <1>10, ClosingWrites DEF Closing, Reads
  <1> QED BY <1>10, <1>11, <1>12 DEF StepKeeps

LEMMA GraphStepKeeps ==
    ASSUME InstanceInv, NEW u \in Users, CallInv(u), call \in [Users -> Call], GraphStep(u)
    PROVE  StepKeeps(u) /\ calls' = calls
  <1>1. PICK r : r = call[u].req
    OBVIOUS
  <1>2. \/ touch(u, r) \/ newEdge(u, r) \/ newEdgeControlNode(u, r) \/ changeEdge(u, r) \/ deleteEdge(u, r)
        \/ deleteLeaving(u, r) \/ deleteExit(u, r) \/ newExit(u, r) \/ deleteNode(u, r)
        \/ insertActivity(u, r) \/ postActivity(u, r) \/ postNext(u, r) \/ postTransition(u, r)
    BY <1>1 DEF GraphStep
  <1> QED BY <1>1, <1>2, touchKeeps, newEdgeKeeps, newEdgeControlNodeKeeps, changeEdgeKeeps, deleteEdgeKeeps,
             deleteLeavingKeeps, deleteExitKeeps, newExitKeeps, deleteNodeKeeps, insertActivityKeeps, postActivityKeeps,
             postNextKeeps, postTransitionKeeps

(****************************************************************************)
(* Steps that write to the versions of a workflow                           *)
(****************************************************************************)
(* Version x in a step of u that deletes nothing.                           *)
Persists(u, x) ==
    \/ version'[x] = version[x]
    \/ /\ version[x].st = "absent" \/ (Exists(x) /\ version'[x].wf = version[x].wf)
       /\ Exists(x)' /\ version'[x].by \in {u, "nobody"}
       /\ version[x].st = "draft" => version[x].by = u \/ x \in loose'

LEMMA OthersKept ==
    ASSUME InstanceInv, NEW u \in Users, loose \subseteq loose', \A x \in Versions : Persists(u, x),
           \A x \in Versions : version[x].st = "absent" \/ graph'[x] = graph[x]
    PROVE  \A w \in Users \ {u}, x \in Versions : Kept(w, x)
  <1>1. SUFFICES ASSUME NEW w \in Users, w # u, NEW x \in Versions PROVE Kept(w, x)
    OBVIOUS
  <1>2. w # "nobody"
    BY RequestsAssumption
  <1>3. \A y \in Versions : Exists(y) => Exists(y)' /\ version'[y].wf = version[y].wf
    BY DEF Persists, Exists
  <1>4. HeldBy(w, x)' => HeldBy(w, x) /\ version'[x] = version[x]
    BY <1>1, <1>2 DEF Persists, HeldBy
  <1>5. ASSUME Free(w, x)' PROVE Free(w, x) /\ graph'[x] = graph[x]
    BY <1>4, <1>5 DEF Free, HeldBy
  <1>6. ASSUME Exists(x) PROVE Siblings(x) \subseteq Siblings(x)'
    BY <1>3, <1>6 DEF Siblings
  <1>7. Free(w, x) => Exists(x)
    BY DEF Free, HeldBy, Exists
  <1>8. Free(w, x)' => Free(w, x) /\ graph'[x] = graph[x] /\ (Siblings(x) # {} => Siblings(x)' # {})
    BY <1>5, <1>6, <1>7
  <1>9. version[x].st # "absent" => version'[x].st # "absent" /\ (version'[x].st = "deleted" \/ version'[x].wf = version[x].wf)
    BY DEF Persists, Exists
  <1>10. version[x].st = "deleted" => version'[x].st = "deleted"
    BY DEF Persists, Exists
  <1>11. HeldBy(w, x) => x \in loose' \/ HeldBy(w, x)'
    BY <1>1 DEF Persists, HeldBy
  <1> QED BY <1>8, <1>9, <1>10, <1>11 DEF Kept

(* One version is another.                                                  *)
LEMMA VersionSet ==
    ASSUME InstanceInv, NEW d \in Versions, NEW s \in Version, s.st = "draft" <=> s.by # "nobody",
           version' = [version EXCEPT ![d] = s]
    PROVE  /\ version' \in [Versions -> Version] /\ \A x \in Versions : version'[x].st = "draft" <=> version'[x].by # "nobody"
           /\ version'[d] = s /\ \A x \in Versions : x # d => version'[x] = version[x]
  <1>1. version \in [Versions -> Version] /\ \A x \in Versions : version[x].st = "draft" <=> version[x].by # "nobody"
    BY DEF InstanceInv
  <1>2. version'[d] = s /\ \A x \in Versions : x # d => version'[x] = version[x]
    BY <1>1
  <1> QED BY <1>1, <1>2

(* A draft appears, for this user.                                          *)
LEMMA Appears ==
    ASSUME InstanceInv, NEW u \in Users, NEW d \in Versions, version[d].st = "absent", NEW wf \in Workflows,
           version' = [version EXCEPT ![d] = [st |-> "draft", by |-> u, wf |-> wf]],
           NEW g, g \in Graph', graph' = [graph EXCEPT ![d] = g],
           loose' = loose \/ loose' = loose \cup {d}, d \in loose' \/ Sound(g),
           lastEdge' = lastEdge \/ lastEdge' = lastEdge + 1, workflows' \subseteq Workflows,
           workflows \subseteq workflows', wf \in workflows'
    PROVE  /\ InstanceInv' /\ Edges \subseteq Edges' /\ lastEdge \in Nat /\ lastEdge' \in Nat /\ lastEdge <= lastEdge'
           /\ \A w \in Users \ {u}, x \in Versions : Kept(w, x)
  <1>1. lastEdge \in Nat /\ lastEdge' \in Nat /\ lastEdge <= lastEdge'
    BY DEF InstanceInv
  <1>2. Edges \subseteq Edges'
    BY <1>1, EdgesGrow
  <1>3. PICK s : s = [st |-> "draft", by |-> u, wf |-> wf]
    OBVIOUS
  <1>4. s \in Version /\ s.st = "draft" /\ s.by = u /\ u # "nobody" /\ s.wf = wf
    BY <1>3, RequestsAssumption DEF Version
  <1>5. /\ version' \in [Versions -> Version] /\ \A x \in Versions : version'[x].st = "draft" <=> version'[x].by # "nobody"
        /\ version'[d] = s /\ \A x \in Versions : x # d => version'[x] = version[x]
    BY <1>3, <1>4, VersionSet
  <1>6. graph \in [Versions -> Graph']
    <2>1. Graph \subseteq Graph'
      BY <1>2 DEF Graph
    <2> QED BY <2>1 DEF InstanceInv
  <1>7. graph' \in [Versions -> Graph'] /\ graph'[d] = g /\ \A x \in Versions : x # d => graph'[x] = graph[x]
    BY <1>6
  <1>8. \A x \in Versions : x \in loose' \/ Sound(graph'[x])
    BY <1>7 DEF InstanceInv
  <1>9. InstanceInv'
    <2>1. (\A x \in Versions : x \in loose \/ Sound(graph[x]))'
      BY <1>8 DEF Sound
    <2>2. loose' \subseteq Versions
      BY DEF InstanceInv
    <2>3. \A x \in Versions : (Exists(x)' => version'[x].wf \in workflows') /\ (~Exists(x)' => graph'[x].edges = {})
      BY <1>4, <1>5, <1>7 DEF InstanceInv, Exists
    <2> QED BY <2>1, <2>2, <2>3, <1>1, <1>5, <1>7 DEF InstanceInv, Version, Graph
  <1>10. \A x \in Versions : Persists(u, x)
    BY <1>4, <1>5 DEF Persists, Exists
  <1>11. \A x \in Versions : version[x].st = "absent" \/ graph'[x] = graph[x]
    BY <1>7
  <1>12. loose \subseteq loose'
    OBVIOUS
  <1> QED BY <1>1, <1>2, <1>9, <1>10, <1>11, <1>12, OthersKept

(* A version is the published one now.                                      *)
LEMMA Publishes ==
    ASSUME InstanceInv, NEW u \in Users, NEW v \in Versions, NEW wf \in workflows,
           version[v].st = "absent" \/ (version[v].st = "draft" /\ version[v].wf = wf),
           version' = AsPublished(v, wf), loose' = loose \/ loose' = loose \cup {v},
           version[v].st = "draft" => version[v].by = u \/ v \in loose',
           graph' = graph, workflows' = workflows, lastEdge' = lastEdge
    PROVE  /\ InstanceInv' /\ Edges \subseteq Edges' /\ lastEdge \in Nat /\ lastEdge' \in Nat /\ lastEdge <= lastEdge'
           /\ \A w \in Users \ {u}, x \in Versions : Kept(w, x)
  <1>1. lastEdge \in Nat /\ Edges' = Edges
    BY DEF InstanceInv, Edges
  <1>2. /\ wf \in Workflows
        /\ \A x \in Versions : /\ version[x] \in Version /\ (version[x].st = "draft" <=> version[x].by # "nobody")
                              /\ (Exists(x) => version[x].wf \in workflows) /\ (~Exists(x) => graph[x].edges = {})
    BY DEF InstanceInv
  <1>3. ASSUME NEW x \in Versions
        PROVE  /\ version'[x] \in Version /\ (version'[x].st = "draft" <=> version'[x].by # "nobody")
               /\ Persists(u, x)
               /\ (Exists(x)' => version'[x].wf \in workflows') /\ (~Exists(x)' => graph'[x].edges = {})
    <2>1. CASE x = v
      <3>1. version'[x] = [st |-> "published", by |-> "nobody", wf |-> wf]
        BY <2>1 DEF AsPublished
      <3> QED BY <1>2, <2>1, <3>1 DEF Version, Persists, Exists
    <2>2. CASE x # v /\ version[x].st = "published" /\ version[x].wf = wf
      <3>1. version'[x] = [version[x] EXCEPT !.st = "retired"]
        BY <2>2 DEF AsPublished
      <3>2. /\ version'[x] \in Version /\ version'[x].st = "retired" /\ version'[x].by = version[x].by
            /\ version'[x].wf = version[x].wf
        BY <1>2, <3>1 DEF Version
      <3> QED BY <1>2, <2>2, <3>2 DEF Persists, Exists
    <2>3. CASE x # v /\ ~(version[x].st = "published" /\ version[x].wf = wf)
      <3>1. version'[x] = version[x]
        BY <2>3 DEF AsPublished
      <3> QED BY <1>2, <3>1 DEF Persists, Exists
    <2> QED BY <2>1, <2>2, <2>3
  <1>4. version' \in [Versions -> Version]
    <2>1. version' = [x \in Versions |-> version'[x]]
      BY DEF AsPublished
    <2> QED BY <1>3, <2>1
  <1>5. InstanceInv'
    <2>1. (\A x \in Versions : x \in loose \/ Sound(graph[x]))'
      BY DEF InstanceInv, Sound
    <2>2. loose' \subseteq Versions /\ graph' \in [Versions -> Graph] /\ workflows' \subseteq Workflows
      BY DEF InstanceInv
    <2> QED BY <2>1, <2>2, <1>1, <1>3, <1>4 DEF InstanceInv, Version, Graph
  <1>6. \A w \in Users \ {u}, x \in Versions : Kept(w, x)
    BY <1>3, OthersKept
  <1> QED BY <1>1, <1>5, <1>6

(* A version is deleted; the drafts that lose their last sibling by it are  *)
(* loose from now on.                                                       *)
LEMMA Deletes ==
    ASSUME InstanceInv, NEW u \in Users, NEW v \in Versions, Deleted(v), NEW L, L \subseteq Versions \ {v},
           loose' = (loose \ {v}) \cup L, LeftAlone(v) \subseteq L
    PROVE  /\ InstanceInv' /\ Edges' = Edges /\ lastEdge \in Nat /\ lastEdge' = lastEdge
           /\ \A w \in Users \ {u}, x \in Versions : Kept(w, x)
           /\ version'[v].st = "deleted"
  <1>1. /\ version' = [version EXCEPT ![v] = Gone] /\ graph' = [graph EXCEPT ![v] = EmptyGraph] /\ lastEdge' = lastEdge
        /\ workflows' \subseteq workflows /\ Exists(v)
        /\ workflows' = IF OfWorkflow(version[v].wf) \ {v} = {} THEN workflows \ {version[v].wf} ELSE workflows
    BY DEF Deleted
  <1>2. lastEdge \in Nat /\ Edges' = Edges
    BY <1>1 DEF InstanceInv, Edges
  <1>3. Gone \in Version /\ Gone.st = "deleted" /\ Gone.by = "nobody"
    <2>1. Gone = [st |-> "deleted", by |-> "nobody", wf |-> "none"]
      BY DEF Gone, Absent
    <2> QED BY <2>1 DEF Version
  <1>4. /\ version' \in [Versions -> Version] /\ \A x \in Versions : version'[x].st = "draft" <=> version'[x].by # "nobody"
        /\ version'[v].st = "deleted" /\ \A x \in Versions : x # v => version'[x] = version[x]
    <2>1. Gone.st = "draft" <=> Gone.by # "nobody"
      BY <1>3
    <2> QED BY ONLY InstanceInv, v \in Versions, <1>1, <1>3, <2>1, VersionSet
  <1>5. EmptyGraph \in Graph /\ Sound(EmptyGraph)
    BY DEF EmptyGraph, Graph, Sound
  <1>6. graph' \in [Versions -> Graph] /\ graph'[v] = EmptyGraph /\ \A x \in Versions : x # v => graph'[x] = graph[x]
    BY <1>1, <1>5 DEF InstanceInv
  <1>7. InstanceInv'
    <2>1. (\A x \in Versions : x \in loose \/ Sound(graph[x]))'
      BY <1>5, <1>6 DEF InstanceInv, Sound
    <2>2. loose' \subseteq Versions /\ workflows' \subseteq Workflows /\ Graph' = Graph
      BY <1>1, <1>2 DEF InstanceInv, Graph
    <2>3. ASSUME NEW x \in Versions
          PROVE  (Exists(x)' => version'[x].wf \in workflows') /\ (~Exists(x)' => graph'[x].edges = {})
      <3>1. CASE x = v
        BY <1>4, <1>6, <3>1 DEF Exists, EmptyGraph
      <3>2. CASE x # v
        <4>1. version'[x] = version[x] /\ graph'[x] = graph[x]
          BY <1>4, <1>6, <3>2
        <4>2. (Exists(x) => version[x].wf \in workflows) /\ (~Exists(x) => graph[x].edges = {})
          BY DEF InstanceInv
        <4>3. ASSUME Exists(x), version[x].wf = version[v].wf PROVE OfWorkflow(version[v].wf) \ {v} # {}
          BY <3>2, <4>3 DEF OfWorkflow
        <4> QED BY <1>1, <4>1, <4>2, <4>3 DEF Exists
      <3> QED BY <3>1, <3>2
    <2> QED BY <2>1, <2>2, <2>3, <1>1, <1>2, <1>4, <1>6 DEF InstanceInv, Version
  <1>8. ASSUME NEW w \in Users, NEW x \in Versions PROVE Kept(w, x)
    <2>1. CASE x = v
      BY <1>1, <1>4, <2>1 DEF Kept, Free, HeldBy, Exists
    <2>2. CASE x # v
      <3>1. version'[x] = version[x] /\ graph'[x] = graph[x] /\ (x \in loose => x \in loose')
        BY <1>4, <1>6, <2>2
      <3>2. ASSUME Free(w, x)', Siblings(x) # {} PROVE Siblings(x)' # {}
        <4>1. SUFFICES ASSUME Siblings(x)' = {} PROVE FALSE
          BY <3>2
        <4>2. version[x].st = "draft" /\ x \notin loose'
          BY <3>1, <3>2 DEF Free, HeldBy
        <4>3. Siblings(x) \ {v} \subseteq Siblings(x)'
          BY <1>4, <3>1 DEF Siblings, Exists
        <4>4. Siblings(x) = {v}
          BY <3>2, <4>1, <4>3
        <4>5. version[v].wf = version[x].wf
          BY <4>4 DEF Siblings
        <4>6. OfWorkflow(version[v].wf) \ {v} = {x}
          BY <2>2, <4>2, <4>4, <4>5 DEF OfWorkflow, Siblings, Exists
        <4>7. x \in LeftAlone(v)
          BY <4>2, <4>6 DEF LeftAlone
        <4> QED BY <4>2, <4>7
      <3>3. Free(w, x)' => Free(w, x)
        BY <3>1 DEF Free, HeldBy
      <3>4. HeldBy(w, x)' <=> HeldBy(w, x)
        BY <3>1 DEF HeldBy
      <3> QED BY <3>1, <3>2, <3>3, <3>4 DEF Kept
    <2> QED BY <2>1, <2>2
  <1> QED BY <1>1, <1>2, <1>4, <1>7, <1>8

(* What such a step needs of its call.                                      *)
LEMMA Asking ==
    ASSUME NEW u \in Users, NEW c \in Call, c = call[u], CallInv(u), NEW x, At(u, x)
    PROVE  /\ TypedCall(c) /\ Shaped(c) /\ Cautious(c) /\ c.todo # <<>> /\ Head(c.todo) = x /\ Knows(In(c.todo), u, c)
           /\ c.req \in Request /\ c.req.ver \in Versions /\ c.req.wf \in Workflows /\ c.result = "none"
           /\ x \in In(c.todo) /\ x \in Family(c)
  <1>1. TypedCall(c) /\ Shaped(c) /\ Cautious(c) /\ c.todo # <<>> /\ Head(c.todo) = x /\ Knows(In(c.todo), u, c)
    BY DEF CallInv, At, Informed
  <1>2. x \in In(c.todo) /\ x \in Family(c)
    BY <1>1, StepsLeft
  <1>3. c.req \in Request /\ c.result = "none"
    BY <1>1 DEF TypedCall
  <1>4. c.req.ver \in Versions /\ c.req.wf \in Workflows
    BY <1>3 DEF Request
  <1> QED BY <1>1, <1>2, <1>3, <1>4

(* A write after which the call asks for another version or workflow.       *)
LEMMA ClosingWritesAs ==
    ASSUME NEW u \in Users, NEW x, x \in Closing, x \notin Reads \cup {"findings", "noteFindings", "rethrow", "verifyRemoved"},
           CallInv(u), call \in [Users -> Call], At(u, x), Edges \subseteq Edges', NEW c, c = call[u],
           NEW r \in Request, r.op = c.req.op, r.exit = c.req.exit, NEW W \in SUBSET Versions, NEW k, k = [c EXCEPT !.req = r, !.wrote = W],
           Go(u, k) \/ Stopped(u, k, "failed")
    PROVE  OwnMoves(u)
  <1>1. c \in Call
    OBVIOUS
  <1>2. PICK R : R = In(Tail(c.todo))
    OBVIOUS
  <1>3. /\ TypedCall(c) /\ Shaped(c) /\ c.todo # <<>> /\ Head(c.todo) = x /\ c.result = "none"
    BY <1>1, Asking
  <1>4. R \cap (Guarded \cup Placed) = {}
    BY <1>1, <1>2, <1>3, ClosingSteps
  <1>5. /\ k \in Call /\ k.todo = c.todo /\ k.req = r /\ k.seen = c.seen /\ k.spoilt = c.spoilt /\ k.result = c.result
    BY <1>1 DEF Call
  <1>6. TypedCall(k)'
    BY <1>3, <1>5 DEF TypedCall
  <1>7. Knows(R, u, k)'
    BY <1>4, Quiet
  <1>8. k.req \in Request /\ k.result = "none" /\ k.req.op = call[u].req.op /\ k.spoilt = call[u].spoilt
    BY <1>3, <1>5
  <1>9. R = In(Tail(call[u].todo)) /\ k \in Call
    BY <1>2, <1>5
  <1> QED BY <1>6, <1>7, <1>8, <1>9, OwnWrites

LEMMA takeCheckoutKeeps ==
    ASSUME InstanceInv, NEW u \in Users, CallInv(u), call \in [Users -> Call], takeCheckout(u, call[u].req)
    PROVE  StepKeeps(u) /\ calls' = calls
  <1>1. PICK c \in Call : c = call[u]
    OBVIOUS
  <1>2. PICK r : r = c.req
    OBVIOUS
  <1>3. At(u, "takeCheckout") /\ calls' = calls
    BY <1>1, <1>2 DEF takeCheckout
  <1>4. /\ r.ver \in Versions /\ r.wf \in Workflows /\ c.todo # <<>> /\ Knows(In(c.todo), u, c) /\ Shaped(c)
        /\ "takeCheckout" \in In(c.todo) /\ "takeCheckout" \in Family(c)
    BY <1>1, <1>2, <1>3, Asking
  <1>7. "initializeWorkflow" \notin In(c.todo)
    <2>1. c.req.op = "checkout" /\ Family(c) = StepsOf(c.req.op)
      BY <1>4 DEF Family, StepsOf, Cleanup, Wiring
    <2>2. In(c.todo) \subseteq {"chooseCheckout", "takeCheckout", "forceCheckout"}
      BY <1>4, <2>1 DEF Shaped, StepsOf
    <2> QED BY <2>2
  <1>8. version[r.ver].st = "published" => r.wf \in workflows
    BY <1>2, <1>4, <1>7 DEF Knows, Drawing, Placed, InstanceInv, Exists
  <1>5. CASE Throw(u, "failed") /\ UNCHANGED Instance
    <2>1. InstanceInv' /\ Edges' = Edges /\ lastEdge \in Nat /\ lastEdge' = lastEdge
      BY <1>5 DEF InstanceInv, Edges, Version, Graph, Sound, Instance, Exists
    <2>2. \A w, x : Kept(w, x)
      BY <1>5, Unmoved
    <2>3. OwnMoves(u)
      BY <1>1, <1>4, <1>5, <2>1, OwnThrows DEF Results
    <2> QED BY <1>3, <2>1, <2>2, <2>3 DEF StepKeeps
  <1>6. ASSUME NEW d \in Fresh, version' = [version EXCEPT ![d] = [st |-> "draft", by |-> u, wf |-> r.wf]],
               graph' = [graph EXCEPT ![d] = graph[r.ver]], loose' = IF r.ver \in loose THEN loose \cup {d} ELSE loose,
               Written(u), UNCHANGED <<workflows, lastEdge>>, version[r.ver].st = "published"
        PROVE  StepKeeps(u)
    <2>1. d \in Versions /\ version[d].st = "absent"
      BY <1>6 DEF Fresh
    <2>2. PICK g : g = graph[r.ver]
      OBVIOUS
    <2>3. g \in Graph' /\ (r.ver \in loose \/ Sound(g))
      BY <1>4, <1>6, <2>2 DEF InstanceInv, Graph, Edges
    <2>4. /\ loose' = loose \/ loose' = loose \cup {d}
          /\ d \in loose' \/ Sound(g)
      BY <1>6, <2>3
    <2>5. /\ workflows' \subseteq Workflows /\ (lastEdge' = lastEdge \/ lastEdge' = lastEdge + 1)
          /\ graph' = [graph EXCEPT ![d] = g] /\ workflows \subseteq workflows' /\ r.wf \in workflows'
      BY <1>6, <1>8, <2>2 DEF InstanceInv
    <2>6. /\ InstanceInv' /\ Edges \subseteq Edges' /\ lastEdge \in Nat /\ lastEdge' \in Nat /\ lastEdge <= lastEdge'
          /\ \A w \in Users \ {u}, x \in Versions : Kept(w, x)
      BY <1>4, <1>6, <2>1, <2>3, <2>4, <2>5, Appears
    <2>7. OwnMoves(u)
      BY <1>3, <1>6, <2>6, ClosingWrites DEF Closing, Reads
    <2> QED BY <2>6, <2>7 DEF StepKeeps
  <1> QED BY <1>1, <1>2, <1>3, <1>5, <1>6 DEF takeCheckout

LEMMA forceCheckoutKeeps ==
    ASSUME InstanceInv, NEW u \in Users, CallInv(u), call \in [Users -> Call], forceCheckout(u, call[u].req)
    PROVE  StepKeeps(u) /\ calls' = calls
  <1>1. PICK c \in Call : c = call[u]
    OBVIOUS
  <1>2. PICK r : r = c.req
    OBVIOUS
  <1>3. At(u, "forceCheckout") /\ calls' = calls
    BY <1>1, <1>2 DEF forceCheckout
  <1>4. r.ver \in Versions /\ r.wf \in Workflows /\ c.todo # <<>>
    BY <1>1, <1>2, <1>3, Asking
  <1>5. CASE Throw(u, "failed") /\ UNCHANGED Instance
    <2>1. InstanceInv' /\ Edges' = Edges /\ lastEdge \in Nat /\ lastEdge' = lastEdge
      BY <1>5 DEF InstanceInv, Edges, Version, Graph, Sound, Instance, Exists
    <2>2. \A w, x : Kept(w, x)
      BY <1>5, Unmoved
    <2>3. OwnMoves(u)
      BY <1>1, <1>4, <1>5, <2>1, OwnThrows DEF Results
    <2> QED BY <1>3, <2>1, <2>2, <2>3 DEF StepKeeps
  <1>6. ASSUME NEW d \in DraftsOf(r.wf), version' = [version EXCEPT ![d].by = u],
               loose' = IF version[d].by = u THEN loose ELSE loose \cup {d},
               Written(u), UNCHANGED <<workflows, graph, lastEdge>>
        PROVE  StepKeeps(u)
    <2>1. d \in Versions /\ version[d].st = "draft" /\ u # "nobody"
      BY <1>6, RequestsAssumption DEF DraftsOf, OfWorkflow
    <2>2. PICK s : s = [version[d] EXCEPT !.by = u]
      OBVIOUS
    <2>3. version[d] \in Version
      BY <2>1 DEF InstanceInv
    <2>4. s \in Version /\ s.st = "draft" /\ s.by = u /\ s.wf = version[d].wf
      BY <2>1, <2>2, <2>3 DEF Version
    <2>5. version' = [version EXCEPT ![d] = s]
      BY <1>6, <2>2
    <2>6. /\ version' \in [Versions -> Version] /\ \A x \in Versions : version'[x].st = "draft" <=> version'[x].by # "nobody"
          /\ version'[d] = s /\ \A x \in Versions : x # d => version'[x] = version[x]
      BY <2>1, <2>4, <2>5, VersionSet
    <2>7. lastEdge \in Nat /\ Edges' = Edges /\ lastEdge' = lastEdge
      BY <1>6 DEF InstanceInv, Edges
    <2>8. InstanceInv'
      <3>1. (\A x \in Versions : x \in loose \/ Sound(graph[x]))'
        BY <1>6 DEF InstanceInv, Sound
      <3>2. loose' \subseteq Versions /\ graph' \in [Versions -> Graph] /\ workflows' \subseteq Workflows
        BY <1>6, <2>1 DEF InstanceInv
      <3>3. \A x \in Versions : (Exists(x)' => version'[x].wf \in workflows') /\ (~Exists(x)' => graph'[x].edges = {})
        BY <1>6, <2>1, <2>4, <2>6 DEF InstanceInv, Exists
      <3> QED BY <3>1, <3>2, <3>3, <2>6, <2>7 DEF InstanceInv, Version, Graph
    <2>9. \A x \in Versions : Persists(u, x)
      BY <1>6, <2>1, <2>4, <2>6 DEF Persists, Exists
    <2>10. \A w \in Users \ {u}, x \in Versions : Kept(w, x)
      <3>1. loose \subseteq loose' /\ \A x \in Versions : version[x].st = "absent" \/ graph'[x] = graph[x]
        BY <1>6
      <3> QED BY <2>9, <3>1, OthersKept
    <2>11. OwnMoves(u)
      BY <1>3, <1>6, <2>7, ClosingWrites DEF Closing, Reads
    <2> QED BY <2>7, <2>8, <2>10, <2>11 DEF StepKeeps
  <1> QED BY <1>1, <1>2, <1>3, <1>5, <1>6 DEF forceCheckout

(* A step that changes nothing but its call.                                *)
LEMMA CallMoves ==
    ASSUME InstanceInv, NEW u \in Users, UNCHANGED Instance, OwnMoves(u)
    PROVE  StepKeeps(u)
  <1>1. InstanceInv' /\ lastEdge \in Nat /\ lastEdge' = lastEdge
    BY DEF InstanceInv, Edges, Version, Graph, Sound, Instance, Exists
  <1>2. \A w, x : Kept(w, x)
    BY Unmoved
  <1> QED BY <1>1, <1>2 DEF StepKeeps

LEMMA Published ==
    ASSUME InstanceInv, NEW u \in Users, NEW v \in Versions, SetPublished(v), loose' = loose \/ loose' = loose \cup {v},
           version[v].by = u \/ v \in loose'
    PROVE  /\ InstanceInv' /\ Edges \subseteq Edges' /\ lastEdge \in Nat /\ lastEdge' \in Nat /\ lastEdge <= lastEdge'
           /\ \A w \in Users \ {u}, x \in Versions : Kept(w, x)
  <1>1. /\ version[v].st = "draft" /\ version' = AsPublished(v, version[v].wf)
        /\ workflows' = workflows /\ graph' = graph /\ lastEdge' = lastEdge
    BY DEF SetPublished
  <1>2. PICK wf : wf = version[v].wf
    OBVIOUS
  <1>3. wf \in workflows
    BY <1>1, <1>2 DEF InstanceInv, Exists
  <1>4. (loose' = loose \/ loose' = loose \cup {v}) /\ (version[v].by = u \/ v \in loose')
    OBVIOUS
  <1>5. version' = AsPublished(v, wf)
    BY <1>1, <1>2
  <1> QED BY ONLY InstanceInv, u \in Users, v \in Versions, <1>1, <1>2, <1>3, <1>4, <1>5, Publishes

(* The steps of publish come before anything is written.                    *)
LEMMA publishValidatedKeeps ==
    ASSUME InstanceInv, NEW u \in Users, CallInv(u), call \in [Users -> Call], publishValidated(u, call[u].req)
    PROVE  StepKeeps(u) /\ calls' = calls
  <1>1. PICK c \in Call : c = call[u]
    OBVIOUS
  <1>2. PICK v : v = c.req.ver
    OBVIOUS
  <1>3. At(u, "publishValidated") /\ calls' = calls
    BY DEF publishValidated
  <1>4. /\ TypedCall(c) /\ Cautious(c) /\ c.req \in Request /\ v \in Versions /\ c.result = "none"
        /\ "publishValidated" \in In(c.todo) /\ "publishValidated" \in Family(c) /\ Knows(In(c.todo), u, c)
        /\ Head(c.todo) = "publishValidated" /\ Shaped(c) /\ c.todo # <<>>
    BY <1>1, <1>2, <1>3, Asking
  <1>5. c.req.op = "publish"
    BY <1>4 DEF Family, StepsOf, Cleanup, Wiring
  <1>12. v \in c.owned /\ Checked({"publishAnyway"}, u, v)
    <2>1. \A y \in In(c.todo) : Rank("publishValidated") <= Rank(y)
      BY <1>4, StepsLeft
    <2>2. Rank("publishValidated") = 7 /\ Rank("requireDraft") = 0
      BY DEF Rank, Reads
    <2>3. "requireDraft" \notin In(c.todo)
      BY <2>1, <2>2
    <2> QED BY <1>2, <1>4, <2>3 DEF Knows, Prepared, Checked, Guarded
  <1>6. ~Touched(c)
    <2>1. "rethrow" \notin In(c.todo)
      <3>1. "publishValidated" \notin Cleanup
        BY DEF Cleanup
      <3> QED BY <1>4, <3>1 DEF Family
    <2> QED BY <1>4, <1>5, <2>1 DEF Cautious
  <1>7. {"findings", "noteFindings", "publishAnyway"} \subseteq StepsOf(c.req.op) /\ StepsOf(c.req.op) \subseteq Steps
    BY <1>5, StepsOfSteps DEF StepsOf, Ops
  <1>8. ASSUME SetPublished(v), Written(u), loose' = loose PROVE StepKeeps(u)
    <2>3. version[v].by = u \/ v \in loose'
      BY <1>8, <1>12 DEF SetPublished, Checked, HeldBy, Guarded
    <2>1. /\ InstanceInv' /\ Edges \subseteq Edges' /\ lastEdge \in Nat /\ lastEdge' \in Nat /\ lastEdge <= lastEdge'
          /\ \A w \in Users \ {u}, x \in Versions : Kept(w, x)
      BY <1>4, <1>8, <2>3, Published
    <2>2. OwnMoves(u)
      BY <1>3, <1>8, <2>1, ClosingWrites DEF Closing, Reads
    <2> QED BY <2>1, <2>2 DEF StepKeeps
  <1>9. ASSUME Follow(u, c, <<"findings">>), UNCHANGED Instance PROVE StepKeeps(u)
    <2>1. TypedCall(c)'
      BY <1>4, <1>9 DEF TypedCall, Edges, Instance
    <2>2. Knows({"findings"}, u, c)'
      BY Quiet DEF Guarded, Placed
    <2>3. "findings" \in Steps /\ "findings" \in StepsOf(c.req.op) /\ "findings" \in LastOf(c.req.op)
      BY <1>5, <1>7 DEF LastOf
    <2>4. OwnMoves(u)
      BY <1>4, <1>6, <1>9, <2>1, <2>2, <2>3, OwnTurnsTo
    <2> QED BY <1>9, <2>4, CallMoves
  <1>10. ASSUME Follow(u, c, <<"noteFindings", "publishAnyway">>), UNCHANGED Instance PROVE StepKeeps(u)
    <2>1. TypedCall(c)'
      BY <1>4, <1>10 DEF TypedCall, Edges, Instance
    <2> DEFINE t == <<"noteFindings", "publishAnyway">>
    <2>2. t \in Seq(Steps) /\ t # <<>> /\ t[Len(t)] = "publishAnyway"
      BY <1>7
    <2>3. In(t) = {"noteFindings", "publishAnyway"}
      BY DEF In
    <2>4. Ordered(t)
      BY DEF Ordered, Before, Rank, Reads
    <2>5. Follow(u, c, t)
      BY <1>10
    <2> HIDE DEF t
    <2>6. PICK P : P = In(t)
      OBVIOUS
    <2>7. Knows(P, u, c)'
      <3>1. P = {"noteFindings", "publishAnyway"}
        BY <2>3, <2>6
      <3>2. Prepared(P, c)'
        BY <1>2, <1>12, <3>1 DEF Prepared
      <3>3. Checked(P, u, v)'
        BY <1>10, <1>12, <3>1 DEF Checked, HeldBy, Guarded, Instance
      <3> QED BY <1>2, <3>1, <3>2, <3>3 DEF Knows, FactsOf, Accompanied, Drawing, Placed
    <2>8. ASSUME NEW d \in Call, d.todo = t, d.req = c.req, d.wrote = c.wrote, d.spoilt = c.spoilt
          PROVE  Shaped(d) /\ Cautious(d)
      <3>1. Family(d) = StepsOf(c.req.op) /\ "rethrow" \notin In(d.todo) /\ ~Touched(d) /\ "publishValidated" \notin In(d.todo)
        BY <1>6, <2>3, <2>8 DEF Family, Touched
      <3>2. d.todo[Len(d.todo)] \in LastOf(d.req.op)
        BY <1>5, <2>2, <2>8 DEF LastOf
      <3>3. In(d.todo) \subseteq Family(d) /\ Ordered(d.todo)
        BY <1>7, <2>3, <2>4, <2>8, <3>1
      <3> QED BY <3>1, <3>2, <3>3 DEF Shaped, Cautious
    <2>9. OwnMoves(u)
      BY <1>4, <2>1, <2>2, <2>5, <2>6, <2>7, <2>8, OwnTurns
    <2> QED BY <1>10, <2>9, CallMoves
  <1>11. \/ SetPublished(v) /\ Written(u) /\ loose' = loose
         \/ Follow(u, c, <<"findings">>) /\ UNCHANGED Instance
         \/ Follow(u, c, <<"noteFindings", "publishAnyway">>) /\ UNCHANGED Instance
    BY <1>1, <1>2 DEF publishValidated
  <1> QED BY <1>3, <1>8, <1>9, <1>10, <1>11

LEMMA publishAnywayKeeps ==
    ASSUME InstanceInv, NEW u \in Users, CallInv(u), call \in [Users -> Call], publishAnyway(u, call[u].req)
    PROVE  StepKeeps(u) /\ calls' = calls
  <1>1. PICK c \in Call : c = call[u]
    OBVIOUS
  <1>2. PICK v : v = c.req.ver
    OBVIOUS
  <1>3. At(u, "publishAnyway") /\ calls' = calls /\ SetPublished(v) /\ Written(u) /\ loose' = loose
    BY <1>1, <1>2 DEF publishAnyway
  <1>4. v \in Versions /\ (version[v].by = u \/ v \in loose')
    <2>1. v \in Versions /\ (Exists(v) => v \in loose \/ HeldBy(u, v))
      BY <1>1, <1>2, <1>3, Editing DEF Guarded, Reads
    <2> QED BY <1>3, <2>1 DEF SetPublished, Exists, HeldBy
  <1>5. /\ InstanceInv' /\ Edges \subseteq Edges' /\ lastEdge \in Nat /\ lastEdge' \in Nat /\ lastEdge <= lastEdge'
        /\ \A w \in Users \ {u}, x \in Versions : Kept(w, x)
    BY <1>3, <1>4, Published
  <1>6. OwnMoves(u)
    BY <1>3, <1>5, ClosingWrites DEF Closing, Reads
  <1> QED BY <1>3, <1>5, <1>6 DEF StepKeeps

LEMMA publishQuietlyKeeps ==
    ASSUME InstanceInv, NEW u \in Users, CallInv(u), call \in [Users -> Call], publishQuietly(u, call[u].req)
    PROVE  StepKeeps(u) /\ calls' = calls
  <1>1. PICK c \in Call : c = call[u]
    OBVIOUS
  <1>2. PICK v : v = c.req.ver
    OBVIOUS
  <1>3. PICK k : k = [c EXCEPT !.wrote = @ \cup {v}]
    OBVIOUS
  <1>4. /\ At(u, "publishQuietly") /\ calls' = calls
        /\ \/ Release(u, v) /\ (Go(u, k) \/ Follow(u, k, <<"readPublished">>))
           \/ Follow(u, k, <<"readPublished">>) /\ UNCHANGED Instance
    BY <1>1, <1>2, <1>3 DEF publishQuietly
  <1>5. /\ TypedCall(c) /\ Shaped(c) /\ c.todo # <<>> /\ Head(c.todo) = "publishQuietly" /\ c.req \in Request /\ v \in Versions
        /\ c.result = "none" /\ "publishQuietly" \in Family(c)
    BY <1>1, <1>2, <1>4, Asking
  <1>6. /\ k \in Call /\ k.req = c.req /\ k.seen = c.seen /\ k.spoilt = c.spoilt /\ k.result = c.result
    BY <1>3, <1>5 DEF Call
  <1>7. "readPublished" \in StepsOf(k.req.op) /\ "readPublished" \in LastOf(k.req.op) /\ "readPublished" \in Steps
    <2>1. c.req.op \in {"publishWorkflow", "createCompleteWorkflow"}
      BY <1>5 DEF Family, StepsOf, Cleanup, Wiring
    <2>2. "readPublished" \in StepsOf("publishWorkflow") /\ "publishWorkflow" \in Ops
      BY DEF StepsOf, Ops
    <2> QED BY <1>6, <2>1, <2>2, StepsOfSteps, SMTT(30) DEF StepsOf, LastOf
  <1>8. ASSUME Edges \subseteq Edges', Follow(u, k, <<"readPublished">>) PROVE OwnMoves(u)
    <2>1. TypedCall(k)' /\ k.req \in Request /\ k.result = "none"
      BY <1>5, <1>6, <1>8 DEF TypedCall
    <2>2. Knows({"readPublished"}, u, k)'
      BY Quiet DEF Guarded, Placed
    <2> QED BY <1>6, <1>7, <1>8, <2>1, <2>2, OwnTurnsTo DEF Reads
  <1>9. ASSUME Edges \subseteq Edges', Go(u, k) PROVE OwnMoves(u)
    <2>1. PICK r \in Request : r = c.req
      BY <1>5
    <2>2. PICK W \in SUBSET Versions : W = c.wrote \cup {v}
      BY <1>5 DEF Call
    <2>3. k = [c EXCEPT !.req = r, !.wrote = W]
      BY <1>3, <2>1, <2>2 DEF Call
    <2> QED BY <1>1, <1>4, <1>9, <2>1, <2>2, <2>3, ClosingWritesAs DEF Closing, Reads
  <1>10. ASSUME Release(u, v) PROVE StepKeeps(u)
    <2>1. /\ InstanceInv' /\ Edges \subseteq Edges' /\ lastEdge \in Nat /\ lastEdge' \in Nat /\ lastEdge <= lastEdge'
          /\ \A w \in Users \ {u}, x \in Versions : Kept(w, x)
      <3>1. /\ SetPublished(v) /\ (loose' = loose \/ loose' = loose \cup {v}) /\ (version[v].by = u \/ v \in loose')
        BY <1>10 DEF Release, HeldBy
      <3> QED BY <1>5, <3>1, Published
    <2>2. Go(u, k) \/ Follow(u, k, <<"readPublished">>)
      BY <1>4
    <2>3. OwnMoves(u)
      BY <1>8, <1>9, <2>1, <2>2
    <2> QED BY <2>1, <2>3 DEF StepKeeps
  <1>11. ASSUME UNCHANGED Instance, Follow(u, k, <<"readPublished">>) PROVE StepKeeps(u)
    <2>1. Edges \subseteq Edges'
      BY <1>11 DEF Instance, Edges
    <2>2. OwnMoves(u)
      BY <1>8, <1>11, <2>1
    <2> QED BY <1>11, <2>2, CallMoves
  <1> QED BY <1>4, <1>10, <1>11

LEMMA deleteDraftKeeps ==
    ASSUME InstanceInv, NEW u \in Users, CallInv(u), call \in [Users -> Call], deleteDraft(u, call[u].req)
    PROVE  StepKeeps(u) /\ calls' = calls
  <1>1. PICK c \in Call : c = call[u]
    OBVIOUS
  <1>2. PICK v : v = c.req.ver
    OBVIOUS
  <1>3. /\ At(u, "deleteDraft") /\ calls' = calls /\ Deleted(v) /\ Written(u)
        /\ loose' = (loose \ {v}) \cup LeftAlone(v)
    BY <1>1, <1>2 DEF deleteDraft
  <1>4. /\ TypedCall(c) /\ Shaped(c) /\ c.todo # <<>> /\ Head(c.todo) = "deleteDraft" /\ v \in Versions
        /\ "deleteDraft" \in Family(c) /\ "deleteDraft" \in In(c.todo) /\ Knows(In(c.todo), u, c)
    BY <1>1, <1>2, <1>3, Asking
  <1>5. LeftAlone(v) \subseteq Versions \ {v}
    BY DEF LeftAlone, OfWorkflow
  <1>6. /\ InstanceInv' /\ Edges' = Edges /\ lastEdge \in Nat /\ lastEdge' = lastEdge
        /\ \A w \in Users \ {u}, x \in Versions : Kept(w, x)
        /\ version'[v].st = "deleted"
    BY <1>3, <1>4, <1>5, Deletes
  <1>7. PICK R : R = In(Tail(c.todo))
    OBVIOUS
  <1>8. R \subseteq {"verifyDeleted"}
    <2>1. /\ R \subseteq In(c.todo) /\ "deleteDraft" \notin R /\ \A y \in In(c.todo) : Rank("deleteDraft") <= Rank(y)
          /\ R \subseteq Family(c)
      BY <1>4, <1>7, StepsLeft
    <2>2. Family(c) = StepsOf(c.req.op)
      BY <1>4 DEF Family, Cleanup
    <2>3. c.req.op = "discardCheckout"
      BY <1>4, <2>2 DEF StepsOf, Wiring
    <2>4. R \subseteq {"requireDraft", "readSiblings", "deleteDraft", "verifyDeleted"}
      BY <2>1, <2>2, <2>3 DEF StepsOf
    <2>5. Rank("deleteDraft") = 7 /\ Rank("requireDraft") = 0 /\ Rank("readSiblings") = 0
      BY DEF Rank, Reads
    <2> QED BY <2>1, <2>4, <2>5
  <1>9. Knows(R, u, c)'
    <2>1. Prepared(R, c)'
      <3>1. \A y \in In(c.todo) : Rank("deleteDraft") <= Rank(y)
        BY <1>4, StepsLeft
      <3>2. Rank("deleteDraft") = 7 /\ Rank("requireDraft") = 0
        BY DEF Rank, Reads
      <3>3. "requireDraft" \notin In(c.todo)
        BY <3>1, <3>2
      <3>4. c.req.ver \in c.owned
        BY <1>4, <3>3 DEF Knows, Prepared, Guarded
      <3> QED BY <1>8, <3>4 DEF Prepared
    <2>2. (~Free(u, v))'
      BY <1>6 DEF Free, HeldBy
    <2>3. Checked(R, u, v)'
      BY <1>6 DEF Checked
    <2>4. (Accompanied(R, u, v) /\ Drawing(R, v, c.req.wf))'
      BY <1>8 DEF Accompanied, Drawing, Placed
    <2> QED BY <1>2, <2>1, <2>2, <2>3, <2>4 DEF Knows
  <1>10. OwnMoves(u)
    BY <1>1, <1>3, <1>6, <1>7, <1>9, OwnWritten DEF Reads
  <1> QED BY <1>3, <1>6, <1>10 DEF StepKeeps

LEMMA deleteVersionsKeeps ==
    ASSUME InstanceInv, NEW u \in Users, CallInv(u), call \in [Users -> Call], deleteVersions(u, call[u].req)
    PROVE  StepKeeps(u) /\ calls' = calls
  <1>1. PICK c \in Call : c = call[u]
    OBVIOUS
  <1>2. At(u, "deleteVersions") /\ calls' = calls
    BY DEF deleteVersions
  <1>3. /\ TypedCall(c) /\ Shaped(c) /\ c.todo # <<>> /\ Head(c.todo) = "deleteVersions" /\ c.req \in Request /\ c.result = "none"
        /\ "deleteVersions" \in In(c.todo) /\ "deleteVersions" \in Family(c)
    BY <1>1, <1>2, Asking
  <1>4. /\ c.req.op = "deleteWorkflow" /\ Family(c) = StepsOf(c.req.op)
        /\ In(c.todo) \subseteq {"deleteVersions", "verifyWorkflowGone"}
    <2>1. Family(c) = StepsOf(c.req.op)
      BY <1>3 DEF Family, Cleanup
    <2>2. c.req.op = "deleteWorkflow"
      BY <1>3, <2>1 DEF StepsOf, Wiring
    <2>3. In(c.todo) \subseteq {"resolveWorkflow", "readVersions", "deleteVersions", "verifyWorkflowGone"}
      BY <1>3, <2>1, <2>2 DEF StepsOf, Shaped
    <2>4. \A y \in In(c.todo) : Rank("deleteVersions") <= Rank(y)
      BY <1>3, StepsLeft
    <2>5. Rank("deleteVersions") = 7 /\ Rank("resolveWorkflow") = 0 /\ Rank("readVersions") = 0
      BY DEF Rank, Reads
    <2> QED BY <2>1, <2>2, <2>3, <2>4, <2>5
  <1>5. CASE c.seen = {}
    <2>1. Go(u, c) /\ UNCHANGED Instance
      BY <1>1, <1>5 DEF deleteVersions
    <2>2. OwnMoves(u)
      BY <1>1, <1>2, <2>1, OwnChecks DEF Telling
    <2> QED BY <1>2, <2>1, <2>2, CallMoves
  <1>6. ASSUME NEW d \in c.seen, NEW k, k = [c EXCEPT !.seen = @ \ {d}, !.wrote = @ \cup {d.ver}], Deleted(d.ver),
               loose' = (loose \ {d.ver}) \cup (OfWorkflow(version[d.ver].wf) \ {d.ver}),
               Follow(u, k, c.todo) \/ Stopped(u, k, "failed")
        PROVE  StepKeeps(u)
    <2>1. c.seen \subseteq Readings
      BY <1>3, <1>4 DEF TypedCall
    <2>2. PICK v \in Versions : v = d.ver
      BY <1>6, <2>1 DEF Readings
    <2>3. OfWorkflow(version[v].wf) \ {v} \subseteq Versions \ {v} /\ LeftAlone(v) \subseteq OfWorkflow(version[v].wf) \ {v}
      BY DEF LeftAlone, OfWorkflow
    <2>4. /\ InstanceInv' /\ Edges' = Edges /\ lastEdge \in Nat /\ lastEdge' = lastEdge
          /\ \A w \in Users \ {u}, x \in Versions : Kept(w, x)
      <3>1. PICK L : L = OfWorkflow(version[v].wf) \ {v}
        OBVIOUS
      <3>2. Deleted(v) /\ loose' = (loose \ {v}) \cup L
        BY <1>6, <2>2, <3>1
      <3>3. L \subseteq Versions \ {v} /\ LeftAlone(v) \subseteq L
        BY <2>3, <3>1
      <3> QED BY ONLY InstanceInv, u \in Users, v \in Versions, <3>2, <3>3, Deletes
    <2>5. /\ k \in Call /\ k.req = c.req /\ k.spoilt = c.spoilt /\ k.result = c.result
          /\ k.seen = c.seen \ {d}
      BY <1>6, <2>2 DEF Call
    <2>6. TypedCall(k)' /\ k.req \in Request /\ k.result = "none"
      BY <1>3, <1>4, <2>1, <2>5 DEF TypedCall
    <2>7. ASSUME Follow(u, k, c.todo) PROVE OwnMoves(u)
      <3>1. PICK t \in Seq(Steps) : t = c.todo
        BY DEF Call
      <3>2. ASSUME NEW e \in Call, e.todo = t, e.req = k.req, e.wrote = k.wrote, e.spoilt = k.spoilt
            PROVE  Shaped(e) /\ Cautious(e)
        <4>1. "rethrow" \notin In(e.todo) /\ In(e.todo) \cap (Reads \cup {"findings", "publishValidated"}) = {}
          BY <1>4, <3>1, <3>2 DEF Reads
        <4>2. Shaped(e)
          BY <1>3, <2>5, <3>1, <3>2 DEF Shaped, Family
        <4> QED BY <4>1, <4>2 DEF Cautious
      <3>3. PICK P : P = In(t)
        OBVIOUS
      <3>4. Knows(P, u, k)'
        BY <1>4, <3>1, <3>3, Quiet DEF Guarded, Placed
      <3>5. Follow(u, k, t) /\ t # <<>>
        BY <1>3, <2>7, <3>1
      <3>6. \A e \in Call : e.todo = t /\ e.req = k.req /\ e.wrote = k.wrote /\ e.spoilt = k.spoilt => Shaped(e) /\ Cautious(e)
        BY <3>2
      <3>7. k \in Call /\ t \in Seq(Steps) /\ u \in Users /\ call \in [Users -> Call]
        BY <2>5
      <3> QED BY ONLY <2>6, <3>3, <3>4, <3>5, <3>6, <3>7, OwnTurns
    <2>8. ASSUME Stopped(u, k, "failed") PROVE OwnMoves(u)
      <3>1. k \in Call /\ k.req.op = call[u].req.op /\ "failed" \in Results
        BY <1>1, <2>5 DEF Results
      <3> QED BY <2>6, <2>8, <3>1, OwnStops
    <2>9. OwnMoves(u)
      BY <1>6, <2>7, <2>8
    <2> QED BY <2>4, <2>9 DEF StepKeeps
  <1>7. CASE c.seen # {}
    <2>1. PICK d \in c.seen :
             /\ Deleted(d.ver) /\ loose' = (loose \ {d.ver}) \cup (OfWorkflow(version[d.ver].wf) \ {d.ver})
             /\ \/ Follow(u, [c EXCEPT !.seen = @ \ {d}, !.wrote = @ \cup {d.ver}], c.todo)
                \/ Stopped(u, [c EXCEPT !.seen = @ \ {d}, !.wrote = @ \cup {d.ver}], "failed")
      BY <1>1, <1>7 DEF deleteVersions
    <2> QED BY <1>2, <1>6, <2>1
  <1> QED BY <1>5, <1>7, <1>2

LEMMA initializeWorkflowKeeps ==
    ASSUME InstanceInv, NEW u \in Users, CallInv(u), call \in [Users -> Call], initializeWorkflow(u, call[u].req)
    PROVE  StepKeeps(u) /\ calls' = calls
  <1>1. PICK c \in Call : c = call[u]
    OBVIOUS
  <1>2. /\ At(u, "initializeWorkflow") /\ calls' = calls /\ lastEdge' = lastEdge + 1 /\ loose' = loose
    BY DEF initializeWorkflow
  <1>3. PICK p : p = NewPath("begin", Min(Exits), "end")
    OBVIOUS
  <1>4. PICK g : g = [nodes |-> {"begin", "end"}, exits |-> {<<"begin", Min(Exits)>>}, edges |-> {p}]
    OBVIOUS
  <1>5. PICK v \in Fresh, wf \in Workflows \ workflows :
           /\ version' = [version EXCEPT ![v] = [st |-> "draft", by |-> u, wf |-> wf]]
           /\ graph' = [graph EXCEPT ![v] = g] /\ workflows' = workflows \cup {wf}
           /\ \/ Go(u, [c EXCEPT !.wrote = {v}, !.req.ver = v, !.req.wf = wf])
              \/ Stopped(u, [c EXCEPT !.wrote = {v}, !.req.ver = v, !.req.wf = wf], "failed")
    BY <1>1, <1>3, <1>4 DEF initializeWorkflow
  <1>6. v \in Versions /\ version[v].st = "absent" /\ wf \in Workflows
    BY <1>5 DEF Fresh
  <1>7. Min(Exits) \in Exits /\ {"begin", "end"} \subseteq Names /\ lastEdge \in Nat
    BY LeastExit, RequestsAssumption DEF InstanceInv
  <1>8. /\ p \in Edges' /\ p.from = "begin" /\ p.to = "end" /\ p.exit = Min(Exits)
    <2>1. lastEdge + 1 \in 1..(lastEdge + 1)
      BY <1>7
    <2> QED BY <1>2, <1>3, <1>7, <2>1 DEF NewPath, Edges
  <1>9. g \in Graph' /\ Sound(g)
    BY <1>4, <1>7, <1>8 DEF Graph, Sound
  <1>10. /\ InstanceInv' /\ Edges \subseteq Edges' /\ lastEdge \in Nat /\ lastEdge' \in Nat /\ lastEdge <= lastEdge'
         /\ \A w \in Users \ {u}, x \in Versions : Kept(w, x)
    <2>1. /\ workflows' \subseteq Workflows /\ (lastEdge' = lastEdge \/ lastEdge' = lastEdge + 1)
          /\ loose' = loose \/ loose' = loose \cup {v}
          /\ v \in loose' \/ Sound(g)
          /\ workflows \subseteq workflows' /\ wf \in workflows'
      BY <1>2, <1>5, <1>6, <1>9 DEF InstanceInv
    <2> QED BY <1>5, <1>6, <1>9, <2>1, Appears
  <1>11. OwnMoves(u)
    <2>1. /\ c.req \in Request /\ TypedCall(c) /\ Shaped(c) /\ c.todo # <<>> /\ Head(c.todo) = "initializeWorkflow"
          /\ c.result = "none" /\ "initializeWorkflow" \in Family(c)
      BY <1>1, <1>2, Asking
    <2>2. PICK r : r = [c.req EXCEPT !.ver = v, !.wf = wf]
      OBVIOUS
    <2>3. r \in Request /\ r.op = c.req.op /\ r.exit = c.req.exit /\ r.ver = v /\ r.wf = wf
      BY <1>6, <2>1, <2>2 DEF Request
    <2>4. PICK k : k = [c EXCEPT !.wrote = {v}, !.req.ver = v, !.req.wf = wf]
      OBVIOUS
    <2>5. /\ k \in Call /\ k.req = r /\ k.seen = c.seen /\ k.spoilt = c.spoilt /\ k.result = c.result
      BY <1>6, <2>1, <2>2, <2>3, <2>4 DEF Call
    <2>6. TypedCall(k)' /\ k.req \in Request /\ k.result = "none"
      BY <1>10, <2>1, <2>3, <2>5 DEF TypedCall
    <2>7. PICK R : R = In(Tail(c.todo))
      OBVIOUS
    <2>8. R \subseteq {"verifyInitialized"}
      <3>1. /\ R \subseteq In(c.todo) /\ "initializeWorkflow" \notin R /\ R \subseteq Family(c)
            /\ \A y \in In(c.todo) : Rank("initializeWorkflow") <= Rank(y)
        BY <2>1, <2>7, StepsLeft
      <3>2. Family(c) = StepsOf(c.req.op)
        BY <2>1 DEF Family, Cleanup
      <3>3. c.req.op = "newWorkflow"
        BY <2>1, <3>2 DEF StepsOf, Wiring
      <3>4. R \subseteq {"checkName", "initializeWorkflow", "verifyInitialized"}
        BY <3>1, <3>2, <3>3 DEF StepsOf
      <3>5. Rank("initializeWorkflow") = 7 /\ Rank("checkName") = 0
        BY DEF Rank, Reads
      <3> QED BY <3>1, <3>4, <3>5
    <2>9. Knows(R, u, k)'
      <3>1. version'[v].st = "draft" /\ version'[v].wf = wf
        BY <1>5, <1>6 DEF InstanceInv
      <3>2. Drawing(R, v, wf)'
        BY <3>1 DEF Drawing
      <3>3. R \cap Guarded = {}
        BY <2>8 DEF Guarded
      <3> QED BY <2>3, <2>5, <2>8, <3>2, <3>3 DEF Knows, Prepared, FactsOf, Checked, Accompanied
    <2>10. Go(u, k) \/ Stopped(u, k, "failed")
      BY <1>5, <2>4
    <2>11. k.req.op = call[u].req.op /\ k.spoilt = call[u].spoilt /\ R = In(Tail(call[u].todo)) /\ k \in Call
      BY <1>1, <2>3, <2>5, <2>7
    <2> QED BY <1>2, <2>6, <2>9, <2>10, <2>11, OwnWrites DEF Reads
  <1> QED BY <1>2, <1>10, <1>11 DEF StepKeeps

LEMMA postWorkflowKeeps ==
    ASSUME InstanceInv, NEW u \in Users, CallInv(u), call \in [Users -> Call], postWorkflow(u, call[u].req)
    PROVE  StepKeeps(u) /\ calls' = calls
  <1>1. PICK c \in Call : c = call[u]
    OBVIOUS
  <1>2. /\ At(u, "postWorkflow") /\ calls' = calls /\ UNCHANGED <<version, graph, lastEdge, loose>>
    BY DEF postWorkflow
  <1>3. PICK wf \in Workflows \ workflows :
           /\ workflows' = workflows \cup {wf}
           /\ Go(u, [c EXCEPT !.req.wf = wf]) \/ Stopped(u, [c EXCEPT !.req.wf = wf], "failed")
    BY <1>1 DEF postWorkflow
  <1>4. /\ InstanceInv' /\ Edges' = Edges /\ lastEdge \in Nat
    BY <1>2, <1>3 DEF InstanceInv, Version, Graph, Sound, Edges, Exists
  <1>5. \A w \in Users, x \in Versions : Kept(w, x)
    BY <1>2 DEF Kept, Free, HeldBy, Siblings, Exists
  <1>6. OwnMoves(u)
    <2>1. c.req \in Request
      BY <1>1, <1>2, Asking
    <2>2. PICK r : r = [c.req EXCEPT !.wf = wf]
      OBVIOUS
    <2>3. r \in Request /\ r.op = c.req.op /\ r.exit = c.req.exit
      BY <1>3, <2>1, <2>2 DEF Request
    <2>7. PICK W \in SUBSET Versions : W = c.wrote
      BY DEF Call
    <2>4. [c EXCEPT !.req.wf = wf] = [c EXCEPT !.req = r, !.wrote = W]
      BY <2>1, <2>2, <2>7 DEF Call
    <2>5. PICK k : k = [c EXCEPT !.req = r, !.wrote = W]
      OBVIOUS
    <2>6. Go(u, k) \/ Stopped(u, k, "failed")
      BY <1>3, <2>4, <2>5
    <2> QED BY <1>1, <1>2, <1>4, <2>3, <2>5, <2>6, <2>7, ClosingWritesAs DEF Closing, Reads
  <1> QED BY <1>2, <1>4, <1>5, <1>6 DEF StepKeeps

LEMMA postVersionKeeps ==
    ASSUME InstanceInv, NEW u \in Users, CallInv(u), call \in [Users -> Call], postVersion(u, call[u].req)
    PROVE  StepKeeps(u) /\ calls' = calls
  <1>1. PICK c \in Call : c = call[u]
    OBVIOUS
  <1>2. PICK wf : wf = c.req.wf
    OBVIOUS
  <1>3. /\ At(u, "postVersion") /\ calls' = calls /\ UNCHANGED <<workflows, graph, lastEdge, loose>> /\ wf \in workflows
    BY <1>1, <1>2 DEF postVersion
  <1>4. PICK v \in Fresh :
           /\ version' = AsPublished(v, wf) \/ version' = [version EXCEPT ![v] = [st |-> "draft", by |-> u, wf |-> wf]]
           /\ \/ Go(u, [c EXCEPT !.wrote = {v}, !.req.ver = v])
              \/ Stopped(u, [c EXCEPT !.wrote = {v}, !.req.ver = v], "failed")
    BY <1>1, <1>2 DEF postVersion
  <1>5. v \in Versions /\ version[v].st = "absent"
    BY <1>4 DEF Fresh
  <1>6. c.req \in Request /\ wf \in Workflows
    BY <1>1, <1>2, <1>3, Asking
  <1>7. /\ InstanceInv' /\ Edges \subseteq Edges' /\ lastEdge \in Nat /\ lastEdge' \in Nat /\ lastEdge <= lastEdge'
        /\ \A w \in Users \ {u}, x \in Versions : Kept(w, x)
    <2>1. CASE version' = AsPublished(v, wf)
      BY <1>3, <1>5, <1>6, <2>1, Publishes
    <2>2. CASE version' = [version EXCEPT ![v] = [st |-> "draft", by |-> u, wf |-> wf]]
      <3>1. PICK g : g = graph[v]
        OBVIOUS
      <3>2. g \in Graph' /\ graph' = [graph EXCEPT ![v] = g] /\ workflows' \subseteq Workflows
        BY <1>3, <1>5, <3>1 DEF InstanceInv, Graph, Edges
      <3>3. v \in loose' \/ Sound(g)
        BY <1>3, <1>5, <3>1 DEF InstanceInv
      <3>4. (loose' = loose \/ loose' = loose \cup {v}) /\ (lastEdge' = lastEdge \/ lastEdge' = lastEdge + 1)
        BY <1>3
      <3>5. workflows \subseteq workflows' /\ wf \in workflows'
        BY <1>3
      <3> QED BY <1>5, <1>6, <2>2, <3>2, <3>3, <3>4, <3>5, Appears
    <2> QED BY <1>4, <2>1, <2>2
  <1>8. OwnMoves(u)
    <2>1. PICK r : r = [c.req EXCEPT !.ver = v]
      OBVIOUS
    <2>2. r \in Request /\ r.op = c.req.op /\ r.exit = c.req.exit
      BY <1>5, <1>6, <2>1 DEF Request
    <2>6. PICK W \in SUBSET Versions : W = {v}
      BY <1>5
    <2>3. [c EXCEPT !.wrote = {v}, !.req.ver = v] = [c EXCEPT !.req = r, !.wrote = W]
      BY <1>6, <2>1, <2>6 DEF Call
    <2>4. PICK k : k = [c EXCEPT !.req = r, !.wrote = W]
      OBVIOUS
    <2>5. Go(u, k) \/ Stopped(u, k, "failed")
      BY <1>4, <2>3, <2>4
    <2> QED BY <1>1, <1>3, <1>7, <2>2, <2>4, <2>5, <2>6, ClosingWritesAs DEF Closing, Reads
  <1> QED BY <1>3, <1>7, <1>8 DEF StepKeeps

LEMMA VersionStepKeeps ==
    ASSUME InstanceInv, NEW u \in Users, CallInv(u), call \in [Users -> Call], VersionStep(u)
    PROVE  StepKeeps(u) /\ calls' = calls
  <1>1. PICK r : r = call[u].req
    OBVIOUS
  <1>2. \/ takeCheckout(u, r) \/ forceCheckout(u, r) \/ publishValidated(u, r) \/ publishAnyway(u, r)
        \/ publishQuietly(u, r) \/ deleteDraft(u, r) \/ deleteVersions(u, r) \/ initializeWorkflow(u, r)
        \/ postWorkflow(u, r) \/ postVersion(u, r)
    BY <1>1 DEF VersionStep
  <1> QED BY <1>1, <1>2, takeCheckoutKeeps, forceCheckoutKeeps, publishValidatedKeeps, publishAnywayKeeps,
             publishQuietlyKeeps, deleteDraftKeeps, deleteVersionsKeeps, initializeWorkflowKeeps, postWorkflowKeeps,
             postVersionKeeps

(****************************************************************************)
(* The invariant is inductive                                               *)
(****************************************************************************)
(* A call that starts has everything it relies on before it.                *)
LEMMA StartMoves ==
    ASSUME WorkflowInv, NEW u \in Users, Start(u)
    PROVE  OwnMoves(u) /\ UNCHANGED Instance /\ calls' \in 0..MaxCalls
  <1>1. calls < MaxCalls /\ calls' = calls + 1 /\ UNCHANGED Instance /\ calls \in 0..MaxCalls /\ call \in [Users -> Call]
    BY DEF Start, WorkflowInv
  <1>2. calls' \in 0..MaxCalls
    BY <1>1, RequestsAssumption
  <1>3. PICK r \in Requests : call' = [call EXCEPT ![u] = [Idle EXCEPT !.todo = Method(r), !.req = r, !.left = r.also]]
    BY DEF Start
  <1>4. r \in Request /\ (r.op \in {"addCondition", "createCondition"} => r.exit # NoExit)
    BY RequestsAssumption
  <1>5. PICK s : s = Method(r)
    OBVIOUS
  <1>6. Proper(s, r)
    BY <1>4, <1>5, MethodProper
  <1>7. PICK k : k = [Idle EXCEPT !.todo = s, !.req = r, !.left = r.also]
    OBVIOUS
  <1>8. /\ k = [todo |-> s, req |-> r, seen |-> {}, picked |-> NoExit, own |-> NoExit, drawn |-> FALSE,
               left |-> r.also, owned |-> {}, spared |-> {}, wrote |-> {}, spoilt |-> FALSE, result |-> "none"]
    BY <1>7 DEF Idle
  <1>9. s \in Seq(Steps)
    BY <1>6 DEF Proper
  <1>10. k \in Call /\ k.todo = s /\ k.req = r /\ k.seen = {} /\ k.wrote = {} /\ k.result = "none" /\ ~Touched(k)
    <2>1. r.also \subseteq Versions
      BY <1>4 DEF Request
    <2> QED BY <1>4, <1>8, <1>9, <2>1 DEF Call, Results, Touched
  <1>11. TypedCall(k)'
    BY <1>4, <1>10 DEF TypedCall
  <1>12. Shaped(k)' /\ Cautious(k)'
    BY <1>6, <1>10 DEF Proper, Complete, Shaped, Cautious, Family, Touched
  <1>13. Knows(In(s), u, k)'
    <2>1. PICK P : P = In(s)
      OBVIOUS
    <2>2. Complete(P, k.req.opt)
      BY <1>6, <1>10, <2>1 DEF Proper
    <2>3. Prepared(P, k)'
      BY <2>2 DEF Complete, Prepared
    <2>4. ASSUME NEW g PROVE FactsOf(P, k, g)
      BY <2>2 DEF Complete, FactsOf
    <2>5. FactsOf(P, k, graph[k.req.ver])'
      BY <2>4
    <2>6. (Checked(P, u, k.req.ver) /\ Accompanied(P, u, k.req.ver) /\ Drawing(P, k.req.ver, k.req.wf))'
      BY <2>2 DEF Complete, Checked, Accompanied, Drawing
    <2> QED BY <2>1, <2>3, <2>5, <2>6 DEF Knows
  <1>14. Informed(u, k)'
    BY <1>10, <1>13 DEF Informed
  <1>15. call' = [call EXCEPT ![u] = k]
    BY <1>3, <1>5, <1>7
  <1>16. call'[u] = k /\ call' \in [Users -> Call] /\ \A w \in Users \ {u} : call'[w] = call[w]
    BY <1>1, <1>10, <1>15
  <1>17. OwnMoves(u)
    BY <1>11, <1>12, <1>14, <1>16 DEF OwnMoves, CallInv
  <1> QED BY <1>1, <1>2, <1>17

(* Every step keeps the invariant.                                          *)
LEMMA StepKeepsAll ==
    ASSUME WorkflowInv, NEW u \in Users, StepKeeps(u), calls' \in 0..MaxCalls
    PROVE  WorkflowInv'
  <1>1. InstanceInv' /\ call' \in [Users -> Call] /\ CallInv(u)'
    BY DEF StepKeeps, OwnMoves
  <1>2. ASSUME NEW w \in Users, w # u PROVE CallInv(w)'
    <2>1. CallInv(w) /\ call'[w] = call[w] /\ lastEdge \in Nat /\ lastEdge' \in Nat /\ lastEdge <= lastEdge'
      BY <1>2 DEF WorkflowInv, StepKeeps, OwnMoves
    <2>2. \A v \in Versions : Kept(w, v)
      BY <1>2 DEF StepKeeps
    <2> QED BY <2>1, <2>2, BystanderKeeps
  <1>3. (\A w \in Users : CallInv(w))'
    BY <1>1, <1>2
  <1> QED BY <1>1, <1>3 DEF WorkflowInv

Acts(u) == Start(u) \/ ReadStep(u) \/ GraphStep(u) \/ VersionStep(u) \/ RequestFails(u)

LEMMA ActsKeep ==
    ASSUME WorkflowInv, NEW u \in Users, Acts(u)
    PROVE  StepKeeps(u) /\ calls' \in 0..MaxCalls
  <1>0. InstanceInv /\ CallInv(u) /\ call \in [Users -> Call] /\ calls \in 0..MaxCalls
    BY DEF WorkflowInv
  <1>1. CASE Start(u)
    BY <1>0, <1>1, StartMoves, CallMoves
  <1>2. CASE ReadStep(u)
    <2>1. OwnMoves(u) /\ UNCHANGED <<Instance, calls>>
      BY <1>0, <1>2, ReadStepMoves
    <2>2. UNCHANGED Instance /\ calls' = calls
      BY <2>1
    <2> QED BY <1>0, <2>1, <2>2, CallMoves
  <1>3. CASE GraphStep(u)
    BY <1>0, <1>3, GraphStepKeeps
  <1>4. CASE VersionStep(u)
    BY <1>0, <1>4, VersionStepKeeps
  <1>5. CASE RequestFails(u)
    <2>1. OwnMoves(u) /\ UNCHANGED <<Instance, calls>>
      BY <1>0, <1>5, RequestFailsMoves
    <2>2. UNCHANGED Instance /\ calls' = calls
      BY <2>1
    <2> QED BY <1>0, <2>1, <2>2, CallMoves
  <1> QED BY <1>1, <1>2, <1>3, <1>4, <1>5 DEF Acts

LEMMA NextKeeps ==
    ASSUME WorkflowInv, Next
    PROVE  WorkflowInv'
  <1>1. PICK u \in Users : Acts(u)
    BY DEF Next, Acts
  <1> QED BY <1>1, ActsKeep, StepKeepsAll

LEMMA StutterKeeps ==
    ASSUME WorkflowInv, UNCHANGED vars
    PROVE  WorkflowInv'
  <1>1. UNCHANGED Instance /\ UNCHANGED <<call, calls>>
    BY DEF vars, Instance
  <1>2. InstanceInv' /\ lastEdge \in Nat /\ lastEdge' = lastEdge
    BY <1>1 DEF WorkflowInv, InstanceInv, Edges, Version, Graph, Sound, Instance, Exists
  <1>3. ASSUME NEW w \in Users PROVE CallInv(w)'
    <2>1. CallInv(w) /\ call'[w] = call[w]
      BY <1>1 DEF WorkflowInv
    <2>2. \A v \in Versions : Kept(w, v)
      BY <1>1, Unmoved
    <2> QED BY <1>2, <2>1, <2>2, BystanderKeeps
  <1> QED BY <1>1, <1>2, <1>3 DEF WorkflowInv

LEMMA InitInv ==
    ASSUME Init
    PROVE  WorkflowInv
  <1>1. /\ workflows = {LiveWorkflow} /\ lastEdge = Cardinality(LiveGraph.edges) /\ loose = {}
        /\ call = [u \in Users |-> Idle] /\ calls = 0
    BY DEF Init
  <1> DEFINE Drafted(h) == IF h = "nobody" THEN {} ELSE {CHOOSE v \in Versions : v # Live}
  <1>20. PICK holder \in Users \cup {"nobody"} :
           /\ version = [v \in Versions |->
                IF v = Live THEN [st |-> "published", by |-> "nobody", wf |-> LiveWorkflow]
                ELSE IF v \in Drafted(holder) THEN [st |-> "draft", by |-> holder, wf |-> LiveWorkflow]
                ELSE Absent]
           /\ graph = [v \in Versions |-> IF v \in Drafted(holder) \cup {Live} THEN LiveGraph ELSE EmptyGraph]
    BY DEF Init
  <1>21. PICK drafts : drafts = Drafted(holder)
    OBVIOUS
  <1>2. /\ drafts # {} => holder # "nobody"
        /\ version = [v \in Versions |->
             IF v = Live THEN [st |-> "published", by |-> "nobody", wf |-> LiveWorkflow]
             ELSE IF v \in drafts THEN [st |-> "draft", by |-> holder, wf |-> LiveWorkflow]
             ELSE Absent]
        /\ graph = [v \in Versions |-> IF v \in drafts \cup {Live} THEN LiveGraph ELSE EmptyGraph]
    BY <1>20, <1>21
  <1>3. lastEdge \in Nat
    BY <1>1, LiveGraphAssumption, FS_CardinalityType
  <1>4. LiveGraph \in Graph /\ Sound(LiveGraph)
    <2>1. LiveGraph.edges \subseteq Edges
      BY <1>1, LiveGraphAssumption DEF Edges
    <2>2. /\ LiveGraph = [nodes |-> LiveGraph.nodes, exits |-> LiveGraph.exits, edges |-> LiveGraph.edges]
          /\ LiveGraph.nodes \subseteq Names /\ LiveGraph.exits \subseteq Names \X Exits
      BY LiveGraphAssumption
    <2>3. Sound(LiveGraph)
      BY LiveGraphAssumption DEF Sound
    <2> QED BY <2>1, <2>2, <2>3 DEF Graph
  <1>5. EmptyGraph \in Graph /\ Sound(EmptyGraph)
    BY DEF EmptyGraph, Graph, Sound
  <1>6. ASSUME NEW v \in Versions
        PROVE  version[v] \in Version /\ (version[v].st = "draft" <=> version[v].by # "nobody")
               /\ graph[v] \in Graph /\ Sound(graph[v])
               /\ (Exists(v) => version[v].wf \in workflows) /\ (~Exists(v) => graph[v].edges = {})
    <2>1. graph[v] \in Graph /\ Sound(graph[v])
      BY <1>2, <1>4, <1>5
    <2>2. CASE v = Live
      <3>1. version[v] = [st |-> "published", by |-> "nobody", wf |-> LiveWorkflow]
        BY <1>2, <2>2
      <3> QED BY <1>1, <2>1, <3>1, RequestsAssumption DEF Version, Exists
    <2>3. CASE v # Live /\ v \in drafts
      <3>1. version[v] = [st |-> "draft", by |-> holder, wf |-> LiveWorkflow] /\ holder # "nobody"
        BY <1>2, <2>3
      <3> QED BY <1>1, <2>1, <3>1, RequestsAssumption DEF Version, Exists
    <2>4. CASE v # Live /\ v \notin drafts
      <3>1. version[v] = [st |-> "absent", by |-> "nobody", wf |-> "none"]
        BY <1>2, <2>4 DEF Absent
      <3>2. graph[v].edges = {}
        BY <1>2, <2>4 DEF EmptyGraph
      <3> QED BY <2>1, <3>1, <3>2 DEF Version, Exists
    <2> QED BY <2>2, <2>3, <2>4
  <1>7. version \in [Versions -> Version] /\ graph \in [Versions -> Graph]
    BY <1>2, <1>6
  <1>8. InstanceInv
    <2>1. workflows \subseteq Workflows
      BY <1>1, RequestsAssumption
    <2> QED BY <1>1, <1>3, <1>6, <1>7, <2>1 DEF InstanceInv
  <1>9. ASSUME NEW u \in Users PROVE call[u] \in Call /\ CallInv(u)
    <2>1. PICK c : c = call[u]
      OBVIOUS
    <2>2. /\ c = [todo |-> <<>>, req |-> NoRequest, seen |-> {}, picked |-> NoExit, own |-> NoExit, drawn |-> FALSE,
                 left |-> {}, owned |-> {}, spared |-> {}, wrote |-> {}, spoilt |-> FALSE, result |-> "none"]
      BY <1>1, <2>1 DEF Idle
    <2>3. c \in Call /\ c.todo = <<>> /\ c.seen = {} /\ ~Touched(c) /\ c.req.op = "none"
      BY <2>2 DEF Call, Results, NoRequest, Touched
    <2>4. In(c.todo) = {} /\ Ordered(c.todo)
      BY <2>3 DEF In, Ordered
    <2>5. TypedCall(c) /\ Shaped(c) /\ Cautious(c) /\ Informed(u, c)
      BY <2>3, <2>4 DEF TypedCall, Shaped, Cautious, Informed
    <2> QED BY <2>1, <2>3, <2>5 DEF CallInv
  <1>10. calls \in 0..MaxCalls
    BY <1>1, RequestsAssumption
  <1>11. call \in [Users -> Call]
    BY <1>1, <1>9
  <1> QED BY <1>8, <1>9, <1>10, <1>11 DEF WorkflowInv

(****************************************************************************)
(* What a call comes to                                                     *)
(****************************************************************************)
(* What a call that ends well with step x has seen to be so.                *)
Done(x, u, r) ==
    /\ x # "findings"
    /\ x \in {"publishValidated", "publishAnyway", "publishQuietly", "readPublished"} => version'[r.ver].st = "published"
    /\ x \in {"chooseCheckout", "takeCheckout", "forceCheckout"}
        => \E v \in Versions : version'[v] = [st |-> "draft", by |-> u, wf |-> r.wf]
    /\ x = "verifyInitialized" =>
        version'[r.ver].st \notin {"absent", "deleted"} /\ version'[r.ver].wf = r.wf /\ graph'[r.ver].edges # {}
    /\ x = "verifyRemoved" => r.act \notin graph'[r.ver].nodes
    /\ x = "verifyDeleted" => version' = version /\ ~Exists(r.ver)
    /\ x = "verifyWorkflowGone" =>
        /\ r.wf \notin workflows'
        /\ \A v \in Versions : version'[v].st \in {"absent", "deleted"} \/ version'[v].wf # r.wf

(* Step x is the last of a call that answers, and a refusal is one of the   *)
(* steps that refuse.                                                       *)
Settled(u, x) ==
    /\ At(u, x)
    /\ call'[u].result = "ok" => Tail(call[u].todo) = <<>> /\ Done(x, u, call[u].req)
    /\ call'[u].result \in {"refused", "findings"}
        => x = "rethrow" \/ (x \in Reads \cup {"findings", "requireStart", "findEnds"} /\ ~InCleanup(u))

(* A call that has not come to anything yet.                                *)
Open(k) == "result" \in DOMAIN k /\ k.result = "none"

LEMMA OpenCalls ==
    ASSUME NEW u \in Users, call \in [Users -> Call], CallInv(u), call[u].todo # <<>>
    PROVE  Open(call[u])
  BY DEF CallInv, TypedCall, Call, Open

LEMMA Endings == \A x : Ended(x).result = x
  BY DEF Ended, Idle

LEMMA FollowSettles ==
    ASSUME NEW u \in Users, call \in [Users -> Call], NEW x, At(u, x), NEW k, Open(k), NEW t, t # <<>>, Follow(u, k, t)
    PROVE  Settled(u, x)
  <1>1. call'[u] = [k EXCEPT !.todo = t]
    BY DEF Follow
  <1>2. call'[u].result = "none"
    BY <1>1 DEF Open
  <1> QED BY <1>2 DEF Settled

LEMMA GoSettles ==
    ASSUME NEW u \in Users, call \in [Users -> Call], NEW x, At(u, x), NEW k, Open(k), Go(u, k), Done(x, u, call[u].req)
    PROVE  Settled(u, x)
  <1>1. PICK t : t = Tail(call[u].todo)
    OBVIOUS
  <1>2. Follow(u, k, t)
    BY <1>1 DEF Go
  <1>3. CASE t # <<>>
    BY <1>2, <1>3, FollowSettles
  <1>4. CASE t = <<>>
    <2>1. call'[u] = Ended("ok")
      BY <1>2, <1>4 DEF Follow
    <2>2. call'[u].result = "ok"
      BY <2>1, Endings
    <2> QED BY <1>1, <1>4, <2>2 DEF Settled
  <1> QED BY <1>3, <1>4

LEMMA StopSettles ==
    ASSUME NEW u \in Users, call \in [Users -> Call], NEW x, At(u, x), NEW k, Open(k), NEW y, Stopped(u, k, y),
           y = "failed" \/ (y \in {"refused", "findings"} /\ x \in Reads \cup {"findings", "requireStart", "findEnds"})
    PROVE  Settled(u, x)
  <1>1. CASE InCleanup(u)
    <2>1. call'[u] = [k EXCEPT !.todo = <<"rethrow">>, !.spoilt = TRUE]
      BY <1>1 DEF Stopped
    <2>2. call'[u].result = "none"
      BY <2>1 DEF Open
    <2> QED BY <2>2 DEF Settled
  <1>2. CASE ~InCleanup(u)
    <2>1. call'[u] = Ended(y)
      BY <1>2 DEF Stopped
    <2>2. call'[u].result = y
      BY <2>1, Endings
    <2> QED BY <1>2, <2>2 DEF Settled
  <1> QED BY <1>1, <1>2

LEMMA WrittenSettles ==
    ASSUME NEW u \in Users, call \in [Users -> Call], CallInv(u), NEW x, At(u, x), Written(u), Done(x, u, call[u].req)
    PROVE  Settled(u, x)
  <1>1. Open(call[u])
    BY OpenCalls DEF At
  <1>2. PICK k : k = [call[u] EXCEPT !.wrote = @ \cup {call[u].req.ver}]
    OBVIOUS
  <1>3. Open(k)
    BY <1>1, <1>2 DEF Open
  <1>4. Go(u, k) \/ Stopped(u, k, "failed")
    BY <1>2 DEF Written
  <1> QED BY <1>3, <1>4, GoSettles, StopSettles

LEMMA CheckSettles ==
    ASSUME NEW u \in Users, call \in [Users -> Call], CallInv(u), NEW x, NEW holds, Check(u, x, holds),
           x \in (Reads \ {"chooseCheckout"}) \cup {"requireStart", "findEnds"}
    PROVE  Settled(u, x)
  <1>1. At(u, x) /\ Open(call[u])
    BY OpenCalls DEF Check, At
  <1>2. Done(x, u, call[u].req)
    BY DEF Done, Reads
  <1>3. Go(u, call[u]) \/ Stopped(u, call[u], "refused")
    BY DEF Check, Throw
  <1> QED BY <1>1, <1>2, <1>3, GoSettles, StopSettles

LEMMA VerifySettles ==
    ASSUME NEW u \in Users, call \in [Users -> Call], CallInv(u), NEW x, NEW holds, Verify(u, x, holds),
           holds => Done(x, u, call[u].req)
    PROVE  Settled(u, x)
  <1>1. At(u, x) /\ Open(call[u])
    BY OpenCalls DEF Verify, At
  <1>2. (holds /\ Go(u, call[u])) \/ Stopped(u, call[u], "failed")
    BY DEF Verify, Throw
  <1> QED BY <1>1, <1>2, GoSettles, StopSettles

(* A read: what it finds is noted in the call, or it refuses.               *)
LEMMA ReadSettles ==
    ASSUME NEW u \in Users, call \in [Users -> Call], CallInv(u), NEW x, At(u, x), x \in (Reads \ {"chooseCheckout"}) \cup {"pickOwnExit"}, NEW k,
           Go(u, k) \/ (Throw(u, "refused") /\ x \in Reads), Open(call[u]) => Open(k)
    PROVE  Settled(u, x)
  <1>1. Open(call[u])
    BY OpenCalls DEF At
  <1>2. Done(x, u, call[u].req)
    BY DEF Done, Reads
  <1> QED BY <1>1, <1>2, GoSettles, StopSettles DEF Throw

LEMMA ReadsSettle ==
    ASSUME InstanceInv, NEW u \in Users, call \in [Users -> Call], CallInv(u), ReadStep(u)
    PROVE  \E x : Settled(u, x)
  <1>1. PICK r : r = call[u].req
    OBVIOUS
  <1>2. CASE readActivity(u, r) \/ readCondition(u, r) \/ resolve(u) \/ checkDuplicate(u, r)
             \/ checkName(u, r) \/ requireStart(u, r) \/ resolveWorkflow(u, r) \/ findEnds(u, r)
    <2>1. PICK x, holds : Check(u, x, holds) /\ x \in (Reads \ {"chooseCheckout"}) \cup {"requireStart", "findEnds"}
      BY <1>2 DEF readActivity, readCondition, resolve, checkDuplicate, checkName, requireStart,
                  resolveWorkflow, findEnds, Reads
    <2> QED BY <2>1, CheckSettles
  <1>14. CASE requireDraft(u, r)
    <2>1. PICK k : k = [call[u] EXCEPT !.owned = @ \cup {r.ver}]
      OBVIOUS
    <2>2. At(u, "requireDraft") /\ (Go(u, k) \/ Throw(u, "refused"))
      BY <1>14, <2>1 DEF requireDraft
    <2>3. Open(call[u]) => Open(k)
      BY <2>1 DEF Open
    <2> QED BY <2>2, <2>3, ReadSettles DEF Reads
  <1>15. CASE readSiblings(u, r)
    <2>1. PICK k : k = [call[u] EXCEPT !.spared = @ \cup {r.ver}]
      OBVIOUS
    <2>2. At(u, "readSiblings") /\ (Go(u, k) \/ Throw(u, "refused"))
      BY <1>15, <2>1 DEF readSiblings
    <2>3. Open(call[u]) => Open(k)
      BY <2>1 DEF Open
    <2> QED BY <2>2, <2>3, ReadSettles DEF Reads
  <1>16. CASE readRest(u, r)
    <2>1. At(u, "readRest") /\ call[u].todo # <<>> /\ Open(call[u])
      BY <1>16, OpenCalls DEF readRest, At
    <2>2. CASE Go(u, call[u]) \/ Throw(u, "refused")
      BY <2>1, <2>2, ReadSettles DEF Reads
    <2>3. ASSUME NEW v \in call[u].left, Follow(u, [call[u] EXCEPT !.left = @ \ {v}], call[u].todo)
          PROVE  Settled(u, "readRest")
      <3>1. PICK k : k = [call[u] EXCEPT !.left = @ \ {v}]
        OBVIOUS
      <3>2. Open(k)
        BY <2>1, <3>1 DEF Open
      <3> QED BY <2>1, <2>3, <3>1, <3>2, FollowSettles
    <2> QED BY <1>16, <2>2, <2>3 DEF readRest
  <1>17. CASE moveRest(u, r)
    <2>1. At(u, "moveRest") /\ call[u].todo # <<>> /\ Open(call[u])
      BY <1>17, OpenCalls DEF moveRest, At
    <2>2. Done("moveRest", u, call[u].req)
      BY DEF Done
    <2>3. CASE Go(u, call[u])
      BY <2>1, <2>2, <2>3, GoSettles
    <2>4. ASSUME NEW v, Follow(u, [call[u] EXCEPT !.req.ver = v], <<"requireDraft", "touch", "moveRest">>)
          PROVE  Settled(u, "moveRest")
      <3>1. PICK k : k = [call[u] EXCEPT !.req.ver = v]
        OBVIOUS
      <3>2. Open(k)
        BY <2>1, <3>1 DEF Open
      <3>3. PICK t : t = <<"requireDraft", "touch", "moveRest">>
        OBVIOUS
      <3>4. Len(t) = 3 /\ Len(<<>>) = 0
        BY <3>3
      <3>5. t # <<>>
        BY <3>4
      <3> QED BY <2>1, <2>4, <3>1, <3>2, <3>3, <3>5, FollowSettles
    <2> QED BY <1>17, <2>3, <2>4 DEF moveRest
  <1>3. CASE readTransition(u, r)
    <2>1. PICK k : k = [call[u] EXCEPT !.seen = EdgeWith(r.ver, r.edge)]
      OBVIOUS
    <2>2. At(u, "readTransition") /\ (Go(u, k) \/ Throw(u, "refused"))
      BY <1>3, <2>1 DEF readTransition
    <2>3. Open(call[u]) => Open(k)
      BY <2>1 DEF Open
    <2> QED BY <2>2, <2>3, ReadSettles DEF Reads
  <1>4. CASE pickExit(u, r)
    <2>1. PICK k : k = [call[u] EXCEPT !.picked = Picked(ExitsOf(r.ver, r.from), r.exit, FALSE)]
      OBVIOUS
    <2>2. At(u, "pickExit") /\ (Go(u, k) \/ Throw(u, "refused"))
      BY <1>4, <2>1 DEF pickExit
    <2>3. Open(call[u]) => Open(k)
      BY <2>1 DEF Open
    <2> QED BY <2>2, <2>3, ReadSettles DEF Reads
  <1>5. CASE readTouching(u, r)
    <2>1. PICK k : k = [call[u] EXCEPT !.seen = {e \in graph[r.ver].edges : r.act \in {e.from, e.to}}]
      OBVIOUS
    <2>2. At(u, "readTouching") /\ (Go(u, k) \/ Throw(u, "refused"))
      BY <1>5, <2>1 DEF readTouching
    <2>3. Open(call[u]) => Open(k)
      BY <2>1 DEF Open
    <2> QED BY <2>2, <2>3, ReadSettles DEF Reads
  <1>6. CASE readJoined(u, r)
    <2>1. PICK k : k = [call[u] EXCEPT !.drawn = \E p \in Joined(u, r) : Drawn(r.ver, p)]
      OBVIOUS
    <2>2. At(u, "readJoined") /\ (Go(u, k) \/ Throw(u, "refused"))
      BY <1>6, <2>1 DEF readJoined
    <2>3. Open(call[u]) => Open(k)
      BY <2>1 DEF Open
    <2> QED BY <2>2, <2>3, ReadSettles DEF Reads
  <1>7. CASE readLeaving(u, r)
    <2>1. PICK k : k = [call[u] EXCEPT !.seen = {e \in graph[r.ver].edges : e.from = r.act /\ e.exit = r.exit}]
      OBVIOUS
    <2>2. At(u, "readLeaving") /\ Go(u, k)
      BY <1>7, <2>1 DEF readLeaving
    <2>3. Open(call[u]) => Open(k)
      BY <2>1 DEF Open
    <2> QED BY <2>2, <2>3, ReadSettles DEF Reads
  <1>8. CASE readVersions(u, r)
    <2>1. PICK k : k = [call[u] EXCEPT !.seen = {[ver |-> v, published |-> version[v].st = "published"] : v \in OfWorkflow(r.wf)}]
      OBVIOUS
    <2>2. At(u, "readVersions") /\ Go(u, k)
      BY <1>8, <2>1 DEF readVersions
    <2>3. Open(call[u]) => Open(k)
      BY <2>1 DEF Open
    <2> QED BY <2>2, <2>3, ReadSettles DEF Reads
  <1>9. CASE verify(u, r)
    <2>1. CASE /\ At(u, "verifyRemoved")
               /\ IF r.act \in graph[r.ver].nodes THEN Throw(u, "failed") ELSE Go(u, [call[u] EXCEPT !.wrote = IF InCleanup(u) THEN {} ELSE @])
               /\ UNCHANGED <<Instance, calls>>
      <3>1. Open(call[u])
        BY <2>1, OpenCalls DEF At
      <3>2. PICK k : k = [call[u] EXCEPT !.wrote = IF InCleanup(u) THEN {} ELSE @]
        OBVIOUS
      <3>3. Open(k)
        BY <3>1, <3>2 DEF Open
      <3>4. CASE Throw(u, "failed")
        BY <2>1, <3>1, <3>4, StopSettles DEF Throw
      <3>5. CASE r.act \notin graph[r.ver].nodes /\ Go(u, k)
        <4>1. Done("verifyRemoved", u, call[u].req)
          BY <1>1, <2>1, <3>5 DEF Done, Instance
        <4> QED BY <2>1, <3>3, <3>5, <4>1, GoSettles
      <3> QED BY <2>1, <3>2, <3>4, <3>5
    <2>2. CASE Verify(u, "verifyDeleted", ~Exists(r.ver))
      <3>0. version' = version
        BY <2>2 DEF Verify, Instance
      <3>1. ~Exists(r.ver) => Done("verifyDeleted", u, call[u].req)
        BY <1>1, <3>0 DEF Done, Exists
      <3> QED BY <2>2, <3>1, VerifySettles
    <2>3. CASE Verify(u, "verifyWorkflowGone", r.wf \notin workflows)
      <3>1. r.wf \notin workflows => Done("verifyWorkflowGone", u, call[u].req)
        <4>1. workflows' = workflows /\ version' = version
          BY <2>3 DEF Verify, Instance
        <4>2. \A v \in Versions : version[v].st \in {"absent", "deleted"} \/ version[v].wf \in workflows
          BY DEF InstanceInv, Exists
        <4> QED BY <1>1, <4>1, <4>2 DEF Done
      <3> QED BY <2>3, <3>1, VerifySettles
    <2>4. CASE Verify(u, "verifyInitialized", graph[r.ver].edges # {})
      <3>1. ASSUME graph[r.ver].edges # {} PROVE Done("verifyInitialized", u, call[u].req)
        <4>1. At(u, "verifyInitialized") /\ version' = version /\ graph' = graph
          BY <2>4 DEF Verify, Instance
        <4>2. PICK c \in Call : c = call[u]
          OBVIOUS
        <4>3. /\ r.ver \in Versions /\ Knows(In(c.todo), u, c) /\ "verifyInitialized" \in In(c.todo)
              /\ Shaped(c) /\ c.todo # <<>> /\ Head(c.todo) = "verifyInitialized"
          BY <1>1, <4>1, <4>2, Asking
        <4>4. "initializeWorkflow" \notin In(c.todo)
          <5>1. \A y \in In(c.todo) : Rank("verifyInitialized") <= Rank(y)
            BY <4>3, StepsLeft
          <5>2. Rank("verifyInitialized") = 9 /\ Rank("initializeWorkflow") = 7
            BY DEF Rank, Reads
          <5> QED BY <5>1, <5>2
        <4>5. Exists(r.ver)
          BY <3>1, <4>3 DEF InstanceInv
        <4>6. version[r.ver].wf = r.wf
          BY <1>1, <4>2, <4>3, <4>4, <4>5 DEF Knows, Drawing, Placed, Exists
        <4> QED BY <1>1, <3>1, <4>1, <4>5, <4>6 DEF Done, Exists
      <3> QED BY <2>4, <3>1, VerifySettles
    <2>5. CASE Verify(u, "readPublished", version[r.ver].st = "published")
      <3>1. version[r.ver].st = "published" => Done("readPublished", u, call[u].req)
        BY <1>1, <2>5 DEF Done, Verify, Instance
      <3> QED BY <2>5, <3>1, VerifySettles
    <2> QED BY <1>9, <2>1, <2>2, <2>3, <2>4, <2>5 DEF verify
  <1>10. CASE chooseCheckout(u, r)
    <2>1. At(u, "chooseCheckout") /\ Open(call[u])
      BY <1>10, OpenCalls DEF chooseCheckout, At
    <2>2. \/ Throw(u, "refused") \/ (Go(u, call[u]) /\ \E d \in DraftsOf(r.wf) : version[d].by = u)
          \/ Follow(u, call[u], <<"forceCheckout">>)
          \/ \E p \in PublishedOf(r.wf) : Follow(u, [call[u] EXCEPT !.req.ver = p], <<"takeCheckout">>)
      BY <1>10 DEF chooseCheckout
    <2>3. CASE Throw(u, "refused")
      BY <2>1, <2>3, StopSettles DEF Throw, Reads
    <2>6. ASSUME Go(u, call[u]), NEW d \in DraftsOf(r.wf), version[d].by = u
          PROVE  \E x : Settled(u, x)
      <3>1. d \in Versions /\ version[d].st = "draft" /\ version[d].wf = r.wf /\ version' = version
        BY <1>10 DEF DraftsOf, OfWorkflow, chooseCheckout, Instance
      <3>2. version[d] = [st |-> "draft", by |-> u, wf |-> r.wf]
        BY <2>6, <3>1 DEF InstanceInv, Version
      <3>3. Done("chooseCheckout", u, call[u].req)
        BY <1>1, <3>1, <3>2 DEF Done
      <3> QED BY <2>1, <2>6, <3>3, GoSettles
    <2>4. CASE Follow(u, call[u], <<"forceCheckout">>)
      <3>1. PICK t : t = <<"forceCheckout">>
        OBVIOUS
      <3>2. Len(t) = 1 /\ Len(<<>>) = 0
        BY <3>1
      <3>3. t # <<>> /\ Follow(u, call[u], t)
        BY <2>4, <3>1, <3>2
      <3> QED BY <2>1, <3>3, FollowSettles
    <2>5. ASSUME NEW p \in PublishedOf(r.wf), Follow(u, [call[u] EXCEPT !.req.ver = p], <<"takeCheckout">>)
          PROVE  \E x : Settled(u, x)
      <3>1. PICK k : k = [call[u] EXCEPT !.req.ver = p]
        OBVIOUS
      <3>2. Open(k)
        BY <2>1, <3>1 DEF Open
      <3>3. PICK t : t = <<"takeCheckout">>
        OBVIOUS
      <3>4. Len(t) = 1 /\ Len(<<>>) = 0
        BY <3>3
      <3>5. t # <<>> /\ Follow(u, k, t)
        BY <2>5, <3>1, <3>3, <3>4
      <3> QED BY <2>1, <3>2, <3>5, FollowSettles
    <2> QED BY <2>2, <2>3, <2>4, <2>5, <2>6
  <1>11. CASE findings(u, r)
    <2>1. CASE At(u, "findings") /\ Throw(u, "findings")
      <3>1. Open(call[u])
        BY <2>1, OpenCalls DEF At
      <3> QED BY <2>1, <3>1, StopSettles DEF Throw
    <2>2. CASE At(u, "noteFindings") /\ Go(u, call[u])
      <3>1. Open(call[u])
        BY <2>2, OpenCalls DEF At
      <3>2. Done("noteFindings", u, call[u].req)
        BY DEF Done
      <3> QED BY <2>2, <3>1, <3>2, GoSettles
    <2> QED BY <1>11, <2>1, <2>2 DEF findings
  <1>12. CASE pickOwnExit(u, r)
    <2>1. At(u, "pickOwnExit") /\ Open(call[u])
      BY <1>12, OpenCalls DEF pickOwnExit, At
    <2>2. PICK exit : exit = Picked(ExitsOf(r.ver, r.act), IF "otherExit" \in r.opt THEN 9 ELSE NoExit, TRUE)
      OBVIOUS
    <2>3. PICK k : k = [call[u] EXCEPT !.own = exit]
      OBVIOUS
    <2>4. PICK t : t = removeActivity([r EXCEPT !.opt = {}]) \o <<"rethrow">>
      OBVIOUS
    <2>5. Go(u, k) \/ Follow(u, call[u], t)
      BY <1>12, <2>2, <2>3, <2>4 DEF pickOwnExit
    <2>6. Open(call[u]) => Open(k)
      BY <2>3 DEF Open
    <2>7. CASE Go(u, k)
      BY <2>1, <2>6, <2>7, ReadSettles
    <2>8. CASE Follow(u, call[u], t)
      <3>1. r \in Request
        BY <1>1, <2>1, Asking
      <3>2. t # <<>>
        BY <2>4, <3>1, CleanupProper
      <3> QED BY <2>1, <2>8, <3>2, FollowSettles
    <2> QED BY <2>5, <2>7, <2>8
  <1>13. CASE rethrow(u, r)
    <2>1. At(u, "rethrow") /\ call'[u] = Ended("refused")
      BY <1>13 DEF rethrow
    <2> QED BY <2>1, Endings DEF Settled
  <1> QED BY <1>1, <1>2, <1>3, <1>4, <1>5, <1>6, <1>7, <1>8, <1>9, <1>10, <1>11, <1>12, <1>13, <1>14, <1>15, <1>16, <1>17
          DEF ReadStep

LEMMA GraphSettles ==
    ASSUME NEW u \in Users, call \in [Users -> Call], CallInv(u), GraphStep(u)
    PROVE  \E x : Settled(u, x)
  <1>1. PICK r : r = call[u].req
    OBVIOUS
  <1>2. CASE deleteLeaving(u, r)
    <2>1. At(u, "deleteLeaving") /\ Open(call[u]) /\ call[u].todo # <<>>
      BY <1>2, OpenCalls DEF deleteLeaving, At
    <2>2. CASE call[u].seen = {}
      <3>1. Go(u, call[u])
        BY <1>2, <2>2 DEF deleteLeaving
      <3>2. Done("deleteLeaving", u, call[u].req)
        BY DEF Done
      <3> QED BY <2>1, <3>1, <3>2, GoSettles
    <2>3. CASE call[u].seen # {}
      <3>1. PICK e \in call[u].seen :
                \/ Follow(u, [call[u] EXCEPT !.seen = @ \ {e}, !.wrote = @ \cup {r.ver}], call[u].todo)
                \/ Stopped(u, [call[u] EXCEPT !.seen = @ \ {e}, !.wrote = @ \cup {r.ver}], "failed")
        BY <1>2, <2>3 DEF deleteLeaving
      <3>2. PICK k : k = [call[u] EXCEPT !.seen = @ \ {e}, !.wrote = @ \cup {r.ver}]
        OBVIOUS
      <3>3. Open(k)
        BY <2>1, <3>2 DEF Open
      <3> QED BY <2>1, <3>1, <3>2, <3>3, FollowSettles, StopSettles
    <2> QED BY <2>2, <2>3
  <1>3. CASE ~deleteLeaving(u, r)
    <2> DEFINE Writes == {"touch", "newEdge", "connectFrom", "connectTo", "newEdgeControlNode", "changeEdge", "deleteEdge",
                          "deleteExit", "newExit", "deleteNode", "insertActivity", "postActivity", "postNext", "postTransition"}
               Wrote == \E y \in Writes : At(u, y) /\ Written(u)
    <2>3. touch(u, r) \/ newEdgeControlNode(u, r) \/ changeEdge(u, r) \/ deleteEdge(u, r) => Wrote
      BY DEF touch, newEdgeControlNode, changeEdge, deleteEdge, Change
    <2>4. newEdge(u, r) => Wrote
      BY DEF newEdge, Change
    <2>5. deleteExit(u, r) \/ newExit(u, r) \/ insertActivity(u, r) => Wrote
      BY DEF deleteExit, newExit, insertActivity, Change
    <2>6. deleteNode(u, r) => Wrote
      BY DEF deleteNode, Change
    <2>7. postActivity(u, r) \/ postNext(u, r) \/ postTransition(u, r) => Wrote
      BY DEF postActivity, postNext, postTransition, Post, Change
    <2> HIDE DEF Wrote
    <2>8. Wrote
      BY <1>1, <1>3, <2>3, <2>4, <2>5, <2>6, <2>7 DEF GraphStep
    <2>1. PICK x \in Writes : At(u, x) /\ Written(u)
      BY <2>8 DEF Wrote
    <2>2. Done(x, u, call[u].req)
      BY DEF Done
    <2> QED BY <2>1, <2>2, WrittenSettles
  <1> QED BY <1>2, <1>3

LEMMA VersionSettles ==
    ASSUME InstanceInv, NEW u \in Users, call \in [Users -> Call], CallInv(u), VersionStep(u)
    PROVE  \E x : Settled(u, x)
  <1>1. PICK r : r = call[u].req
    OBVIOUS
  <1>2. PICK k : k = [call[u] EXCEPT !.wrote = @ \cup {r.ver}]
    OBVIOUS
  <1>3. call[u].todo # <<>> /\ Open(call[u]) /\ Open(k)
    <2>1. call[u].todo # <<>>
      BY DEF VersionStep, takeCheckout, forceCheckout, publishValidated, publishAnyway, publishQuietly, deleteDraft,
             deleteVersions, initializeWorkflow, postWorkflow, postVersion, At
    <2>2. Open(call[u])
      BY <2>1, OpenCalls
    <2> QED BY <1>2, <2>1, <2>2 DEF Open
  <1>4. ASSUME SetPublished(r.ver) PROVE version'[r.ver].st = "published"
    <2>1. r.ver \in Versions
      BY <1>1, <1>3 DEF CallInv, TypedCall, Request
    <2> QED BY <1>4, <2>1 DEF SetPublished, AsPublished
  <1>5. CASE takeCheckout(u, r) \/ forceCheckout(u, r)
    <2>1. PICK x \in {"takeCheckout", "forceCheckout"} :
             At(u, x) /\ (Throw(u, "failed") \/ (Written(u) /\ Done(x, u, call[u].req)))
      <3>1. CASE takeCheckout(u, r)
        <4>1. ASSUME NEW d \in Fresh, version' = [version EXCEPT ![d] = [st |-> "draft", by |-> u, wf |-> r.wf]]
              PROVE  Done("takeCheckout", u, call[u].req)
          <5>1. d \in Versions /\ version'[d] = [st |-> "draft", by |-> u, wf |-> r.wf]
            BY <4>1 DEF Fresh, InstanceInv
          <5> QED BY <1>1, <5>1 DEF Done
        <4> QED BY <3>1, <4>1 DEF takeCheckout
      <3>2. CASE forceCheckout(u, r)
        <4>1. ASSUME NEW d \in DraftsOf(r.wf), version' = [version EXCEPT ![d].by = u]
              PROVE  Done("forceCheckout", u, call[u].req)
          <5>1. d \in Versions /\ version[d].st = "draft" /\ version[d].wf = r.wf /\ version[d] \in Version
            BY <4>1 DEF DraftsOf, OfWorkflow, InstanceInv
          <5>2. version'[d] = [version[d] EXCEPT !.by = u]
            BY <4>1, <5>1 DEF InstanceInv
          <5>3. version'[d] = [st |-> "draft", by |-> u, wf |-> r.wf]
            BY <5>1, <5>2 DEF Version
          <5> QED BY <1>1, <5>1, <5>3 DEF Done
        <4> QED BY <3>2, <4>1 DEF forceCheckout
      <3> QED BY <1>5, <3>1, <3>2
    <2> QED BY <1>3, <2>1, WrittenSettles, StopSettles DEF Throw
  <1>6. CASE publishValidated(u, r)
    <2>1. At(u, "publishValidated")
      BY <1>6 DEF publishValidated
    <2>2. CASE SetPublished(r.ver) /\ Written(u)
      <3>1. Done("publishValidated", u, call[u].req)
        BY <1>1, <1>4, <2>2 DEF Done
      <3> QED BY <2>1, <2>2, <3>1, WrittenSettles
    <2>3. CASE Follow(u, call[u], <<"findings">>) \/ Follow(u, call[u], <<"noteFindings", "publishAnyway">>)
      <3>1. <<"findings">> # <<>> /\ <<"noteFindings", "publishAnyway">> # <<>>
        OBVIOUS
      <3> QED BY <1>3, <2>1, <2>3, <3>1, FollowSettles
    <2> QED BY <1>6, <2>2, <2>3 DEF publishValidated
  <1>7. CASE publishAnyway(u, r)
    <2>1. At(u, "publishAnyway") /\ SetPublished(r.ver) /\ Written(u)
      BY <1>7 DEF publishAnyway
    <2>2. Done("publishAnyway", u, call[u].req)
      BY <1>1, <1>4, <2>1 DEF Done
    <2> QED BY <2>1, <2>2, WrittenSettles
  <1>8. CASE publishQuietly(u, r)
    <2>1. /\ At(u, "publishQuietly")
          /\ (SetPublished(r.ver) /\ Go(u, k)) \/ Follow(u, k, <<"readPublished">>)
      BY <1>1, <1>8, <1>2 DEF publishQuietly, Release
    <2>2. CASE SetPublished(r.ver) /\ Go(u, k)
      <3>1. Done("publishQuietly", u, call[u].req)
        BY <1>1, <1>4, <2>2 DEF Done
      <3> QED BY <1>3, <2>1, <2>2, <3>1, GoSettles
    <2>3. CASE Follow(u, k, <<"readPublished">>)
      <3>1. <<"readPublished">> # <<>>
        OBVIOUS
      <3> QED BY <1>3, <2>1, <2>3, <3>1, FollowSettles
    <2> QED BY <2>1, <2>2, <2>3
  <1>9. CASE deleteDraft(u, r)
    <2>1. At(u, "deleteDraft") /\ Written(u)
      BY <1>9 DEF deleteDraft
    <2>2. Done("deleteDraft", u, call[u].req)
      BY DEF Done
    <2> QED BY <2>1, <2>2, WrittenSettles
  <1>10. CASE deleteVersions(u, r)
    <2>1. At(u, "deleteVersions")
      BY <1>10 DEF deleteVersions
    <2>2. CASE call[u].seen = {}
      <3>1. Go(u, call[u])
        BY <1>10, <2>2 DEF deleteVersions
      <3>2. Done("deleteVersions", u, call[u].req)
        BY DEF Done
      <3> QED BY <1>3, <2>1, <3>1, <3>2, GoSettles
    <2>3. CASE call[u].seen # {}
      <3>1. PICK d \in call[u].seen :
                \/ Follow(u, [call[u] EXCEPT !.seen = @ \ {d}, !.wrote = @ \cup {d.ver}], call[u].todo)
                \/ Stopped(u, [call[u] EXCEPT !.seen = @ \ {d}, !.wrote = @ \cup {d.ver}], "failed")
        BY <1>10, <2>3 DEF deleteVersions
      <3>2. PICK h : h = [call[u] EXCEPT !.seen = @ \ {d}, !.wrote = @ \cup {d.ver}]
        OBVIOUS
      <3>3. Open(h)
        BY <1>3, <3>2 DEF Open
      <3> QED BY <1>3, <2>1, <3>1, <3>2, <3>3, FollowSettles, StopSettles
    <2> QED BY <2>2, <2>3
  <1>11. ASSUME NEW x \in {"initializeWorkflow", "postWorkflow", "postVersion"}, At(u, x), NEW h, Open(h),
                Go(u, h) \/ Stopped(u, h, "failed")
         PROVE  Settled(u, x)
    <2>1. Done(x, u, call[u].req)
      BY <1>11 DEF Done
    <2> QED BY <1>11, <2>1, GoSettles, StopSettles
  <1>12. CASE initializeWorkflow(u, r)
    <2>1. PICK v, wf : \/ Go(u, [call[u] EXCEPT !.wrote = {v}, !.req.ver = v, !.req.wf = wf])
                       \/ Stopped(u, [call[u] EXCEPT !.wrote = {v}, !.req.ver = v, !.req.wf = wf], "failed")
      BY <1>12 DEF initializeWorkflow
    <2>2. PICK h : h = [call[u] EXCEPT !.wrote = {v}, !.req.ver = v, !.req.wf = wf]
      OBVIOUS
    <2>3. Open(h)
      BY <1>3, <2>2 DEF Open
    <2>4. At(u, "initializeWorkflow")
      BY <1>12 DEF initializeWorkflow
    <2> QED BY <1>11, <2>1, <2>2, <2>3, <2>4
  <1>13. CASE postWorkflow(u, r)
    <2>1. PICK wf : \/ Go(u, [call[u] EXCEPT !.req.wf = wf])
                    \/ Stopped(u, [call[u] EXCEPT !.req.wf = wf], "failed")
      BY <1>13 DEF postWorkflow
    <2>2. PICK h : h = [call[u] EXCEPT !.req.wf = wf]
      OBVIOUS
    <2>3. Open(h)
      BY <1>3, <2>2 DEF Open
    <2>4. At(u, "postWorkflow")
      BY <1>13 DEF postWorkflow
    <2> QED BY <1>11, <2>1, <2>2, <2>3, <2>4
  <1>14. CASE postVersion(u, r)
    <2>1. PICK v : \/ Go(u, [call[u] EXCEPT !.wrote = {v}, !.req.ver = v])
                   \/ Stopped(u, [call[u] EXCEPT !.wrote = {v}, !.req.ver = v], "failed")
      BY <1>14 DEF postVersion
    <2>2. PICK h : h = [call[u] EXCEPT !.wrote = {v}, !.req.ver = v]
      OBVIOUS
    <2>3. Open(h)
      BY <1>3, <2>2 DEF Open
    <2>4. At(u, "postVersion")
      BY <1>14 DEF postVersion
    <2> QED BY <1>11, <2>1, <2>2, <2>3, <2>4
  <1> QED BY <1>1, <1>5, <1>6, <1>7, <1>8, <1>9, <1>10, <1>12, <1>13, <1>14 DEF VersionStep

LEMMA FailsSettle ==
    ASSUME NEW u \in Users, call \in [Users -> Call], CallInv(u), RequestFails(u)
    PROVE  \E x : Settled(u, x)
  <1>1. PICK x : At(u, x)
    BY DEF RequestFails, At
  <1>2. Open(call[u])
    BY <1>1, OpenCalls DEF At
  <1>3. CASE Follow(u, call[u], <<"readPublished">>)
    <2>1. <<"readPublished">> # <<>>
      OBVIOUS
    <2> QED BY <1>1, <1>2, <1>3, <2>1, FollowSettles
  <1>4. CASE At(u, "findings") /\ Throw(u, "findings")
    BY <1>2, <1>4, StopSettles DEF Throw
  <1>5. CASE Throw(u, "failed")
    BY <1>1, <1>2, <1>5, StopSettles DEF Throw
  <1> QED BY <1>3, <1>4, <1>5 DEF RequestFails


(* Only a call's own step brings it to its end.                             *)
LEMMA StepSettles ==
    ASSUME WorkflowInv, Next, NEW u \in Users, call[u].todo # <<>>, call'[u].result # "none"
    PROVE  \E x : Settled(u, x)
  <1>1. PICK w \in Users : Acts(w)
    BY DEF Next, Acts
  <1>2. CallInv(u) /\ InstanceInv /\ call \in [Users -> Call]
    BY DEF WorkflowInv
  <1>3. w = u
    <2>1. \A x \in Users \ {w} : call'[x] = call[x]
      BY <1>1, ActsKeep DEF StepKeeps, OwnMoves
    <2>2. call[u].result = "none"
      BY <1>2 DEF CallInv, TypedCall
    <2> QED BY <2>1, <2>2
  <1>4. ~Start(u)
    BY DEF Start
  <1> QED BY <1>1, <1>2, <1>3, <1>4, ReadsSettle, GraphSettles, VersionSettles, FailsSettle DEF Acts

LEMMA RefusalsSettled ==
    ASSUME NEW u \in Users, CallInv(u), call \in [Users -> Call], NEW x, Settled(u, x),
           call'[u].result \in {"refused", "findings"}, call[u].req.op # "createCompleteWorkflow"
    PROVE  ~Touched(call[u]) \/ call[u].spoilt
  <1>1. PICK c \in Call : c = call[u]
    OBVIOUS
  <1>2. At(u, x) /\ (x = "rethrow" \/ (x \in Reads \cup {"findings", "requireStart", "findEnds"} /\ ~InCleanup(u)))
    BY DEF Settled
  <1>3. Shaped(c) /\ Cautious(c) /\ c.todo # <<>> /\ Head(c.todo) = x /\ x \in In(c.todo) /\ x \in Family(c)
    BY <1>1, <1>2, Asking
  <1>4. \A y \in In(c.todo) : Rank(x) <= Rank(y)
    BY <1>3, StepsLeft
  <1>5. Touched(c) \in BOOLEAN /\ c.spoilt \in BOOLEAN
    <2>1. CASE c.req.op = "moveActivities"
      BY <2>1 DEF Call, Touched
    <2>2. CASE c.req.op # "moveActivities"
      BY <2>2 DEF Call, Touched
    <2> QED BY <2>1, <2>2
  <1>6. CASE x = "rethrow"
    <2>1. Rank("rethrow") = 10 /\ Rank("verifyRemoved") = 9
      BY DEF Rank, Reads
    <2>2. "verifyRemoved" \notin In(c.todo)
      BY <1>4, <1>6, <2>1
    <2> QED BY <1>1, <1>3, <1>6, <2>2 DEF Cautious
  <1>7. CASE x \in Reads \cup {"findings", "requireStart", "findEnds"} /\ ~InCleanup(u)
    <2>1. "rethrow" \notin In(c.todo)
      <3>1. SUFFICES ASSUME "rethrow" \in In(c.todo) PROVE FALSE
        OBVIOUS
      <3>2. PICK s \in Seq(Steps) : s = c.todo
        BY DEF Call
      <3>3. s # <<>> /\ s[Len(s)] = "rethrow" /\ Ordered(s)
        BY <1>3, <3>1, <3>2, RethrowLast DEF Shaped
      <3>4. x # "rethrow"
        BY <1>7 DEF Reads
      <3>5. s[1] = x
        BY <1>3, <3>2, <3>3
      <3>6. Len(s) > 1
        BY <3>3, <3>4, <3>5
      <3>7. InCleanup(u)
        BY <1>1, <3>2, <3>3, <3>6 DEF InCleanup, Last
      <3> QED BY <1>7, <3>7
    <2>2. x \in {"requireStart", "findEnds"} => c.req.op = "createCompleteWorkflow"
      BY <1>3, <2>1 DEF Family, StepsOf, Wiring
    <2>3. Touched(c) => In(c.todo) \cap (Reads \cup {"findings", "publishValidated"}) = {}
      BY <1>1, <1>3, <2>1 DEF Cautious
    <2> QED BY <1>1, <1>3, <1>5, <1>7, <2>2, <2>3
  <1> QED BY <1>2, <1>6, <1>7

LEMMA AnswersSettled ==
    ASSUME NEW u \in Users, CallInv(u), call \in [Users -> Call], version \in [Versions -> Version], NEW x, Settled(u, x),
           call'[u].result = "ok", NEW r, r = call[u].req
    PROVE  /\ r.op \in {"publish", "publishWorkflow"} => version'[r.ver].st = "published"
           /\ r.op = "checkout" => \E v \in Versions : version'[v] = [st |-> "draft", by |-> u, wf |-> r.wf]
           /\ r.op = "newWorkflow" => /\ version'[r.ver].st \notin {"absent", "deleted"} /\ version'[r.ver].wf = r.wf
                                      /\ graph'[r.ver].edges # {}
           /\ r.op = "removeActivity" => r.act \notin graph'[r.ver].nodes
           /\ r.op = "discardCheckout" => version'[r.ver].st = "deleted"
           /\ r.op = "deleteWorkflow" => /\ r.wf \notin workflows'
                                         /\ \A v \in Versions : version'[v].st \in {"absent", "deleted"} \/ version'[v].wf # r.wf
  <1>1. PICK c \in Call : c = call[u]
    OBVIOUS
  <1>2. At(u, x) /\ Tail(c.todo) = <<>> /\ Done(x, u, r)
    BY <1>1 DEF Settled
  <1>3. /\ Shaped(c) /\ c.todo # <<>> /\ Head(c.todo) = x /\ x \in In(c.todo) /\ Knows(In(c.todo), u, c)
        /\ r.ver \in Versions
    BY <1>1, <1>2, Asking
  <1>4. c.todo[Len(c.todo)] = x /\ In(c.todo) \subseteq {x}
    <2>1. c.todo \in Seq(Steps) /\ Ordered(c.todo)
      BY <1>3 DEF Call, Shaped
    <2>2. In(Tail(c.todo)) = {}
      <3>1. In(<<>>) = {}
        BY DEF In
      <3> QED BY <1>2, <3>1
    <2> QED BY <1>2, <1>3, <2>1, <2>2, TailSteps
  <1>5. r.op # "addActivity" => x \in LastOf(r.op)
    BY <1>1, <1>3, <1>4 DEF Shaped
  <1>6. r.op \in {"publish", "publishWorkflow"} => version'[r.ver].st = "published"
    BY <1>2, <1>5 DEF LastOf, Done
  <1>7. r.op = "removeActivity" => r.act \notin graph'[r.ver].nodes
    BY <1>2, <1>5 DEF LastOf, Done
  <1>8. ASSUME r.op = "discardCheckout" PROVE version'[r.ver].st = "deleted"
    <2>1. x = "verifyDeleted"
      BY <1>5, <1>8 DEF LastOf
    <2>2. version' = version /\ ~Exists(r.ver)
      BY <1>2, <2>1 DEF Done
    <2>3. version[r.ver].st # "absent"
      BY <1>1, <1>3, <1>4, <2>1 DEF Knows, Checked, Guarded
    <2> QED BY <1>3, <2>2, <2>3 DEF Version, Exists
  <1>9. r.op = "deleteWorkflow" => /\ r.wf \notin workflows'
                                   /\ \A v \in Versions : version'[v].st \in {"absent", "deleted"} \/ version'[v].wf # r.wf
    BY <1>2, <1>5 DEF LastOf, Done
  <1>10. r.op = "newWorkflow" => /\ version'[r.ver].st \notin {"absent", "deleted"} /\ version'[r.ver].wf = r.wf
                                 /\ graph'[r.ver].edges # {}
    BY <1>2, <1>5 DEF LastOf, Done
  <1>11. r.op = "checkout" => \E v \in Versions : version'[v] = [st |-> "draft", by |-> u, wf |-> r.wf]
    <2>1. r.op = "checkout" => x \in {"chooseCheckout", "takeCheckout", "forceCheckout"}
      BY <1>1, <1>3 DEF Family, StepsOf, Shaped
    <2> QED BY <1>2, <2>1 DEF Done
  <1> QED BY <1>6, <1>7, <1>8, <1>9, <1>10, <1>11


(****************************************************************************)
(* The versions are those of WorkflowDrafts                                 *)
(****************************************************************************)
(* A version's graph as WorkflowDrafts has it.                              *)
View(v) == [nodes |-> graph[v].nodes, exits |-> graph[v].exits, paths |-> Paths(v)]

LEMMA ViewKept ==
    ASSUME NEW v, graph'[v] = graph[v]
    PROVE  View(v)' = View(v)
  BY DEF View, Paths

LEMMA ViewSound ==
    ASSUME NEW v, Sound(graph[v])
    PROVE  Drafts!WellFormed(View(v))
  <1>1. ASSUME NEW p \in Paths(v)
        PROVE  p[1] \in graph[v].nodes /\ p[3] \in graph[v].nodes /\ (p[2] = NoExit \/ <<p[1], p[2]>> \in graph[v].exits)
    <2>1. PICK e \in graph[v].edges : p = <<e.from, e.exit, e.to>>
      BY <1>1 DEF Paths
    <2> QED BY <2>1 DEF Sound
  <1>2. /\ View(v).nodes = graph[v].nodes /\ View(v).exits = graph[v].exits /\ View(v).paths = Paths(v)
    BY DEF View
  <1> QED BY <1>1, <1>2 DEF Drafts!WellFormed, Drafts!NoExit, NoExit

(* Nothing but the graph of v changes.                                      *)
Elsewhere(v) == \A x \in Versions \ {v} : graph'[x] = graph[x]

LEMMA ElsewhereUntouched ==
    ASSUME NEW v, Elsewhere(v)
    PROVE  Drafts!OtherGraphsUntouched(v)
  <1>1. ASSUME NEW x \in Versions \ {v} PROVE View(x)' = View(x)
    BY <1>1, ViewKept DEF Elsewhere
  <1> QED BY <1>1 DEF Drafts!OtherGraphsUntouched, View

(* What the invariant says of a version that is not loose.                  *)
LEMMA StaysSound ==
    ASSUME NEW v \in Versions, InstanceInv'
    PROVE  v \in loose' \/ Drafts!WellFormed(View(v))'
  <1>1. v \in loose' \/ Sound(graph[v])'
    BY DEF InstanceInv
  <1>2. Sound(graph[v])' => Drafts!WellFormed(View(v))'
    BY ViewSound, PTL
  <1> QED BY <1>1, <1>2

(* What a step of u is in WorkflowDrafts: a change of one version, or none. *)
Changes(u) == \E v \in Versions : Drafts!Change(u, v)

Same == version' = version /\ graph' = graph /\ loose' = loose

LEMMA Edited ==
    ASSUME InstanceInv', NEW u \in Users, NEW v \in Versions, version' = version, loose' = loose, Elsewhere(v),
           HeldBy(u, v) \/ (v \in loose /\ v \in call[u].owned)
    PROVE  Changes(u)
  <1>1. Drafts!OtherGraphsUntouched(v)
    BY ElsewhereUntouched
  <1>2. CASE HeldBy(u, v)
    <2>1. v \in loose \/ Drafts!WellFormed(View(v)')
      BY StaysSound
    <2>2. Drafts!Edit(u, v)
      BY <1>1, <1>2, <2>1 DEF Drafts!Edit, Drafts!HeldBy, HeldBy, View
    <2> QED BY <2>2 DEF Changes, Drafts!Change
  <1>3. CASE v \in loose /\ v \in call[u].owned
    <2>1. Drafts!LateEdit(u, v)
      BY <1>1, <1>3 DEF Drafts!LateEdit
    <2> QED BY <2>1 DEF Changes, Drafts!Change
  <1> QED BY <1>2, <1>3

LEMMA ChangedElsewhere ==
    ASSUME InstanceInv, NEW v, NEW g, graph' = [graph EXCEPT ![v] = g]
    PROVE  Elsewhere(v)
  BY DEF InstanceInv, Elsewhere

(* An edit that relies on an earlier requireDraft.                          *)
LEMMA GuardedBy ==
    ASSUME NEW u \in Users, call \in [Users -> Call], CallInv(u), NEW x \in Guarded, At(u, x), NEW v, v = call[u].req.ver, Exists(v)
    PROVE  v \in call[u].owned /\ (v \in loose \/ HeldBy(u, v))
  <1>1. PICK c \in Call : c = call[u]
    OBVIOUS
  <1>2. Shaped(c) /\ c.todo # <<>> /\ Head(c.todo) = x /\ Knows(In(c.todo), u, c)
    BY <1>1, Asking
  <1>3. x \in In(c.todo) /\ \A y \in In(c.todo) : Rank(x) <= Rank(y)
    BY <1>2, StepsLeft
  <1>4. Rank(x) >= 1 /\ Rank("requireDraft") = 0
    BY DEF Rank, Reads, Guarded
  <1>5. "requireDraft" \notin In(c.todo)
    BY <1>3, <1>4, Ranks
  <1>6. v \in c.owned
    BY <1>1, <1>2, <1>3, <1>5 DEF Knows, Prepared
  <1> QED BY <1>1, <1>2, <1>3, <1>5, <1>6 DEF Knows, Checked, Exists

LEMMA GuardedEdits ==
    ASSUME InstanceInv, InstanceInv', NEW u \in Users, call \in [Users -> Call], CallInv(u),
           NEW r, r = call[u].req,
           \/ newEdge(u, r) \/ newEdgeControlNode(u, r) \/ changeEdge(u, r) \/ deleteEdge(u, r) \/ insertActivity(u, r)
    PROVE  Changes(u)
  <1>1. PICK v : v = r.ver
    OBVIOUS
  <1> DEFINE Edits == \E y \in Guarded : At(u, y) /\ loose' = loose /\ \E g : Change(u, v, g)
  <1>2. newEdge(u, r) => Edits
    BY <1>1 DEF newEdge, Guarded
  <1>3. newEdgeControlNode(u, r) => Edits
    BY <1>1 DEF newEdgeControlNode, Guarded
  <1>4. changeEdge(u, r) \/ deleteEdge(u, r) => Edits
    BY <1>1 DEF changeEdge, deleteEdge, Guarded
  <1>5. insertActivity(u, r) => Edits
    BY <1>1 DEF insertActivity, Guarded
  <1>6. PICK x \in Guarded : At(u, x) /\ loose' = loose /\ \E g : Change(u, v, g)
    BY <1>2, <1>3, <1>4, <1>5
  <1>7. PICK g : graph' = [graph EXCEPT ![v] = g] /\ version' = version /\ Exists(v)
    BY <1>6 DEF Change
  <1>8. HeldBy(u, v) \/ (v \in loose /\ v \in call[u].owned)
    BY <1>1, <1>6, <1>7, GuardedBy
  <1>9. v \in Versions
    BY <1>1, <1>6, Asking
  <1>10. Elsewhere(v)
    BY <1>7, ChangedElsewhere
  <1> QED BY <1>6, <1>7, <1>8, <1>9, <1>10, Edited

LEMMA ExitEdits ==
    ASSUME InstanceInv, InstanceInv', NEW u \in Users, call \in [Users -> Call], CallInv(u), NEW r, r = call[u].req,
           deleteExit(u, r) \/ newExit(u, r)
    PROVE  Changes(u)
  <1>1. PICK v : v = r.ver
    OBVIOUS
  <1>2. PICK x, g : At(u, x) /\ Change(u, v, g) /\ loose' = loose /\ HeldBy(u, v)
    BY <1>1 DEF deleteExit, newExit
  <1>3. graph' = [graph EXCEPT ![v] = g] /\ version' = version
    BY <1>2 DEF Change
  <1>4. v \in Versions
    BY <1>1, <1>2, Asking
  <1>5. Elsewhere(v)
    BY <1>3, ChangedElsewhere
  <1> QED BY <1>2, <1>3, <1>4, <1>5, Edited

LEMMA LeavingEdits ==
    ASSUME InstanceInv, InstanceInv', NEW u \in Users, call \in [Users -> Call], CallInv(u), NEW r, r = call[u].req,
           deleteLeaving(u, r)
    PROVE  Changes(u) \/ Same
  <1>1. At(u, "deleteLeaving")
    BY DEF deleteLeaving
  <1>2. CASE call[u].seen = {}
    <2>1. version' = version /\ graph' = graph /\ loose' = loose
      BY <1>2 DEF deleteLeaving, Instance
    <2> QED BY <2>1 DEF Same
  <1>3. CASE call[u].seen # {}
    <2>1. PICK v \in Versions : v = r.ver
      BY <1>1, Asking
    <2>2. PICK g : g = graph'[v]
      OBVIOUS
    <2>3. Exists(v) /\ version' = version /\ loose' = loose /\ \E e : graph' = [graph EXCEPT ![v].edges = Without(@, {e})]
      BY <1>3, <2>1 DEF deleteLeaving
    <2>4. Elsewhere(v)
      BY <2>3 DEF InstanceInv, Elsewhere
    <2>5. HeldBy(u, v) \/ (v \in loose /\ v \in call[u].owned)
      BY <1>1, <2>1, <2>3, GuardedBy DEF Guarded
    <2> QED BY <2>3, <2>4, <2>5, Edited
  <1> QED BY <1>2, <1>3

(* An activity goes. Where the path around it leads back to it, it was left *)
(* by a path to itself.                                                     *)
LEMMA NodeEdits ==
    ASSUME InstanceInv, InstanceInv', NEW u \in Users, call \in [Users -> Call], CallInv(u), NEW r, r = call[u].req,
           deleteNode(u, r)
    PROVE  Changes(u)
  <1>1. PICK c \in Call : c = call[u]
    OBVIOUS
  <1>2. PICK v : v = r.ver
    OBVIOUS
  <1>3. PICK a : a = r.act
    OBVIOUS
  <1>4. PICK around : around = IF "reconnect" \in r.opt /\ ~c.drawn THEN Joined(u, r) ELSE {}
    OBVIOUS
  <1>5. PICK g : g = [nodes |-> graph[v].nodes \ {a}, exits |-> {x \in graph[v].exits : x[1] # a},
                      edges |-> Without(graph[v].edges, c.seen) \cup around]
    OBVIOUS
  <1>6. /\ At(u, "deleteNode") /\ Change(u, v, g)
        /\ loose' = IF \E p \in around : p.to = a THEN loose \cup {v} ELSE loose
    BY <1>1, <1>2, <1>3, <1>4, <1>5 DEF deleteNode
  <1>7. graph' = [graph EXCEPT ![v] = g] /\ version' = version /\ Exists(v)
    BY <1>6 DEF Change
  <1>8. v \in Versions /\ (v \in loose \/ HeldBy(u, v)) /\ (Free(u, v) => Relied("deleteNode", c, graph[v]))
    BY <1>1, <1>2, <1>6, <1>7, Editing DEF Guarded, Reads
  <1>9. Elsewhere(v) /\ graph'[v] = g /\ g.nodes = graph[v].nodes \ {a}
    BY <1>5, <1>7, <1>8, ChangedElsewhere DEF InstanceInv
  <1>10. CASE loose' = loose
    <2>1. HeldBy(u, v) \/ (v \in loose /\ v \in call[u].owned)
      BY <1>2, <1>6, <1>7, GuardedBy DEF Guarded
    <2> QED BY <1>7, <1>8, <1>9, <1>10, <2>1, Edited
  <1>11. CASE loose' # loose
    <2>1. PICK p \in around : p.to = a
      BY <1>6, <1>11
    <2>2. loose' = loose \cup {v} /\ v \notin loose
      BY <1>6, <1>11
    <2>3. HeldBy(u, v) /\ c.seen = {e \in graph[v].edges : a \in {e.from, e.to}}
      BY <1>1, <1>3, <1>8, <2>2 DEF Free, Relied
    <2>4. PICK i \in Incoming(u, r), o \in Outgoing(u, r) : p = [i EXCEPT !.to = o.to]
      BY <1>4, <2>1 DEF Joined
    <2>5. /\ i \in c.seen /\ o \in c.seen /\ o.from = a
      BY <1>1, <1>3, <2>4 DEF Incoming, Outgoing
    <2>6. graph[v].edges \subseteq Edges /\ Sound(graph[v])
      BY <1>8, <2>2 DEF InstanceInv, Graph
    <2>7. o \in graph[v].edges /\ o \in Edges /\ i \in Edges
      BY <2>3, <2>5, <2>6
    <2>8. o.to = a
      BY <2>1, <2>4, <2>7 DEF Edges
    <2>9. a \in graph[v].nodes
      BY <2>5, <2>6, <2>7 DEF Sound
    <2>10. <<a, o.exit, a>> \in Paths(v) /\ o.exit \in Exits \cup {NoExit}
      BY <2>5, <2>7, <2>8 DEF Paths, Edges
    <2>11. Drafts!OtherGraphsUntouched(v)
      BY <1>9, ElsewhereUntouched
    <2>12. Drafts!Bypass(u, v)
      BY <1>7, <1>8, <1>9, <2>2, <2>3, <2>9, <2>10, <2>11 DEF Drafts!Bypass, Drafts!HeldBy, HeldBy
    <2> QED BY <1>8, <2>12 DEF Changes, Drafts!Change
  <1> QED BY <1>10, <1>11

(* The low-level creates only add.                                          *)
LEMMA PostEdits ==
    ASSUME InstanceInv, NEW u \in Users, call \in [Users -> Call], CallInv(u), NEW r, r = call[u].req,
           postActivity(u, r) \/ postNext(u, r) \/ postTransition(u, r)
    PROVE  Changes(u)
  <1>1. PICK v : v = r.ver
    OBVIOUS
  <1>2. PICK x \in {"postActivity", "postNext", "postTransition"} : At(u, x)
    BY DEF postActivity, postNext, postTransition
  <1>3. v \in Versions
    BY <1>1, <1>2, Asking
  <1>4. graph[v] \in Graph
    BY <1>3 DEF InstanceInv
  <1>5. PICK g : /\ Change(u, v, g) /\ loose' = loose \cup {v}
                 /\ graph[v].nodes \subseteq g.nodes /\ graph[v].exits \subseteq g.exits /\ graph[v].edges \subseteq g.edges
    <2>1. CASE postActivity(u, r)
      <3>1. PICK g : g = WithActivity(graph[v], r.act)
        OBVIOUS
      <3>2. graph[v].nodes \subseteq g.nodes /\ graph[v].exits \subseteq g.exits /\ graph[v].edges \subseteq g.edges
        BY <1>4, <3>1 DEF WithActivity, Graph
      <3>3. Change(u, v, g) /\ loose' = loose \cup {v}
        BY <1>1, <2>1, <3>1 DEF postActivity, Post
      <3> QED BY <3>2, <3>3
    <2>2. CASE postTransition(u, r)
      <3>1. PICK g : g = [graph[v] EXCEPT !.edges = @ \cup {NewPath(r.from, r.exit, r.to)}]
        OBVIOUS
      <3>2. graph[v].nodes \subseteq g.nodes /\ graph[v].exits \subseteq g.exits /\ graph[v].edges \subseteq g.edges
        BY <1>4, <3>1 DEF Graph
      <3>3. Change(u, v, g) /\ loose' = loose \cup {v}
        BY <1>1, <2>2, <3>1 DEF postTransition, Post
      <3> QED BY <3>2, <3>3
    <2>3. CASE postNext(u, r)
      <3>1. PICK g : g = WithActivity(graph[v], r.to)
        OBVIOUS
      <3>2. graph[v].nodes \subseteq g.nodes /\ graph[v].exits \subseteq g.exits /\ graph[v].edges \subseteq g.edges
        BY <1>4, <3>1 DEF WithActivity, Graph
      <3>3. Change(u, v, g) /\ loose' = loose \cup {v}
        BY <1>1, <2>3, <3>1 DEF postNext, Post
      <3> QED BY <3>2, <3>3
    <2> QED BY <2>1, <2>2, <2>3
  <1>6. graph' = [graph EXCEPT ![v] = g] /\ version' = version /\ Exists(v)
    BY <1>5 DEF Change
  <1>7. Elsewhere(v) /\ graph'[v] = g
    BY <1>3, <1>6, ChangedElsewhere DEF InstanceInv
  <1>8. Paths(v) \subseteq Paths(v)'
    BY <1>5, <1>7 DEF Paths
  <1>9. Drafts!OtherGraphsUntouched(v)
    BY <1>7, ElsewhereUntouched
  <1>10. Drafts!Grown(View(v), View(v)')
    BY <1>5, <1>7, <1>8 DEF Drafts!Grown, View
  <1>11. Drafts!Add(v)
    BY <1>3, <1>5, <1>6, <1>9, <1>10 DEF Drafts!Add, Drafts!Exists, Exists, View
  <1> QED BY <1>3, <1>11 DEF Changes, Drafts!Change

LEMMA GraphStepRefines ==
    ASSUME InstanceInv, InstanceInv', NEW u \in Users, call \in [Users -> Call], CallInv(u), GraphStep(u)
    PROVE  Changes(u) \/ Same
  <1>1. PICK r : r = call[u].req
    OBVIOUS
  <1>2. CASE touch(u, r)
    <2>1. version' = version /\ loose' = loose /\ graph' = [graph EXCEPT ![r.ver] = graph[r.ver]]
      BY <1>2 DEF touch, Change
    <2>2. graph' = graph
      BY <2>1 DEF InstanceInv
    <2> QED BY <2>1, <2>2 DEF Same
  <1> QED BY <1>1, <1>2, GuardedEdits, ExitEdits, LeavingEdits, NodeEdits, PostEdits DEF GraphStep


(* A draft appears; it is loose where it copies a loose version of its      *)
(* workflow.                                                                *)
LEMMA DraftAppears ==
    ASSUME InstanceInv, InstanceInv', NEW u \in Users, NEW d \in Versions, version[d].st = "absent", NEW wf,
           version' = [version EXCEPT ![d] = [st |-> "draft", by |-> u, wf |-> wf]], Elsewhere(d),
           \/ loose' = loose
           \/ /\ loose' = loose \cup {d}
              /\ \E s \in loose : s \in Versions /\ Exists(s) /\ version[s].wf = wf
    PROVE  Changes(u)
  <1>1. version'[d] = [st |-> "draft", by |-> u, wf |-> wf] /\ \A x \in Versions \ {d} : version'[x] = version[x]
    BY DEF InstanceInv
  <1>2. version'[d].st = "draft" /\ version'[d].by = u /\ version'[d].wf = wf
    BY <1>1
  <1>3. Drafts!OthersUntouched(d) /\ Drafts!OtherGraphsUntouched(d)
    BY <1>1, ElsewhereUntouched DEF Drafts!OthersUntouched
  <1>4. d \in loose' \/ Drafts!WellFormed(View(d)')
    BY StaysSound
  <1>5. ASSUME loose' # loose PROVE Drafts!Siblings(d)' \cap loose # {}
    <2>1. PICK s \in loose : s \in Versions /\ Exists(s) /\ version[s].wf = wf
      BY <1>5
    <2>2. s # d
      BY <2>1 DEF Exists
    <2>3. version'[s] = version[s]
      BY <1>1, <2>1, <2>2
    <2>4. s \in Drafts!Siblings(d)'
      BY <1>2, <2>1, <2>2, <2>3 DEF Drafts!Siblings, Drafts!Exists, Exists
    <2> QED BY <2>1, <2>4
  <1>6. Drafts!Appear(u, d)
    BY <1>2, <1>3, <1>4, <1>5 DEF Drafts!Appear, View
  <1> QED BY <1>6 DEF Changes, Drafts!Change

LEMMA Retiring ==
    ASSUME NEW v \in Versions, NEW wf, version' = AsPublished(v, wf)
    PROVE  version'[v].st = "published" /\ version'[v].wf = wf /\ Drafts!OthersRetire(v)
  <1>1. version'[v] = [st |-> "published", by |-> "nobody", wf |-> wf]
    BY DEF AsPublished
  <1>2. version'[v].st = "published" /\ version'[v].wf = wf
    BY <1>1
  <1> QED BY <1>2 DEF AsPublished, Drafts!OthersRetire

LEMMA PublishedAsOne ==
    ASSUME NEW v \in Versions, SetPublished(v)
    PROVE  Drafts!Published(v) /\ Exists(v)
  <1>1. PICK wf : wf = version[v].wf
    OBVIOUS
  <1>2. version'[v].st = "published" /\ version'[v].wf = wf /\ Drafts!OthersRetire(v)
    BY <1>1, Retiring DEF SetPublished
  <1>3. version[v].st = "draft" /\ graph' = graph
    BY DEF SetPublished
  <1> QED BY <1>1, <1>2, <1>3 DEF Drafts!Published, Paths, Exists

LEMMA SameSiblings ==
    ASSUME NEW v \in Versions, Exists(v)
    PROVE  Drafts!Siblings(v) = OfWorkflow(version[v].wf) \ {v} /\ Drafts!Siblings(v) = Siblings(v)
  BY DEF Drafts!Siblings, Drafts!Exists, Siblings, OfWorkflow, Exists

LEMMA DeletedElsewhere ==
    ASSUME InstanceInv, NEW v \in Versions, Deleted(v)
    PROVE  version'[v].st = "deleted" /\ Drafts!OthersUntouched(v) /\ Drafts!OtherGraphsUntouched(v)
  <1>1. version' = [version EXCEPT ![v] = Gone] /\ graph' = [graph EXCEPT ![v] = EmptyGraph]
    BY DEF Deleted
  <1>2. version'[v] = Gone /\ \A x \in Versions \ {v} : version'[x] = version[x]
    BY <1>1 DEF InstanceInv
  <1>3. Gone.st = "deleted"
    BY DEF Gone, Absent
  <1>4. Elsewhere(v)
    BY <1>1, ChangedElsewhere
  <1> QED BY <1>2, <1>3, <1>4, ElsewhereUntouched DEF Drafts!OthersUntouched

LEMMA CheckoutsRefine ==
    ASSUME InstanceInv, InstanceInv', NEW u \in Users, call \in [Users -> Call], CallInv(u), NEW r, r = call[u].req,
           takeCheckout(u, r) \/ forceCheckout(u, r)
    PROVE  Changes(u) \/ Same
  <1>1. CASE UNCHANGED Instance
    <2>1. version' = version /\ graph' = graph /\ loose' = loose
      BY <1>1 DEF Instance
    <2> QED BY <2>1 DEF Same
  <1>2. CASE takeCheckout(u, r) /\ ~UNCHANGED Instance
    <2>1. PICK c \in Call : c = call[u]
      OBVIOUS
    <2>2. At(u, "takeCheckout") /\ version[r.ver].st = "published"
      BY <1>2 DEF takeCheckout
    <2>3. r.ver \in Versions /\ Knows(In(c.todo), u, c) /\ "takeCheckout" \in In(c.todo)
      BY <2>1, <2>2, Asking
    <2>9. "initializeWorkflow" \notin In(c.todo)
      <3>1. Shaped(c) /\ "takeCheckout" \in Family(c)
        BY <2>1, <2>2, Asking
      <3>2. c.req.op = "checkout" /\ Family(c) = StepsOf(c.req.op)
        BY <3>1 DEF Family, StepsOf, Cleanup, Wiring
      <3>3. In(c.todo) \subseteq {"chooseCheckout", "takeCheckout", "forceCheckout"}
        BY <3>1, <3>2 DEF Shaped, StepsOf
      <3> QED BY <3>3
    <2>4. version[r.ver].wf = r.wf
      BY <2>1, <2>2, <2>3, <2>9 DEF Knows, Drawing, Placed
    <2>5. PICK d \in Fresh : /\ version' = [version EXCEPT ![d] = [st |-> "draft", by |-> u, wf |-> r.wf]]
                             /\ graph' = [graph EXCEPT ![d] = graph[r.ver]]
                             /\ loose' = IF r.ver \in loose THEN loose \cup {d} ELSE loose
      BY <1>2 DEF takeCheckout
    <2>6. d \in Versions /\ version[d].st = "absent" /\ Elsewhere(d)
      BY <2>5, ChangedElsewhere DEF Fresh
    <2>7. Exists(r.ver)
      BY <2>2 DEF Exists
    <2>8. \/ loose' = loose
          \/ /\ loose' = loose \cup {d}
             /\ \E s \in loose : s \in Versions /\ Exists(s) /\ version[s].wf = r.wf
      BY <2>3, <2>4, <2>5, <2>7
    <2> QED BY <2>5, <2>6, <2>8, DraftAppears
  <1>3. CASE forceCheckout(u, r) /\ ~UNCHANGED Instance
    <2>1. PICK d \in DraftsOf(r.wf) : /\ version' = [version EXCEPT ![d].by = u] /\ graph' = graph
                                      /\ loose' = IF version[d].by = u THEN loose ELSE loose \cup {d}
      BY <1>3 DEF forceCheckout
    <2>2. d \in Versions /\ version[d].st = "draft" /\ version[d] \in Version
      BY <2>1 DEF DraftsOf, OfWorkflow, InstanceInv
    <2>3. CASE version[d].by = u
      <3>1. [version[d] EXCEPT !.by = u] = version[d]
        BY <2>2, <2>3 DEF Version
      <3>2. version' = version
        BY <2>1, <3>1 DEF InstanceInv
      <3> QED BY <2>1, <2>3, <3>2 DEF Same
    <2>4. CASE version[d].by # u
      <3>1. Drafts!Take(u, d)
        BY <2>1, <2>2, <2>4 DEF Drafts!Take, Paths
      <3> QED BY <2>2, <3>1 DEF Changes, Drafts!Change
    <2> QED BY <2>3, <2>4
  <1> QED BY <1>1, <1>2, <1>3

LEMMA PublishesRefine ==
    ASSUME NEW u \in Users, call \in [Users -> Call], CallInv(u), NEW r, r = call[u].req,
           publishValidated(u, r) \/ publishAnyway(u, r) \/ publishQuietly(u, r)
    PROVE  Changes(u) \/ Same
  <1>1. PICK x \in {"publishValidated", "publishAnyway", "publishQuietly"} : At(u, x)
    BY DEF publishValidated, publishAnyway, publishQuietly
  <1>2. PICK v \in Versions : v = r.ver
    BY <1>1, Asking
  <1>3. CASE UNCHANGED Instance
    BY <1>3 DEF Instance, Same
  <1>4. CASE (publishValidated(u, r) \/ publishAnyway(u, r)) /\ ~UNCHANGED Instance
    <2>1. SetPublished(v) /\ loose' = loose /\ \E y \in Guarded : At(u, y)
      BY <1>2, <1>4 DEF publishValidated, publishAnyway, Guarded
    <2>2. Drafts!Published(v) /\ Exists(v)
      BY <2>1, PublishedAsOne
    <2>3. v \in call[u].owned /\ (v \in loose \/ HeldBy(u, v))
      BY <1>2, <2>1, <2>2, GuardedBy
    <2>4. Drafts!Publish(u, v)
      BY <2>1, <2>2, <2>3 DEF Drafts!Publish, Drafts!HeldBy, HeldBy
    <2> QED BY <2>4 DEF Changes, Drafts!Change
  <1>5. CASE publishQuietly(u, r) /\ ~UNCHANGED Instance
    <2>1. SetPublished(v) /\ loose' = IF HeldBy(u, v) THEN loose ELSE loose \cup {v}
      BY <1>2, <1>5 DEF publishQuietly, Release
    <2>2. Drafts!Published(v)
      BY <2>1, PublishedAsOne
    <2>3. CASE HeldBy(u, v)
      <3>1. Drafts!Publish(u, v)
        BY <2>1, <2>2, <2>3 DEF Drafts!Publish, Drafts!HeldBy, HeldBy
      <3> QED BY <3>1 DEF Changes, Drafts!Change
    <2>4. CASE ~HeldBy(u, v)
      <3>1. Drafts!Release(v)
        BY <2>1, <2>2, <2>4 DEF Drafts!Release
      <3> QED BY <3>1 DEF Changes, Drafts!Change
    <2> QED BY <2>3, <2>4
  <1> QED BY <1>3, <1>4, <1>5

LEMMA DiscardRefines ==
    ASSUME InstanceInv, NEW u \in Users, call \in [Users -> Call], CallInv(u), NEW r, r = call[u].req, deleteDraft(u, r)
    PROVE  Changes(u)
  <1>1. PICK c \in Call : c = call[u]
    OBVIOUS
  <1>2. PICK v : v = r.ver
    OBVIOUS
  <1>3. At(u, "deleteDraft") /\ Deleted(v) /\ loose' = (loose \ {v}) \cup LeftAlone(v) /\ Exists(v)
    BY <1>2 DEF deleteDraft, Deleted
  <1>4. /\ v \in Versions /\ Shaped(c) /\ c.todo # <<>> /\ Head(c.todo) = "deleteDraft" /\ Knows(In(c.todo), u, c)
        /\ "deleteDraft" \in In(c.todo)
    BY <1>1, <1>2, <1>3, Asking
  <1>5. "readSiblings" \notin In(c.todo)
    <2>1. Rank("deleteDraft") = 7 /\ Rank("readSiblings") = 0
      BY DEF Rank, Reads
    <2>2. \A y \in In(c.todo) : Rank("deleteDraft") <= Rank(y)
      BY <1>4, StepsLeft
    <2> QED BY <2>1, <2>2
  <1>6. v \in call[u].owned /\ (v \in loose \/ HeldBy(u, v))
    BY <1>2, <1>3, GuardedBy DEF Guarded
  <1>10. v \in call[u].spared
    BY <1>1, <1>2, <1>4, <1>5 DEF Knows, Prepared
  <1>7. v \in loose \/ (Drafts!HeldBy(u, v) /\ Drafts!Siblings(v) # {})
    <2>1. SUFFICES ASSUME v \notin loose PROVE Siblings(v) # {} /\ HeldBy(u, v)
      BY <1>3, <1>4, SameSiblings DEF HeldBy, Drafts!HeldBy
    <2>2. Free(u, v)
      BY <1>6, <2>1 DEF Free
    <2> QED BY <1>1, <1>2, <1>4, <1>5, <2>2 DEF Knows, Accompanied, Free
  <1>8. LeftAlone(v) = {d \in Drafts!Siblings(v) : version[d].st = "draft" /\ Drafts!Siblings(v) = {d}}
    BY <1>3, <1>4, SameSiblings DEF LeftAlone
  <1>9. Drafts!Discard(u, v)
    BY <1>3, <1>4, <1>6, <1>7, <1>8, <1>10, DeletedElsewhere DEF Drafts!Discard
  <1> QED BY <1>4, <1>9 DEF Changes, Drafts!Change

LEMMA DeleteRefines ==
    ASSUME InstanceInv, NEW u \in Users, call \in [Users -> Call], CallInv(u), NEW r, r = call[u].req, deleteVersions(u, r)
    PROVE  Changes(u) \/ Same
  <1>1. PICK c \in Call : c = call[u]
    OBVIOUS
  <1>2. At(u, "deleteVersions")
    BY DEF deleteVersions
  <1>3. CASE c.seen = {}
    <2>1. version' = version /\ graph' = graph /\ loose' = loose
      BY <1>1, <1>3 DEF deleteVersions, Instance
    <2> QED BY <2>1 DEF Same
  <1>4. CASE c.seen # {}
    <2>1. PICK d \in c.seen : Deleted(d.ver) /\ loose' = (loose \ {d.ver}) \cup (OfWorkflow(version[d.ver].wf) \ {d.ver})
      BY <1>1, <1>4 DEF deleteVersions
    <2>2. TypedCall(c) /\ Shaped(c) /\ "deleteVersions" \in In(c.todo) /\ "deleteVersions" \in Family(c)
      BY <1>1, <1>2, Asking
    <2>3. c.req.op = "deleteWorkflow"
      BY <2>2 DEF Family, Cleanup, StepsOf, Wiring
    <2>4. PICK v \in Versions : v = d.ver
      BY <2>1, <2>2, <2>3 DEF TypedCall, Readings
    <2>5. Deleted(v) /\ Exists(v) /\ loose' = (loose \ {v}) \cup Drafts!Siblings(v)
      BY <2>1, <2>4, SameSiblings DEF Deleted
    <2>6. Drafts!Delete(v)
      BY <2>5, DeletedElsewhere DEF Drafts!Delete, Drafts!Exists, Exists
    <2> QED BY <2>6 DEF Changes, Drafts!Change
  <1> QED BY <1>3, <1>4

LEMMA CreatesRefine ==
    ASSUME InstanceInv, InstanceInv', NEW u \in Users, call \in [Users -> Call], CallInv(u), NEW r, r = call[u].req,
           initializeWorkflow(u, r) \/ postWorkflow(u, r) \/ postVersion(u, r)
    PROVE  Changes(u) \/ Same
  <1>1. CASE initializeWorkflow(u, r)
    <2>1. PICK v, wf, g : /\ version' = [version EXCEPT ![v] = [st |-> "draft", by |-> u, wf |-> wf]]
                          /\ graph' = [graph EXCEPT ![v] = g] /\ v \in Fresh
      BY <1>1 DEF initializeWorkflow
    <2>2. v \in Versions /\ version[v].st = "absent" /\ Elsewhere(v)
      BY <2>1, ChangedElsewhere DEF Fresh
    <2>3. loose' = loose
      BY <1>1 DEF initializeWorkflow
    <2> QED BY <2>1, <2>2, <2>3, DraftAppears
  <1>2. CASE postWorkflow(u, r)
    BY <1>2 DEF postWorkflow, Same
  <1>3. CASE postVersion(u, r)
    <2>1. PICK v \in Fresh : \/ version' = AsPublished(v, r.wf)
                             \/ version' = [version EXCEPT ![v] = [st |-> "draft", by |-> u, wf |-> r.wf]]
      BY <1>3 DEF postVersion
    <2>2. graph' = graph /\ loose' = loose
      BY <1>3 DEF postVersion
    <2>3. v \in Versions /\ version[v].st = "absent" /\ Elsewhere(v)
      BY <2>1, <2>2 DEF Fresh, Elsewhere
    <2>4. CASE version' = AsPublished(v, r.wf)
      <3>1. v \in loose' \/ Drafts!WellFormed(View(v)')
        BY <2>3, StaysSound
      <3>2. Drafts!OtherGraphsUntouched(v)
        BY <2>3, ElsewhereUntouched
      <3>3. Drafts!Appear(u, v)
        BY <2>2, <2>3, <2>4, <3>1, <3>2, Retiring DEF Drafts!Appear, View
      <3> QED BY <2>3, <3>3 DEF Changes, Drafts!Change
    <2>5. CASE version' = [version EXCEPT ![v] = [st |-> "draft", by |-> u, wf |-> r.wf]]
      BY <2>2, <2>3, <2>5, DraftAppears
    <2> QED BY <2>1, <2>4, <2>5
  <1> QED BY <1>1, <1>2, <1>3

(****************************************************************************)
(* What a user has seen grows only by what is so                            *)
(****************************************************************************)
Looks(u, k) ==
    /\ {"owned", "spared"} \subseteq DOMAIN k
    /\ k.owned \subseteq call[u].owned \cup {v \in Versions : Drafts!HeldBy(u, v)}
    /\ k.spared \subseteq call[u].spared \cup {v \in Versions : Drafts!Siblings(v) # {}}

LEMMA SameLooks ==
    ASSUME NEW u \in Users, call \in [Users -> Call]
    PROVE  Looks(u, call[u])
  BY DEF Looks, Call

LEMMA FollowLooks ==
    ASSUME NEW u \in Users, call \in [Users -> Call], NEW k, Looks(u, k), NEW t, Follow(u, k, t)
    PROVE  Looks(u, call'[u])
  <1>1. call'[u] = IF t = <<>> THEN Ended("ok") ELSE [k EXCEPT !.todo = t]
    BY DEF Follow
  <1>2. CASE t = <<>>
    BY <1>1, <1>2 DEF Looks, Ended, Idle
  <1>3. CASE t # <<>>
    BY <1>1, <1>3 DEF Looks
  <1> QED BY <1>2, <1>3

LEMMA GoLooks ==
    ASSUME NEW u \in Users, call \in [Users -> Call], NEW k, Looks(u, k), Go(u, k)
    PROVE  Looks(u, call'[u])
  BY FollowLooks DEF Go

LEMMA StopLooks ==
    ASSUME NEW u \in Users, call \in [Users -> Call], NEW k, Looks(u, k), NEW x, Stopped(u, k, x)
    PROVE  Looks(u, call'[u])
  <1>1. call'[u] = IF InCleanup(u) THEN [k EXCEPT !.todo = <<"rethrow">>, !.spoilt = TRUE] ELSE Ended(x)
    BY DEF Stopped
  <1>2. CASE InCleanup(u)
    BY <1>1, <1>2 DEF Looks
  <1>3. CASE ~InCleanup(u)
    BY <1>1, <1>3 DEF Looks, Ended, Idle
  <1> QED BY <1>2, <1>3

LEMMA ThrowLooks ==
    ASSUME NEW u \in Users, call \in [Users -> Call], NEW x, Throw(u, x)
    PROVE  Looks(u, call'[u])
  BY SameLooks, StopLooks DEF Throw

LEMMA CheckLooks ==
    ASSUME NEW u \in Users, call \in [Users -> Call], NEW step, NEW holds \in BOOLEAN,
           Check(u, step, holds) \/ Verify(u, step, holds)
    PROVE  Looks(u, call'[u])
  <1>1. Go(u, call[u]) \/ \E x : Throw(u, x)
    BY DEF Check, Verify
  <1> QED BY <1>1, SameLooks, GoLooks, ThrowLooks

(* A step that goes on from k, or stops there.                              *)
Leads(u, k) == Go(u, k) \/ (\E t : Follow(u, k, t)) \/ (\E x : Stopped(u, k, x)) \/ (\E x : Throw(u, x))

LEMMA LeadsLooks ==
    ASSUME NEW u \in Users, call \in [Users -> Call], NEW k, Looks(u, k), Leads(u, k)
    PROVE  Looks(u, call'[u])
  BY GoLooks, FollowLooks, StopLooks, ThrowLooks DEF Leads

LEMMA WrittenLooks ==
    ASSUME NEW u \in Users, call \in [Users -> Call], Written(u)
    PROVE  Looks(u, call'[u])
  <1>1. PICK k : k = [call[u] EXCEPT !.wrote = @ \cup {call[u].req.ver}]
    OBVIOUS
  <1>2. Looks(u, k)
    BY <1>1 DEF Looks, Call
  <1>3. Leads(u, k)
    BY <1>1 DEF Written, Leads
  <1> QED BY <1>2, <1>3, LeadsLooks

LEMMA ReadsLook ==
    ASSUME NEW u \in Users, call \in [Users -> Call], CallInv(u), ReadStep(u)
    PROVE  Looks(u, call'[u])
  <1>1. PICK r : r = call[u].req
    OBVIOUS
  <1>2. CASE requireDraft(u, r)
    <2>1. At(u, "requireDraft")
      BY <1>2 DEF requireDraft
    <2>2. r.ver \in Versions
      BY <1>1, <2>1, Asking
    <2>3. CASE HeldBy(u, r.ver)
      <3>1. PICK k : k = [call[u] EXCEPT !.owned = @ \cup {r.ver}]
        OBVIOUS
      <3>2. Looks(u, k)
        BY <2>2, <2>3, <3>1 DEF Looks, Call, HeldBy, Drafts!HeldBy
      <3>3. Leads(u, k)
        BY <1>2, <2>3, <3>1 DEF requireDraft, Leads
      <3> QED BY <3>2, <3>3, LeadsLooks
    <2>4. CASE ~HeldBy(u, r.ver)
      BY <1>2, <2>4, ThrowLooks DEF requireDraft
    <2> QED BY <2>3, <2>4
  <1>3. CASE readSiblings(u, r)
    <2>1. At(u, "readSiblings")
      BY <1>3 DEF readSiblings
    <2>2. r.ver \in Versions
      BY <1>1, <2>1, Asking
    <2>5. Drafts!Siblings(r.ver) = OfWorkflow(version[r.ver].wf) \ {r.ver}
      BY <2>2 DEF Drafts!Siblings, Drafts!Exists, OfWorkflow, Exists
    <2>3. CASE Drafts!Siblings(r.ver) # {}
      <3>1. PICK k : k = [call[u] EXCEPT !.spared = @ \cup {r.ver}]
        OBVIOUS
      <3>2. Looks(u, k)
        BY <2>2, <2>3, <3>1 DEF Looks, Call
      <3>3. Leads(u, k)
        BY <1>3, <2>3, <2>5, <3>1 DEF readSiblings, Leads
      <3> QED BY <3>2, <3>3, LeadsLooks
    <2>4. CASE Drafts!Siblings(r.ver) = {}
      BY <1>3, <2>4, <2>5, ThrowLooks DEF readSiblings
    <2> QED BY <2>3, <2>4
  <1>4. CASE \/ readActivity(u, r) \/ readCondition(u, r) \/ resolve(u) \/ checkDuplicate(u, r) \/ checkName(u, r)
            \/ requireStart(u, r) \/ resolveWorkflow(u, r) \/ findEnds(u, r)
    <2>1. \E step, holds : Check(u, step, holds)
      BY <1>4 DEF readActivity, readCondition, resolve, checkDuplicate, checkName, requireStart, resolveWorkflow, findEnds
    <2>2. Go(u, call[u]) \/ \E x : Throw(u, x)
      BY <2>1 DEF Check
    <2> QED BY <2>2, SameLooks, GoLooks, ThrowLooks
  <1>5. CASE readTransition(u, r)
    <2>1. PICK k : k = [call[u] EXCEPT !.seen = EdgeWith(r.ver, r.edge)]
      OBVIOUS
    <2>2. Looks(u, k)
      BY <2>1 DEF Looks, Call
    <2>3. Leads(u, k)
      BY <1>1, <1>5, <2>1 DEF readTransition, Leads
    <2> QED BY <2>2, <2>3, LeadsLooks
  <1>6. CASE pickExit(u, r)
    <2>1. PICK k : k = [call[u] EXCEPT !.picked = Picked(ExitsOf(r.ver, r.from), r.exit, FALSE)]
      OBVIOUS
    <2>2. Looks(u, k)
      BY <2>1 DEF Looks, Call
    <2>3. Leads(u, k)
      BY <1>1, <1>6, <2>1 DEF pickExit, Leads
    <2> QED BY <2>2, <2>3, LeadsLooks
  <1>7. CASE readTouching(u, r)
    <2>1. PICK k : k = [call[u] EXCEPT !.seen = {e \in graph[r.ver].edges : r.act \in {e.from, e.to}}]
      OBVIOUS
    <2>2. Looks(u, k)
      BY <2>1 DEF Looks, Call
    <2>3. Leads(u, k)
      BY <1>1, <1>7, <2>1 DEF readTouching, Leads
    <2> QED BY <2>2, <2>3, LeadsLooks
  <1>8. CASE readJoined(u, r)
    <2>1. PICK k : k = [call[u] EXCEPT !.drawn = \E p \in Joined(u, r) : Drawn(r.ver, p)]
      OBVIOUS
    <2>2. Looks(u, k)
      BY <2>1 DEF Looks, Call
    <2>3. Leads(u, k)
      BY <1>1, <1>8, <2>1 DEF readJoined, Leads
    <2> QED BY <2>2, <2>3, LeadsLooks
  <1>9. CASE readLeaving(u, r)
    <2>1. PICK k : k = [call[u] EXCEPT !.seen = {e \in graph[r.ver].edges : e.from = r.act /\ e.exit = r.exit}]
      OBVIOUS
    <2>2. Looks(u, k)
      BY <2>1 DEF Looks, Call
    <2>3. Leads(u, k)
      BY <1>1, <1>9, <2>1 DEF readLeaving, Leads
    <2> QED BY <2>2, <2>3, LeadsLooks
  <1>10. CASE readVersions(u, r)
    <2>1. PICK k : k = [call[u] EXCEPT !.seen = {[ver |-> v, published |-> version[v].st = "published"] : v \in OfWorkflow(r.wf)}]
      OBVIOUS
    <2>2. Looks(u, k)
      BY <2>1 DEF Looks, Call
    <2>3. Leads(u, k)
      BY <1>1, <1>10, <2>1 DEF readVersions, Leads
    <2> QED BY <2>2, <2>3, LeadsLooks
  <1>11. CASE verify(u, r)
    <2>1. PICK k : k = [call[u] EXCEPT !.wrote = IF InCleanup(u) THEN {} ELSE @]
      OBVIOUS
    <2>2. Looks(u, k)
      BY <2>1 DEF Looks, Call
    <2>3. Go(u, k) \/ Go(u, call[u]) \/ \E x : Throw(u, x)
      BY <1>11, <2>1 DEF verify, Verify
    <2> QED BY <2>2, <2>3, SameLooks, GoLooks, ThrowLooks
  <1>12. CASE chooseCheckout(u, r)
    <2>1. \/ Leads(u, call[u])
          \/ \E p \in PublishedOf(r.wf) : Follow(u, [call[u] EXCEPT !.req.ver = p], <<"takeCheckout">>)
      BY <1>12 DEF chooseCheckout, Leads
    <2>2. ASSUME NEW p, Follow(u, [call[u] EXCEPT !.req.ver = p], <<"takeCheckout">>)
          PROVE  Looks(u, call'[u])
      <3>1. PICK k : k = [call[u] EXCEPT !.req.ver = p]
        OBVIOUS
      <3>2. Looks(u, k)
        BY <3>1 DEF Looks, Call
      <3> QED BY <2>2, <3>1, <3>2, FollowLooks
    <2> QED BY <2>1, <2>2, SameLooks, LeadsLooks
  <1>13. CASE findings(u, r)
    <2>1. Leads(u, call[u])
      BY <1>13 DEF findings, Leads
    <2> QED BY <2>1, SameLooks, LeadsLooks
  <1>14. CASE pickOwnExit(u, r)
    <2>1. PICK exit : exit = Picked(ExitsOf(r.ver, r.act), IF "otherExit" \in r.opt THEN 9 ELSE NoExit, TRUE)
      OBVIOUS
    <2>2. PICK k : k = [call[u] EXCEPT !.own = exit]
      OBVIOUS
    <2>3. Looks(u, k)
      BY <2>2 DEF Looks, Call
    <2>4. Leads(u, k) \/ Leads(u, call[u])
      BY <1>14, <2>1, <2>2 DEF pickOwnExit, Leads
    <2> QED BY <2>3, <2>4, SameLooks, LeadsLooks
  <1>15. CASE rethrow(u, r)
    BY <1>15 DEF rethrow, Looks, Ended, Idle
  <1>16. CASE readRest(u, r)
    <2>1. Leads(u, call[u]) \/ \E v : Follow(u, [call[u] EXCEPT !.left = @ \ {v}], call[u].todo)
      BY <1>16 DEF readRest, Leads
    <2>2. ASSUME NEW v, Follow(u, [call[u] EXCEPT !.left = @ \ {v}], call[u].todo)
          PROVE  Looks(u, call'[u])
      <3>1. PICK k : k = [call[u] EXCEPT !.left = @ \ {v}]
        OBVIOUS
      <3>2. Looks(u, k)
        BY <3>1 DEF Looks, Call
      <3> QED BY <2>2, <3>1, <3>2, FollowLooks
    <2> QED BY <2>1, <2>2, SameLooks, LeadsLooks
  <1>17. CASE moveRest(u, r)
    <2>1. Leads(u, call[u]) \/ \E v : Follow(u, [call[u] EXCEPT !.req.ver = v], <<"requireDraft", "touch", "moveRest">>)
      BY <1>17 DEF moveRest, Leads
    <2>2. ASSUME NEW v, Follow(u, [call[u] EXCEPT !.req.ver = v], <<"requireDraft", "touch", "moveRest">>)
          PROVE  Looks(u, call'[u])
      <3>1. PICK k : k = [call[u] EXCEPT !.req.ver = v]
        OBVIOUS
      <3>2. Looks(u, k)
        BY <3>1 DEF Looks, Call
      <3> QED BY <2>2, <3>1, <3>2, FollowLooks
    <2> QED BY <2>1, <2>2, SameLooks, LeadsLooks
  <1> QED BY <1>1, <1>2, <1>3, <1>4, <1>5, <1>6, <1>7, <1>8, <1>9, <1>10, <1>11, <1>12, <1>13, <1>14, <1>15, <1>16, <1>17
          DEF ReadStep

LEMMA GraphLooks ==
    ASSUME NEW u \in Users, call \in [Users -> Call], GraphStep(u)
    PROVE  Looks(u, call'[u])
  <1>1. PICK r : r = call[u].req
    OBVIOUS
  <1>2. CASE deleteLeaving(u, r)
    <2>1. \/ Go(u, call[u])
          \/ \E e : Leads(u, [call[u] EXCEPT !.seen = @ \ {e}, !.wrote = @ \cup {r.ver}])
      BY <1>2 DEF deleteLeaving, Leads
    <2>2. ASSUME NEW e, Leads(u, [call[u] EXCEPT !.seen = @ \ {e}, !.wrote = @ \cup {r.ver}])
          PROVE  Looks(u, call'[u])
      <3>1. PICK k : k = [call[u] EXCEPT !.seen = @ \ {e}, !.wrote = @ \cup {r.ver}]
        OBVIOUS
      <3>2. Looks(u, k)
        BY <3>1 DEF Looks, Call
      <3> QED BY <2>2, <3>1, <3>2, LeadsLooks
    <2> QED BY <2>1, <2>2, SameLooks, GoLooks
  <1>3. CASE \/ touch(u, r) \/ newEdge(u, r) \/ newEdgeControlNode(u, r) \/ changeEdge(u, r) \/ deleteEdge(u, r)
            \/ deleteExit(u, r) \/ newExit(u, r) \/ deleteNode(u, r)
            \/ insertActivity(u, r) \/ postActivity(u, r) \/ postNext(u, r) \/ postTransition(u, r)
    <2>1. \E v, g : Change(u, v, g)
      BY <1>3 DEF touch, newEdge, newEdgeControlNode, changeEdge, deleteEdge, deleteExit, newExit, deleteNode,
                  insertActivity, postActivity, postNext, postTransition, Post
    <2> QED BY <2>1, WrittenLooks DEF Change
  <1> QED BY <1>1, <1>2, <1>3 DEF GraphStep

LEMMA VersionLooks ==
    ASSUME NEW u \in Users, call \in [Users -> Call], VersionStep(u)
    PROVE  Looks(u, call'[u])
  <1>1. PICK r : r = call[u].req
    OBVIOUS
  <1>2. CASE takeCheckout(u, r) \/ forceCheckout(u, r) \/ publishAnyway(u, r) \/ deleteDraft(u, r)
    <2>1. Written(u) \/ \E x : Throw(u, x)
      BY <1>2 DEF takeCheckout, forceCheckout, publishAnyway, deleteDraft
    <2> QED BY <2>1, WrittenLooks, ThrowLooks
  <1>3. CASE publishValidated(u, r)
    <2>1. Written(u) \/ Leads(u, call[u])
      BY <1>3 DEF publishValidated, Leads
    <2> QED BY <2>1, WrittenLooks, SameLooks, LeadsLooks
  <1>4. CASE publishQuietly(u, r)
    <2>1. PICK k : k = [call[u] EXCEPT !.wrote = @ \cup {r.ver}]
      OBVIOUS
    <2>2. Looks(u, k)
      BY <2>1 DEF Looks, Call
    <2>3. Leads(u, k)
      BY <1>4, <2>1 DEF publishQuietly, Leads
    <2> QED BY <2>2, <2>3, LeadsLooks
  <1>5. CASE deleteVersions(u, r)
    <2>1. \/ Go(u, call[u])
          \/ \E d : Leads(u, [call[u] EXCEPT !.seen = @ \ {d}, !.wrote = @ \cup {d.ver}])
      BY <1>5 DEF deleteVersions, Leads
    <2>2. ASSUME NEW d, Leads(u, [call[u] EXCEPT !.seen = @ \ {d}, !.wrote = @ \cup {d.ver}])
          PROVE  Looks(u, call'[u])
      <3>1. PICK k : k = [call[u] EXCEPT !.seen = @ \ {d}, !.wrote = @ \cup {d.ver}]
        OBVIOUS
      <3>2. Looks(u, k)
        BY <3>1 DEF Looks, Call
      <3> QED BY <2>2, <3>1, <3>2, LeadsLooks
    <2> QED BY <2>1, <2>2, SameLooks, GoLooks
  <1>6. CASE initializeWorkflow(u, r)
    <2>1. PICK v, wf : Leads(u, [call[u] EXCEPT !.wrote = {v}, !.req.ver = v, !.req.wf = wf])
      BY <1>6 DEF initializeWorkflow, Leads
    <2>2. PICK k : k = [call[u] EXCEPT !.wrote = {v}, !.req.ver = v, !.req.wf = wf]
      OBVIOUS
    <2>3. Looks(u, k)
      BY <2>2 DEF Looks, Call
    <2> QED BY <2>1, <2>2, <2>3, LeadsLooks
  <1>7. CASE postWorkflow(u, r)
    <2>1. PICK wf : Leads(u, [call[u] EXCEPT !.req.wf = wf])
      BY <1>7 DEF postWorkflow, Leads
    <2>2. PICK k : k = [call[u] EXCEPT !.req.wf = wf]
      OBVIOUS
    <2>3. Looks(u, k)
      BY <2>2 DEF Looks, Call
    <2> QED BY <2>1, <2>2, <2>3, LeadsLooks
  <1>8. CASE postVersion(u, r)
    <2>1. PICK v : Leads(u, [call[u] EXCEPT !.wrote = {v}, !.req.ver = v])
      BY <1>8 DEF postVersion, Leads
    <2>2. PICK k : k = [call[u] EXCEPT !.wrote = {v}, !.req.ver = v]
      OBVIOUS
    <2>3. Looks(u, k)
      BY <2>2 DEF Looks, Call
    <2> QED BY <2>1, <2>2, <2>3, LeadsLooks
  <1> QED BY <1>1, <1>2, <1>3, <1>4, <1>5, <1>6, <1>7, <1>8 DEF VersionStep

LEMMA ActsLook ==
    ASSUME NEW u \in Users, call \in [Users -> Call], CallInv(u), Acts(u)
    PROVE  Looks(u, call'[u])
  <1>1. CASE Start(u)
    <2>1. PICK r : call'[u] = [Idle EXCEPT !.todo = Method(r), !.req = r, !.left = r.also]
      BY <1>1 DEF Start
    <2> QED BY <2>1 DEF Looks, Idle
  <1>2. CASE RequestFails(u)
    <2>1. Leads(u, call[u])
      BY <1>2 DEF RequestFails, Leads
    <2> QED BY <2>1, SameLooks, LeadsLooks
  <1> QED BY <1>1, <1>2, ReadsLook, GraphLooks, VersionLooks DEF Acts

LEMMA NextRefines ==
    ASSUME WorkflowInv, WorkflowInv', Next
    PROVE  Drafts!Next
  <1>1. PICK u \in Users : Acts(u)
    BY DEF Next, Acts
  <1>2. InstanceInv /\ InstanceInv' /\ call \in [Users -> Call] /\ CallInv(u)
    BY DEF WorkflowInv
  <1>3. ASSUME Start(u) \/ ReadStep(u) \/ RequestFails(u) PROVE Same
    <2>1. UNCHANGED Instance
      BY <1>2, <1>3, ReadStepMoves DEF Start, RequestFails
    <2> QED BY <2>1 DEF Instance, Same
  <1>4. ASSUME GraphStep(u) PROVE Changes(u) \/ Same
    BY <1>2, <1>4, GraphStepRefines
  <1>5. ASSUME VersionStep(u) PROVE Changes(u) \/ Same
    <2>1. PICK r : r = call[u].req
      OBVIOUS
    <2>2. \/ takeCheckout(u, r) \/ forceCheckout(u, r) \/ publishValidated(u, r) \/ publishAnyway(u, r)
          \/ publishQuietly(u, r) \/ deleteDraft(u, r) \/ deleteVersions(u, r) \/ initializeWorkflow(u, r)
          \/ postWorkflow(u, r) \/ postVersion(u, r)
      BY <1>5, <2>1 DEF VersionStep
    <2> QED BY <1>2, <2>1, <2>2, CheckoutsRefine, PublishesRefine, DiscardRefines, DeleteRefines, CreatesRefine
  <1>6. Changes(u) \/ Same
    BY <1>1, <1>3, <1>4, <1>5 DEF Acts
  <1>7. \A w \in Users \ {u} : call'[w] = call[w]
    BY <1>1, <1>2, ActsKeep DEF StepKeeps, OwnMoves
  <1>8. Drafts!Acts(u)
    BY <1>1, <1>2, <1>7, ActsLook DEF Drafts!Acts, Looks
  <1>9. CASE Changes(u)
    BY <1>8, <1>9 DEF Drafts!Next, Changes
  <1>10. CASE Same
    BY <1>8, <1>10 DEF Drafts!Next, Same, Paths
  <1> QED BY <1>6, <1>9, <1>10

LEMMA InitRefines ==
    ASSUME Init, InstanceInv
    PROVE  Drafts!Init
  <1>1. loose = {} /\ version \in [Versions -> Version] /\ graph \in [Versions -> Graph]
    BY DEF Init, InstanceInv
  <1>2. ASSUME NEW v \in Versions
        PROVE  View(v) \in Drafts!Graphs /\ Drafts!WellFormed(View(v))
    <2>1. graph[v] \in Graph /\ Sound(graph[v])
      BY <1>1, <1>2 DEF InstanceInv
    <2>2. Paths(v) \subseteq Names \X (Exits \cup {NoExit}) \X Names
      BY <2>1 DEF Paths, Graph, Edges
    <2>3. graph[v].nodes \subseteq Names /\ graph[v].exits \subseteq Names \X (Exits \cup {NoExit})
      BY <2>1 DEF Graph
    <2> QED BY <2>1, <2>2, <2>3, ViewSound DEF View, Drafts!Graphs
  <1>3. \A v \in Versions : Drafts!WellFormed(View(v))
    BY <1>2
  <1>4. \A u \in Users : call[u].owned = {} /\ call[u].spared = {}
    BY DEF Init, Idle
  <1> QED BY <1>1, <1>2, <1>3, <1>4 DEF Drafts!Init, View, Version


(****************************************************************************)
(* Theorems                                                                 *)
(****************************************************************************)
(* The invariant holds in every state of every behaviour.                   *)
THEOREM WorkflowSafe == Spec => []WorkflowInv
  <1>1. Init => WorkflowInv
    BY InitInv
  <1>2. WorkflowInv /\ [Next]_vars => WorkflowInv'
    BY NextKeeps, StutterKeeps
  <1> QED BY <1>1, <1>2, PTL DEF Spec

(* Versions, graphs and calls have their types (WorkflowManager.ts and the  *)
(* records it writes); a version has a holder exactly while it is a draft.  *)
THEOREM WorkflowTyped == Spec => []TypeOK
  <1>1. WorkflowInv => TypeOK
    <2>1. SUFFICES ASSUME WorkflowInv PROVE TypeOK
      OBVIOUS
    <2>2. InstanceInv /\ calls \in 0..MaxCalls /\ call \in [Users -> Call]
      BY <2>1 DEF WorkflowInv
    <2>3. \A v \in Versions : /\ graph[v].nodes \subseteq Names
                              /\ graph[v].exits \subseteq Names \X Exits
                              /\ graph[v].edges \subseteq Edges
      BY <2>2 DEF InstanceInv, Graph
    <2>4. \A u \in Users : call[u].result \in {"none", "ok", "refused", "findings", "failed"}
      BY <2>2 DEF Call, Results
    <2> QED BY <2>2, <2>3, <2>4 DEF TypeOK, InstanceInv, Version
  <1> QED BY <1>1, WorkflowSafe, PTL

(* A refusal leaves nothing behind (the checks of WorkflowManager.ts come   *)
(* before its writes, addActivity takes out what it inserted): the steps    *)
(* that refuse come before the first write, and after the cleanup nothing   *)
(* is left of it. For moveActivities this is so of each of its versions:    *)
(* the one it is refused for is left alone.                                 *)
THEOREM RefusalsAreClean == Spec => RefusalLeavesNothing
  <1>1. WorkflowInv /\ Next =>
            \A u \in Users : Ends(u, {"refused", "findings"}) /\ call[u].req.op # "createCompleteWorkflow"
                => ~Touched(call[u]) \/ call[u].spoilt
    <2>1. SUFFICES ASSUME WorkflowInv, Next, NEW u \in Users, Ends(u, {"refused", "findings"}),
                          call[u].req.op # "createCompleteWorkflow"
                   PROVE  ~Touched(call[u]) \/ call[u].spoilt
      OBVIOUS
    <2>2. call[u].todo # <<>> /\ call'[u].result \in {"refused", "findings"}
      BY <2>1 DEF Ends
    <2>3. PICK x : Settled(u, x)
      BY <2>1, <2>2, StepSettles
    <2> QED BY <2>1, <2>2, <2>3, RefusalsSettled DEF WorkflowInv
  <1>2. WorkflowInv /\ [Next]_vars => [\A u \in Users :
            Ends(u, {"refused", "findings"}) /\ call[u].req.op # "createCompleteWorkflow"
                => ~Touched(call[u]) \/ call[u].spoilt]_vars
    BY <1>1
  <1> QED BY <1>2, WorkflowSafe, PTL DEF Spec, RefusalLeavesNothing

(* A method of WorkflowManager.ts that answers has done it: its last step   *)
(* is the one that sees to it.                                              *)
THEOREM AnswersAreTrue == Spec => AnswerIsTrue
  <1> DEFINE Answer == \A u \in Users : Ends(u, {"ok"}) =>
                LET r == call[u].req
                IN /\ r.op \in {"publish", "publishWorkflow"} => version'[r.ver].st = "published"
                   /\ r.op = "checkout" => \E v \in Versions : version'[v] = [st |-> "draft", by |-> u, wf |-> r.wf]
                   /\ r.op = "newWorkflow" => /\ version'[r.ver].st \notin {"absent", "deleted"} /\ version'[r.ver].wf = r.wf
                                              /\ graph'[r.ver].edges # {}
                   /\ r.op = "removeActivity" => r.act \notin graph'[r.ver].nodes
                   /\ r.op = "discardCheckout" => version'[r.ver].st = "deleted"
                   /\ r.op = "deleteWorkflow" => /\ r.wf \notin workflows'
                                                 /\ \A v \in Versions : version'[v].st \in {"absent", "deleted"} \/ version'[v].wf # r.wf
  <1>1. ASSUME WorkflowInv, Next PROVE Answer
    <2>1. SUFFICES ASSUME NEW u \in Users, Ends(u, {"ok"}), NEW r, r = call[u].req
                   PROVE  /\ r.op \in {"publish", "publishWorkflow"} => version'[r.ver].st = "published"
                          /\ r.op = "checkout" => \E v \in Versions : version'[v] = [st |-> "draft", by |-> u, wf |-> r.wf]
                          /\ r.op = "newWorkflow" => /\ version'[r.ver].st \notin {"absent", "deleted"} /\ version'[r.ver].wf = r.wf
                                                     /\ graph'[r.ver].edges # {}
                          /\ r.op = "removeActivity" => r.act \notin graph'[r.ver].nodes
                          /\ r.op = "discardCheckout" => version'[r.ver].st = "deleted"
                          /\ r.op = "deleteWorkflow" => /\ r.wf \notin workflows'
                                                        /\ \A v \in Versions : version'[v].st \in {"absent", "deleted"} \/ version'[v].wf # r.wf
      OBVIOUS
    <2>2. call[u].todo # <<>> /\ call'[u].result = "ok"
      BY <2>1 DEF Ends
    <2>3. PICK x : Settled(u, x)
      BY <1>1, <2>1, <2>2, StepSettles
    <2> QED BY <1>1, <2>1, <2>2, <2>3, AnswersSettled DEF WorkflowInv, InstanceInv
  <1>2. WorkflowInv /\ [Next]_vars => [Answer]_vars
    BY <1>1
  <1> QED BY <1>2, WorkflowSafe, PTL DEF Spec, AnswerIsTrue

(* The editing of WorkflowManager.ts and WorkflowDiagramClient.ts keeps the *)
(* rules of WorkflowDrafts: a user who edits, publishes or discards a draft *)
(* holds it, a published version is left alone, no path dangles, a          *)
(* discarded draft leaves another version. For a loose version the user has *)
(* seen it so (requireDraft, readSiblings) in the same call; and what a     *)
(* call claims to have seen was so at that step (Acts).                     *)
THEOREM DraftRulesKept == Spec => KeepsDraftRules
  <1>1. Init /\ WorkflowInv => Drafts!Init
    BY InitRefines DEF WorkflowInv
  <1>2. WorkflowInv /\ WorkflowInv' /\ [Next]_vars => [Drafts!Next]_(Drafts!vars)
    <2>1. SUFFICES ASSUME WorkflowInv, WorkflowInv', [Next]_vars PROVE Drafts!Next \/ UNCHANGED Drafts!vars
      OBVIOUS
    <2>2. CASE Next
      BY <2>1, <2>2, NextRefines
    <2>3. CASE UNCHANGED vars
      BY <2>3 DEF vars, Drafts!vars, Paths
    <2> QED BY <2>1, <2>2, <2>3
  <1> QED BY <1>1, <1>2, WorkflowSafe, PTL DEF Spec, KeepsDraftRules, Drafts!Spec
================================================================================
