---------------------------- MODULE WorkflowManager ----------------------------
(* src/sn/workflow/WorkflowManager.ts and WorkflowDiagramClient.ts: several *)
(* users create, check out, edit, publish and delete legacy workflows       *)
(* through the Table API, the diagram processor and the activity form.      *)
(*                                                                          *)
(* A call of a public method holds the requests and checks it still has to  *)
(* make ("todo"); each action is one of them, with everything the method    *)
(* does between that answer and the next request. What the instance does    *)
(* with a request is in docs/LegacyWorkflowInternals.md.                    *)
EXTENDS Naturals, FiniteSets, SequencesExt

CONSTANTS
    Users,       \* each makes one call at a time, beside the others
    Versions,    \* ids of wf_workflow_version records
    Workflows,   \* ids of wf_workflow records
    Names,       \* ids of activities within a version
    Exits,       \* ids of exits within an activity
    Live,        \* the version that is published at the start,
    LiveWorkflow,\* the workflow it is of
    LiveGraph,   \* and its activities, exits and paths
    Requests,    \* the calls users make: method and arguments
    MaxCalls     \* bound: calls of all users together

NoExit == 0

Ops == {"checkout", "publish", "discardCheckout", "deleteWorkflow", "setWorkflowActive", "updateWorkflowProperties",
        "addActivity", "updateActivity", "removeActivity", "moveActivities", "addTransition", "retargetTransition",
        "removeTransition", "addCondition", "updateCondition", "removeCondition", "newWorkflow", "createWorkflow",
        "createWorkflowVersion", "createActivity", "createTransition", "createCondition", "publishWorkflow",
        "createCompleteWorkflow"}

Options == {"force", "allowWarnings", "published", "publish", "start", "fields", "move", "stage", "insertOn",
            "connectFrom", "connectTo", "otherExit", "reconnect", "more"}

(* "also" are the further versions that moveActivities has positions for.   *)
Request == [op : Ops, wf : Workflows, ver : Versions, also : SUBSET Versions, act : Names, from : Names,
            exit : Exits \cup {NoExit}, to : Names, edge : Nat, opt : SUBSET Options]

(* An exit that is created has an id.                                       *)
ASSUME RequestsAssumption ==
    /\ "nobody" \notin Users
    /\ {"begin", "end"} \subseteq Names
    /\ Exits \subseteq Nat \ {NoExit} /\ Exits # {}
    /\ Live \in Versions /\ LiveWorkflow \in Workflows /\ MaxCalls \in Nat
    /\ Requests \subseteq Request
    /\ \A r \in Requests : r.op \in {"addCondition", "createCondition"} => r.exit # NoExit

(* The published version is one the editor accepts: its paths join its own  *)
(* activities and leave by exits they have.                                 *)
ASSUME LiveGraphAssumption ==
    /\ IsFiniteSet(LiveGraph.edges)
    /\ LiveGraph \in [nodes : SUBSET Names, exits : SUBSET (Names \X Exits),
                      edges : SUBSET [id : 1..Cardinality(LiveGraph.edges), from : Names, exit : Exits, to : Names]]
    /\ \A e \in LiveGraph.edges :
          e.from \in LiveGraph.nodes /\ e.to \in LiveGraph.nodes /\ <<e.from, e.exit>> \in LiveGraph.exits

VARIABLES
    version,     \* wf_workflow_version: state, checked_out_by, workflow
    workflows,   \* the wf_workflow records there are
    graph,       \* wf_activity, wf_condition and wf_transition of each version
    lastEdge,    \* transitions created so far: newSysId() never repeats
    loose,       \* history: versions that are not vouched for any more
    call,        \* user -> the call it is in, or what its last one came to
    calls        \* calls made so far

vars == <<version, workflows, graph, lastEdge, loose, call, calls>>

(* Ids are never used again: a deleted version's is not a fresh one.        *)
Absent == [st |-> "absent", by |-> "nobody", wf |-> "none"]

Gone == [Absent EXCEPT !.st = "deleted"]

EmptyGraph == [nodes |-> {}, exits |-> {}, edges |-> {}]

Exists(v) == version[v].st \notin {"absent", "deleted"}

Fresh == {v \in Versions : version[v].st = "absent" /\ v = CHOOSE w \in Versions : version[w].st = "absent"}

HeldBy(u, v) == version[v].st = "draft" /\ version[v].by = u

OfWorkflow(wf) == {v \in Versions : Exists(v) /\ version[v].wf = wf}

PublishedOf(wf) == {v \in OfWorkflow(wf) : version[v].st = "published"}

DraftsOf(wf) == {v \in OfWorkflow(wf) : version[v].st = "draft"}

ExitsOf(v, a) == {x \in Exits : <<a, x>> \in graph[v].exits}

EdgeWith(v, id) == {e \in graph[v].edges : e.id = id}

(****************************************************************************)
(* Calls                                                                    *)
(****************************************************************************)
NoRequest == [op |-> "none", opt |-> {}]

(* What a call has read so far: the paths "seen", the exit "picked" to      *)
(* leave from, the "own" exit of a new activity, whether the path around a  *)
(* removed activity is already "drawn", the versions "left" to look at. And *)
(* its history: the versions it saw checked out to its user ("owned") or    *)
(* beside another one ("spared"), the ones it "wrote" to, whether its       *)
(* cleanup was "spoilt".                                                    *)
Idle == [todo |-> <<>>, req |-> NoRequest, seen |-> {}, picked |-> NoExit, own |-> NoExit, drawn |-> FALSE, left |-> {},
         owned |-> {}, spared |-> {}, wrote |-> {}, spoilt |-> FALSE, result |-> "none"]

Ended(r) == [Idle EXCEPT !.result = r]

At(u, step) == call[u].todo # <<>> /\ Head(call[u].todo) = step

(* The call goes on with the steps "next", or is done when there are none.  *)
Follow(u, c, next) ==
    call' = [call EXCEPT ![u] = IF next = <<>> THEN Ended("ok") ELSE [c EXCEPT !.todo = next]]

Go(u, c) == Follow(u, c, Tail(call[u].todo))

(* The call throws. addActivity takes its activity out again before it      *)
(* rethrows; that cleanup swallows whatever goes wrong in it.               *)
InCleanup(u) == Len(call[u].todo) > 1 /\ Last(call[u].todo) = "rethrow"

Stopped(u, c, r) ==
    call' = [call EXCEPT ![u] = IF InCleanup(u) THEN [c EXCEPT !.todo = <<"rethrow">>, !.spoilt = TRUE]
                                ELSE Ended(r)]

Throw(u, r) == Stopped(u, call[u], r)

(* A write reached the instance; its answer comes back or is lost.          *)
Written(u) ==
    LET c == [call[u] EXCEPT !.wrote = @ \cup {call[u].req.ver}]
    IN Go(u, c) \/ Stopped(u, c, "failed")

Instance == <<version, workflows, graph, lastEdge, loose>>

(* A request never reaches the instance, or is answered with an error.      *)
(* publishWorkflow swallows that of its publish and looks for itself; the   *)
(* findings of a refused publish may stay unread.                           *)
RequestFails(u) ==
    /\ call[u].todo # <<>> /\ ~At(u, "rethrow")
    /\ IF At(u, "publishQuietly") THEN Follow(u, call[u], <<"readPublished">>)
       ELSE IF At(u, "findings") THEN Throw(u, "findings")
       ELSE Throw(u, "failed")
    /\ UNCHANGED <<Instance, calls>>

(****************************************************************************)
(* What each method asks and does, in its order                             *)
(****************************************************************************)
Opt(r, o, steps) == IF o \in r.opt THEN steps ELSE <<>>

checkout(r) == <<"chooseCheckout">>

publish(r) == <<"requireDraft", "publishValidated">>

discardCheckout(r) == <<"requireDraft", "readSiblings", "deleteDraft", "verifyDeleted">>

deleteWorkflow(r) == <<"resolveWorkflow", "readVersions", "deleteVersions", "verifyWorkflowGone">>

setWorkflowActive(r) == <<"touch">>

updateWorkflowProperties(r) == <<"requireDraft">> \o Opt(r, "fields", <<"touch">>)

addActivity(r) ==
    <<"requireDraft", "resolveDefinition">>
    \o Opt(r, "insertOn", <<"readTransition">>)
    \o Opt(r, "connectFrom", <<"readFrom">>)
    \o Opt(r, "connectTo", <<"readTo">>)
    \o Opt(r, "stage", <<"resolveStage">>)
    \o Opt(r, "connectFrom", <<"pickExit">>)
    \o <<"insertActivity", "pickOwnExit">>
    \o Opt(r, "insertOn", <<"newEdgeControlNode">>)
    \o Opt(r, "connectFrom", <<"connectFrom">>)
    \o Opt(r, "connectTo", <<"connectTo">>)
    \o <<"touch">>

updateActivity(r) ==
    <<"readActivity", "requireDraft">> \o Opt(r, "stage", <<"resolveStage">>)
    \o Opt(r, "fields", <<"touch">>) \o Opt(r, "move", <<"touch">>) \o Opt(r, "stage", <<"touch">>)

removeActivity(r) ==
    <<"readActivity", "requireDraft", "readTouching">> \o Opt(r, "reconnect", <<"readJoined">>)
    \o <<"deleteNode", "verifyRemoved">>

(* All the activities are looked up first; then each version is checked and *)
(* written before the next one is looked at.                                *)
moveActivities(r) == <<"readActivity", "readRest", "requireDraft", "touch", "moveRest">>

addTransition(r) == <<"readFrom", "requireDraft", "readTo", "pickExit", "checkDuplicate", "newEdge">>

retargetTransition(r) == <<"readTransition", "requireDraft", "readTo", "changeEdge">>

removeTransition(r) == <<"readTransition", "requireDraft", "deleteEdge">>

addCondition(r) == <<"readActivity", "requireDraft", "newExit">>

updateCondition(r) == <<"readCondition", "requireDraft">> \o Opt(r, "fields", <<"touch">>)

removeCondition(r) == <<"readCondition", "requireDraft", "readLeaving", "deleteLeaving", "deleteExit">>

newWorkflow(r) == <<"checkName", "initializeWorkflow", "verifyInitialized">>

createWorkflow(r) == <<"postWorkflow">>

createWorkflowVersion(r) == <<"postVersion">>

createActivity(r) == <<"postActivity">>

createTransition(r) == <<"postTransition">>

createCondition(r) == <<"newExit">>

publishWorkflow(r) == <<"touch", "publishQuietly">>

createCompleteWorkflow(r) ==
    createWorkflow(r) \o createWorkflowVersion(r) \o createActivity(r) \o Opt(r, "more", <<"postNext">>)
    \o <<"findEnds">> \o createTransition(r) \o Opt(r, "publish", <<"requireStart">> \o publishWorkflow(r))

Method(r) ==
    CASE r.op = "checkout" -> checkout(r) [] r.op = "publish" -> publish(r)
      [] r.op = "discardCheckout" -> discardCheckout(r) [] r.op = "deleteWorkflow" -> deleteWorkflow(r)
      [] r.op = "setWorkflowActive" -> setWorkflowActive(r)
      [] r.op = "updateWorkflowProperties" -> updateWorkflowProperties(r)
      [] r.op = "addActivity" -> addActivity(r) [] r.op = "updateActivity" -> updateActivity(r)
      [] r.op = "removeActivity" -> removeActivity(r) [] r.op = "moveActivities" -> moveActivities(r)
      [] r.op = "addTransition" -> addTransition(r) [] r.op = "retargetTransition" -> retargetTransition(r)
      [] r.op = "removeTransition" -> removeTransition(r) [] r.op = "addCondition" -> addCondition(r)
      [] r.op = "updateCondition" -> updateCondition(r) [] r.op = "removeCondition" -> removeCondition(r)
      [] r.op = "newWorkflow" -> newWorkflow(r) [] r.op = "createWorkflow" -> createWorkflow(r)
      [] r.op = "createWorkflowVersion" -> createWorkflowVersion(r)
      [] r.op = "createActivity" -> createActivity(r) [] r.op = "createTransition" -> createTransition(r)
      [] r.op = "createCondition" -> createCondition(r) [] r.op = "publishWorkflow" -> publishWorkflow(r)
      [] r.op = "createCompleteWorkflow" -> createCompleteWorkflow(r)

Start(u) ==
    /\ call[u].todo = <<>> /\ calls < MaxCalls
    /\ \E r \in Requests : call' = [call EXCEPT ![u] = [Idle EXCEPT !.todo = Method(r), !.req = r, !.left = r.also]]
    /\ calls' = calls + 1
    /\ UNCHANGED Instance

(****************************************************************************)
(* Reads and checks: a check that does not hold throws                      *)
(****************************************************************************)
Check(u, step, holds) ==
    /\ At(u, step)
    /\ IF holds THEN Go(u, call[u]) ELSE Throw(u, "refused")
    /\ UNCHANGED <<Instance, calls>>

Verify(u, step, done) ==
    /\ At(u, step)
    /\ IF done THEN Go(u, call[u]) ELSE Throw(u, "failed")
    /\ UNCHANGED <<Instance, calls>>

(* Mutant: any draft will do, whoever holds it.                             *)
requireUnpublished(u, r) ==
    /\ At(u, "requireDraft")
    /\ IF version[r.ver].st # "draft" THEN Throw(u, "refused")
       ELSE Go(u, [call[u] EXCEPT !.owned = IF HeldBy(u, r.ver) THEN @ \cup {r.ver} ELSE @])
    /\ UNCHANGED <<Instance, calls>>

requireDraft(u, r) ==
    /\ At(u, "requireDraft")
    /\ IF HeldBy(u, r.ver) THEN Go(u, [call[u] EXCEPT !.owned = @ \cup {r.ver}]) ELSE Throw(u, "refused")
    /\ UNCHANGED <<Instance, calls>>

readActivity(u, r) ==
    \/ Check(u, "readActivity", r.act \in graph[r.ver].nodes)
    \/ Check(u, "readFrom", r.from \in graph[r.ver].nodes)
    \/ Check(u, "readTo", r.to \in graph[r.ver].nodes)

readCondition(u, r) == Check(u, "readCondition", <<r.act, r.exit>> \in graph[r.ver].exits)

readTransition(u, r) ==
    LET found == EdgeWith(r.ver, r.edge)
    IN /\ At(u, "readTransition")
       /\ IF found = {} THEN Throw(u, "refused") ELSE Go(u, [call[u] EXCEPT !.seen = found])
       /\ UNCHANGED <<Instance, calls>>

(* The activity type or the stage may be unknown, or known twice.           *)
resolve(u) == \E known \in BOOLEAN : Check(u, "resolveDefinition", known) \/ Check(u, "resolveStage", known)

(* The exit a path leaves by: the one named, the only one, or the first     *)
(* where the caller takes any; NoExit is a refusal.                         *)
Picked(exits, ref, first) ==
    IF ref # NoExit THEN (IF ref \in exits THEN ref ELSE NoExit)
    ELSE IF exits # {} /\ (first \/ Cardinality(exits) = 1) THEN Min(exits)
    ELSE NoExit

pickExit(u, r) ==
    LET exit == Picked(ExitsOf(r.ver, r.from), r.exit, FALSE)
    IN /\ At(u, "pickExit")
       /\ IF exit = NoExit THEN Throw(u, "refused") ELSE Go(u, [call[u] EXCEPT !.picked = exit])
       /\ UNCHANGED <<Instance, calls>>

Drawn(v, p) == \E e \in graph[v].edges : e.from = p.from /\ e.exit = p.exit /\ e.to = p.to /\ e.id # p.id

NewPath(from, exit, to) == [id |-> lastEdge + 1, from |-> from, exit |-> exit, to |-> to]

checkDuplicate(u, r) == Check(u, "checkDuplicate", ~Drawn(r.ver, NewPath(r.from, call[u].picked, r.to)))

readSiblings(u, r) ==
    /\ At(u, "readSiblings")
    /\ IF OfWorkflow(version[r.ver].wf) \ {r.ver} # {} THEN Go(u, [call[u] EXCEPT !.spared = @ \cup {r.ver}])
       ELSE Throw(u, "refused")
    /\ UNCHANGED <<Instance, calls>>

checkName(u, r) == Check(u, "checkName", r.wf \notin workflows)

(* Begin and End stay; the paths of any other activity go with it.          *)
readTouching(u, r) ==
    /\ At(u, "readTouching")
    /\ IF r.act \in {"begin", "end"} THEN Throw(u, "refused")
       ELSE Go(u, [call[u] EXCEPT !.seen = {e \in graph[r.ver].edges : r.act \in {e.from, e.to}}])
    /\ UNCHANGED <<Instance, calls>>

Incoming(u, r) == {e \in call[u].seen : e.to = r.act /\ e.from # r.act}

Outgoing(u, r) == {e \in call[u].seen : e.from = r.act}

Joined(u, r) == {[i EXCEPT !.to = o.to] : i \in Incoming(u, r), o \in Outgoing(u, r)}

(* Reconnecting needs one path in and one out, and asks whether the path    *)
(* around the activity is there already.                                    *)
readJoined(u, r) ==
    /\ At(u, "readJoined")
    /\ IF Cardinality(Incoming(u, r)) # 1 \/ Cardinality(Outgoing(u, r)) # 1 THEN Throw(u, "refused")
       ELSE Go(u, [call[u] EXCEPT !.drawn = \E p \in Joined(u, r) : Drawn(r.ver, p)])
    /\ UNCHANGED <<Instance, calls>>

readLeaving(u, r) ==
    /\ At(u, "readLeaving")
    /\ Go(u, [call[u] EXCEPT !.seen = {e \in graph[r.ver].edges : e.from = r.act /\ e.exit = r.exit}])
    /\ UNCHANGED <<Instance, calls>>

verify(u, r) ==
    \/ /\ At(u, "verifyRemoved")
       /\ IF r.act \in graph[r.ver].nodes THEN Throw(u, "failed")
          ELSE Go(u, [call[u] EXCEPT !.wrote = IF InCleanup(u) THEN {} ELSE @])
       /\ UNCHANGED <<Instance, calls>>
    \/ Verify(u, "verifyDeleted", ~Exists(r.ver))
    \/ Verify(u, "verifyWorkflowGone", r.wf \notin workflows)
    \/ Verify(u, "verifyInitialized", graph[r.ver].edges # {})
    \/ Verify(u, "readPublished", version[r.ver].st = "published")

(* The activities of the further versions, one by one.                      *)
readRest(u, r) ==
    /\ At(u, "readRest")
    /\ IF call[u].left = {} THEN Go(u, call[u])
       ELSE \E v \in call[u].left :
            IF r.act \in graph[v].nodes THEN Follow(u, [call[u] EXCEPT !.left = @ \ {v}], call[u].todo)
            ELSE Throw(u, "refused")
    /\ UNCHANGED <<Instance, calls>>

(* The next version: it is checked and written like the one before.         *)
moveRest(u, r) ==
    LET rest == r.also \ call[u].wrote
    IN /\ At(u, "moveRest")
       /\ IF rest = {} THEN Go(u, call[u])
          ELSE \E v \in rest :
               Follow(u, [call[u] EXCEPT !.req.ver = v], <<"requireDraft", "touch", "moveRest">>)
       /\ UNCHANGED <<Instance, calls>>

(* createCompleteWorkflow looks at the ends of its transition and at its    *)
(* start activity only when what comes before is created.                   *)
findEnds(u, r) ==
    Check(u, "findEnds", {r.from, r.to} \subseteq {r.act} \cup IF "more" \in r.opt THEN {r.to} ELSE {})

requireStart(u, r) == Check(u, "requireStart", "start" \in r.opt)

(****************************************************************************)
(* Writes to a version's graph                                              *)
(****************************************************************************)
(* The instance applies it to any version that is still there.              *)
Change(u, v, g) ==
    /\ Exists(v)
    /\ graph' = [graph EXCEPT ![v] = g]
    /\ Written(u)
    /\ UNCHANGED <<version, workflows, calls>>

(* Positions, names, variables, stages, the active flag, the start.         *)
touch(u, r) == At(u, "touch") /\ Change(u, r.ver, graph[r.ver]) /\ UNCHANGED <<lastEdge, loose>>

(* One path more: addTransition and the connections of addActivity.         *)
newEdge(u, r) ==
    LET Draw(step, path) ==
            /\ At(u, step)
            /\ Change(u, r.ver, [graph[r.ver] EXCEPT !.edges = @ \cup {path}])
            /\ lastEdge' = lastEdge + 1
            /\ UNCHANGED loose
    IN \/ Draw("newEdge", NewPath(r.from, call[u].picked, r.to))
       \/ Draw("connectFrom", NewPath(r.from, call[u].picked, r.act))
       \/ Draw("connectTo", NewPath(r.act, call[u].own, r.to))

(* The path inserted on now leads to the new activity, a new one leads on.  *)
newEdgeControlNode(u, r) ==
    LET old == call[u].seen
    IN /\ At(u, "newEdgeControlNode")
       /\ Change(u, r.ver, [graph[r.ver] EXCEPT !.edges =
              {e \in @ : \A o \in old : e.id # o.id} \cup {[o EXCEPT !.to = r.act] : o \in old}
              \cup {NewPath(r.act, call[u].own, o.to) : o \in old}])
       /\ lastEdge' = lastEdge + 1
       /\ UNCHANGED loose

changeEdge(u, r) ==
    /\ At(u, "changeEdge")
    /\ Change(u, r.ver, [graph[r.ver] EXCEPT !.edges =
           {IF e.id = r.edge THEN [o EXCEPT !.to = r.to] ELSE e : e \in @, o \in call[u].seen}])
    /\ UNCHANGED <<lastEdge, loose>>

Without(edges, gone) == {e \in edges : \A g \in gone : e.id # g.id}

deleteEdge(u, r) ==
    /\ At(u, "deleteEdge")
    /\ Change(u, r.ver, [graph[r.ver] EXCEPT !.edges = Without(@, call[u].seen)])
    /\ UNCHANGED <<lastEdge, loose>>

(* The paths that leave by an exit go one by one, then the exit; an exit is *)
(* changed only while its version is checked out to the user.               *)
deleteLeaving(u, r) ==
    /\ At(u, "deleteLeaving")
    /\ IF call[u].seen = {} THEN Go(u, call[u]) /\ UNCHANGED <<Instance, calls>>
       ELSE \E e \in call[u].seen :
            LET c == [call[u] EXCEPT !.seen = @ \ {e}, !.wrote = @ \cup {r.ver}]
            IN /\ Exists(r.ver)
               /\ graph' = [graph EXCEPT ![r.ver].edges = Without(@, {e})]
               /\ Follow(u, c, call[u].todo) \/ Stopped(u, c, "failed")
               /\ UNCHANGED <<version, workflows, calls, lastEdge, loose>>

deleteExit(u, r) ==
    /\ At(u, "deleteExit") /\ HeldBy(u, r.ver)
    /\ Change(u, r.ver, [graph[r.ver] EXCEPT !.exits = @ \ {<<r.act, r.exit>>}])
    /\ UNCHANGED <<lastEdge, loose>>

newExit(u, r) ==
    /\ At(u, "newExit") /\ HeldBy(u, r.ver)
    /\ Change(u, r.ver, [graph[r.ver] EXCEPT !.exits = @ \cup {<<r.act, r.exit>>}])
    /\ UNCHANGED <<lastEdge, loose>>

(* Mutant: the path in is forgotten when the activity is reconnected.       *)
forgetIncoming(u, r) ==
    /\ At(u, "deleteNode")
    /\ Change(u, r.ver, [nodes |-> graph[r.ver].nodes \ {r.act},
                         exits |-> {x \in graph[r.ver].exits : x[1] # r.act},
                         edges |-> Without(graph[r.ver].edges, Outgoing(u, r))])
    /\ UNCHANGED <<lastEdge, loose>>

(* The activity goes with its exits; of the paths, only the listed ones.    *)
(* A path from the activity to itself counts as its way out: the path that  *)
(* is joined around it then leads to what has just been removed.            *)
deleteNode(u, r) ==
    LET around == IF "reconnect" \in r.opt /\ ~call[u].drawn THEN Joined(u, r) ELSE {}
    IN /\ At(u, "deleteNode")
       /\ Change(u, r.ver, [nodes |-> graph[r.ver].nodes \ {r.act},
                            exits |-> {x \in graph[r.ver].exits : x[1] # r.act},
                            edges |-> Without(graph[r.ver].edges, call[u].seen) \cup around])
       /\ loose' = IF \E p \in around : p.to = r.act THEN loose \cup {r.ver} ELSE loose
       /\ UNCHANGED lastEdge

(* The new activity with its default exits, through the activity form; the  *)
(* low-level createActivity posts it to any version.                        *)
WithActivity(g, a) == [g EXCEPT !.nodes = @ \cup {a}, !.exits = @ \cup ({a} \X Exits)]

insertActivity(u, r) ==
    /\ At(u, "insertActivity") /\ r.act \notin graph[r.ver].nodes
    /\ Change(u, r.ver, WithActivity(graph[r.ver], r.act))
    /\ UNCHANGED <<lastEdge, loose>>

(* Mutant: the activity stays on the draft when its exit is not there.      *)
keepHalfWired(u, r) ==
    LET wanted == r.opt \cap {"insertOn", "connectTo"} # {}
        exit == Picked(ExitsOf(r.ver, r.act), IF "otherExit" \in r.opt THEN 9 ELSE NoExit, TRUE)
    IN /\ At(u, "pickOwnExit")
       /\ IF ~wanted \/ exit # NoExit THEN Go(u, [call[u] EXCEPT !.own = exit]) ELSE Throw(u, "refused")
       /\ UNCHANGED <<Instance, calls>>

(* The exits exist only now. When the one asked for is not among them the   *)
(* activity is taken out again and the refusal is rethrown.                 *)
pickOwnExit(u, r) ==
    LET wanted == r.opt \cap {"insertOn", "connectTo"} # {}
        exit == Picked(ExitsOf(r.ver, r.act), IF "otherExit" \in r.opt THEN 9 ELSE NoExit, TRUE)
    IN /\ At(u, "pickOwnExit")
       /\ IF ~wanted \/ exit # NoExit THEN Go(u, [call[u] EXCEPT !.own = exit])
          ELSE Follow(u, call[u], removeActivity([r EXCEPT !.opt = {}]) \o <<"rethrow">>)
       /\ UNCHANGED <<Instance, calls>>

rethrow(u, r) ==
    /\ At(u, "rethrow")
    /\ call' = [call EXCEPT ![u] = Ended("refused")]
    /\ UNCHANGED <<Instance, calls>>

(* The low-level creates: no checkout is asked for.                         *)
Post(u, v, g) ==
    /\ Change(u, v, g)
    /\ loose' = loose \cup {v}

postActivity(u, r) ==
    /\ At(u, "postActivity")
    /\ Post(u, r.ver, WithActivity(graph[r.ver], r.act))
    /\ UNCHANGED lastEdge

postNext(u, r) ==
    /\ At(u, "postNext")
    /\ Post(u, r.ver, WithActivity(graph[r.ver], r.to))
    /\ UNCHANGED lastEdge

postTransition(u, r) ==
    /\ At(u, "postTransition")
    /\ Post(u, r.ver, [graph[r.ver] EXCEPT !.edges = @ \cup {NewPath(r.from, r.exit, r.to)}])
    /\ lastEdge' = lastEdge + 1

(****************************************************************************)
(* Writes to the versions of a workflow                                     *)
(****************************************************************************)
(* The published version of a workflow, and its draft, as one read saw them *)
chooseCheckout(u, r) ==
    /\ At(u, "chooseCheckout")
    /\ IF r.wf \notin workflows THEN Throw(u, "refused")
       ELSE IF DraftsOf(r.wf) # {} THEN
            \E d \in DraftsOf(r.wf) :
               IF version[d].by = u THEN Go(u, call[u])
               ELSE IF "force" \in r.opt THEN Follow(u, call[u], <<"forceCheckout">>)
               ELSE Throw(u, "refused")
       ELSE IF PublishedOf(r.wf) = {} THEN Throw(u, "refused")
       ELSE \E p \in PublishedOf(r.wf) :
               Follow(u, [call[u] EXCEPT !.req.ver = p], <<"takeCheckout">>)
    /\ UNCHANGED <<Instance, calls>>

(* A draft drawn from the published version: a deep copy for this user. The *)
(* instance hands out one; later askers get the published version back.     *)
takeCheckout(u, r) ==
    /\ At(u, "takeCheckout") /\ version[r.ver].st = "published"
    /\ IF DraftsOf(r.wf) # {} THEN Throw(u, "failed") /\ UNCHANGED Instance
       ELSE \E d \in Fresh :
            /\ version' = [version EXCEPT ![d] = [st |-> "draft", by |-> u, wf |-> r.wf]]
            /\ graph' = [graph EXCEPT ![d] = graph[r.ver]]
            /\ loose' = IF r.ver \in loose THEN loose \cup {d} ELSE loose
            /\ Written(u)
            /\ UNCHANGED <<workflows, lastEdge>>
    /\ UNCHANGED calls

forceCheckout(u, r) ==
    /\ At(u, "forceCheckout")
    /\ IF DraftsOf(r.wf) = {} THEN Throw(u, "failed") /\ UNCHANGED Instance
       ELSE \E d \in DraftsOf(r.wf) :
            /\ version' = [version EXCEPT ![d].by = u]
            /\ loose' = IF version[d].by = u THEN loose ELSE loose \cup {d}
            /\ Written(u)
            /\ UNCHANGED <<workflows, graph, lastEdge>>
    /\ UNCHANGED calls

(* Mutant: the published version stays checked out.                         *)
AsPublishedHeld(v, wf) ==
    [w \in Versions |-> IF w = v THEN [version[v] EXCEPT !.st = "published", !.wf = wf]
                        ELSE IF version[w].st = "published" /\ version[w].wf = wf
                             THEN [version[w] EXCEPT !.st = "retired"]
                        ELSE version[w]]

(* A version is published and the others of its workflow are not any more.  *)
AsPublished(v, wf) ==
    [w \in Versions |-> IF w = v THEN [st |-> "published", by |-> "nobody", wf |-> wf]
                        ELSE IF version[w].st = "published" /\ version[w].wf = wf
                             THEN [version[w] EXCEPT !.st = "retired"]
                        ELSE version[w]]

SetPublished(v) ==
    /\ version[v].st = "draft"
    /\ version' = AsPublished(v, version[v].wf)
    /\ UNCHANGED <<workflows, graph, lastEdge>>

(* Critical findings stop it, warnings too unless the caller allows them.   *)
publishValidated(u, r) ==
    /\ At(u, "publishValidated")
    /\ \/ SetPublished(r.ver) /\ Written(u) /\ UNCHANGED loose
       \/ Follow(u, call[u], <<"findings">>) /\ UNCHANGED Instance
       \/ /\ "allowWarnings" \in r.opt
          /\ Follow(u, call[u], <<"noteFindings", "publishAnyway">>) /\ UNCHANGED Instance
    /\ UNCHANGED calls

findings(u, r) ==
    \/ At(u, "findings") /\ Throw(u, "findings") /\ UNCHANGED <<Instance, calls>>
    \/ At(u, "noteFindings") /\ Go(u, call[u]) /\ UNCHANGED <<Instance, calls>>

publishAnyway(u, r) ==
    /\ At(u, "publishAnyway") /\ SetPublished(r.ver) /\ Written(u)
    /\ UNCHANGED <<calls, loose>>

(* The low-level publish asks for no checkout.                              *)
Release(u, v) == SetPublished(v) /\ loose' = IF HeldBy(u, v) THEN loose ELSE loose \cup {v}

(* Mutant: publishWorkflow takes a swallowed error for a success.           *)
trustPublish(u, r) ==
    /\ At(u, "publishQuietly")
    /\ \/ Release(u, r.ver) /\ Go(u, call[u])
       \/ Go(u, call[u]) /\ UNCHANGED Instance
    /\ UNCHANGED calls

(* publishWorkflow looks at the version when its publish did not answer.    *)
publishQuietly(u, r) ==
    LET c == [call[u] EXCEPT !.wrote = @ \cup {r.ver}]
    IN /\ At(u, "publishQuietly")
       /\ \/ Release(u, r.ver) /\ (Go(u, c) \/ Follow(u, c, <<"readPublished">>))
          \/ Follow(u, c, <<"readPublished">>) /\ UNCHANGED Instance
       /\ UNCHANGED calls

(* The workflow goes with its last version.                                 *)
Deleted(v) ==
    LET left == OfWorkflow(version[v].wf) \ {v}
    IN /\ Exists(v)
       /\ version' = [version EXCEPT ![v] = Gone]
       /\ graph' = [graph EXCEPT ![v] = EmptyGraph]
       /\ workflows' = IF left = {} THEN workflows \ {version[v].wf} ELSE workflows
       /\ UNCHANGED lastEdge

(* A draft that is left as the only version may be under the same call of   *)
(* its own holder, who has seen this one when the siblings were read.       *)
LeftAlone(v) ==
    LET left == OfWorkflow(version[v].wf) \ {v}
    IN {d \in left : version[d].st = "draft" /\ left = {d}}

deleteDraft(u, r) ==
    /\ At(u, "deleteDraft") /\ Deleted(r.ver) /\ Written(u)
    /\ loose' = (loose \ {r.ver}) \cup LeftAlone(r.ver)
    /\ UNCHANGED calls

resolveWorkflow(u, r) == Check(u, "resolveWorkflow", r.wf \in workflows)

readVersions(u, r) ==
    /\ At(u, "readVersions")
    /\ Go(u, [call[u] EXCEPT !.seen = {[ver |-> v, published |-> version[v].st = "published"] : v \in OfWorkflow(r.wf)}])
    /\ UNCHANGED <<Instance, calls>>

(* The versions read, one by one, the published one last.                   *)
deleteVersions(u, r) ==
    /\ At(u, "deleteVersions")
    /\ IF call[u].seen = {} THEN Go(u, call[u]) /\ UNCHANGED Instance
       ELSE \E d \in call[u].seen :
            LET c == [call[u] EXCEPT !.seen = @ \ {d}, !.wrote = @ \cup {d.ver}]
            IN /\ d.published => \A e \in call[u].seen : e.published
               /\ Deleted(d.ver)
               /\ loose' = (loose \ {d.ver}) \cup (OfWorkflow(version[d.ver].wf) \ {d.ver})
               /\ Follow(u, c, call[u].todo) \/ Stopped(u, c, "failed")
    /\ UNCHANGED calls

(* A version without a workflow: the instance makes the workflow and its    *)
(* Begin and End.                                                           *)
initializeWorkflow(u, r) ==
    /\ At(u, "initializeWorkflow")
    /\ \E v \in Fresh, wf \in Workflows \ workflows :
        LET c == [call[u] EXCEPT !.wrote = {v}, !.req.ver = v, !.req.wf = wf]
        IN /\ version' = [version EXCEPT ![v] = [st |-> "draft", by |-> u, wf |-> wf]]
           /\ graph' = [graph EXCEPT ![v] = [nodes |-> {"begin", "end"}, exits |-> {<<"begin", Min(Exits)>>},
                                             edges |-> {NewPath("begin", Min(Exits), "end")}]]
           /\ workflows' = workflows \cup {wf}
           /\ Go(u, c) \/ Stopped(u, c, "failed")
    /\ lastEdge' = lastEdge + 1
    /\ UNCHANGED <<loose, calls>>

postWorkflow(u, r) ==
    /\ At(u, "postWorkflow")
    /\ \E wf \in Workflows \ workflows :
        LET c == [call[u] EXCEPT !.req.wf = wf]
        IN /\ workflows' = workflows \cup {wf}
           /\ Go(u, c) \/ Stopped(u, c, "failed")
    /\ UNCHANGED <<version, graph, lastEdge, loose, calls>>

postVersion(u, r) ==
    /\ At(u, "postVersion") /\ r.wf \in workflows
    /\ \E v \in Fresh :
        LET c == [call[u] EXCEPT !.wrote = {v}, !.req.ver = v]
        IN /\ version' = IF "published" \in r.opt THEN AsPublished(v, r.wf)
                         ELSE [version EXCEPT ![v] = [st |-> "draft", by |-> u, wf |-> r.wf]]
           /\ Go(u, c) \/ Stopped(u, c, "failed")
    /\ UNCHANGED <<workflows, graph, lastEdge, loose, calls>>

(****************************************************************************)
(* Specification                                                            *)
(****************************************************************************)
(* One published workflow, checked out by somebody or by nobody.            *)
Init ==
    /\ workflows = {LiveWorkflow}
    /\ \E holder \in Users \cup {"nobody"} :
        LET drafts == IF holder = "nobody" THEN {} ELSE {CHOOSE v \in Versions : v # Live}
        IN /\ version = [v \in Versions |->
                IF v = Live THEN [st |-> "published", by |-> "nobody", wf |-> LiveWorkflow]
                ELSE IF v \in drafts THEN [st |-> "draft", by |-> holder, wf |-> LiveWorkflow]
                ELSE Absent]
           /\ graph = [v \in Versions |-> IF v \in drafts \cup {Live} THEN LiveGraph ELSE EmptyGraph]
    /\ lastEdge = Cardinality(LiveGraph.edges)
    /\ loose = {}
    /\ call = [u \in Users |-> Idle]
    /\ calls = 0

ReadStep(u) ==
    LET r == call[u].req
    IN \/ requireDraft(u, r) \/ readActivity(u, r) \/ readCondition(u, r) \/ readTransition(u, r)
       \/ resolve(u) \/ pickExit(u, r) \/ checkDuplicate(u, r) \/ readSiblings(u, r) \/ checkName(u, r)
       \/ readTouching(u, r) \/ readJoined(u, r) \/ readLeaving(u, r) \/ verify(u, r) \/ requireStart(u, r)
       \/ resolveWorkflow(u, r) \/ readVersions(u, r) \/ chooseCheckout(u, r) \/ findings(u, r)
       \/ pickOwnExit(u, r) \/ rethrow(u, r) \/ readRest(u, r) \/ moveRest(u, r) \/ findEnds(u, r)

GraphStep(u) ==
    LET r == call[u].req
    IN \/ touch(u, r) \/ newEdge(u, r) \/ newEdgeControlNode(u, r) \/ changeEdge(u, r) \/ deleteEdge(u, r)
       \/ deleteLeaving(u, r) \/ deleteExit(u, r) \/ newExit(u, r) \/ deleteNode(u, r)
       \/ insertActivity(u, r) \/ postActivity(u, r) \/ postNext(u, r) \/ postTransition(u, r)

VersionStep(u) ==
    LET r == call[u].req
    IN \/ takeCheckout(u, r) \/ forceCheckout(u, r) \/ publishValidated(u, r) \/ publishAnyway(u, r)
       \/ publishQuietly(u, r) \/ deleteDraft(u, r) \/ deleteVersions(u, r) \/ initializeWorkflow(u, r)
       \/ postWorkflow(u, r) \/ postVersion(u, r)

Next == \E u \in Users : Start(u) \/ ReadStep(u) \/ GraphStep(u) \/ VersionStep(u) \/ RequestFails(u)

Spec == Init /\ [][Next]_vars

(****************************************************************************)
(* Properties                                                               *)
(****************************************************************************)
Edges == [id : 1..lastEdge, from : Names, exit : Exits \cup {NoExit}, to : Names]

TypeOK ==
    /\ version \in [Versions -> [st : {"absent", "draft", "published", "retired", "deleted"}, by : Users \cup {"nobody"},
                                 wf : Workflows \cup {"none"}]]
    /\ \A v \in Versions : version[v].st = "draft" <=> version[v].by # "nobody"
    /\ workflows \subseteq Workflows
    /\ \A v \in Versions : /\ graph[v].nodes \subseteq Names
                            /\ graph[v].exits \subseteq Names \X Exits
                            /\ graph[v].edges \subseteq Edges
    /\ lastEdge \in Nat /\ loose \subseteq Versions /\ calls \in 0..MaxCalls
    /\ \A u \in Users : call[u].result \in {"none", "ok", "refused", "findings", "failed"}

(* The versions and their graphs behave as WorkflowDrafts promises: a       *)
(* draft's graph is changed, published or discarded by the user who holds   *)
(* it, a published version is left alone, paths never dangle, a draft that  *)
(* is discarded leaves another version. Where a version changed hands while *)
(* a call was under way ("loose"), the check-then-write of every method is  *)
(* too late; the call is then still one of a user that held the version     *)
(* when it asked.                                                           *)
Paths(v) == {<<e.from, e.exit, e.to>> : e \in graph[v].edges}

Drafts == INSTANCE WorkflowDrafts WITH
    Exits <- Exits \cup {NoExit},
    graph <- [v \in Versions |-> [nodes |-> graph[v].nodes, exits |-> graph[v].exits, paths |-> Paths(v)]],
    doing <- call

KeepsDraftRules == Drafts!Spec

(* A call that is refused leaves nothing behind, addActivity's late refusal *)
(* of its own exit included, unless its cleanup was cut short. There are    *)
(* two exceptions. moveActivities leaves nothing in the version it is       *)
(* refused for, but the activities of the versions before it are moved.     *)
(* createCompleteWorkflow looks up the ends of its transition and its start *)
(* activity after it has created what comes before them.                    *)
Touched(c) == IF c.req.op = "moveActivities" THEN c.req.ver \in c.wrote ELSE c.wrote # {}

Ends(u, results) == call[u].todo # <<>> /\ call'[u].result \in results

RefusalLeavesNothing == [][\A u \in Users :
    Ends(u, {"refused", "findings"}) /\ call[u].req.op # "createCompleteWorkflow"
        => ~Touched(call[u]) \/ call[u].spoilt]_vars

(* A method that answers has done it: the version is published, the user    *)
(* has a draft, the new workflow has its first path, the activity or the    *)
(* draft is gone, the workflow is gone with every version of it.            *)
AnswerIsTrue == [][\A u \in Users : Ends(u, {"ok"}) =>
    LET r == call[u].req
    IN /\ r.op \in {"publish", "publishWorkflow"} => version'[r.ver].st = "published"
       /\ r.op = "checkout" => \E v \in Versions : version'[v] = [st |-> "draft", by |-> u, wf |-> r.wf]
       /\ r.op = "newWorkflow" => /\ version'[r.ver].st \notin {"absent", "deleted"} /\ version'[r.ver].wf = r.wf
                                  /\ graph'[r.ver].edges # {}
       /\ r.op = "removeActivity" => r.act \notin graph'[r.ver].nodes
       /\ r.op = "discardCheckout" => version'[r.ver].st = "deleted"
       /\ r.op = "deleteWorkflow" => /\ r.wf \notin workflows'
                                     /\ \A v \in Versions : version'[v].st \in {"absent", "deleted"} \/ version'[v].wf # r.wf]_vars

(* "reconnect joins its single incoming and outgoing transitions": when an  *)
(* activity has been removed from a draft that is its user's all along, the *)
(* exit that led to it leads to an activity of the draft.                   *)
ReconnectJoins == [][\A u \in Users :
    LET r == call[u].req
    IN At(u, "deleteNode") /\ "reconnect" \in r.opt /\ HeldBy(u, r.ver) /\ r.ver \notin loose /\ graph' # graph
        => \A i \in Incoming(u, r) : \E e \in graph'[r.ver].edges :
              e.from = i.from /\ e.exit = i.exit /\ e.to \in graph'[r.ver].nodes]_vars
================================================================================
