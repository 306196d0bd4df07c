---------------------------- MODULE WorkflowDrafts ----------------------------
(* What the editing of legacy workflows promises, with no method or request *)
(* in it: versions, their graphs, and who may change which. Every action is *)
(* one of a user u on a version v.                                          *)
(*                                                                          *)
(*  - A version's graph is changed by the user it is checked out to, and    *)
(*    stays well formed: every path joins activities of the version and     *)
(*    leaves by an exit its activity has.                                   *)
(*  - A published or retired version is never edited.                       *)
(*  - Its holder makes a draft the published version, and the predecessor   *)
(*    retires.                                                              *)
(*  - A draft is discarded by its holder, and only where another version of *)
(*    its workflow stays.                                                   *)
(*                                                                          *)
(* The instance itself asks who holds a version only for its exits. So what *)
(* a user does to a version rests on what the user has seen of it ("owned": *)
(* checked out to me, "spared": not the only version), and "loose" are the  *)
(* versions for which that may no longer hold when the write arrives: their *)
(* checkout was taken by force, the low-level calls (which ask for no       *)
(* checkout) wrote to them or published them, the discard of another user's *)
(* draft left them alone, or their workflow was deleted around them. A      *)
(* loose version is still changed, published and discarded only by users    *)
(* who have seen it as their own, or by the low-level calls. One edit of a  *)
(* holder's own leaves its version loose: Bypass.                           *)
EXTENDS Naturals, FiniteSets

CONSTANTS
    Users,       \* the users of the instance
    Versions,    \* version ids
    Workflows,   \* workflow ids
    Names,       \* activities a version may have
    Exits        \* exits an activity may have, NoExit among them

VARIABLES
    version,     \* version -> its state, its holder and its workflow
    graph,       \* version -> its activities, exits and paths
    loose,       \* versions whose holder may have changed since somebody looked
    doing        \* user -> what it is doing, and what it has "owned" and "spared"

Graphs == [nodes : SUBSET Names, exits : SUBSET (Names \X Exits),
           paths : SUBSET (Names \X Exits \X Names)]

NoExit == 0

WellFormed(g) ==
    /\ \A p \in g.paths : p[1] \in g.nodes /\ p[3] \in g.nodes
    /\ \A p \in g.paths : p[2] = NoExit \/ <<p[1], p[2]>> \in g.exits

Grown(g, h) == g.nodes \subseteq h.nodes /\ g.exits \subseteq h.exits /\ g.paths \subseteq h.paths

Exists(v) == version[v].st \notin {"absent", "deleted"}

HeldBy(u, v) == version[v].st = "draft" /\ version[v].by = u

Siblings(v) == {w \in Versions \ {v} : Exists(w) /\ version[w].wf = version[v].wf}

OtherGraphsUntouched(v) == \A w \in Versions \ {v} : graph'[w] = graph[w]

OthersUntouched(v) == \A w \in Versions \ {v} : version'[w] = version[w]

(* Where v is the published version now, its predecessors are not any more. *)
OthersRetire(v) ==
    \A w \in Versions \ {v} :
        version'[w] = IF version[w].st = "published" /\ version[w].wf = version'[v].wf
                      THEN [version[w] EXCEPT !.st = "retired"] ELSE version[w]

(* A step is of the user whose doing changes; it may have seen what is so.  *)
Acts(u) ==
    /\ \A w \in Users \ {u} : doing'[w] = doing[w]
    /\ doing'[u].owned \subseteq doing[u].owned \cup {v \in Versions : HeldBy(u, v)}
    /\ doing'[u].spared \subseteq doing[u].spared \cup {v \in Versions : Siblings(v) # {}}

(* The holder changes its draft.                                            *)
Edit(u, v) ==
    /\ HeldBy(u, v)
    /\ version' = version
    /\ OtherGraphsUntouched(v)
    /\ v \in loose \/ WellFormed(graph'[v])
    /\ loose' = loose

(* The holder takes out an activity whose only way out leads back to itself *)
(* and joins the path into it to that: it leads to an activity that is gone.*)
Bypass(u, v) ==
    /\ HeldBy(u, v)
    /\ version' = version
    /\ OtherGraphsUntouched(v)
    /\ \E a \in graph[v].nodes, x \in Exits :
        <<a, x, a>> \in graph[v].paths /\ graph'[v].nodes = graph[v].nodes \ {a}
    /\ loose' = loose \cup {v}

(* An edit of a former holder's that arrives after the version changed      *)
(* hands.                                                                   *)
LateEdit(u, v) ==
    /\ v \in doing[u].owned /\ v \in loose
    /\ version' = version
    /\ OtherGraphsUntouched(v)
    /\ loose' = loose

(* A low-level create: it only adds, to any version.                        *)
Add(v) ==
    /\ Exists(v)
    /\ version' = version
    /\ OtherGraphsUntouched(v)
    /\ Grown(graph[v], graph'[v])
    /\ loose' = loose \cup {v}

(* A version appears: a new workflow's, or the draft of a checkout, for the *)
(* user who asks. A draft is loose only where one of its siblings is.       *)
Appear(u, v) ==
    /\ version[v].st = "absent"
    /\ \/ version'[v].st = "draft" /\ version'[v].by = u /\ OthersUntouched(v)
       \/ version'[v].st = "published" /\ OthersRetire(v)
    /\ v \in loose' \/ WellFormed(graph'[v])
    /\ OtherGraphsUntouched(v)
    /\ loose' = loose \/ (Siblings(v)' \cap loose # {} /\ loose' = loose \cup {v})

(* A checkout taken from its holder.                                        *)
Take(u, v) ==
    /\ version[v].st = "draft" /\ version[v].by # u
    /\ version' = [version EXCEPT ![v].by = u]
    /\ graph' = graph
    /\ loose' = loose \cup {v}

(* A draft becomes the published version and its predecessor retires.       *)
Published(v) ==
    /\ version[v].st = "draft"
    /\ version'[v].st = "published" /\ version'[v].wf = version[v].wf
    /\ OthersRetire(v)
    /\ graph' = graph

(* Its holder publishes a draft, or one who held it and comes too late.     *)
Publish(u, v) ==
    /\ HeldBy(u, v) \/ (v \in doing[u].owned /\ v \in loose)
    /\ Published(v)
    /\ loose' = loose

(* The low-level publish, by one who does not hold the draft.               *)
Release(v) ==
    /\ Published(v)
    /\ loose' = loose \cup {v}

(* A draft is discarded by its holder: another version of its workflow      *)
(* stays. The user has seen both; where it comes too late, the last version *)
(* or another user's draft may be the one that goes.                        *)
Discard(u, v) ==
    /\ v \in doing[u].owned /\ v \in doing[u].spared
    /\ v \in loose \/ (HeldBy(u, v) /\ Siblings(v) # {})
    /\ version'[v].st = "deleted" /\ OthersUntouched(v)
    /\ OtherGraphsUntouched(v)
    /\ loose' = (loose \ {v}) \cup {d \in Siblings(v) : version[d].st = "draft" /\ Siblings(v) = {d}}

(* A version goes with its workflow: no checkout is asked for.              *)
Delete(v) ==
    /\ Exists(v)
    /\ version'[v].st = "deleted" /\ OthersUntouched(v)
    /\ OtherGraphsUntouched(v)
    /\ loose' = (loose \ {v}) \cup Siblings(v)

Init ==
    /\ version \in [Versions -> [st : {"absent", "draft", "published", "retired", "deleted"}, by : Users \cup {"nobody"},
                                 wf : Workflows \cup {"none"}]]
    /\ graph \in [Versions -> Graphs]
    /\ \A v \in Versions : WellFormed(graph[v])
    /\ loose = {}
    /\ \A u \in Users : doing[u].owned = {} /\ doing[u].spared = {}

Change(u, v) ==
    \/ Edit(u, v) \/ Bypass(u, v) \/ LateEdit(u, v) \/ Add(v) \/ Appear(u, v) \/ Take(u, v)
    \/ Publish(u, v) \/ Release(v) \/ Discard(u, v) \/ Delete(v)

Next == \E u \in Users :
    /\ Acts(u)
    /\ UNCHANGED <<version, graph, loose>> \/ \E v \in Versions : Change(u, v)

vars == <<version, graph, loose, doing>>

Spec == Init /\ [][Next]_vars
================================================================================
