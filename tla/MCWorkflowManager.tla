-------------------------- MODULE MCWorkflowManager --------------------------
(* Instances of WorkflowManager for TLC: two users, one published workflow  *)
(* begin -> x -> end where x has two exits, room for a draft.               *)
EXTENDS WorkflowManager

CONSTANTS ann, bob

MCSymmetry == Permutations({ann, bob})

MCGraph ==
    [nodes |-> {"begin", "x", "end"}, exits |-> {<<"begin", 1>>, <<"x", 1>>, <<"x", 2>>},
     edges |-> {[id |-> 1, from |-> "begin", exit |-> 1, to |-> "x"], [id |-> 2, from |-> "x", exit |-> 1, to |-> "end"]}]

Ask(op, ver, act, from, exit, to, edge, opt) ==
    [op |-> op, wf |-> "w1", ver |-> ver, also |-> {}, act |-> act, from |-> from, exit |-> exit, to |-> to, edge |-> edge, opt |-> opt]

(* A call that names its workflow and version only.                         *)
Plain(op, ver, opt) == Ask(op, ver, "x", "begin", NoExit, "end", 1, opt)

(* Checkouts, publications and deletions.                                   *)
Whole ==
    {Plain("checkout", "v1", o) : o \in {{}, {"force"}}}
    \cup {Plain("publish", "v2", o) : o \in {{}, {"allowWarnings"}}}
    \cup {Plain(op, "v2", {}) : op \in {"discardCheckout", "deleteWorkflow", "publishWorkflow", "setWorkflowActive"}}
    \cup {[Plain("newWorkflow", "v2", {}) EXCEPT !.wf = "w2"]}
    \cup {Plain("createWorkflowVersion", "v2", {"published"}), Plain("createWorkflow", "v2", {})}
    \cup {[Plain("createCompleteWorkflow", "v2", o) EXCEPT !.wf = "w2", !.from = "x"] :
            o \in {{}, {"more", "publish"}, {"more", "publish", "start"}}}

(* Edits of the draft, and one of the published version.                    *)
Edits ==
    {Ask("addActivity", "v2", "y", "x", 2, "end", 1, o) :
        o \in {{}, {"insertOn"}, {"connectFrom", "connectTo", "stage"}, {"connectTo", "otherExit"}}}
    \cup {Plain("removeActivity", v, o) : v \in {"v1", "v2"}, o \in {{}, {"reconnect"}}}
    \cup {[Plain("removeActivity", "v2", {}) EXCEPT !.act = "end"]}
    \cup {Ask("addTransition", "v2", "x", "x", x, "end", 1, {}) : x \in {NoExit, 1, 2}}
    \cup {Ask("addTransition", "v2", "x", "begin", NoExit, "end", 1, {})}
    \cup {Plain("retargetTransition", "v2", {}), Ask("retargetTransition", "v2", "x", "begin", NoExit, "x", 2, {})}
    \cup {Plain("removeTransition", v, {}) : v \in {"v1", "v2"}}
    \cup {[Plain(op, "v2", o) EXCEPT !.exit = 1] : op \in {"removeCondition", "updateCondition"}, o \in {{"fields"}}}
    \cup {[Plain(op, "v2", {}) EXCEPT !.exit = 2, !.act = "end"] : op \in {"addCondition", "createCondition"}}
    \cup {Plain("updateActivity", "v2", {"fields", "move", "stage"}), [Plain("moveActivities", "v2", {}) EXCEPT !.act = "begin", !.also = {"v3"}],
          Plain("updateWorkflowProperties", "v2", {"fields"})}
    \cup {Ask("createTransition", v, "x", "x", 2, "begin", 1, {}) : v \in {"v1", "v2"}}
    \cup {[Plain("createActivity", "v2", {}) EXCEPT !.act = "y"]}

MCRequests == Whole \cup Edits

(* An activity is removed and reconnected; its way out may first be led     *)
(* back to itself.                                                          *)
MCReconnect == {Plain("removeActivity", "v2", {"reconnect"}), Ask("retargetTransition", "v2", "x", "begin", NoExit, "x", 2, {})}
==============================================================================
