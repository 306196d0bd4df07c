--------------------------- MODULE WorkflowStructure ---------------------------
(* src/sn/workflow/WorkflowStructure.ts: what its constructor finds out about *)
(* an exported workflow before anything is read from it. Its loops are found  *)
(* by a depth-first walk (findBackEdges); with them taken out, the activities *)
(* that all paths from an activity pass are found by iteration                *)
(* (computePostDominators).                                                   *)
(*                                                                            *)
(* The behaviour draws one transition after another, so that every workflow   *)
(* up to a size is drawn, then makes its structure, one turn of the code's    *)
(* loops at a time. Activities are numbered as compare() orders them.         *)
EXTENDS Naturals, Sequences, FiniteSets, SequencesExt, FiniteSetsExt

CONSTANTS
    Activities,     \* numbers of the activities, in canvas order
    ExportOrder,    \* sequence of the activities as the export lists them
    Start,          \* the activity the version says it starts with, if it says
    Begins,         \* the activities of a type that begins workflows
    ExitsOf,        \* activity -> number of exits it has
    Drawable,       \* sequence of the transitions <<from, exit, to>> there may be
    MaxTransitions  \* bound: transitions drawn

(* The marker is no activity.                                                 *)
WORKFLOW_EXIT == 0

UnknownExit == 0

ASSUME GraphAssumption ==
    /\ WORKFLOW_EXIT \notin Activities
    /\ ExportOrder \in Seq(Activities) /\ ToSet(ExportOrder) = Activities
    /\ ExitsOf \in [Activities -> Nat]
    /\ Drawable \in Seq(Nat \X Nat \X Nat)

VARIABLES
    drawn,          \* the transitions of the workflow
    next,           \* position in Drawable of the next transition to consider
    stage,          \* "drawing", "walking", "narrowing", then "made"
    state,          \* "new", "open" or "done": how far the walk is with an activity
    stack,          \* the activities the walk is in, the innermost last
    followed,       \* the edges the walk has followed
    backEdges,      \* those of them that loop back
    pdom,           \* activity or exit -> what is still held to post-dominate it
    at,             \* position in ExportOrder of the activity whose turn it is
    changed         \* whether this pass over the activities changed anything

graphVars == <<drawn, next>>
walkVars == <<state, stack, followed, backEdges>>
pdomVars == <<pdom, at, changed>>
structureVars == <<graphVars, stage, walkVars, pdomVars>>

(******************************************************************************)
(* The graph                                                                  *)
(******************************************************************************)
(* Transitions with an end that is not exported are left out.                 *)
Kept(w) == {t \in w : t[1] \in Activities /\ t[3] \in Activities}

(* A path leaves by an exit of its activity, or by the unknown one.           *)
Edges(w) == {t \in Kept(w) : t[2] \in 1..ExitsOf[t[1]] \cup {UnknownExit}}

EdgesFrom(n) == {t \in Edges(drawn) : t[1] = n}

incoming(w, n) == {t \in Kept(w) : t[3] = n}

Begin ==
    LET typed == SelectSeq(ExportOrder, LAMBDA a : a \in Begins)
    IN IF Start \in Activities THEN Start ELSE IF typed # <<>> THEN Head(typed) ELSE Min(Activities)

(******************************************************************************)
(* Loops: a path back to an activity the walk is still in                     *)
(******************************************************************************)
(* Begin first, then what nothing leads to, then the rest.                    *)
Rank(n) == IF n = Begin THEN 0 ELSE IF incoming(drawn, n) = {} THEN 1 ELSE 2

RootBefore(a, b) == Rank(a) < Rank(b) \/ (Rank(a) = Rank(b) /\ a <= b)

(* Exits in their order, the unknown one last; the targets of one exit in     *)
(* canvas order.                                                              *)
EdgeBefore(t, u) ==
    \/ /\ t[2] = u[2] /\ t[3] <= u[3]
    \/ /\ t[2] # u[2] /\ t[2] # UnknownExit
       /\ (u[2] = UnknownExit \/ t[2] < u[2])

Unfollowed(n) == EdgesFrom(n) \ followed

(* Mutant: a path to any activity seen before counts as a loop.               *)
ClosesSeen(t) == state[t[3]] # "new"

(* Mutant: only a path from an activity to itself counts as a loop.           *)
ClosesSelf(t) == t[3] = t[1]

Closes(t) == state[t[3]] = "open"

(* The walk starts over at the first root it has not come to.                 *)
Root ==
    /\ stage = "walking" /\ stack = <<>>
    /\ \E n \in Activities :
          /\ state[n] = "new"
          /\ \A m \in Activities : state[m] = "new" => RootBefore(n, m)
          /\ state' = [state EXCEPT ![n] = "open"]
          /\ stack' = <<n>>
    /\ UNCHANGED <<graphVars, stage, followed, backEdges, pdomVars>>

(* The next edge of the innermost activity.                                   *)
NextEdge(t) == t \in Unfollowed(Last(stack)) /\ \A u \in Unfollowed(Last(stack)) : EdgeBefore(t, u)

LoopBack(t) ==
    /\ Closes(t)
    /\ backEdges' = backEdges \cup {t}
    /\ UNCHANGED <<state, stack>>

GoIn(t) ==
    /\ ~Closes(t) /\ state[t[3]] = "new"
    /\ state' = [state EXCEPT ![t[3]] = "open"]
    /\ stack' = Append(stack, t[3])
    /\ UNCHANGED backEdges

GoPast(t) ==
    /\ ~Closes(t) /\ state[t[3]] # "new"
    /\ UNCHANGED <<state, stack, backEdges>>

Follow ==
    /\ stage = "walking" /\ stack # <<>>
    /\ \E t \in Edges(drawn) :
          /\ NextEdge(t)
          /\ followed' = followed \cup {t}
          /\ LoopBack(t) \/ GoIn(t) \/ GoPast(t)
    /\ UNCHANGED <<graphVars, stage, pdomVars>>

Leave ==
    /\ stage = "walking" /\ stack # <<>> /\ Unfollowed(Last(stack)) = {}
    /\ state' = [state EXCEPT ![Last(stack)] = "done"]
    /\ stack' = Front(stack)
    /\ UNCHANGED <<graphVars, stage, followed, backEdges, pdomVars>>

(******************************************************************************)
(* Where paths come back together                                             *)
(******************************************************************************)
Forward == Edges(drawn) \ backEdges

successors(n) == {t[3] : t \in {e \in Forward : e[1] = n}}

(* An activity that leads nowhere leads to the exit.                          *)
OrExit(n) == IF successors(n) = {} THEN {WORKFLOW_EXIT} ELSE successors(n)

Nodes == Activities \cup {WORKFLOW_EXIT}

(* Mutant: one of the paths is enough.                                        *)
MeetSome(sets) == UNION sets

Meet(sets) == {x \in UNION sets : \A s \in sets : x \in s}

Common(n) == {n} \cup Meet({pdom[s] : s \in OrExit(n)})

(* Every root has been walked from; at first everything post-dominates every  *)
(* activity.                                                                  *)
Walked ==
    /\ stage = "walking" /\ stack = <<>> /\ \A n \in Activities : state[n] # "new"
    /\ stage' = "narrowing"
    /\ pdom' = [n \in Nodes |-> IF n = WORKFLOW_EXIT THEN {n} ELSE Nodes]
    /\ at' = 1 /\ changed' = FALSE
    /\ UNCHANGED <<graphVars, walkVars>>

Narrow ==
    /\ stage = "narrowing" /\ at <= Len(ExportOrder)
    /\ LET n == ExportOrder[at]
       IN /\ pdom' = [pdom EXCEPT ![n] = Common(n)]
          /\ changed' = (changed \/ Common(n) # pdom[n])
    /\ at' = at + 1
    /\ UNCHANGED <<graphVars, stage, walkVars>>

Again ==
    /\ stage = "narrowing" /\ at > Len(ExportOrder) /\ changed
    /\ at' = 1 /\ changed' = FALSE
    /\ UNCHANGED <<graphVars, stage, walkVars, pdom>>

Settled ==
    /\ stage = "narrowing" /\ at > Len(ExportOrder) /\ ~changed
    /\ stage' = "made"
    /\ UNCHANGED <<graphVars, walkVars, pdomVars>>

(* Where the paths from n come back together: passed by all of them, before   *)
(* whatever else is.                                                          *)
Nearest(n) == {c \in pdom[n] \ {n} : pdom[n] \ {n} \subseteq pdom[c]}

(******************************************************************************)
(* Every workflow                                                             *)
(******************************************************************************)
StructureInit ==
    /\ drawn = {} /\ next = 1 /\ stage = "drawing"
    /\ state = [n \in Activities |-> "new"] /\ stack = <<>> /\ followed = {} /\ backEdges = {}
    /\ pdom = [n \in Nodes |-> {}] /\ at = 1 /\ changed = FALSE

(* The next transition is drawn, or left out.                                 *)
Draw ==
    /\ stage = "drawing"
    /\ next <= Len(Drawable) /\ Cardinality(drawn) < MaxTransitions
    /\ \E i \in next..Len(Drawable) : drawn' = drawn \cup {Drawable[i]} /\ next' = i + 1
    /\ UNCHANGED <<stage, walkVars, pdomVars>>

(* new WorkflowStructure(workflow).                                           *)
Construct ==
    /\ stage = "drawing"
    /\ stage' = "walking"
    /\ UNCHANGED <<graphVars, walkVars, pdomVars>>

StructureNext ==
    \/ Draw \/ Construct
    \/ Root \/ Follow \/ Leave \/ Walked
    \/ Narrow \/ Again \/ Settled

StructureSpec == StructureInit /\ [][StructureNext]_structureVars

(******************************************************************************)
(* Properties                                                                 *)
(******************************************************************************)
TypeOK ==
    /\ drawn \subseteq Nat \X Nat \X Nat /\ next \in Nat /\ 1 <= next
    /\ stage \in {"drawing", "walking", "narrowing", "made"}
    /\ state \in [Activities -> {"new", "open", "done"}]
    /\ stack \in Seq(Activities)
    /\ followed \subseteq Edges(drawn) /\ backEdges \subseteq followed
    /\ pdom \in [Nodes -> SUBSET Nodes] /\ at \in Nat /\ 1 <= at /\ changed \in BOOLEAN

Groups == (SUBSET Activities) \ {{}}

(* Whatever activities one picks, one of them leads to none of them: along    *)
(* the edges E there is no way back to where one has been.                    *)
NoWayBack(E) == \A C \in Groups : \E n \in C : \A t \in E : t[1] = n => t[3] \notin C

(* Whoever follows the edges E from n comes to m.                             *)
Leads(E, n, m) == \A C \in Groups : n \in C /\ (\A t \in E : t[1] \in C => t[3] \in C) => m \in C

(* findBackEdges: without the loops there is no way back to where one has     *)
(* been, and every loop is one: its activity is come to from where it leads.  *)
LoopsBroken ==
    stage = "made" =>
       LET E == Forward
       IN /\ NoWayBack(E)
          /\ \A t \in backEdges : Leads(E, t[3], t[1])

(* By definition: m post-dominates n when no way ahead from n comes to an end *)
(* without passing m. From n, one stays among activities that all lead on,    *)
(* until one comes to m.                                                      *)
PassesThrough(succ, n, m) ==
    \/ m = n
    \/ \E C \in SUBSET (Activities \ {m}) :
          n \in C /\ \A a \in C : succ[a] # {} /\ succ[a] \subseteq C \cup {m}

(* computePostDominators: in the end, an activity is held to be passed by all *)
(* paths from another exactly if it is.                                       *)
MergeIsPassed ==
    stage = "made" =>
       LET succ == [n \in Activities |-> successors(n)]
       IN \A n \in Activities :
             pdom[n] \ {WORKFLOW_EXIT} = {m \in Activities : PassesThrough(succ, n, m)}

(* mergeOf: such a place is always found (the exit of the workflow at least), *)
(* and the first that is found is the only one, in whatever order the         *)
(* iteration has listed them.                                                 *)
OneMerge == stage = "made" => \A n \in Activities : \E c \in Nodes : Nearest(n) = {c}
================================================================================
