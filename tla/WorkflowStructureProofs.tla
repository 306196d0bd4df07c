------------------------ MODULE WorkflowStructureProofs ------------------------
(* Theorems about WorkflowStructure, for every workflow and every order in    *)
(* which it is exported.                                                      *)
(*                                                                            *)
(* The walk: the activities it is in form a path of edges it has followed     *)
(* (OnThePath); every edge it has followed and kept leads on along that path  *)
(* or to an activity it is done with (LeadsOn); so among the activities it is *)
(* done with there is no way back, and an edge to an activity on the path     *)
(* closes a loop.                                                             *)
(*                                                                            *)
(* The iteration: what is passed by all paths is never taken out, and when a  *)
(* whole pass changes nothing, what is left satisfies the equations, whose    *)
(* solution can hold no more than that.                                       *)
EXTENDS WorkflowStructure, LeastElements, SequenceTheorems

(* The edges the walk has followed and not taken out.                         *)
Tree == followed \ backEdges

NothingYet ==
    stage = "drawing" =>
       stack = <<>> /\ followed = {} /\ backEdges = {} /\ \A n \in Activities : state[n] = "new"

OnStack ==
    /\ \A n \in Activities : state[n] = "open" <=> \E i \in 1..Len(stack) : stack[i] = n
    /\ \A i, j \in 1..Len(stack) : stack[i] = stack[j] => i = j

OnThePath ==
    \A i \in 1..Len(stack) :
       i + 1 \in 1..Len(stack) => \E t \in Tree : t[1] = stack[i] /\ t[3] = stack[i + 1]

FollowedFrom ==
    /\ \A t \in followed : state[t[1]] # "new"
    /\ \A t \in Edges(drawn) : state[t[1]] = "done" => t \in followed

LeadsOn ==
    \A t \in Tree :
       \/ state[t[3]] = "done"
       \/ \E i \in 1..Len(stack) :
             i + 1 \in 1..Len(stack) /\ t[1] = stack[i] /\ t[3] = stack[i + 1]

LoopsLead == \A t \in backEdges : Leads(Tree, t[3], t[1])

DoneNoWayBack ==
    \A C \in Groups :
       (\A n \in C : state[n] = "done") => \E n \in C : \A t \in Tree : t[1] = n => t[3] \notin C

AllDone == stage \in {"narrowing", "made"} => \A n \in Activities : state[n] = "done"

WalkInv ==
    /\ NothingYet /\ OnStack /\ OnThePath /\ FollowedFrom /\ LeadsOn
    /\ LoopsLead /\ DoneNoWayBack /\ AllDone

Ahead == [n \in Activities |-> successors(n)]

NothingLost == \A n, m \in Activities : PassesThrough(Ahead, n, m) => m \in pdom[n]

Steady == ~changed => \A i \in 1..Len(ExportOrder) : i < at => pdom[ExportOrder[i]] = Common(ExportOrder[i])

NarrowInv ==
    /\ stage \in {"narrowing", "made"} =>
          NothingLost /\ pdom[WORKFLOW_EXIT] = {WORKFLOW_EXIT} /\ Steady
    /\ stage = "made" => \A n \in Activities : pdom[n] = Common(n)

StructureInv == TypeOK /\ WalkInv /\ NarrowInv

(******************************************************************************)
(* The graph and the walk                                                     *)
(******************************************************************************)
LEMMA EdgeEnds ==
    ASSUME NEW w, NEW t \in Edges(w)
    PROVE  t \in w /\ t[1] \in Activities /\ t[3] \in Activities
BY DEF Edges, Kept

LEMMA EdgesGrow == ASSUME NEW v, NEW w, v \subseteq w PROVE Edges(v) \subseteq Edges(w)
BY DEF Edges, Kept

(* With more edges to follow one comes to all that one came to.               *)
LEMMA LeadsFurther ==
    ASSUME NEW E, NEW F, E \subseteq F, NEW n, NEW m, Leads(E, n, m)
    PROVE  Leads(F, n, m)
BY DEF Leads

(* From an activity of the path one comes to the innermost.                   *)
LEMMA PathLeads ==
    ASSUME TypeOK, OnThePath, stack # <<>>, NEW i \in 1..Len(stack)
    PROVE  Leads(Tree, stack[i], Last(stack))
<1> DEFINE m == Len(stack)
<1>1. m \in Nat /\ m # 0 /\ Last(stack) = stack[m] /\ m \in 1..m
  BY DEF TypeOK, Last
<1> SUFFICES ASSUME NEW C \in Groups, stack[i] \in C, \A t \in Tree : t[1] \in C => t[3] \in C
             PROVE  stack[m] \in C
  BY <1>1 DEF Leads
<1> DEFINE Off == {k \in 1..m : i <= k /\ stack[k] \notin C}
<1>2. SUFFICES ASSUME Off # {} PROVE FALSE
  BY <1>1
<1>3. PICK k \in Off : \A l \in Off : k <= l
  <2>1. Off \in SUBSET Nat
    OBVIOUS
  <2> HIDE DEF Off
  <2> QED
    BY <1>2, <2>1, LeastElement
<1>4. k - 1 \in 1..m /\ i <= k - 1 /\ k - 1 \notin Off /\ (k - 1) + 1 = k
  BY <1>1, <1>3
<1>5. stack[k - 1] \in C
  BY <1>4
<1>6. PICK t \in Tree : t[1] = stack[k - 1] /\ t[3] = stack[k]
  BY <1>3, <1>4 DEF OnThePath
<1> QED
  BY <1>3, <1>5, <1>6
LEMMA SuccessorsInActivities == \A n \in Activities : successors(n) \subseteq Activities /\ OrExit(n) \subseteq Nodes
BY EdgeEnds DEF successors, OrExit, Forward, Nodes

LEMMA CommonInNodes ==
    ASSUME TypeOK, NEW n \in Activities
    PROVE  Common(n) \in SUBSET Nodes
<1>1. OrExit(n) \subseteq Nodes
  BY SuccessorsInActivities
<1>2. UNION {pdom[s] : s \in OrExit(n)} \subseteq Nodes
  BY <1>1 DEF TypeOK
<1> QED
  BY <1>2 DEF Common, Meet, Nodes

LEMMA ExportOrderListsAll ==
    /\ Len(ExportOrder) \in Nat
    /\ \A i \in 1..Len(ExportOrder) : ExportOrder[i] \in Activities
    /\ \A n \in Activities : \E i \in 1..Len(ExportOrder) : n = ExportOrder[i]
BY GraphAssumption DEF ToSet

(******************************************************************************)
(* Types                                                                      *)
(******************************************************************************)
LEMMA TypeInit == StructureInit => TypeOK
<1> SUFFICES ASSUME StructureInit PROVE TypeOK
  OBVIOUS
<1>1. changed \in BOOLEAN
  BY Zenon DEF StructureInit
<1> QED
  BY <1>1 DEF StructureInit, TypeOK

LEMMA TypeStep ==
    ASSUME TypeOK, NothingYet, [StructureNext]_structureVars
    PROVE  TypeOK'
<1> USE DEF TypeOK, graphVars, walkVars, pdomVars
<1>1. CASE Draw
  <2>1. PICK i \in next..Len(Drawable) : drawn' = drawn \cup {Drawable[i]} /\ next' = i + 1
    BY <1>1 DEF Draw
  <2>2. i \in 1..Len(Drawable)
    BY GraphAssumption
  <2>3. drawn' \subseteq Nat \X Nat \X Nat /\ next' \in Nat /\ 1 <= next'
    BY <2>1, <2>2, GraphAssumption
  <2>4. followed' \subseteq Edges(drawn)'
    BY <1>1 DEF Draw, NothingYet
  <2> QED
    BY <1>1, <2>3, <2>4 DEF Draw
<1>2. CASE Construct
  BY <1>2 DEF Construct
<1>3. CASE Root
  BY <1>3 DEF Root
<1>4. CASE Follow
  <2>1. PICK t \in Edges(drawn) :
           /\ followed' = followed \cup {t}
           /\ LoopBack(t) \/ GoIn(t) \/ GoPast(t)
    BY <1>4 DEF Follow
  <2>2. UNCHANGED <<graphVars, stage, pdomVars>>
    BY <1>4 DEF Follow
  <2>3. t[3] \in Activities
    BY EdgeEnds
  <2>4. stack' \in Seq(Activities) /\ state' \in [Activities -> {"new", "open", "done"}]
    <3>1. CASE GoIn(t)
      <4>1. stack' = Append(stack, t[3]) /\ state' = [state EXCEPT ![t[3]] = "open"]
        BY <3>1 DEF GoIn
      <4> QED
        BY <2>3, <4>1
    <3>2. CASE LoopBack(t) \/ GoPast(t)
      BY <3>2 DEF LoopBack, GoPast
    <3> QED
      BY <2>1, <3>1, <3>2
  <2>5. backEdges' \subseteq followed'
    BY <2>1 DEF LoopBack, GoIn, GoPast
  <2> QED
    BY <2>1, <2>2, <2>4, <2>5
<1>5. CASE Leave
  <2>1. Front(stack) \in Seq(Activities)
    BY <1>5 DEF Leave, Front
  <2> QED
    BY <1>5, <2>1 DEF Leave
<1>6. CASE Walked
  <2>1. changed' \in BOOLEAN
    BY <1>6, Zenon DEF Walked
  <2> QED
    BY <1>6, <2>1 DEF Walked, Nodes
<1>7. CASE Narrow
  <2>1. at \in 1..Len(ExportOrder)
    BY <1>7, ExportOrderListsAll DEF Narrow
  <2>2. pdom' \in [Nodes -> SUBSET Nodes]
    <3>1. CASE at \in 1..Len(ExportOrder)
      BY <1>7, <3>1, ExportOrderListsAll, CommonInNodes DEF Narrow
    <3> QED
      BY <2>1, <3>1
  <2> QED
    BY <1>7, <2>2 DEF Narrow
<1>8. CASE Again
  <2>1. changed' \in BOOLEAN
    BY <1>8, Zenon DEF Again
  <2> QED
    BY <1>8, <2>1 DEF Again
<1>9. CASE Settled
  BY <1>9 DEF Settled
<1>10. CASE UNCHANGED structureVars
  BY <1>10 DEF structureVars
<1> QED
  BY <1>1, <1>2, <1>3, <1>4, <1>5, <1>6, <1>7, <1>8, <1>9, <1>10 DEF StructureNext

(******************************************************************************)
(* The walk keeps its invariant                                               *)
(******************************************************************************)
WalkAndGraph == <<drawn, walkVars>>

LEMMA WalkInit == StructureInit => WalkInv
<1> SUFFICES ASSUME StructureInit PROVE WalkInv
  OBVIOUS
<1>1. /\ stack = <<>> /\ followed = {} /\ backEdges = {} /\ Tree = {}
      /\ stage = "drawing" /\ \A n \in Activities : state[n] = "new"
  BY DEF StructureInit, Tree
<1>2. NothingYet /\ OnStack /\ OnThePath /\ AllDone
  BY <1>1 DEF NothingYet, OnStack, OnThePath, AllDone
<1>3. FollowedFrom
  BY <1>1, EdgeEnds DEF FollowedFrom
<1>4. LeadsOn /\ LoopsLead
  BY <1>1 DEF LeadsOn, LoopsLead
<1>5. DoneNoWayBack
  BY <1>1 DEF DoneNoWayBack, Groups
<1> QED
  BY <1>2, <1>3, <1>4, <1>5 DEF WalkInv

LEMMA DrawWalk ==
    ASSUME TypeOK, WalkInv, Draw
    PROVE  WalkInv'
<1>1. /\ stack' = <<>> /\ followed' = {} /\ backEdges' = {} /\ Tree' = {}
      /\ stage' = "drawing" /\ \A n \in Activities : state'[n] = "new"
  BY DEF Draw, walkVars, WalkInv, NothingYet, Tree
<1>2. NothingYet' /\ OnStack' /\ OnThePath' /\ AllDone'
  BY <1>1 DEF NothingYet, OnStack, OnThePath, AllDone
<1>3. FollowedFrom'
  BY <1>1, EdgeEnds DEF FollowedFrom
<1>4. LeadsOn' /\ LoopsLead'
  BY <1>1 DEF LeadsOn, LoopsLead
<1>5. DoneNoWayBack'
  BY <1>1 DEF DoneNoWayBack, Groups
<1> QED
  BY <1>2, <1>3, <1>4, <1>5 DEF WalkInv

(* Every other part of the invariant is about the graph and the walk alone.   *)
LEMMA WalkUnchanged ==
    ASSUME WalkInv, UNCHANGED WalkAndGraph, NothingYet', AllDone'
    PROVE  WalkInv'
<1>1. drawn' = drawn /\ state' = state /\ stack' = stack /\ followed' = followed /\ backEdges' = backEdges
  BY DEF WalkAndGraph, walkVars
<1>2. Tree' = Tree
  BY <1>1 DEF Tree
<1>3. OnStack' /\ OnThePath' /\ FollowedFrom' /\ LeadsOn' /\ DoneNoWayBack'
  BY <1>1, <1>2 DEF WalkInv, OnStack, OnThePath, FollowedFrom, LeadsOn, DoneNoWayBack
<1>4. LoopsLead'
  BY <1>1, <1>2 DEF WalkInv, LoopsLead
<1> QED
  BY <1>3, <1>4 DEF WalkInv

LEMMA RootWalk ==
    ASSUME TypeOK, WalkInv, Root
    PROVE  WalkInv'
<1>1. PICK n \in Activities :
         state[n] = "new" /\ state' = [state EXCEPT ![n] = "open"] /\ stack' = <<n>>
  BY DEF Root
<1>2. /\ stack = <<>> /\ stage = "walking" /\ stage' = stage
      /\ drawn' = drawn /\ followed' = followed /\ backEdges' = backEdges /\ Tree' = Tree
  BY DEF Root, graphVars, Tree
<1>3. \A m \in Activities : state[m] # "open"
  BY <1>2 DEF WalkInv, OnStack
<1>4. \A m \in Activities : state'[m] = IF m = n THEN "open" ELSE state[m]
  BY <1>1 DEF TypeOK
<1>5. Len(stack') = 1 /\ stack'[1] = n
  BY <1>1
<1>6. NothingYet' /\ AllDone'
  BY <1>2 DEF NothingYet, AllDone
<1>7. OnStack'
  BY <1>3, <1>4, <1>5 DEF OnStack
<1>8. OnThePath'
  BY <1>5 DEF OnThePath
<1>9. FollowedFrom'
  BY <1>1, <1>2, <1>4, EdgeEnds DEF FollowedFrom, WalkInv, TypeOK
<1>10. LeadsOn'
  <2> SUFFICES ASSUME NEW t \in Tree PROVE state'[t[3]] = "done"
    BY <1>2 DEF LeadsOn
  <2>1. state[t[3]] = "done"
    BY <1>2 DEF LeadsOn, WalkInv
  <2>2. t[3] \in Activities
    BY EdgeEnds DEF Tree, TypeOK
  <2> QED
    BY <1>1, <1>4, <2>1, <2>2
<1>11. LoopsLead'
  BY <1>2 DEF LoopsLead, WalkInv
<1>12. DoneNoWayBack'
  <2> SUFFICES ASSUME NEW C \in Groups, \A m \in C : state'[m] = "done"
               PROVE  \E m \in C : \A t \in Tree : t[1] = m => t[3] \notin C
    BY <1>2 DEF DoneNoWayBack
  <2>1. \A m \in C : state[m] = "done"
    BY <1>4 DEF Groups
  <2> QED
    BY <2>1 DEF DoneNoWayBack, WalkInv
<1> QED
  BY <1>6, <1>7, <1>8, <1>9, <1>10, <1>11, <1>12 DEF WalkInv

LEMMA FollowFacts ==
    ASSUME TypeOK, WalkInv, Follow
    PROVE  \E t \in Edges(drawn) :
              /\ t \notin followed /\ t[1] = Last(stack) /\ state[t[1]] = "open"
              /\ followed' = followed \cup {t}
              /\ LoopBack(t) \/ GoIn(t) \/ GoPast(t)
              /\ drawn' = drawn /\ stage' = stage /\ stage = "walking" /\ stack # <<>>
<1>1. PICK t \in Edges(drawn) :
         /\ NextEdge(t) /\ followed' = followed \cup {t}
         /\ LoopBack(t) \/ GoIn(t) \/ GoPast(t)
  BY DEF Follow
<1>2. t \notin followed /\ t[1] = Last(stack)
  BY <1>1 DEF NextEdge, Unfollowed, EdgesFrom
<1>3. drawn' = drawn /\ stage' = stage /\ stage = "walking" /\ stack # <<>>
  BY DEF Follow, graphVars
<1>4. Len(stack) \in 1..Len(stack) /\ Last(stack) = stack[Len(stack)] /\ Last(stack) \in Activities
  BY <1>3 DEF TypeOK, Last
<1>5. state[Last(stack)] = "open"
  BY <1>4 DEF WalkInv, OnStack
<1> QED
  BY <1>1, <1>2, <1>3, <1>5

LEMMA LoopBackWalk ==
    ASSUME TypeOK, WalkInv, NEW t \in Edges(drawn), LoopBack(t),
           t \notin followed, t[1] = Last(stack), state[t[1]] = "open", followed' = followed \cup {t},
           drawn' = drawn, stage' = stage, stage = "walking", stack # <<>>
    PROVE  WalkInv'
<1>1. backEdges' = backEdges \cup {t} /\ state' = state /\ stack' = stack /\ state[t[3]] = "open"
  BY DEF LoopBack, Closes
<1>2. Tree' = Tree
  BY <1>1 DEF Tree, TypeOK
<1>3. NothingYet' /\ AllDone'
  BY DEF NothingYet, AllDone
<1>4. OnStack' /\ OnThePath' /\ LeadsOn' /\ DoneNoWayBack'
  BY <1>1, <1>2 DEF WalkInv, OnStack, OnThePath, LeadsOn, DoneNoWayBack
<1>5. FollowedFrom'
  BY <1>1 DEF FollowedFrom, WalkInv
<1>6. LoopsLead'
  <2>1. PICK i \in 1..Len(stack) : stack[i] = t[3]
    BY <1>1, EdgeEnds DEF WalkInv, OnStack
  <2>2. Leads(Tree, t[3], t[1])
    BY <2>1, PathLeads DEF WalkInv
  <2> QED
    BY <1>1, <1>2, <2>2 DEF LoopsLead, WalkInv
<1> QED
  BY <1>3, <1>4, <1>5, <1>6 DEF WalkInv

LEMMA GoInWalk ==
    ASSUME TypeOK, WalkInv, NEW t \in Edges(drawn), GoIn(t),
           t \notin followed, t[1] = Last(stack), state[t[1]] = "open", followed' = followed \cup {t},
           drawn' = drawn, stage' = stage, stage = "walking", stack # <<>>
    PROVE  WalkInv'
<1> DEFINE n == t[3]
           m == Len(stack)
<1>1. /\ backEdges' = backEdges /\ state' = [state EXCEPT ![n] = "open"]
      /\ stack' = Append(stack, n) /\ state[n] = "new" /\ n \in Activities /\ t[1] \in Activities
  BY EdgeEnds DEF GoIn
<1>2. Tree' = Tree \cup {t}
  BY <1>1 DEF Tree, TypeOK
<1>3. \A k \in Activities : state'[k] = IF k = n THEN "open" ELSE state[k]
  BY <1>1 DEF TypeOK
<1>4. /\ m \in Nat /\ m # 0 /\ Len(stack') = m + 1 /\ stack'[m + 1] = n /\ stack[m] = t[1]
      /\ \A i \in 1..m : stack'[i] = stack[i] /\ stack[i] \in Activities /\ i \in 1..(m + 1)
      /\ \A i \in 1..(m + 1) : i \in 1..m \/ i = m + 1
  BY <1>1 DEF TypeOK, Last
<1>5. NothingYet' /\ AllDone'
  BY DEF NothingYet, AllDone
<1>6. OnStack'
  <2>1. \A i \in 1..m : stack[i] # n
    BY <1>1 DEF WalkInv, OnStack
  <2>2. ASSUME NEW k \in Activities PROVE state'[k] = "open" <=> \E i \in 1..Len(stack') : stack'[i] = k
    BY <1>3, <1>4 DEF WalkInv, OnStack
  <2>3. ASSUME NEW i \in 1..Len(stack'), NEW j \in 1..Len(stack'), stack'[i] = stack'[j] PROVE i = j
    BY <1>4, <2>1, <2>3 DEF WalkInv, OnStack
  <2> QED
    BY <2>2, <2>3 DEF OnStack
<1>7. OnThePath'
  <2> SUFFICES ASSUME NEW i \in 1..(m + 1), i + 1 \in 1..(m + 1)
               PROVE  \E u \in Tree' : u[1] = stack'[i] /\ u[3] = stack'[i + 1]
    BY <1>4 DEF OnThePath
  <2>1. CASE i = m
    BY <1>2, <1>4, <2>1
  <2>2. CASE i # m
    <3>1. i \in 1..m /\ i + 1 \in 1..m
      BY <1>4, <2>2
    <3> QED
      BY <1>2, <1>4, <3>1 DEF OnThePath, WalkInv
  <2> QED
    BY <2>1, <2>2
<1>8. FollowedFrom'
  <2>1. \A u \in followed : u[1] \in Activities
    BY EdgeEnds DEF TypeOK
  <2>2. \A u \in Edges(drawn) : u[1] \in Activities
    BY EdgeEnds
  <2>3. t[1] # n
    BY <1>1
  <2> QED
    BY <1>1, <1>3, <2>1, <2>2, <2>3 DEF FollowedFrom, WalkInv
<1>9. LeadsOn'
  <2>1. t[1] = stack'[m] /\ t[3] = stack'[m + 1] /\ m \in 1..Len(stack') /\ m + 1 \in 1..Len(stack')
    BY <1>4
  <2>2. ASSUME NEW u \in Tree
        PROVE  \/ state'[u[3]] = "done"
               \/ \E i \in 1..Len(stack') : i + 1 \in 1..Len(stack') /\ u[1] = stack'[i] /\ u[3] = stack'[i + 1]
    <3>1. u[3] \in Activities
      BY EdgeEnds DEF Tree, TypeOK
    <3>2. CASE state[u[3]] = "done"
      BY <1>1, <1>3, <3>1, <3>2
    <3>3. CASE \E i \in 1..m : i + 1 \in 1..m /\ u[1] = stack[i] /\ u[3] = stack[i + 1]
      <4>1. PICK i \in 1..m : i + 1 \in 1..m /\ u[1] = stack[i] /\ u[3] = stack[i + 1]
        BY <3>3
      <4>2. i \in 1..Len(stack') /\ i + 1 \in 1..Len(stack') /\ u[1] = stack'[i] /\ u[3] = stack'[i + 1]
        BY <1>4, <4>1
      <4> QED
        BY <4>2
    <3> QED
      BY <3>2, <3>3 DEF LeadsOn, WalkInv
  <2> QED
    BY <1>2, <2>1, <2>2 DEF LeadsOn
<1>10. LoopsLead'
  BY <1>1, <1>2, LeadsFurther DEF LoopsLead, WalkInv
<1>11. DoneNoWayBack'
  <2> SUFFICES ASSUME NEW C \in Groups, \A k \in C : state'[k] = "done"
               PROVE  \E k \in C : \A u \in Tree' : u[1] = k => u[3] \notin C
    BY DEF DoneNoWayBack
  <2>1. \A k \in C : state[k] = "done"
    BY <1>3 DEF Groups
  <2>2. t[1] \notin C
    BY <2>1
  <2> QED
    BY <1>2, <2>1, <2>2 DEF DoneNoWayBack, WalkInv
<1> QED
  BY <1>5, <1>6, <1>7, <1>8, <1>9, <1>10, <1>11 DEF WalkInv

LEMMA GoPastWalk ==
    ASSUME TypeOK, WalkInv, NEW t \in Edges(drawn), GoPast(t),
           t \notin followed, t[1] = Last(stack), state[t[1]] = "open", followed' = followed \cup {t},
           drawn' = drawn, stage' = stage, stage = "walking", stack # <<>>
    PROVE  WalkInv'
<1>1. backEdges' = backEdges /\ state' = state /\ stack' = stack /\ state[t[3]] = "done"
  BY EdgeEnds DEF GoPast, Closes, TypeOK
<1>2. Tree' = Tree \cup {t}
  BY <1>1 DEF Tree, TypeOK
<1>3. NothingYet' /\ AllDone'
  BY DEF NothingYet, AllDone
<1>4. OnStack' /\ OnThePath' /\ LeadsOn' /\ FollowedFrom'
  BY <1>1, <1>2 DEF WalkInv, OnStack, OnThePath, LeadsOn, FollowedFrom
<1>5. LoopsLead'
  BY <1>1, <1>2, LeadsFurther DEF LoopsLead, WalkInv
<1>6. DoneNoWayBack'
  <2> SUFFICES ASSUME NEW C \in Groups, \A k \in C : state[k] = "done"
               PROVE  \E k \in C : \A u \in Tree' : u[1] = k => u[3] \notin C
    BY <1>1 DEF DoneNoWayBack
  <2>1. t[1] \notin C
    OBVIOUS
  <2> QED
    BY <1>2, <2>1 DEF DoneNoWayBack, WalkInv
<1> QED
  BY <1>3, <1>4, <1>5, <1>6 DEF WalkInv

LEMMA FollowWalk ==
    ASSUME TypeOK, WalkInv, Follow
    PROVE  WalkInv'
BY FollowFacts, LoopBackWalk, GoInWalk, GoPastWalk

LEMMA InnermostLeft ==
    ASSUME NEW S, NEW s \in Seq(S), s # <<>>
    PROVE  Len(Front(s)) = Len(s) - 1 /\ \A i \in 1..(Len(s) - 1) : Front(s)[i] = s[i] /\ i \in 1..Len(s)
<1> DEFINE k == Len(s) - 1
<1>1. k \in Nat /\ k - 1 + 1 = k /\ Front(s) = SubSeq(s, 1, k)
  BY DEF Front
<1>2. \A i \in 1..k : s[i] \in S /\ 1 + i - 1 = i /\ i \in 1..Len(s)
  BY <1>1
<1> HIDE DEF k
<1>3. /\ Len(SubSeq(s, 1, k)) = IF 1 <= k THEN k - 1 + 1 ELSE 0
      /\ \A i \in 1..(k - 1 + 1) : SubSeq(s, 1, k)[i] = s[1 + i - 1]
  BY <1>1, <1>2, SubSeqProperties
<1>4. Len(Front(s)) = k /\ \A i \in 1..k : Front(s)[i] = s[i]
  BY <1>1, <1>2, <1>3
<1> QED
  BY <1>2, <1>4 DEF k

LEMMA LeaveWalk ==
    ASSUME TypeOK, WalkInv, Leave
    PROVE  WalkInv'
<1> DEFINE m == Len(stack)
           n == Last(stack)
<1>1. /\ stage = "walking" /\ stage' = stage /\ stack # <<>> /\ Unfollowed(n) = {}
      /\ state' = [state EXCEPT ![n] = "done"] /\ stack' = Front(stack)
      /\ drawn' = drawn /\ followed' = followed /\ backEdges' = backEdges /\ Tree' = Tree
  BY DEF Leave, graphVars, Tree
<1>2. /\ m \in Nat /\ m # 0 /\ n = stack[m] /\ m \in 1..m /\ n \in Activities
      /\ Len(stack') = m - 1 /\ \A i \in 1..(m - 1) : stack'[i] = stack[i] /\ i \in 1..m
  <2>1. m \in Nat /\ m # 0 /\ n = stack[m] /\ m \in 1..m /\ n \in Activities
    BY <1>1 DEF TypeOK, Last
  <2> QED
    BY <1>1, <2>1, InnermostLeft DEF TypeOK
<1>3. \A k \in Activities : state'[k] = IF k = n THEN "done" ELSE state[k]
  BY <1>1, <1>2 DEF TypeOK
<1>4. state[n] = "open"
  BY <1>2 DEF WalkInv, OnStack
<1>5. \A i \in 1..m : i # m <=> stack[i] # n
  BY <1>2 DEF WalkInv, OnStack
<1>6. NothingYet' /\ AllDone'
  BY <1>1 DEF NothingYet, AllDone
<1>7. OnStack'
  <2>1. ASSUME NEW k \in Activities PROVE state'[k] = "open" <=> \E i \in 1..Len(stack') : stack'[i] = k
    <3>1. CASE k = n
      BY <1>2, <1>3, <1>5, <3>1
    <3>2. CASE k # n
      <4>1. state[k] = "open" <=> \E i \in 1..m : stack[i] = k
        BY DEF WalkInv, OnStack
      <4>2. \A i \in 1..m : stack[i] = k => i \in 1..(m - 1)
        BY <1>2, <3>2
      <4> QED
        BY <1>2, <1>3, <3>2, <4>1, <4>2
    <3> QED
      BY <3>1, <3>2
  <2>2. \A i, j \in 1..Len(stack') : stack'[i] = stack'[j] => i = j
    BY <1>2 DEF WalkInv, OnStack
  <2> QED
    BY <2>1, <2>2 DEF OnStack
<1>8. OnThePath'
  BY <1>1, <1>2 DEF OnThePath, WalkInv
<1>9. FollowedFrom'
  <2>1. \A u \in Edges(drawn) : u[1] = n => u \in followed
    BY <1>1 DEF Unfollowed, EdgesFrom
  <2>2. \A u \in Edges(drawn) : u[1] \in Activities
    BY EdgeEnds
  <2> QED
    BY <1>1, <1>3, <2>1, <2>2 DEF FollowedFrom, WalkInv, TypeOK
<1>10. LeadsOn'
  <2> SUFFICES ASSUME NEW u \in Tree
               PROVE  \/ state'[u[3]] = "done"
                      \/ \E i \in 1..Len(stack') : i + 1 \in 1..Len(stack') /\ u[1] = stack'[i] /\ u[3] = stack'[i + 1]
    BY <1>1 DEF LeadsOn
  <2>1. u[3] \in Activities
    BY EdgeEnds DEF Tree, TypeOK
  <2>2. CASE state[u[3]] = "done"
    BY <1>3, <2>1, <2>2
  <2>3. CASE \E i \in 1..m : i + 1 \in 1..m /\ u[1] = stack[i] /\ u[3] = stack[i + 1]
    <3>1. PICK i \in 1..m : i + 1 \in 1..m /\ u[1] = stack[i] /\ u[3] = stack[i + 1]
      BY <2>3
    <3>2. CASE i + 1 = m
      BY <1>2, <1>3, <3>1, <3>2
    <3>3. CASE i + 1 # m
      <4>1. i \in 1..(m - 1) /\ i + 1 \in 1..(m - 1)
        BY <1>2, <3>1, <3>3
      <4> QED
        BY <1>2, <3>1, <4>1
    <3> QED
      BY <3>2, <3>3
  <2> QED
    BY <2>2, <2>3 DEF LeadsOn, WalkInv
<1>11. LoopsLead'
  BY <1>1 DEF LoopsLead, WalkInv
<1>12. DoneNoWayBack'
  <2> SUFFICES ASSUME NEW C \in Groups, \A k \in C : state'[k] = "done"
               PROVE  \E k \in C : \A u \in Tree : u[1] = k => u[3] \notin C
    BY <1>1 DEF DoneNoWayBack
  <2>1. \A k \in C \ {n} : state[k] = "done"
    BY <1>3 DEF Groups
  <2>2. \A u \in Tree : u[1] = n => state[u[3]] = "done"
    <3> SUFFICES ASSUME NEW u \in Tree, u[1] = n, state[u[3]] # "done" PROVE FALSE
      OBVIOUS
    <3>1. PICK i \in 1..m : i + 1 \in 1..m /\ u[1] = stack[i] /\ u[3] = stack[i + 1]
      BY DEF LeadsOn, WalkInv
    <3> QED
      BY <1>2, <1>5, <3>1
  <2>3. CASE C \ {n} = {}
    <3>1. C = {n}
      BY <2>3 DEF Groups
    <3> QED
      BY <1>4, <2>2, <3>1
  <2>4. CASE C \ {n} # {}
    <3>1. C \ {n} \in Groups
      BY <2>4 DEF Groups
    <3>2. PICK k \in C \ {n} : \A u \in Tree : u[1] = k => u[3] \notin C \ {n}
      BY <2>1, <3>1 DEF DoneNoWayBack, WalkInv
    <3>3. \A u \in Tree : u[1] = k => state[u[3]] = "done"
      <4> SUFFICES ASSUME NEW u \in Tree, u[1] = k, state[u[3]] # "done" PROVE FALSE
        OBVIOUS
      <4>1. PICK i \in 1..m : u[1] = stack[i]
        BY DEF LeadsOn, WalkInv
      <4>2. k \in Activities /\ state[k] = "done"
        BY <2>1 DEF Groups
      <4> QED
        BY <4>1, <4>2 DEF OnStack, WalkInv
    <3> QED
      BY <1>4, <3>2, <3>3
  <2> QED
    BY <2>3, <2>4
<1> QED
  BY <1>6, <1>7, <1>8, <1>9, <1>10, <1>11, <1>12 DEF WalkInv

LEMMA WalkStep ==
    ASSUME TypeOK, WalkInv, [StructureNext]_structureVars
    PROVE  WalkInv'
<1> USE DEF WalkAndGraph, graphVars
<1>1. CASE Construct
  <2>1. UNCHANGED WalkAndGraph /\ stage' = "walking"
    BY <1>1 DEF Construct
  <2> QED
    BY <2>1, WalkUnchanged DEF NothingYet, AllDone
<1>2. CASE Walked
  <2>1. UNCHANGED WalkAndGraph /\ stage' = "narrowing" /\ stack = <<>> /\ \A n \in Activities : state[n] # "new"
    BY <1>2 DEF Walked
  <2>2. \A n \in Activities : state[n] # "open"
    BY <2>1 DEF WalkInv, OnStack
  <2>3. \A n \in Activities : state'[n] = "done"
    BY <2>1, <2>2 DEF TypeOK, walkVars
  <2> QED
    BY <2>1, <2>3, WalkUnchanged DEF NothingYet, AllDone
<1>3. CASE Narrow \/ Again \/ Settled \/ UNCHANGED structureVars
  <2>1. UNCHANGED WalkAndGraph
    BY <1>3 DEF Narrow, Again, Settled, structureVars
  <2>2. \/ stage' = stage
        \/ stage = "narrowing" /\ stage' = "made"
    BY <1>3 DEF Narrow, Again, Settled, structureVars
  <2>3. NothingYet' /\ AllDone'
    BY <2>1, <2>2 DEF WalkInv, NothingYet, AllDone, walkVars
  <2> QED
    BY <2>1, <2>3, WalkUnchanged
<1> QED
  BY <1>1, <1>2, <1>3, DrawWalk, RootWalk, FollowWalk, LeaveWalk DEF StructureNext

(******************************************************************************)
(* The loops                                                                  *)
(******************************************************************************)
LEMMA TreeIsForward ==
    ASSUME TypeOK, WalkInv, stage \in {"narrowing", "made"}
    PROVE  Tree = Forward
<1>1. Edges(drawn) \subseteq followed
  BY EdgeEnds DEF WalkInv, AllDone, FollowedFrom
<1> QED
  BY <1>1 DEF TypeOK, Tree, Forward

LEMMA ForwardNoWayBack ==
    ASSUME TypeOK, WalkInv, stage \in {"narrowing", "made"}
    PROVE  NoWayBack(Forward)
<1>1. \A C \in Groups : \A n \in C : state[n] = "done"
  BY DEF WalkInv, AllDone, Groups
<1> QED
  BY <1>1, TreeIsForward DEF NoWayBack, DoneNoWayBack, WalkInv

LEMMA WalkBreaksLoops ==
    ASSUME TypeOK, WalkInv
    PROVE  LoopsBroken
BY TreeIsForward, ForwardNoWayBack DEF LoopsBroken, LoopsLead, WalkInv

(******************************************************************************)
(* Where paths come back together                                             *)
(******************************************************************************)
LEMMA MeetHolds ==
    ASSUME NEW n \in Activities, NEW m, \A s \in OrExit(n) : m \in pdom[s]
    PROVE  m \in Common(n)
<1>1. \E s \in OrExit(n) : TRUE
  BY DEF OrExit
<1> QED
  BY <1>1 DEF Common, Meet

LEMMA CommonHolds ==
    ASSUME NEW n \in Activities, NEW m \in Common(n), m # n
    PROVE  \A s \in OrExit(n) : m \in pdom[s]
BY DEF Common, Meet

(* What all paths pass is in what they have in common.                        *)
LEMMA PassedIsCommon ==
    ASSUME NothingLost, NEW n \in Activities, NEW m \in Activities, PassesThrough(Ahead, n, m)
    PROVE  m \in Common(n)
<1>1. CASE m = n
  BY <1>1 DEF Common
<1>2. CASE m # n
  <2>1. PICK C \in SUBSET (Activities \ {m}) :
           n \in C /\ \A a \in C : Ahead[a] # {} /\ Ahead[a] \subseteq C \cup {m}
    BY <1>2 DEF PassesThrough
  <2>2. Ahead[n] = successors(n) /\ successors(n) # {} /\ OrExit(n) = successors(n)
    BY <2>1 DEF Ahead, OrExit
  <2>3. ASSUME NEW s \in OrExit(n) PROVE m \in pdom[s]
    <3>1. s \in Activities /\ s \in C \cup {m}
      BY <2>1, <2>2, SuccessorsInActivities
    <3>2. PassesThrough(Ahead, s, m)
      BY <2>1, <3>1 DEF PassesThrough
    <3> QED
      BY <3>1, <3>2 DEF NothingLost
  <2> QED
    BY <2>3, MeetHolds
<1> QED
  BY <1>1, <1>2

LEMMA NarrowInit == StructureInit => NarrowInv
BY DEF StructureInit, NarrowInv

LEMMA SameGraph ==
    ASSUME drawn' = drawn, backEdges' = backEdges
    PROVE  /\ \A n : successors(n)' = successors(n) /\ OrExit(n)' = OrExit(n)
           /\ Ahead' = Ahead
<1>1. Forward' = Forward
  BY DEF Forward
<1>2. \A n : successors(n)' = successors(n)
  BY <1>1 DEF successors
<1> QED
  BY <1>2 DEF OrExit, Ahead

LEMMA SameCommon ==
    ASSUME drawn' = drawn, backEdges' = backEdges, pdom' = pdom, NEW n
    PROVE  Common(n)' = Common(n)
<1>1. OrExit(n)' = OrExit(n)
  BY SameGraph
<1>2. {pdom'[s] : s \in OrExit(n)'} = {pdom[s] : s \in OrExit(n)}
  BY <1>1
<1> QED
  BY <1>2, Zenon DEF Common, Meet

LEMMA PassesThroughPrimed ==
    ASSUME Ahead' = Ahead, NEW n, NEW m
    PROVE  PassesThrough(Ahead, n, m)' <=> PassesThrough(Ahead, n, m)
BY DEF PassesThrough

LEMMA WalkedNarrow ==
    ASSUME TypeOK, Walked
    PROVE  NarrowInv'
<1>1. /\ pdom' = [n \in Nodes |-> IF n = WORKFLOW_EXIT THEN {n} ELSE Nodes]
      /\ at' = 1 /\ stage' = "narrowing"
  BY DEF Walked
<1>2. pdom'[WORKFLOW_EXIT] = {WORKFLOW_EXIT}
  BY <1>1 DEF Nodes
<1>3. \A n, m \in Activities : m \in pdom'[n]
  BY <1>1, GraphAssumption DEF Nodes
<1>4. Steady'
  BY <1>1, ExportOrderListsAll DEF Steady
<1> QED
  BY <1>1, <1>2, <1>3, <1>4 DEF NarrowInv, NothingLost

LEMMA NarrowNarrow ==
    ASSUME TypeOK, NarrowInv, Narrow
    PROVE  NarrowInv'
<1> DEFINE n == ExportOrder[at]
<1>1. /\ stage = "narrowing" /\ stage' = stage /\ at \in 1..Len(ExportOrder) /\ at' = at + 1
      /\ pdom' = [pdom EXCEPT ![n] = Common(n)]
      /\ drawn' = drawn /\ backEdges' = backEdges
  BY ExportOrderListsAll DEF Narrow, TypeOK, graphVars, walkVars
<1>2. n \in Activities /\ n # WORKFLOW_EXIT
  BY <1>1, ExportOrderListsAll, GraphAssumption
<1>3. \A k \in Nodes : pdom'[k] = IF k = n THEN Common(n) ELSE pdom[k]
  BY <1>1 DEF TypeOK
<1>4. NothingLost'
  <2> SUFFICES ASSUME NEW k \in Activities, NEW m \in Activities, PassesThrough(Ahead, k, m)
               PROVE  m \in pdom'[k]
    BY <1>1, SameGraph, PassesThroughPrimed DEF NothingLost
  <2> QED
    BY <1>1, <1>3, PassedIsCommon DEF NarrowInv, NothingLost, Nodes
<1>5. pdom'[WORKFLOW_EXIT] = {WORKFLOW_EXIT}
  BY <1>1, <1>2, <1>3 DEF NarrowInv, Nodes
<1>6. Steady'
  <2> SUFFICES ASSUME ~changed', NEW i \in 1..Len(ExportOrder), i < at'
               PROVE  pdom'[ExportOrder[i]] = Common(ExportOrder[i])'
    BY <1>1 DEF Steady
  <2>1. ~changed /\ Common(n) = pdom[n]
    BY DEF Narrow
  <2>2. pdom' = pdom
    BY <1>1, <1>2, <2>1 DEF TypeOK, Nodes
  <2>3. Common(ExportOrder[i])' = Common(ExportOrder[i])
    BY <1>1, <2>2, SameCommon
  <2>4. i < at \/ i = at
    BY <1>1, ExportOrderListsAll
  <2> QED
    BY <1>1, <2>1, <2>2, <2>3, <2>4 DEF Steady, NarrowInv
<1> QED
  BY <1>1, <1>4, <1>5, <1>6 DEF NarrowInv

LEMMA NarrowStep ==
    ASSUME TypeOK, WalkInv, NarrowInv, [StructureNext]_structureVars
    PROVE  NarrowInv'
<1> USE DEF graphVars, walkVars, pdomVars
<1>1. CASE Draw \/ Construct \/ Root \/ Follow \/ Leave
  <2>1. stage' \in {"drawing", "walking"}
    BY <1>1 DEF Draw, Construct, Root, Follow, Leave
  <2> QED
    BY <2>1 DEF NarrowInv
<1>2. CASE Again
  <2>1. stage' = "narrowing" /\ drawn' = drawn /\ backEdges' = backEdges /\ pdom' = pdom /\ at' = 1 /\ stage = "narrowing"
    BY <1>2 DEF Again
  <2>2. Steady'
    BY <2>1, ExportOrderListsAll DEF Steady
  <2>3. NothingLost'
    BY <2>1, SameGraph, PassesThroughPrimed DEF NarrowInv, NothingLost
  <2> QED
    BY <2>1, <2>2, <2>3 DEF NarrowInv
<1>3. CASE Settled
  <2>1. /\ stage' = "made" /\ drawn' = drawn /\ backEdges' = backEdges /\ pdom' = pdom /\ at' = at /\ changed' = changed
        /\ stage = "narrowing" /\ at > Len(ExportOrder) /\ ~changed
    BY <1>3 DEF Settled
  <2>2. \A n \in Activities : pdom[n] = Common(n)
    BY <2>1, ExportOrderListsAll DEF NarrowInv, Steady, TypeOK
  <2>3. NothingLost'
    BY <2>1, SameGraph, PassesThroughPrimed DEF NarrowInv, NothingLost
  <2>4. \A n \in Activities : pdom'[n] = Common(n)'
    BY <2>1, <2>2, SameCommon
  <2>5. Steady'
    BY <2>4, ExportOrderListsAll DEF Steady
  <2> QED
    BY <2>1, <2>3, <2>4, <2>5 DEF NarrowInv
<1>4. CASE UNCHANGED structureVars
  <2>1. stage' = stage /\ drawn' = drawn /\ backEdges' = backEdges /\ pdom' = pdom /\ at' = at /\ changed' = changed
    BY <1>4 DEF structureVars
  <2>2. ASSUME NothingLost PROVE NothingLost'
    BY <2>1, <2>2, SameGraph, PassesThroughPrimed DEF NothingLost
  <2>3. ASSUME Steady PROVE Steady'
    BY <2>1, <2>3, SameCommon DEF Steady
  <2>4. ASSUME \A n \in Activities : pdom[n] = Common(n) PROVE \A n \in Activities : pdom'[n] = Common(n)'
    BY <2>1, <2>4, SameCommon
  <2> QED
    BY <2>1, <2>2, <2>3, <2>4 DEF NarrowInv
<1> QED
  BY <1>1, <1>2, <1>3, <1>4, WalkedNarrow, NarrowNarrow DEF StructureNext

(* The equations hold no more than what is passed.                            *)
LEMMA CommonIsPassed ==
    ASSUME TypeOK, NarrowInv, stage = "made", NEW n \in Activities, NEW m \in Activities, m \in pdom[n]
    PROVE  PassesThrough(Ahead, n, m)
<1>1. CASE m = n
  BY <1>1 DEF PassesThrough
<1>2. CASE m # n
  <2> DEFINE C == {a \in Activities \ {m} : m \in pdom[a]}
  <2>1. C \in SUBSET (Activities \ {m}) /\ n \in C
    BY <1>2
  <2>2. ASSUME NEW a \in C PROVE Ahead[a] # {} /\ Ahead[a] \subseteq C \cup {m}
    <3>1. a \in Activities /\ m \in Common(a) /\ m # a
      BY DEF NarrowInv
    <3>2. \A s \in OrExit(a) : m \in pdom[s]
      BY <3>1, CommonHolds
    <3>3. successors(a) # {}
      BY <3>2, GraphAssumption DEF OrExit, NarrowInv
    <3>4. Ahead[a] = successors(a) /\ OrExit(a) = successors(a) /\ successors(a) \subseteq Activities
      BY <3>1, <3>3, SuccessorsInActivities DEF Ahead, OrExit
    <3> QED
      BY <3>2, <3>3, <3>4
  <2> HIDE DEF C
  <2> QED
    BY <2>1, <2>2 DEF PassesThrough
<1> QED
  BY <1>1, <1>2

LEMMA NarrowedIsPassed ==
    ASSUME TypeOK, NarrowInv
    PROVE  MergeIsPassed
<1> SUFFICES ASSUME stage = "made", NEW n \in Activities
             PROVE  pdom[n] \ {WORKFLOW_EXIT} = {m \in Activities : PassesThrough(Ahead, n, m)}
  BY DEF MergeIsPassed, Ahead
<1>1. \A m \in Activities : m \in pdom[n] => PassesThrough(Ahead, n, m)
  BY CommonIsPassed
<1>2. \A m \in Activities : PassesThrough(Ahead, n, m) => m \in pdom[n]
  BY DEF NarrowInv, NothingLost
<1>3. pdom[n] \subseteq Nodes
  BY DEF TypeOK, Nodes
<1> QED
  BY <1>1, <1>2, <1>3, GraphAssumption DEF Nodes

(* Two places that pass each other would be on a loop.                        *)
LEMMA NotBoth ==
    ASSUME NoWayBack(Forward), NEW c \in Activities, NEW d \in Activities, c # d,
           PassesThrough(Ahead, c, d), PassesThrough(Ahead, d, c)
    PROVE  FALSE
<1>1. PICK C \in SUBSET (Activities \ {d}) :
         c \in C /\ \A a \in C : Ahead[a] # {} /\ Ahead[a] \subseteq C \cup {d}
  BY DEF PassesThrough
<1>2. PICK D \in SUBSET (Activities \ {c}) :
         d \in D /\ \A a \in D : Ahead[a] # {} /\ Ahead[a] \subseteq D \cup {c}
  BY DEF PassesThrough
<1>3. C \cup D \in Groups
  BY <1>1, <1>2 DEF Groups
<1>4. PICK n \in C \cup D : \A t \in Forward : t[1] = n => t[3] \notin C \cup D
  BY <1>3 DEF NoWayBack
<1>5. n \in Activities /\ Ahead[n] # {} /\ Ahead[n] \subseteq C \cup D
  BY <1>1, <1>2, <1>4
<1>6. PICK s : s \in successors(n)
  BY <1>5 DEF Ahead
<1>7. s \in C \cup D
  BY <1>5, <1>6 DEF Ahead
<1>8. PICK t \in Forward : t[1] = n /\ t[3] = s
  BY <1>6 DEF successors
<1> QED
  BY <1>4, <1>7, <1>8

(* Two places that are both nearest.                                          *)
LEMMA NearestIsOne ==
    ASSUME TypeOK, WalkInv, NarrowInv, stage = "made",
           NEW n \in Activities, NEW c \in Nearest(n), NEW d \in Nearest(n), c # d
    PROVE  FALSE
<1>1. c \in pdom[d] /\ d \in pdom[c] /\ c \in Nodes /\ d \in Nodes
  BY DEF Nearest, TypeOK, Nodes
<1>2. c # WORKFLOW_EXIT /\ d # WORKFLOW_EXIT
  BY <1>1 DEF NarrowInv
<1>3. c \in Activities /\ d \in Activities
  BY <1>1, <1>2 DEF Nodes
<1>4. PassesThrough(Ahead, c, d) /\ PassesThrough(Ahead, d, c)
  BY <1>1, <1>3, CommonIsPassed
<1> QED
  BY <1>3, <1>4, NotBoth, ForwardNoWayBack

(* Of activities, one leads to none of them: whatever comes after it is       *)
(* outside.                                                                   *)
LEMMA OneLeadsOut ==
    ASSUME TypeOK, WalkInv, stage = "made", NEW C \in SUBSET Activities, C # {}
    PROVE  \E a \in C : \A s \in OrExit(a) : s \notin C
<1>1. PICK a \in C : \A t \in Forward : t[1] = a => t[3] \notin C
  BY ForwardNoWayBack DEF NoWayBack, Groups
<1>2. \A s \in successors(a) : s \notin C
  BY <1>1 DEF successors
<1> QED
  BY <1>2, GraphAssumption DEF OrExit

(* All paths come to the exit of the workflow.                                *)
LEMMA AllPathsEnd ==
    ASSUME TypeOK, WalkInv, NarrowInv, stage = "made", NEW n \in Nodes
    PROVE  WORKFLOW_EXIT \in pdom[n]
<1> DEFINE C == {a \in Activities : WORKFLOW_EXIT \notin pdom[a]}
<1>1. C = {}
  <2> SUFFICES ASSUME C # {} PROVE FALSE
    OBVIOUS
  <2>1. PICK a \in C : \A s \in OrExit(a) : s \notin C
    <3>1. C \in SUBSET Activities
      OBVIOUS
    <3> HIDE DEF C
    <3> QED
      BY <3>1, OneLeadsOut
  <2>2. a \in Activities /\ OrExit(a) \subseteq Nodes
    BY SuccessorsInActivities
  <2>3. \A s \in OrExit(a) : WORKFLOW_EXIT \in pdom[s]
    BY <2>1, <2>2 DEF NarrowInv, Nodes
  <2>4. WORKFLOW_EXIT \in Common(a)
    BY <2>2, <2>3, MeetHolds
  <2> QED
    BY <2>2, <2>4 DEF NarrowInv
<1> QED
  BY <1>1 DEF Nodes, NarrowInv

(* Of what all paths from n pass, n apart, something is passed before the     *)
(* rest: go from n as long as what is ahead is passed and not yet reached; the*)
(* step that ends this is to the place.                                       *)
LEMMA NearestIsThere ==
    ASSUME TypeOK, WalkInv, NarrowInv, stage = "made", NEW n \in Activities
    PROVE  \E c \in Nodes : c \in Nearest(n)
<1> DEFINE S == pdom[n] \ {n}
           C == {a \in Activities \ S : S \subseteq pdom[a]}
<1>1. S \subseteq Nodes /\ WORKFLOW_EXIT \in S
  BY AllPathsEnd, GraphAssumption DEF TypeOK, Nodes
<1>2. C \in SUBSET Activities /\ n \in C
  OBVIOUS
<1>3. PICK a \in C : \A s \in OrExit(a) : s \notin C
  <2> HIDE DEF C
  <2> QED
    BY <1>2, OneLeadsOut
<1>4. a \in Activities /\ a \notin S /\ S \subseteq Common(a)
  BY <1>3 DEF NarrowInv
<1>5. PICK s : s \in OrExit(a)
  BY DEF OrExit
<1>6. s \in Nodes /\ S \subseteq pdom[s]
  <2>1. s \in Nodes
    BY <1>4, <1>5, SuccessorsInActivities
  <2>2. ASSUME NEW m \in S PROVE m \in pdom[s]
    BY <1>4, <1>5, <2>2, CommonHolds
  <2> QED
    BY <2>1, <2>2
<1>7. s \in S
  <2>1. CASE s = WORKFLOW_EXIT
    BY <1>1, <2>1
  <2>2. CASE s # WORKFLOW_EXIT
    BY <1>3, <1>5, <1>6, <2>2 DEF Nodes
  <2> QED
    BY <2>1, <2>2
<1> QED
  BY <1>6, <1>7 DEF Nearest

(******************************************************************************)
(* The theorems                                                               *)
(******************************************************************************)
(* Whatever workflow is drawn, the types, the walk and the iteration are      *)
(* sound at every moment of the construction.                                 *)
THEOREM StructureSafe == StructureSpec => []StructureInv
<1>1. StructureInit => StructureInv
  BY TypeInit, WalkInit, NarrowInit DEF StructureInv
<1>2. StructureInv /\ [StructureNext]_structureVars => StructureInv'
  BY TypeStep, WalkStep, NarrowStep DEF StructureInv, WalkInv
<1> QED
  BY <1>1, <1>2, PTL DEF StructureSpec

(* findBackEdges leaves no way back to where one has been, and takes out only *)
(* what closes a loop.                                                        *)
THEOREM LoopsAreBroken == StructureSpec => []LoopsBroken
<1>1. StructureInv => LoopsBroken
  BY WalkBreaksLoops DEF StructureInv
<1> QED
  BY <1>1, StructureSafe, PTL

(* computePostDominators ends with exactly the activities all paths pass.     *)
THEOREM MergesArePassed == StructureSpec => []MergeIsPassed
<1>1. StructureInv => MergeIsPassed
  BY NarrowedIsPassed DEF StructureInv
<1> QED
  BY <1>1, StructureSafe, PTL

(* There is always one place where paths come back together before any       *)
(* other, and only one: two of them would be on a loop, and the loops are     *)
(* taken out.                                                                 *)
THEOREM MergesAreUnique == StructureSpec => []OneMerge
<1>1. StructureInv => OneMerge
  <2> SUFFICES ASSUME StructureInv, stage = "made", NEW n \in Activities
               PROVE  \E c \in Nodes : Nearest(n) = {c}
    BY DEF OneMerge
  <2>1. TypeOK /\ WalkInv /\ NarrowInv
    BY DEF StructureInv
  <2>2. PICK c \in Nodes : c \in Nearest(n)
    BY <2>1, NearestIsThere
  <2>3. \A d \in Nearest(n) : d = c
    BY <2>1, <2>2, NearestIsOne
  <2> QED
    BY <2>2, <2>3
<1> QED
  BY <1>1, StructureSafe, PTL
================================================================================
