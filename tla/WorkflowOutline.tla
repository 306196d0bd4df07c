---------------------------- MODULE WorkflowOutline ----------------------------
(* src/sn/workflow/WorkflowStructure.ts: the outline of an exported         *)
(* workflow that is read and converted instead of the graph.                *)
(*                                                                          *)
(* The behaviour makes the structure of a workflow (WorkflowStructure);     *)
(* what is computed from it is then an operator on the structure s: the     *)
(* exits and merges, and the outline.                                       *)
EXTENDS WorkflowStructure

CONSTANTS
    Ends,           \* the End activities
    JoinChoices     \* which activities may be Joins

VARIABLES
    structure,      \* what is asked of the structure, once it is made
    outline         \* the outline, once it is built

vars == <<structureVars, structure, outline>>

RECURSIVE Sorted(_)
Sorted(S) == IF S = {} THEN <<>> ELSE <<Min(S)>> \o Sorted(S \ {Min(S)})

Flatten(seqs) == FoldLeft(LAMBDA all, s : all \o s, <<>>, seqs)

RECURSIVE Closure(_, _)
(* What can be reached from S by the successor function.                    *)
Closure(succ, S) ==
    LET T == S \cup UNION {succ[n] : n \in S}
    IN IF T = S THEN S ELSE Closure(succ, T)

(****************************************************************************)
(* The graph                                                                *)
(****************************************************************************)
(* Exits in their order, the unknown one last if any path leaves by it.     *)
ExitOrder(w, n) ==
    [i \in 1..ExitsOf[n] |-> i] \o (IF \E t \in Kept(w) : t[1] = n /\ t[2] = UnknownExit THEN <<UnknownExit>> ELSE <<>>)

Targets(w, n, e) == Sorted({t[3] : t \in {k \in Kept(w) : k[1] = n /\ k[2] = e}})

Successors(w) == [n \in Activities |-> {t[3] : t \in {k \in Kept(w) : k[1] = n}}]

reach(w, root) == Closure(Successors(w), {root})

(****************************************************************************)
(* Where paths come back together                                           *)
(****************************************************************************)
ipdom(n) == IF Nearest(n) = {} THEN WORKFLOW_EXIT ELSE CHOOSE c \in Nearest(n) : TRUE

RECURSIVE Level(_, _, _)
Level(w, S, a) == IF a \in S THEN 0 ELSE 1 + Level(w, S \cup UNION {Successors(w)[n] : n \in S}, a)

(* How far an activity is from the root; unreached ones count as far away.  *)
distance(w, root, a) == IF a \in reach(w, root) THEN Level(w, {root}, a) ELSE 1000000

(* Parallel lanes rejoin at the nearest Join that all of them reach, when   *)
(* the post-dominator is none and the Join does not come after it.          *)
mergeOf(s, n) ==
    LET merge == s.ipdom[n]
        parallel == \E i \in DOMAIN s.exits[n] : Len(s.exits[n][i].forward) > 1
        later == IF merge = WORKFLOW_EXIT THEN {} ELSE reach(s.w, merge)
        shared == {j \in s.joins \ later : \A t \in s.succ[n] : j \in reach(s.w, t)}
        Nearer(a, b) == \/ distance(s.w, n, a) < distance(s.w, n, b)
                        \/ distance(s.w, n, a) = distance(s.w, n, b) /\ a <= b
    IN IF parallel /\ merge \notin s.joins /\ shared # {}
       THEN CHOOSE j \in shared : \A k \in shared : Nearer(j, k)
       ELSE merge

(* What is asked of the structure of a workflow whose Joins are J, computed *)
(* once.                                                                    *)
Structure(J) ==
    LET ExitOf(n, e) ==
            LET targets == Targets(drawn, n, e)
            IN [exit |-> e,
                forward |-> SelectSeq(targets, LAMBDA t : <<n, e, t>> \notin backEdges),
                loop |-> SelectSeq(targets, LAMBDA t : <<n, e, t>> \in backEdges)]
        s == [w |-> drawn, joins |-> J, succ |-> [n \in Activities |-> successors(n)],
              exits |-> [n \in Activities |-> LET order == ExitOrder(drawn, n) IN [i \in DOMAIN order |-> ExitOf(n, order[i])]],
              ipdom |-> [n \in Activities |-> ipdom(n)]]
    IN s @@ [merge |-> [n \in Activities |-> mergeOf(s, n)]]

forwardReach(s, root) == Closure(s.succ, {root})

(****************************************************************************)
(* The outline                                                              *)
(****************************************************************************)
NoMain == 99

Step(s, n, number) ==
    [kind |-> "step", activity |-> n, number |-> number, decision |-> ExitsOf[n] > 1,
     loops |-> Flatten([i \in DOMAIN s.exits[n] |-> s.exits[n][i].loop]),
     branches |-> <<>>, direct |-> {}, main |-> NoMain]

Live(s, n) == SelectSeq(s.exits[n], LAMBDA e : e.forward # <<>>)

(* The lines a step's branches stop at: those of the sequence it is in and  *)
(* the place where its own paths rejoin.                                    *)
Merge(s, n, stops) ==
    LET m == s.merge[n]
    IN IF m \in Ends /\ m \notin stops THEN WORKFLOW_EXIT ELSE m

Inner(s, n, stops) == stops \cup ({Merge(s, n, stops)} \ {WORKFLOW_EXIT})

(* Mutant: an exit that splits counts as direct by its first path.          *)
DirectByFirst(s, n, stops, e) == e.forward[1] \in Inner(s, n, stops)

IsDirect(s, n, stops, e) == Len(e.forward) = 1 /\ e.forward[1] \in Inner(s, n, stops)

Direct(s, n, stops) == SelectSeq(Live(s, n), LAMBDA e : IsDirect(s, n, stops, e))

Branching(s, n, stops) == SelectSeq(Live(s, n), LAMBDA e : ~IsDirect(s, n, stops, e))

(* A decision whose paths never rejoin reads on with the exit that leads    *)
(* furthest; the others become its branches.                                *)
MainExit(s, n, stops) ==
    LET branching == Branching(s, n, stops)
        single == SelectSeq(branching, LAMBDA e : Len(e.forward) = 1)
        Size(e) == Cardinality(forwardReach(s, e.forward[1]))
    IN IF Merge(s, n, stops) = WORKFLOW_EXIT /\ ExitsOf[n] > 1 /\ Len(branching) > 1 /\ single # <<>>
       THEN FoldLeft(LAMBDA best, e : IF best = <<>> \/ Size(e) > Size(best[1]) THEN <<e>> ELSE best, <<>>, single)
       ELSE <<>>

RECURSIVE Sequence(_, _, _, _, _, _)

(* The items so far, and the activities numbered so far.                    *)
Reading(items, numbers) == [items |-> items, numbers |-> numbers]

Then(items, rest) == Reading(items \o rest.items, rest.numbers)

(* The lanes of the branches of a step, read one after the other.           *)
Lanes(s, e, stops, ahead, numbers) ==
    FoldLeft(LAMBDA done, t :
                LET lane == Sequence(s, t, stops, ahead, done.numbers, TRUE)
                IN Reading(Append(done.items, lane.items), lane.numbers),
             Reading(<<>>, numbers), e.forward)

Branches(s, n, stops, ahead, numbers, main) ==
    LET others == SelectSeq(Branching(s, n, stops), LAMBDA e : main = <<>> \/ e # main[1])
    IN FoldLeft(LAMBDA done, e :
                   LET lanes == Lanes(s, e, Inner(s, n, stops), ahead, done.numbers)
                   IN Reading(Append(done.items, [exit |-> e.exit, lanes |-> lanes.items]), lanes.numbers),
                Reading(<<>>, numbers), others)

Rejoin(s, n, stops) ==
    LET branching == Branching(s, n, stops)
        merge == Merge(s, n, stops)
        split == \E i \in DOMAIN branching : Len(branching[i].forward) > 1
    IN IF split /\ merge \notin s.joins \cup Ends THEN <<[kind |-> "rejoin", withoutJoin |-> TRUE]>>
       ELSE IF branching # <<>> /\ Direct(s, n, stops) = <<>> THEN <<[kind |-> "rejoin", withoutJoin |-> FALSE]>>
       ELSE <<>>

(* The paths of the main exit are read after the branches, not in them.     *)
Ahead(s, ahead, main) == IF main = <<>> THEN ahead ELSE ahead \cup forwardReach(s, main[1].forward[1])

(* What is read from activity n on, up to one of the stops.                 *)
Sequence(s, n, stops, ahead, numbers, first) ==
    IF n = WORKFLOW_EXIT THEN Reading(<<>>, numbers)
    ELSE IF n \in stops THEN Reading(IF first THEN <<[kind |-> "rejoinsBelow"]>> ELSE <<>>, numbers)
    ELSE IF n \in Ends THEN Reading(<<[kind |-> "end", activity |-> n]>>, numbers)
    ELSE IF n \in ToSet(numbers) \cup ahead THEN Reading(<<[kind |-> "goto", target |-> n]>>, numbers)
    ELSE LET numbered == Append(numbers, n)
             step == Step(s, n, Len(numbered))
             live == Live(s, n)
         IN IF live = <<>> THEN Reading(<<step>>, numbered)
            ELSE IF Len(live) = 1 /\ Len(live[1].forward) = 1
            THEN Then(<<IF step.decision THEN [step EXCEPT !.main = live[1].exit] ELSE step>>,
                      Sequence(s, live[1].forward[1], stops, ahead, numbered, FALSE))
            ELSE LET main == MainExit(s, n, stops)
                     merge == Merge(s, n, stops)
                     branches == Branches(s, n, stops, Ahead(s, ahead, main), numbered, main)
                     full == [step EXCEPT !.branches = branches.items,
                                          !.direct = {e.exit : e \in ToSet(Direct(s, n, stops))},
                                          !.main = IF main = <<>> THEN NoMain ELSE main[1].exit]
                 IN IF main # <<>>
                    THEN Then(<<full>>, Sequence(s, main[1].forward[1], stops, ahead, branches.numbers, FALSE))
                    ELSE IF merge = WORKFLOW_EXIT \/ merge \in stops THEN Reading(<<full>>, branches.numbers)
                    ELSE IF merge \in ToSet(branches.numbers)
                    THEN Reading(<<full, [kind |-> "goto", target |-> merge]>>, branches.numbers)
                    ELSE Then(<<full>> \o Rejoin(s, n, stops),
                              Sequence(s, merge, stops, ahead, branches.numbers, FALSE))

Orphans(s) == Activities \ reach(s.w, Begin)

Sources(s) == {a \in Orphans(s) : \A t \in incoming(s.w, a) : t[1] \notin Orphans(s)}

(* Mutant: what only loops lead to is forgotten.                            *)
SourcesOnly(s) == Sorted(Sources(s))

(* What Begin does not reach: what nothing leads to, then the rest.         *)
UnreachableRoots(s) == Sorted(Sources(s)) \o Sorted(Orphans(s))

buildOutline(s) ==
    LET main == Sequence(s, Begin, {}, {}, <<>>, TRUE)
        Beside(done, root) ==
            IF root \in ToSet(done.numbers) THEN done
            ELSE LET more == Sequence(s, root, {}, {}, done.numbers, TRUE)
                 IN Reading(Append(done.items, more.items), more.numbers)
        unreachable == FoldLeft(Beside, Reading(<<>>, main.numbers), UnreachableRoots(s))
    IN [main |-> main.items, unreachable |-> unreachable.items, numbers |-> unreachable.numbers]

(****************************************************************************)
(* Every workflow                                                           *)
(****************************************************************************)
NotYet == <<>>

Init ==
    /\ StructureInit
    /\ structure = NotYet /\ outline = NotYet

Construction ==
    /\ StructureNext
    /\ UNCHANGED <<structure, outline>>

(* buildOutline(structure), whichever activities are Joins.                 *)
Outline ==
    /\ stage = "made" /\ outline = NotYet
    /\ \E J \in JoinChoices : structure' = Structure(J)
    /\ outline' = buildOutline(structure')
    /\ UNCHANGED structureVars

Next == Construction \/ Outline

Spec == Init /\ [][Next]_vars

(****************************************************************************)
(* Properties                                                               *)
(****************************************************************************)
RECURSIVE StepsIn(_)
(* The activities that are steps of a sequence, in reading order.           *)
StepsIn(items) ==
    Flatten([i \in DOMAIN items |-> IF items[i].kind # "step" THEN <<>> ELSE
        <<items[i].activity>> \o Flatten([b \in DOMAIN items[i].branches |->
            Flatten([l \in DOMAIN items[i].branches[b].lanes |-> StepsIn(items[i].branches[b].lanes[l])])])])

(* Every activity but the Ends is read exactly once, with its number.       *)
EveryActivityOnce ==
    outline # NotYet =>
    LET steps == StepsIn(outline.main) \o Flatten([i \in DOMAIN outline.unreachable |-> StepsIn(outline.unreachable[i])])
    IN /\ ToSet(steps) = Activities \ Ends
       /\ IsInjective(steps)
       /\ ToSet(outline.numbers) = ToSet(steps)

Nowhere == {}

(* Where reading an item leads first; "below" is where its sequence goes on.*)
Entered(items, below) ==
    IF items = <<>> THEN below
    ELSE LET i == Head(items)
         IN CASE i.kind \in {"step", "end"} -> {i.activity} [] i.kind = "goto" -> {i.target}
              [] OTHER -> IF Len(items) > 1 THEN (LET j == items[2] IN IF j.kind = "goto" THEN {j.target} ELSE {j.activity}) ELSE below

RECURSIVE Ways(_, _, _)
(* The ways from activity to activity that a reader of the outline sees. A  *)
(* step all of whose exits are dead or loop back is the last of its path.   *)
Ways(s, items, below) ==
    IF items = <<>> THEN {}
    ELSE LET i == Head(items)
             after == Entered(Tail(items), below)
             onward == s.succ[i.activity] # {} /\ (i.branches = <<>> \/ i.direct # {} \/ i.main # NoMain)
             lanes == UNION {ToSet(b.lanes) : b \in ToSet(i.branches)}
         IN Ways(s, Tail(items), below) \cup
            IF i.kind # "step" THEN {}
            ELSE {<<i.activity, t>> : t \in IF onward THEN after ELSE {}}
                 \cup UNION {{<<i.activity, t>> : t \in Entered(lane, after)} \cup Ways(s, lane, after) : lane \in lanes}

(* The outline says what the workflow does: where paths rejoin at a place   *)
(* that all of them pass, reading it one comes from an activity to exactly  *)
(* those it leads to without looping.                                       *)
OutlineIsTheWorkflow ==
    outline # NotYet /\ structure.merge = structure.ipdom =>
       Ways(structure, outline.main, Nowhere)
          \cup UNION {Ways(structure, items, Nowhere) : items \in ToSet(outline.unreachable)}
       = {<<n, t>> \in (Activities \ Ends) \X Activities : t \in structure.succ[n]}
================================================================================
