------------------------------ MODULE FlowDebugger ------------------------------
(***************************************************************************)
(* The flow debugger: start, commands, breakpoints, cancel, runTo and      *)
(* withSession, called by several clients on the runs of one instance.     *)
(*                                                                         *)
(* A run is a tree of contexts, one for each subflow it calls; the engine  *)
(* of the instance moves the contexts by itself.  An action of a client is *)
(* one request with its answer, so everything may move between two of      *)
(* them.  Every request may fail, and one that changes something may do so *)
(* although it fails.                                                      *)
(*                                                                         *)
(* Source: src/src/sn/flow/FlowDebugger.ts.  The engine is external; that  *)
(* a cancel ends a context and perhaps its children, not those below, and  *)
(* may be ignored, is what cancel and its tests say of it.                 *)
(***************************************************************************)
EXTENDS Naturals, Sequences, FiniteSets, SequencesExt, FiniteSetsExt

CONSTANTS
    Clients,      \* concurrent callers
    Ops,          \* the methods they call
    MaxDepth,     \* MAX_DEPTH: how deep a chain of subflows is followed
    Polls,        \* observations of waitFor after the first, before its deadline
    Attempts,     \* attempts of settleCancel after the first
    Initial,      \* the contexts there are at first: parent, debug and state
    MaxContexts,  \* bound: contexts on the instance
    MaxOrder,     \* bound: commands one context executes
    MaxCalls,     \* bound: calls of the clients
    MaxWork       \* bound: commands the work of one session sends

NoContext == 0
ENDED == {"complete", "cancelled"}
OPEN == {"executing", "waiting", "paused"}

(* Initial is what the engine leaves behind: a subflow is debugged exactly  *)
(* when its caller is, and a debugged context that called one waits for it, *)
(* or has ended itself.                                                     *)
ASSUME FlowDebuggerAssumption ==
    /\ Ops \subseteq {"inspect", "command", "setBreakpoints", "cancel", "start",
                      "withSession", "runTo", "runToResume", "runToStay"}
    /\ Initial \in Seq([parent : Nat, debug : BOOLEAN, state : ENDED \cup OPEN])
    /\ Len(Initial) \in 1..MaxContexts
    /\ \A x \in DOMAIN Initial :
         LET p == Initial[x].parent IN
         /\ p \in 0..(x - 1)
         /\ p # NoContext =>
              /\ Initial[x].debug = Initial[p].debug
              /\ Initial[x].debug /\ Initial[x].state \in OPEN =>
                   /\ Initial[p].state \in ENDED \cup {"waiting"}
                   /\ \A y \in DOMAIN Initial :
                        Initial[y].parent = p /\ Initial[y].state \in OPEN => y = x
    /\ MaxDepth \in Nat \ {0} /\ MaxContexts \in Nat
    /\ Polls \in Nat /\ Attempts \in Nat
    /\ MaxOrder \in Nat /\ MaxCalls \in Nat /\ MaxWork \in Nat

VARIABLES
    ctx,    \* the contexts of the instance, in the order they were created
    call,   \* what each client is doing, or the outcome of its last call
    calls   \* calls so far

vars == <<ctx, call, calls>>

NewContext(parent, debug) ==
    [state |-> "executing", parent |-> parent, debug |-> debug, order |-> 0, posted |-> {}]

Contexts == DOMAIN ctx
open(x) == ctx[x].state \in OPEN
childrenOf(x) == {d \in Contexts : ctx[d].parent = x}

(* The contexts at most k calls below x, and x itself. *)
within[k \in 0..MaxDepth] ==
    [x \in Contexts |->
        {x} \cup (IF k = 0 THEN {} ELSE UNION {within[k - 1][d] : d \in childrenOf(x)})]

below(x) == within[MaxDepth][x] \ {x}

(* The context k calls above x, or the root if there are fewer. *)
above[k \in 0..MaxDepth] ==
    [x \in Contexts |->
        IF k = 0 \/ ctx[x].parent = NoContext THEN x ELSE above[k - 1][ctx[x].parent]]

rootOf(x) == above[MaxDepth][x]

(* A client's call.  Its stage is what a failure depends on, `outcome` what *)
(* it comes to once its cancel is through; `first` and `after` say whether  *)
(* the root had ended when cancel read it first, and last.  `tree` is       *)
(* history: the contexts below the root when cancel was called.             *)
Fresh ==
    [op |-> "none", pc |-> "idle", stage |-> "none", why |-> "none", root |-> NoContext,
     chain |-> << >>, state |-> "none", order |-> 0, before |-> << >>, polls |-> 0,
     waited |-> FALSE, work |-> 0, first |-> FALSE, after |-> FALSE, walked |-> 0,
     level |-> {}, next |-> {}, depth |-> 0, seen |-> {}, found |-> {},
     cur |-> NoContext, outcome |-> "none", ended |-> FALSE, tree |-> {}]

Init ==
    /\ ctx = [x \in DOMAIN Initial |->
                [NewContext(Initial[x].parent, Initial[x].debug) EXCEPT !.state = Initial[x].state]]
    /\ call = [cl \in Clients |-> Fresh]
    /\ calls = 0

--------------------------------------------------------------------------------
(* The steps of a call, as functions of its record c *)

finished(c, outcome, ended) ==
    [Fresh EXCEPT !.op = c.op, !.root = IF outcome = "ok" \/ ended THEN c.root ELSE NoContext,
                  !.outcome = outcome, !.ended = ended,
                  !.tree = IF ended THEN c.tree ELSE {}]

cancelling(c, root, outcome) ==
    [Fresh EXCEPT !.op = c.op, !.pc = "first", !.stage = "cancelling", !.root = root,
                  !.outcome = outcome, !.tree = below(root)]

(* An error: a session that has a run cancels it; runTo does so again when  *)
(* the cancel itself failed.                                                *)
throws(c) ==
    CASE c.stage = "cancelling" /\ c.op = "runTo" /\ c.outcome = "ok" ->
           cancelling(c, c.root, "error")
      [] c.stage \in {"starting", "working"} /\ c.root # NoContext ->
           cancelling(c, c.root, "error")
      [] OTHER -> finished(c, "error", FALSE)

observing(c, why) ==
    [c EXCEPT !.pc = "read", !.why = why, !.chain = <<c.root>>, !.state = "none", !.order = 0]

waiting(c, why) ==
    [observing(c, why) EXCEPT !.polls = Polls, !.waited = FALSE]

(* The run is set up: start returns the session, the others go on with it. *)
started(c) ==
    IF c.op = "start" THEN finished(c, "ok", FALSE)
    ELSE [c EXCEPT !.pc = "work", !.stage = "working", !.why = "none", !.chain = << >>]

commandReturned(c, timedOut) ==
    IF c.op = "command"
    THEN [finished(c, "ok", FALSE) EXCEPT !.before = IF timedOut THEN << >> ELSE c.before]
    ELSE [c EXCEPT !.pc = "work", !.why = "none", !.before = << >>, !.chain = << >>]

(* One listing of openDescendants: ended contexts are walked through. *)
visit(c, p) ==
    LET kids == childrenOf(p) \ c.seen
    IN  [c EXCEPT !.level = @ \ {p}, !.seen = @ \cup kids, !.next = @ \cup kids,
                  !.found = @ \cup {d \in kids : open(d)}]

openDescendants(c) ==
    [c EXCEPT !.pc = "walk", !.level = {c.root}, !.next = {}, !.depth = 0, !.seen = {c.root},
              !.walked = @ + 1]

(* Every descendant found is ended: the root is tried once more if need be. *)
childrenEnded(c) ==
    IF c.after THEN finished(c, IF c.outcome = "error" THEN "error" ELSE "ok", TRUE)
    ELSE [c EXCEPT !.pc = "cancel", !.cur = c.root]

walkEnded(c) ==
    CASE c.walked = 1 /\ c.first /\ c.found = {} ->
           finished(c, IF c.outcome = "error" THEN "error" ELSE "ok", TRUE)
      [] c.walked = 1 /\ c.first /\ c.found # {} ->
           openDescendants([c EXCEPT !.after = TRUE])
      [] c.walked = 1 /\ ~c.first -> [c EXCEPT !.pc = "cancel", !.cur = c.root]
      [] OTHER -> [c EXCEPT !.pc = "child"]

(* Mutant: the answer to the cancel is trusted. *)
settledTrusting(c, state) ==
    IF c.cur = c.root /\ c.walked = 1 THEN openDescendants([c EXCEPT !.after = TRUE])
    ELSE IF c.cur = c.root THEN childrenEnded([c EXCEPT !.after = TRUE])
    ELSE [c EXCEPT !.pc = "child"]

(* Mutant: the tree is walked again after every cancel of the root. *)
settledAgain(c, state) ==
    IF c.cur = c.root THEN openDescendants([c EXCEPT !.after = state \in ENDED])
    ELSE IF state \in ENDED THEN [c EXCEPT !.pc = "child"] ELSE throws(c)

(* settleCancel is over, with the state it read last. *)
settled(c, state) ==
    CASE c.cur = c.root /\ c.walked = 1 ->
           openDescendants([c EXCEPT !.cur = NoContext, !.after = state \in ENDED])
      [] c.cur = c.root /\ c.walked = 2 ->
           IF state \in ENDED THEN childrenEnded([c EXCEPT !.after = TRUE]) ELSE throws(c)
      [] OTHER -> IF state \in ENDED THEN [c EXCEPT !.pc = "child", !.cur = NoContext] ELSE throws(c)

(* A request to context x that the engine is yet to act on. *)
posts(x, what) == ctx' = [ctx EXCEPT ![x].posted = IF open(x) THEN @ \cup {what} ELSE @]

becomes(cl, c) == call' = [call EXCEPT ![cl] = c]

--------------------------------------------------------------------------------
(* Calls and observations *)

begin(cl) ==
    /\ call[cl].pc = "idle" /\ calls < MaxCalls
    /\ calls' = calls + 1
    /\ UNCHANGED ctx
    /\ \E op \in Ops, x \in Contexts, work \in 0..MaxWork :
         LET c == [Fresh EXCEPT !.op = op] IN
         CASE op \in {"inspect", "command", "setBreakpoints"} ->
                work = 0 /\ becomes(cl, observing([c EXCEPT !.stage = "single", !.root = x], op))
           [] op = "cancel" -> work = 0 /\ becomes(cl, cancelling(c, rootOf(x), "none"))
           [] OTHER ->
                /\ x = 1
                /\ op = "start" => work = 0
                /\ op \in {"runTo", "runToStay"} => work <= 1
                /\ op = "runToResume" => work \in 1..2
                /\ becomes(cl, [c EXCEPT !.pc = "launch", !.stage = "starting", !.work = work])

(* The start request: it launches a run, which its answer names, or none. *)
launch(cl) ==
    /\ call[cl].pc = "launch"
    /\ \/ /\ Len(ctx) < MaxContexts
          /\ ctx' = Append(ctx, NewContext(NoContext, TRUE))
          /\ becomes(cl, waiting([call[cl] EXCEPT !.root = Len(ctx) + 1], "first"))
       \/ UNCHANGED ctx /\ becomes(cl, throws(call[cl]))
    /\ UNCHANGED calls

(* Mutant: the fingerprint is not compared. *)
movedAlways(c) == TRUE

moved(c) == c.why = "first" \/ <<c.chain, c.state, c.order>> # c.before

(* The end of an observation, and what it was made for.  The deadline may   *)
(* pass before all polls were made: an answer may take its time.            *)
observed(cl, c) ==
    CASE c.why = "inspect" -> becomes(cl, finished(c, "ok", FALSE))
      [] c.why = "command" ->
           becomes(cl, IF ctx[c.root].debug /\ c.state = "paused"
                       THEN [c EXCEPT !.pc = "command", !.before = <<c.chain, c.state, c.order>>]
                       ELSE throws(c))
      [] c.why = "setBreakpoints" ->
           becomes(cl, IF ctx[c.root].debug /\ c.state \notin ENDED
                       THEN [c EXCEPT !.pc = "breakpoints"] ELSE throws(c))
      [] OTHER ->
           \E lasted \in {FALSE, c.waited}, late \in BOOLEAN :
             LET still == c.state = "executing" \/ (c.state = "waiting" /\ ~lasted)
                 done == moved(c) /\ ~still
             IN  /\ c.polls = 0 => late
                 /\ IF done \/ late
                    THEN becomes(cl, IF c.why = "first" THEN [c EXCEPT !.pc = "setup"]
                                     ELSE commandReturned(c, ~done))
                    ELSE becomes(cl, [observing(c, c.why) EXCEPT
                                        !.polls = @ - 1, !.waited = (c.state = "waiting")])

read(cl) ==
    LET c == call[cl]
        x == Last(c.chain)
        seen == [c EXCEPT !.state = ctx[x].state, !.order = ctx[x].order]
    IN  /\ c.pc = "read"
        /\ IF ctx[x].state = "waiting" /\ Len(c.chain) <= MaxDepth
           THEN becomes(cl, [seen EXCEPT !.pc = "children"])
           ELSE observed(cl, seen)
        /\ UNCHANGED <<ctx, calls>>

(* The open children of the context read last: a paused one first, then the *)
(* newest.                                                                  *)
openChildren(cl) ==
    LET c == call[cl]
        opened == {d \in childrenOf(Last(c.chain)) : open(d)}
        paused == {d \in opened : ctx[d].state = "paused"}
    IN  /\ c.pc = "children"
        /\ IF opened = {} THEN observed(cl, c)
           ELSE becomes(cl, [c EXCEPT !.pc = "read",
                               !.chain = Append(@, Max(IF paused # {} THEN paused ELSE opened))])
        /\ UNCHANGED <<ctx, calls>>

(* The locations are read, and breakpoints set if the run is paused and     *)
(* there are any; runTo always has some.                                    *)
setup(cl) ==
    LET c == call[cl] IN
    /\ c.pc = "setup"
    /\ \/ /\ c.state = "paused" => c.op \in {"start", "withSession"}
          /\ becomes(cl, started(c))
       \/ c.state = "paused" /\ becomes(cl, observing(c, "setBreakpoints"))
    /\ UNCHANGED <<ctx, calls>>

(* The breakpoints are sent and read back. *)
setBreakpoints(cl) ==
    LET c == call[cl] IN
    /\ c.pc = "breakpoints"
    /\ becomes(cl, IF c.stage = "starting" THEN started(c) ELSE finished(c, "ok", FALSE))
    /\ UNCHANGED <<ctx, calls>>

command(cl) ==
    LET c == call[cl]
        target == Last(c.chain)
    IN  /\ c.pc = "command"
        /\ IF ctx[target].state = "paused"
           THEN /\ posts(target, "command")
                /\ becomes(cl, waiting(c, "after"))
           ELSE UNCHANGED ctx /\ becomes(cl, throws(c))
        /\ UNCHANGED calls

(* The work of a session: commands, then the end or an error of its own;    *)
(* runTo sends its commands as long as the run is paused.                   *)
work(cl) ==
    LET c == call[cl] IN
    /\ c.pc = "work"
    /\ \/ /\ c.work > 0 /\ (c.op # "withSession" => c.state = "paused")
          /\ becomes(cl, observing([c EXCEPT !.work = @ - 1], "command"))
       \/ /\ c.op = "withSession" \/ c.work = 0 \/ c.state # "paused"
          /\ becomes(cl, IF c.op \in {"withSession", "runTo"} THEN cancelling(c, c.root, "ok")
                         ELSE finished(c, "ok", FALSE))
       \/ c.op = "withSession" /\ becomes(cl, throws(c))
    /\ UNCHANGED <<ctx, calls>>

--------------------------------------------------------------------------------
(* cancel *)

(* Mutant: the mode of the context is not asked for. *)
readRootAny(cl) ==
    LET c == call[cl] IN
    /\ c.pc = "first"
    /\ becomes(cl, openDescendants([c EXCEPT !.first = ~open(c.root)]))
    /\ UNCHANGED <<ctx, calls>>

readRoot(cl) ==
    LET c == call[cl] IN
    /\ c.pc = "first"
    /\ becomes(cl, IF ctx[c.root].debug
                   THEN openDescendants([c EXCEPT !.first = ~open(c.root)]) ELSE throws(c))
    /\ UNCHANGED <<ctx, calls>>

walk(cl) ==
    LET c == call[cl] IN
    /\ c.pc = "walk"
    /\ \E p \in c.level :
         LET w == visit(c, p) IN
         becomes(cl, IF w.level # {} THEN w
                     ELSE IF w.next # {} /\ w.depth + 1 < MaxDepth
                     THEN [w EXCEPT !.level = w.next, !.next = {}, !.depth = @ + 1]
                     ELSE walkEnded([w EXCEPT !.next = {}, !.seen = {}, !.depth = 0]))
    /\ UNCHANGED <<ctx, calls>>

postCancel(cl) ==
    LET c == call[cl] IN
    /\ c.pc = "cancel"
    /\ posts(c.cur, "cancel")
    /\ becomes(cl, [c EXCEPT !.pc = "settle", !.polls = Attempts])
    /\ UNCHANGED calls

(* Mutant: the attempts are not counted. *)
settleCancelForever(cl) ==
    LET c == call[cl] IN
    /\ c.pc = "settle"
    /\ becomes(cl, IF open(c.cur) THEN c ELSE settled([c EXCEPT !.polls = 0], ctx[c.cur].state))
    /\ UNCHANGED <<ctx, calls>>

settleCancel(cl) ==
    LET c == call[cl] IN
    /\ c.pc = "settle"
    /\ becomes(cl, IF open(c.cur) /\ c.polls > 0 THEN [c EXCEPT !.polls = @ - 1]
                   ELSE settled([c EXCEPT !.polls = 0], ctx[c.cur].state))
    /\ UNCHANGED <<ctx, calls>>

(* The next of the descendants found is read, and cancelled if it is open. *)
nextChild(cl) ==
    LET c == call[cl] IN
    /\ c.pc = "child"
    /\ IF c.found = {} THEN becomes(cl, childrenEnded(c))
       ELSE \E x \in c.found :
              LET rest == [c EXCEPT !.found = @ \ {x}]
              IN  becomes(cl, IF open(x) THEN [rest EXCEPT !.pc = "cancel", !.cur = x] ELSE rest)
    /\ UNCHANGED <<ctx, calls>>

--------------------------------------------------------------------------------
(* A request fails, and what it asked for may have happened all the same. *)
requestFails(cl) ==
    LET c == call[cl] IN
    /\ c.pc \notin {"idle", "work"}
    /\ \/ UNCHANGED ctx
       \/ /\ c.pc = "launch" /\ Len(ctx) < MaxContexts
          /\ ctx' = Append(ctx, NewContext(NoContext, TRUE))
       \/ /\ c.pc = "command" /\ ctx[Last(c.chain)].state = "paused"
          /\ posts(Last(c.chain), "command")
       \/ /\ c.pc = "cancel"
          /\ posts(c.cur, "cancel")
    /\ becomes(cl, throws(c))
    /\ UNCHANGED calls

answered(cl) ==
    \/ launch(cl) \/ read(cl) \/ openChildren(cl) \/ setup(cl) \/ setBreakpoints(cl)
    \/ command(cl) \/ work(cl)
    \/ readRoot(cl) \/ walk(cl) \/ postCancel(cl) \/ settleCancel(cl) \/ nextChild(cl)

(* The engine.  A context executes, pauses, waits, for a subflow it calls   *)
(* or for something else, and ends.                                         *)
executes(x) ==
    /\ ctx[x].state = "executing"
    /\ \E s \in {"paused", "waiting", "complete"} :
         ctx' = [ctx EXCEPT ![x].state = s, ![x].posted = IF s = "complete" THEN {} ELSE @]

callsSubflow(x) ==
    /\ ctx[x].state = "waiting" /\ Len(ctx) < MaxContexts
    /\ \A d \in childrenOf(x) : ~open(d)
    /\ ctx' = Append(ctx, NewContext(x, ctx[x].debug))

continues(x) ==
    /\ ctx[x].state = "waiting"
    /\ \A d \in childrenOf(x) : ~open(d)
    /\ ctx' = [ctx EXCEPT ![x].state = "executing"]

(* A paused context executes the command it was sent, or one that somebody  *)
(* else sends from Workflow Studio, and the other one is then gone.         *)
takesCommand(x) ==
    /\ ctx[x].state = "paused" /\ ctx[x].order < MaxOrder
    /\ ctx' = [ctx EXCEPT ![x].state = "executing", ![x].order = @ + 1, ![x].posted = @ \ {"command"}]

(* A cancel ends a context, and those of its children that it reaches, or   *)
(* is ignored.                                                              *)
takesCancel(x) ==
    /\ "cancel" \in ctx[x].posted
    /\ \/ ctx' = [ctx EXCEPT ![x].posted = @ \ {"cancel"}]
       \/ \E reached \in SUBSET {d \in childrenOf(x) : open(d)} :
            ctx' = [d \in Contexts |->
                      IF d \in {x} \cup reached
                      THEN [ctx[d] EXCEPT !.state = "cancelled", !.posted = {}] ELSE ctx[d]]

(* Only debugged contexts move: a real run has nothing to do but stand by.  *)
engine(x) ==
    /\ ctx[x].debug
    /\ executes(x) \/ callsSubflow(x) \/ continues(x) \/ takesCommand(x) \/ takesCancel(x)
    /\ UNCHANGED <<call, calls>>

Next ==
    \/ \E cl \in Clients : begin(cl) \/ answered(cl) \/ requestFails(cl)
    \/ \E x \in Contexts : engine(x)

Spec == Init /\ [][Next]_vars

(* Every request that does not fail is answered, and the work of a session  *)
(* ends: the client's own code then runs.  Nothing is assumed of the engine.*)
FairSpec == Spec /\ \A cl \in Clients : WF_vars(answered(cl))

--------------------------------------------------------------------------------
TypeOK ==
    /\ Len(ctx) <= MaxContexts
    /\ \A x \in Contexts :
         ctx[x] \in [state : ENDED \cup OPEN, parent : 0..(x - 1), debug : BOOLEAN,
                     order : 0..MaxOrder, posted : SUBSET {"command", "cancel"}]
    /\ \A cl \in Clients :
         LET c == call[cl] IN
         /\ DOMAIN c = DOMAIN Fresh
         /\ c.op \in Ops \cup {"none"} /\ c.root \in 0..Len(ctx)
         /\ \A i \in DOMAIN c.chain : c.chain[i] \in Contexts
         /\ c.polls \in Nat /\ c.walked \in 0..2 /\ c.depth \in 0..(MaxDepth - 1)
         /\ c.level \cup c.next \cup c.found \cup c.tree \subseteq Contexts
         /\ c.outcome \in {"none", "ok", "error"}
    /\ calls \in 0..MaxCalls

(* No command and no cancel is ever sent to a run that the debugger did not *)
(* start, whichever context id a caller gives (command, cancel).            *)
RealRunsUntouched ==
    \A x \in Contexts : ctx[x].posted # {} => ctx[x].debug

(* A cancel that succeeds, called by itself or by start, withSession or     *)
(* runTo, has seen the root end, and every context down to MAX_DEPTH below  *)
(* it that existed when it was called, although the tree changes while it   *)
(* is walked and a cancel may be ignored or reach only some (cancel,        *)
(* openDescendants, settleCancel).                                          *)
CancelledRunsEnd ==
    \A cl \in Clients :
        LET c == call[cl] IN
        c.pc = "idle" /\ c.ended => \A x \in {c.root} \cup c.tree : ~open(x)

(* withSession, and runTo by default, return a result only if their run was *)
(* seen to end.                                                             *)
SessionsClosed ==
    \A cl \in Clients :
        LET c == call[cl] IN
        c.pc = "idle" /\ c.op \in {"withSession", "runTo"} /\ c.outcome = "ok" => ~open(c.root)

(* A command that returns without timing out reports a run that has moved:  *)
(* the context it was sent to has executed a command since it was looked    *)
(* at, or has ended, or one it is called from has (waitFor).                *)
CommandSeesProgress ==
    \A cl \in Clients :
        LET c == call[cl] IN
        c.pc = "idle" /\ c.op = "command" /\ c.outcome = "ok" /\ c.before # << >> =>
            \/ ctx[Last(c.before[1])].order > c.before[3]
            \/ \E i \in DOMAIN c.before[1] : ~open(c.before[1][i])

(* Every call returns or throws: each of its loops is bounded, whatever the *)
(* run does meanwhile (waitFor, settleCancel, observe, openDescendants).    *)
CallsReturn ==
    \A cl \in Clients : call[cl].pc # "idle" ~> call[cl].pc = "idle"
================================================================================
