--------------------------------- MODULE Readers ---------------------------------
(* Methods that look at an instance and write little or nothing:            *)
(* sn/cmdb/CMDBRelationships.ts, sn/behavior/TableBehaviorDiscovery.ts,     *)
(* sn/schema/SchemaDiscovery.ts, sn/discovery/InstanceDiscovery.ts,         *)
(* sn/codesearch/CodeSearch.ts, sn/aggregate/AggregateQuery.ts,             *)
(* sn/variables/VariableDefinitions.ts, sn/health/InstanceHealth.ts,        *)
(* sn/transaction/ClusterTransactionManager.ts, sn/syslog/SyslogReader.ts   *)
(* and what sn/workflow/WorkflowManager.ts only reads.                      *)
(*                                                                          *)
(* What matters of them is which failed reads end the method, which leave a *)
(* part of the answer out, and which count as "there is none".              *)
EXTENDS Records

CONSTANTS
    CIs,         \* configuration items there are; they do not change
    CIOrder,     \* sequence of CIs, and others, in the order answers list them
    RelatedCIs,  \* pairs of a parent and a child
    relationLimit, \* relations one query of a traversal is answered with at most
    WorkflowVersions, \* versions there are of one workflow
    Behaviors    \* sequence of the sources of what a table does: rules, flows, ...

ASSUME RelationsAreOrdered == RelatedCIs \subseteq ToSet(CIOrder) \X ToSet(CIOrder) /\ relationLimit \in Nat

(* A row of a source, and that there is none; a transaction that runs; a    *)
(* traversal that is not truncated has listed these, when those requests    *)
(* were not answered.                                                       *)
Rule(s) == <<"rule", s>>
NoRule(s) == <<"no rule", s>>
Transaction(x) == <<"transaction", x>>
Spans(root, direction, listed, unanswered) == <<"spans", root, direction, listed, unanswered>>

(****************************************************************************)
(* CMDBRelationships                                                        *)
(****************************************************************************)
(* The items related to x, in the order of the answer.                      *)
Downstream(x) == SelectSeq(CIOrder, LAMBDA y : <<x, y>> \in RelatedCIs)
Upstream(x) == SelectSeq(CIOrder, LAMBDA y : <<y, x>> \in RelatedCIs)

(* The queries a direction takes: of which item, and what each is answered  *)
(* with, which is cut at a limit.                                           *)
queryRelationships(x, direction, limit) ==
    LET Query(side, found) == <<[of |-> <<x, side>>, found |-> SubSeq(found, 1, IF Len(found) < limit THEN Len(found) ELSE limit)]>>
    IN (IF direction # "upstream" THEN Query("downstream", Downstream(x)) ELSE <<>>)
       \o (IF direction # "downstream" THEN Query("upstream", Upstream(x)) ELSE <<>>)

lookupCI(x) == <<Read(<<Given(x \in CIs, "ci not found"), Perhaps("ci not found")>>)>>

(* The related items are looked up one by one; one that is not there is     *)
(* left out.                                                                *)
getRelationships(x, direction) ==
    LET Asked(found) == If(Perhaps(No), FlattenSeq([i \in DOMAIN found |-> emptyOnError]), <<>>)
        queries == queryRelationships(x, direction, Len(CIOrder))
    IN lookupCI(x) \o [i \in DOMAIN queries |-> Asked(queries[i].found)]

RECURSIVE Visit(_, _)
(* Items wait in a queue with their depth. "t" is what is listed, what was  *)
(* met, whether something was cut off, and the queries and the items that   *)
(* were asked for in vain: that looks as if there were nothing, and the     *)
(* answer is still that it is not truncated.                                *)
Visit(o, t) ==
    IF t.queue = <<>> \/ (Head(t.queue)[2] < o.maxDepth /\ Len(t.nodes) >= o.maxNodes)
    THEN IF t.queue # <<>> \/ t.truncated THEN <<>>
         ELSE <<Claim({Spans(o.root, o.direction, ToSet(t.nodes), t.unanswered)})>>
    ELSE LET x == Head(t.queue)[1]
             depth == Head(t.queue)[2]
             rest == [t EXCEPT !.queue = Tail(@)]
             Looked(d, found) ==
                 LET room == o.maxNodes - Len(d.nodes)
                     taken == SubSeq(found, 1, IF Len(found) < room THEN Len(found) ELSE room)
                 IN Visit(o, [d EXCEPT !.nodes = @ \o taken, !.truncated = @ \/ taken # found,
                                       !.queue = @ \o [i \in DOMAIN taken |-> <<taken[i], depth + 1>>]])
             Related(d, met) ==
                 LET new == SelectSeq(CIOrder, LAMBDA y : y \in ToSet(met) \ d.visited)
                     e == [d EXCEPT !.visited = @ \cup ToSet(new)]
                 IN IF new = <<>> THEN Visit(o, d)
                    ELSE <<If(Perhaps(No), Looked(e, SelectSeq(new, LAMBDA y : y \in CIs)),
                              Visit(o, [e EXCEPT !.unanswered = @ \cup (ToSet(new) \X {"item"})]))>>
             RECURSIVE Queried(_, _, _)
             Queried(queries, d, met) ==
                 IF queries = <<>> THEN Related(d, met)
                 ELSE <<If(Perhaps(No), Queried(Tail(queries), d, met \o Head(queries).found),
                           Queried(Tail(queries), [d EXCEPT !.unanswered = @ \cup {Head(queries).of}], met))>>
         IN IF depth >= o.maxDepth THEN Visit(o, [rest EXCEPT !.truncated = TRUE])
            ELSE Queried(queryRelationships(x, o.direction, relationLimit), rest, <<>>)

traverseGraph(o) ==
    lookupCI(o.root)
    \o Visit(o, [queue |-> <<<<o.root, 0>>>>, nodes |-> <<o.root>>, visited |-> {o.root}, truncated |-> FALSE, unanswered |-> {}])

RECURSIVE Reached(_, _, _)
(* What a traversal is for: all that can be reached over items there are,   *)
(* as far as the requests that were answered show.                          *)
Reached(S, direction, unanswered) ==
    LET Shown(x) == {q \in ToSet(queryRelationships(x, direction, relationLimit)) : q.of \notin unanswered}
        Wider == S \cup {y \in CIs : <<y, "item">> \notin unanswered /\ \E x \in S : \E q \in Shown(x) : y \in ToSet(q.found)}
    IN IF Wider = S THEN S ELSE Reached(Wider, direction, unanswered)

(****************************************************************************)
(* TableBehaviorDiscovery                                                   *)
(****************************************************************************)
(* A read the instance refuses becomes a warning of its section; one that   *)
(* fails on the way ends the method.                                        *)
warned(steps) == <<Try(steps, <<IfCaught("read failure", <<>>, <<Rethrow>>)>>)>>

hierarchy == required("read failure") \o required("read failure")

(* Records that belong to an item, and its definition.                      *)
attachRelated == warned(required("read failure"))

enrich == warned(required("read failure"))

(* The items of a source; that there are none is only said of a read that   *)
(* was answered.                                                            *)
section(s) ==
    warned(<<Note({Rule(s)}, <<Perhaps("read failure")>>),
             IfNoted({Rule(s)}, <<Claim({Rule(s)})>> \o attachRelated \o enrich, <<Claim({NoRule(s)})>>)>>)

RECURSIVE sections(_, _)
(* The fields of all sources are read first; a source without fields is not *)
(* asked.                                                                   *)
sections(sources, known) ==
    IF sources = <<>> THEN FlattenSeq([i \in DOMAIN known |-> section(known[i])])
    ELSE <<If(Perhaps(No), sections(Tail(sources), Append(known, Head(sources))), sections(Tail(sources), known))>>

discoverTableBehavior == hierarchy \o sections(Behaviors, <<>>)

(* Each reference by itself: its fields, its row, what belongs to it.       *)
detail(s) ==
    warned(required("read failure") \o <<Read(<<Has({Rule(s)}, "read failure"), Perhaps("read failure")>>), Claim({Rule(s)})>>
           \o attachRelated \o enrich)

getBehaviorDetails == FlattenSeq([i \in DOMAIN Behaviors |-> detail(Behaviors[i])])

(****************************************************************************)
(* SchemaDiscovery, InstanceDiscovery, VariableDefinitions                  *)
(****************************************************************************)
(* Choices, UI policies and business rules, as far as they are wanted.      *)
childrenOfTable == emptyOnError \o emptyOnError \o emptyOnError

(* The table must be there; its fields and the rest may be missing from the *)
(* answer without a word.                                                   *)
discoverTableSchema == required("table not found") \o emptyOnError \o childrenOfTable

explainField == required("field not found") \o emptyOnError

(* An item whose variables could not be read has no invalid ones.           *)
validateCatalogConfiguration == emptyOnError \o emptyOnError

listTables == required("failed")

(* Applications of the instance, of the store, and plugins.                 *)
listApplications == required("failed")

(* An answer that is not ready yet, with status 202, is asked for again.    *)
readDefinitions == <<Until(Perhaps(No), Tries, <<>>, <<Throw("failed")>>)>>

(* The choices are read when a definition has some. The answer is kept for  *)
(* later calls, unless it is a failure.                                     *)
listVariables(choices) == readDefinitions \o (IF choices THEN readDefinitions ELSE <<>>)

(****************************************************************************)
(* WorkflowManager                                                          *)
(****************************************************************************)
(* A version of a workflow is a draft of this user or of another, the       *)
(* published one, or retired; and there is the report of a validation.      *)
VersionIs(v, state) == <<"version", v, state>>
VersionRows(v) == {VersionIs(v, state) : state \in {"mine", "others", "published", "retired"}}
AllVersions == UNION {VersionRows(v) : v \in WorkflowVersions}
Report(me) == <<"report", me>>
Reports == {Report(k) : k \in Calls}

(* A table is asked again while it answers with status 202.                 *)
readTable == readDefinitions

(* By its id, by that of a version, or by its name; then its versions, and  *)
(* who the user is when one of them is a draft.                             *)
resolveWorkflow ==
    <<Read(<<Perhaps("workflow not found")>>), Noting(AllVersions, Until(Perhaps(No), Tries, <<>>, <<Throw("failed")>>))>> \o readTable

findWorkflows == readTable \o readTable \o readTable

(* The version is there, and then its parts are read one after the other.   *)
readVersion(v) == <<Read(<<Some(VersionRows(v), "version not found"), Perhaps("failed")>>), Claim({<<"was there", v>>})>>

readVariableValues == readTable

getWorkflowDefinition(v) == readVersion(v) \o readTable \o readTable \o readTable \o readTable \o readVariableValues

getActivityDefinition ==
    <<Read(<<Perhaps("activity not found")>>)>> \o readTable \o readTable \o readTable

(* The settings of published activities of a type, and how many there are.  *)
getActivityUsage == getActivityDefinition \o readTable \o readTable \o readVariableValues

(* From a handler to the one it extends, a few times at most.               *)
typeWaits == <<Until(Perhaps(No), Tries, <<>>, <<>>)>>

(* Names of records of other tables are left out when they cannot be read.  *)
displayNames == <<Attempt(readTable)>>

exportVersion(v) ==
    <<Read(<<Some(VersionRows(v), "failed"), Perhaps("failed")>>)>> \o getWorkflowDefinition(v) \o getActivityDefinition \o typeWaits
    \o readTable \o readTable \o readTable \o readTable \o readTable \o displayNames

(* What to do with the first version in one of these states, in this order. *)
FirstOf(states, then, otherwise) ==
    LET Within(state, rest) == FoldRight(LAMBDA v, more : <<IfNoted({VersionIs(v, state)}, then[v], more)>>, SetToSeq(WorkflowVersions), rest)
    IN FoldRight(Within, states, otherwise)

exportWorkflow(which) ==
    resolveWorkflow
    \o FirstOf(CASE which = "draft" -> <<"mine">> [] which = "published" -> <<"published">>
                  [] OTHER -> <<"mine", "published", "others">>,
               [v \in WorkflowVersions |-> exportVersion(v)], <<Throw("no such version")>>)

getDraftVersion ==
    resolveWorkflow \o FirstOf(<<"mine">>, [v \in WorkflowVersions |-> <<Claim({VersionIs(v, "mine")})>>], <<Throw("not checked out")>>)

(* The page makes the report, unless it is an error page; the findings are  *)
(* read from a table that may hold the report of an earlier run.            *)
validateWorkflow(me) ==
    <<Write({Becomes(Report(me), Reports), Answered("not validated", NotApplied)}), Claim({Report(me)})>> \o readTable

(****************************************************************************)
(* CodeSearch, AggregateQuery, SyslogReader                                 *)
(****************************************************************************)
searchCode == required("failed")

getSearchGroups == required("failed")

getTableRecords == required("failed")

addTableToSearchGroup(me) == Insert({New(me, 1)}, "not added")

count == required("failed")

(* Sums, averages and the like, of a table or by groups.                    *)
aggregate == required("failed")

querySyslog == required("failed")

(****************************************************************************)
(* InstanceHealth                                                           *)
(****************************************************************************)
(* Each part that cannot be read is left out, whatever the reason.          *)
operationalCounts == <<Attempt(count), Attempt(count), Attempt(count)>>

healthPart == <<Attempt(required("failed"))>>

checkHealth == healthPart \o healthPart \o healthPart \o healthPart \o operationalCounts

(****************************************************************************)
(* ClusterTransactionManager                                                *)
(****************************************************************************)
(* Until the nodes have reported, or the collection failed or took too long.*)
waitForCollection == <<Until(Perhaps(No), Tries, <<>>, <<Throw("not collected")>>)>>

readTransactionList(xs) ==
    <<Note({Transaction(x) : x \in xs}, <<Perhaps("not parsed")>>)>>
    \o SetToSeq({IfNoted({Transaction(x)}, <<Claim({Transaction(x)})>>, <<>>) : x \in xs})

(* The page that starts a collection names it, or says there is none to     *)
(* wait for, or cannot be read.                                             *)
getTransactions(xs) ==
    <<Try(<<Read(<<Perhaps("collecting"), Perhaps("not collected")>>)>>,
          <<IfCaught("collecting", waitForCollection, <<Rethrow>>)>>)>>
    \o readTransactionList(xs)

(* The action is looked for unless it is given or was found before, must be *)
(* allowed for this transaction, and is then posted; that it was accepted   *)
(* is all the answer says.                                                  *)
killTransaction(x, known) ==
    (IF known THEN <<>> ELSE required("kill not resolved"))
    \o <<Read(<<Has({Transaction(x)}, "kill not allowed"), Perhaps("kill not allowed")>>),
         Write({Way({}, {}, {}, {Transaction(x)}), NotApplied, Answered("kill refused", NotApplied)})>>

(* Codes with which these methods refuse before they write anything.        *)
ReaderRefusals == {"ci not found", "table not found", "field not found", "kill not resolved", "kill not allowed",
                    "workflow not found", "version not found", "activity not found", "no such version", "not checked out"}
================================================================================
