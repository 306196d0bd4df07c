------------------------------ MODULE Operations ------------------------------
(* The library's operations on one instance that its callers share with     *)
(* each other and with everybody else.                                      *)
(*                                                                          *)
(* Callers run the methods of UpdateSets, MetadataWriters, AccessControl,   *)
(* Scripts, Trackers, Records and Readers, each a sequence of requests.     *)
(* Every request is a step: callers interleave between any two of them, and *)
(* others change the instance meanwhile. A request may fail, and a write    *)
(* that fails may have been made. Which request a verb of a policy refuses  *)
(* is the subject of the module Policy; here the policy allows.             *)
EXTENDS AccessControl, Scripts, Trackers, Readers

CONSTANTS
    Callers,     \* processes that use the library, each in one call at a time
    maxCalls,    \* bound: family of requests -> calls of all callers together
    maxMoves,    \* bound: family of requests -> changes others make
    Requests,    \* the calls to make: records with the operation and its arguments
    Moves,       \* the changes others make: ways
    Present,     \* the rows there are at first
    Methods      \* request, number of a call -> the steps of its method

Families == {r.family : r \in Requests}

RequestsOf == [f \in Families |-> {r \in Requests : r.family = f}]

MovesOf == [f \in Families |-> {m.way : m \in {x \in Moves : x.family = f}}]

ASSUME CallsAreNumbered == \A f \in Families : 1..maxCalls[f] \subseteq Calls

VARIABLES
    inst,        \* the facts that hold on the instance
    call,        \* caller -> the call it is in, or how its last one ended
    calls,       \* calls made so far
    moves        \* changes others have made so far

vars == <<inst, call, calls, moves>>

(* What follows from the rows, for the answers that speak of several.       *)
Derived(i, watch) ==
    {CompleteWith(s, Cardinality(i \cap CapturesIn(s))) : s \in {x \in Sets : Complete(x) \in i}}
    \cup {f \in watch : \/ f[1] = "gone" /\ i \cap RowsOf(f[2]) = {}
                        \/ f[1] = "captured in" /\ \E s \in f[3] : i \cap CapsIn(f[2], s) # {}
                        \/ f[1] = "no acl" /\ Acl(f[2]) \notin i
                        \/ f[1] = "unused" /\ Data(f[2]) \notin i
                        \/ f[1] = "no rule" /\ Rule(f[2]) \notin i
                        \/ f[1] = "was there" /\ i \cap VersionRows(f[2]) # {}
                        \/ f[1] = "spans" /\ Reached({f[2]}, f[3], f[5]) = f[4]
                        \/ f[1] = "written since" /\ (HistoryOf(f[2]) \ f[3]) \cap i # {}}

(****************************************************************************)
(* The methods                                                              *)
(****************************************************************************)
Steps(r, me) ==
    CASE r.op = "useUpdateSet" -> useUpdateSet(r.set)
      [] r.op = "restoreWorkingSet" -> restoreWorkingSet(r.app, r.set)
      [] r.op = "moveCapture" -> moveCapture(r.capture, r.set, r.target)
      [] r.op = "completeUpdateSet" -> completeUpdateSet(r.set, r.captures)
      [] r.op = "createWorkingSet" -> createWorkingSet(me, r.app)
      [] r.op = "setCurrentUpdateSet" -> setCurrentUpdateSet(r.set)
      [] r.op = "getCurrentUpdateSet" -> getCurrentUpdateSet
      [] r.op = "listUpdateSets" -> listUpdateSets
      [] r.op = "createUpdateSet" -> createUpdateSet(me, r.app)
      [] r.op = "moveRecords" -> moveRecordsToUpdateSet(r.set, r.target)
      [] r.op = "cloneUpdateSet" -> cloneUpdateSet(me, r.set)
      [] r.op = "inspectUpdateSet" -> inspectUpdateSet(r.set)
      [] r.op = "setCurrentApplication" -> setCurrentApplication(r.app)
      [] r.op = "exportUpdateSet" -> exportUpdateSet(me, r.set, r.incomplete)
      [] r.op = "exportRetrieved" -> exportRetrieved
      [] r.op = "writeFile" -> writeFile(me, IF r.kind = "insert" THEN NewFile(me) ELSE r.file, r.app, r.asked, r.kind)
      [] r.op = "insertRecord" -> insertRecord(me)
      [] r.op = "updateRecord" -> updateRecord(me, r.file)
      [] r.op = "addColumn" -> addColumn(me, r.file, r.app, r.set)
      [] r.op = "removeColumn" -> removeColumn(me, r.file, r.app, r.set, r.data, r.dependents)
      [] r.op = "getChoices" -> getChoices(r.file)
      [] r.op = "writeChoice" -> writeChoice(me, r.file, r.app, r.set, r.removing, r.inUse)
      [] r.op = "getLayout" -> getLayout(r.file)
      [] r.op = "setFormLayout" -> setFormLayout(me, r.file, r.app, r.set)
      [] r.op = "setListLayout" -> setListLayout(me, r.file, r.app, r.set)
      [] r.op = "createAcl" -> createAcl(me, r.roles, r.active)
      [] r.op = "updateAcl" -> updateAcl(r.acl, r.active)
      [] r.op = "deleteAcl" -> deleteAcl(r.acl)
      [] r.op = "addRole" -> addRole(r.acl, r.role)
      [] r.op = "removeRole" -> removeRole(r.acl, r.role)
      [] r.op = "executeScript" -> executeScript(me, r.known)
      [] r.op = "executeScriptViaTrigger" -> executeScriptViaTrigger(me, r.name)
      [] r.op = "executeScriptAuto" -> executeScriptAuto(me, r.global)
      [] r.op = "execute" -> execute(me, r.flow)
      [] r.op = "getFlowContextStatus" -> getFlowContextStatus
      [] r.op = "getFlowOutputs" -> getFlowOutputs
      [] r.op = "getFlowError" -> getFlowError
      [] r.op = "cancelFlow" -> cancelFlow(r.context)
      [] r.op = "sendFlowMessage" -> sendFlowMessage(me, r.context)
      [] r.op = "publishFlow" -> publishFlow(r.flow)
      [] r.op = "getFlowActions" -> getFlowActions(r.flow)
      [] r.op = "getActionDefinition" -> getActionDefinition(r.flow)
      [] r.op = "fetchFlowArtifact" -> fetchFlowArtifactDefinition(r.flow)
      [] r.op = "testFlow" -> testFlow(me, r.flow)
      [] r.op = "copyFlow" -> copyFlow(me, r.flow)
      [] r.op = "getFlowContextDetails" -> getFlowContextDetails
      [] r.op = "getFlowLogs" -> getFlowLogs
      [] r.op = "installBatch" -> installBatch(me)
      [] r.op = "validateBatch" -> validateBatchInstallation
      [] r.op = "searchApplications" -> searchApplications
      [] r.op = "storeApplication" -> storeApplicationAndWait(me)
      [] r.op = "repair" -> repairStoreApplicationAndWait(me, r.app)
      [] r.op = "installFromAppRepo" -> installFromAppRepoAndWait(me)
      [] r.op = "publishToAppRepo" -> publishToAppRepoAndWait(me)
      [] r.op = "getProgress" -> getProgress
      [] r.op = "getCompanyApplications" -> getCompanyApplications
      [] r.op = "executeTest" -> executeTest(me)
      [] r.op = "executeTestSuite" -> executeTestSuiteAndWait(me)
      [] r.op = "batchCreate" -> batchCreate(me, r.transaction)
      [] r.op = "batchUpdate" -> batchUpdate(me, r.stop)
      [] r.op = "queryUpdate" -> queryUpdate(me, r.confirm)
      [] r.op = "queryDelete" -> queryDelete(r.confirm)
      [] r.op = "updateTask" -> updateTask(me, r.record)
      [] r.op = "findByNumber" -> findByNumber
      [] r.op = "createArticle" -> createArticle(me)
      [] r.op = "createCategory" -> createCategory(me)
      [] r.op = "publishArticle" -> publishArticle(me, r.record)
      [] r.op = "listArticles" -> listArticles
      [] r.op = "listKnowledgeBases" -> listKnowledgeBases
      [] r.op = "uploadAttachment" -> uploadAttachment(me)
      [] r.op = "getAttachments" -> getAttachments
      [] r.op = "getKnowledgeBase" -> getKnowledgeBase
      [] r.op = "getCatalogItem" -> getCatalogItem
      [] r.op = "listCatalogItemVariables" -> listCatalogItemVariables
      [] r.op = "listCatalogItems" -> listCatalogItems
      [] r.op = "listCatalogCategories" -> listCatalogCategories
      [] r.op = "getCatalogCategory" -> getCatalogCategory
      [] r.op = "submitCatalogRequest" -> submitCatalogRequest(me)
      [] r.op = "exportRecord" -> exportRecord(r.record)
      [] r.op = "importRecords" -> importRecords(me)
      [] r.op = "pullScript" -> pullScript
      [] r.op = "pushScript" -> pushScript
      [] r.op = "syncAllScripts" -> syncAllScripts
      [] r.op = "getRelationships" -> getRelationships(r.root, r.direction)
      [] r.op = "traverseGraph" -> traverseGraph(r)
      [] r.op = "discoverTableBehavior" -> discoverTableBehavior
      [] r.op = "getBehaviorDetails" -> getBehaviorDetails
      [] r.op = "discoverTableSchema" -> discoverTableSchema
      [] r.op = "explainField" -> explainField
      [] r.op = "validateCatalogConfiguration" -> validateCatalogConfiguration
      [] r.op = "listTables" -> listTables
      [] r.op = "listApplications" -> listApplications
      [] r.op = "listVariables" -> listVariables(r.choices)
      [] r.op = "searchCode" -> searchCode
      [] r.op = "getSearchGroups" -> getSearchGroups
      [] r.op = "getTableRecords" -> getTableRecords
      [] r.op = "addTableToSearchGroup" -> addTableToSearchGroup(me)
      [] r.op = "count" -> count
      [] r.op = "aggregate" -> aggregate
      [] r.op = "querySyslog" -> querySyslog
      [] r.op = "checkHealth" -> checkHealth
      [] r.op = "getTransactions" -> getTransactions({1, 2})
      [] r.op = "findWorkflows" -> findWorkflows
      [] r.op = "getActivityUsage" -> getActivityUsage
      [] r.op = "exportWorkflow" -> exportWorkflow(r.which)
      [] r.op = "getDraftVersion" -> getDraftVersion
      [] r.op = "validateWorkflow" -> validateWorkflow(me)
      [] r.op = "killTransaction" -> killTransaction(1, r.known)

ASSUME MethodsAreTheSteps == \A r \in Requests, me \in Calls : Methods[r, me] = Steps(r, me)

Program == [f \in Families |-> [r \in RequestsOf[f], me \in Calls |-> Methods[r, me]]]

Watched == [f \in Families |-> [r \in RequestsOf[f], me \in Calls |-> Claimed(Methods[r, me])]]

(****************************************************************************)
(* A call                                                                   *)
(****************************************************************************)
NoRequest == [op |-> "none", family |-> "none"]

(* "at" are the places a call is at, the innermost first: the way to a      *)
(* block of its program, the step in it and how often that was repeated;    *)
(* "rescue" the blocks that catch what is thrown and where they go on.      *)
(* "held" is what was true at some time of what the call may come to say;   *)
(* "untrue" what it said and was not.                                       *)
Idle == [req |-> NoRequest, me |-> 0, at |-> <<>>, rescue |-> <<>>, fails |-> "failed", caught |-> No, seen |-> {},
         trouble |-> FALSE, told |-> FALSE, lost |-> 0, wrote |-> FALSE, stale |-> 0, held |-> {}, claims |-> {}, untrue |-> {}, result |-> "none"]

Running(u) == call[u].at # <<>>

Ended(c, result) ==
    [Idle EXCEPT !.req = c.req, !.me = c.me, !.told = c.told, !.lost = c.lost, !.wrote = c.wrote, !.result = result,
                 !.untrue = IF result = "ok" THEN c.claims \ c.held ELSE {}]

Place(way, trying) == [way |-> way, step |-> 1, times |-> 1, trying |-> trying]

(* The block a place is in.                                                 *)
Block(c, p) ==
    FoldLeft(LAMBDA block, turn : IF turn[2] = "then" THEN block[turn[1]].then ELSE block[turn[1]].else,
             Program[c.req.family][c.req, c.me], p.way)

Following(p) == [p EXCEPT !.step = @ + 1, !.times = 1]

Passed(c) == [c EXCEPT !.at = <<Following(Head(@))>> \o Tail(@)]

(* Into a branch of the step a call is at.                                  *)
Branch(c, name) == Append(Head(c.at).way, <<Head(c.at).step, name>>)

Into(c, name) == [c EXCEPT !.at = <<Place(Branch(c, name), FALSE), Following(Head(@))>> \o Tail(@)]

Trying(c) ==
    [c EXCEPT !.at = <<Place(Branch(c, "then"), TRUE), Following(Head(@))>> \o Tail(@),
              !.rescue = <<<<Place(Branch(c, "else"), FALSE), Following(Head(c.at))>> \o Tail(c.at)>> \o @]

RECURSIVE Settle(_)
RECURSIVE Thrown(_, _)

(* The innermost catch takes what is thrown, or the call ends with it.      *)
Thrown(c, code) ==
    LET what == IF code = "caught" THEN c.caught ELSE code
    IN IF c.rescue = <<>> THEN Ended(c, what)
       ELSE Settle([c EXCEPT !.at = Head(c.rescue), !.rescue = Tail(c.rescue), !.caught = what])

(* On to the next request, or to the end.                                   *)
Settle(c) ==
    IF c.at = <<>> THEN Ended(c, "ok")
    ELSE LET p == Head(c.at)
             block == Block(c, p)
         IN IF p.step > Len(block)
            THEN Settle([c EXCEPT !.at = Tail(@), !.rescue = IF p.trying THEN Tail(@) ELSE @])
            ELSE LET s == block[p.step]
                     Go(truth) == Settle(Into(c, IF truth THEN "then" ELSE "else"))
                 IN CASE s.do = "phase" -> Settle([Passed(c) EXCEPT !.fails = s.code])
                      [] s.do = "claim" -> Settle([Passed(c) EXCEPT !.claims = @ \cup s.facts])
                      [] s.do = "tells" -> Settle([Passed(c) EXCEPT !.told = TRUE])
                      [] s.do = "trouble" -> Settle([Passed(c) EXCEPT !.trouble = TRUE])
                      [] s.do = "ifNoted" -> Go(s.rows \subseteq c.seen)
                      [] s.do = "ifTroubled" -> Go(c.trouble)
                      [] s.do = "ifCaught" -> Go(c.caught = s.code)
                      [] s.do = "throw" -> Thrown(c, s.code)
                      [] s.do = "try" -> Settle(Trying(c))
                      [] OTHER -> c

Request(u) == Block(call[u], Head(call[u].at))[Head(call[u].at).step]

Rest(u) == Passed(call[u])

(* Caller u goes on as d, or with what is thrown, while the instance comes  *)
(* to i; every call keeps what held meanwhile of what it may come to say.   *)
ProceedWith(u, d, code, i) ==
    LET Kept(c) ==
            LET watch == Watched[c.req.family][c.req, c.me] \ c.held
            IN IF watch = {} THEN c ELSE [c EXCEPT !.held = @ \cup (watch \cap (i \cup Derived(i, watch)))]
    IN /\ inst' = i
       /\ call' = [x \in Callers |-> IF x = u THEN IF code = No THEN Settle(Kept(d)) ELSE Thrown(Kept(d), code)
                                     ELSE IF Running(x) THEN Kept(call[x]) ELSE call[x]]

Proceed(u, d, i) == ProceedWith(u, d, No, i)

(****************************************************************************)
(* Requests and answers                                                     *)
(****************************************************************************)
(* Whether a check holds of what is read now; unknown where the model does  *)
(* not say.                                                                 *)
Holds(k, seen) ==
    LET now == k.rows \cap inst
        then == k.rows \cap seen
    IN CASE k.is = "has" -> now = k.rows
         [] k.is = "lacks" -> now = {}
         [] k.is = "some" -> now # {}
         [] k.is = "notAll" -> now # k.rows
         [] k.is = "exactly" -> Cardinality(now) = k.n
         [] k.is = "noted" -> then = k.rows
         [] k.is = "asNoted" -> now = then
         [] k.is = "oneNew" -> Cardinality(now \ then) = 1
         [] k.is = "someNew" -> now \ then # {}
         [] k.is = "noneNew" -> now \subseteq then
         [] k.is = "given" -> k.n = 1
         [] OTHER -> FALSE

Outcomes(k, seen) ==
    IF k.is = "perhaps" \/ (k.is = "lacksOrUnsaid" /\ k.rows \cap inst # {}) THEN BOOLEAN
    ELSE {k.is = "lacksOrUnsaid" \/ Holds(k, seen)}

(* The code of the first check that fails, over what it may be.             *)
Verdicts(checks, seen) ==
    LET Failing == {i \in DOMAIN checks : FALSE \in Outcomes(checks[i], seen)}
        Sure == {i \in Failing : TRUE \notin Outcomes(checks[i], seen)}
        Before(i) == \A j \in Sure : i <= j
    IN {checks[i].code : i \in {j \in Failing : Before(j)}} \cup (IF Sure = {} THEN {No} ELSE {})

(* How many answers a call that submits has had since the session is not    *)
(* the one it noted.                                                        *)
Older(c) ==
    IF c.req.op \notin Submitting \/ c.seen \cap Preferences \in {{}, inst \cap Preferences} THEN 0
    ELSE IF c.stale > LastLooks(c.req.op) THEN c.stale ELSE c.stale + 1

read(u) ==
    /\ Running(u)
    /\ LET s == Request(u)
       IN /\ s.do = "read"
          /\ \E code \in Verdicts(s.checks, call[u].seen) :
                ProceedWith(u, [Rest(u) EXCEPT !.seen = (@ \ s.note) \cup (inst \cap s.note), !.stale = Older(call[u])], code, inst)
    /\ UNCHANGED <<calls, moves>>

decide(u) ==
    /\ Running(u)
    /\ LET s == Request(u)
           again == s.do = "until" /\ Head(call[u].at).times < s.n
           c == [call[u] EXCEPT !.seen = (@ \ s.note) \cup (inst \cap s.note)]
       IN s.do \in {"if", "until"} /\ \E truth \in Outcomes(s.check, call[u].seen) :
             Proceed(u, IF truth THEN Into(c, "then")
                        ELSE IF again THEN [c EXCEPT !.at[1].times = @ + 1]
                        ELSE Into(c, "else"), inst)
    /\ UNCHANGED <<calls, moves>>

After(w) == (inst \ w.del) \cup w.add

Goes(w) == w.has \subseteq inst /\ w.lacks \cap inst = {}

(* A request that failed is thrown, or kept for later, while the instance   *)
(* comes to i.                                                              *)
fail(u, i) ==
    LET d == [Rest(u) EXCEPT !.lost = IF @ < 2 THEN @ + 1 ELSE @, !.wrote = @ \/ i # inst]
        s == Request(u)
        fails == IF s.do = "write" THEN s.fails ELSE {"throw"}
    IN \/ "throw" \in fails /\ ProceedWith(u, d, d.fails, i)
       \/ "keep" \in fails /\ Proceed(u, [d EXCEPT !.trouble = TRUE], i)

write(u) ==
    /\ Running(u)
    /\ LET s == Request(u)
       IN s.do = "write" /\ \E w \in {x \in s.ways : Goes(x)} :
             \/ ProceedWith(u, [Rest(u) EXCEPT !.wrote = @ \/ After(w) # inst], w.code, After(w))
             \/ After(w) # inst /\ fail(u, After(w))
    /\ UNCHANGED <<calls, moves>>

requestFails(u) == Running(u) /\ fail(u, inst) /\ UNCHANGED <<calls, moves>>

Init ==
    /\ inst = Present
    /\ call = [u \in Callers |-> Idle]
    /\ calls = 0 /\ moves = 0

(* The family of the calls made so far: others touch other rows.            *)
Under == {call[u].req.family : u \in Callers} \ {"none"}

start(u) ==
    /\ ~Running(u)
    /\ \E f \in IF Under = {} THEN Families ELSE Under :
          /\ calls < maxCalls[f]
          /\ \E r \in RequestsOf[f] :
                Proceed(u, [Idle EXCEPT !.req = r, !.me = calls + 1, !.at = <<Place(<<>>, FALSE)>>], inst)
    /\ calls' = calls + 1 /\ moves' = moves

(* Somebody else, or this user in a browser, changes the instance while a   *)
(* call is under way.                                                       *)
meanwhile(u) ==
    /\ Running(u)
    /\ LET f == call[u].req.family
       IN /\ moves < maxMoves[f]
          /\ \E w \in MovesOf[f] : Goes(w) /\ After(w) # inst /\ Proceed(u, call[u], After(w))
    /\ moves' = moves + 1 /\ calls' = calls

Next ==
    \E u \in Callers :
       start(u) \/ read(u) \/ decide(u) \/ write(u) \/ requestFails(u) \/ meanwhile(u)

Spec == Init /\ [][Next]_vars


Refusals ==
    UpdateSetRefusals \cup MetadataRefusals \cup AccessRefusals \cup ScriptRefusals \cup TrackerRefusals \cup RecordRefusals
    \cup ReaderRefusals


(* A form is not submitted in another session than the one its call noted,  *)
(* unless that changed after the form had been loaded and the session       *)
(* compared, while the call took its last looks.                            *)
SubmittedInItsSession ==
    \A u \in Callers :
       Running(u) /\ call[u].req.op \in Submitting /\ Request(u).do = "write" => call[u].stale <= LastLooks(call[u].req.op)

(* A temporary copy an export leaves on the instance is listed in its       *)
(* error, unless both the request that copies and the one that looks for    *)
(* copies failed.                                                           *)
CopiesAreListed ==
    \A u \in Callers :
       ~Running(u) /\ call[u].result \notin {"temporary_listed", "cleanup_unverified"}
       /\ (call[u].lost < 2 \/ call[u].result # "failed")
          => \A s \in Sets : Copy(call[u].me, s) \notin inst

(* An ACL that is created with roles is active only when it has exactly     *)
(* these, at every moment of the call and after it, as long as nobody else  *)
(* edits its roles.                                                         *)
RolesBeforeActive ==
    \A u \in Callers :
       call[u].req.op = "createAcl" /\ call[u].req.roles # {} /\ Active(NewAcl(call[u].me)) \in inst
          => \A role \in Roles : role \in call[u].req.roles <=> AclRole(NewAcl(call[u].me), role) \in inst
================================================================================
