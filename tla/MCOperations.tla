----------------------------- MODULE MCOperations -----------------------------
(* Two callers; for each family of requests, one call or two and the        *)
(* changes somebody else makes meanwhile.                                   *)
EXTENDS Operations

Symmetry == Permutations(Callers)

MCApplications == {"x", "y"}
MCSets == {"s1", "s2", "dx", "dy"}
MCNewSet == <<"n1", "n2">>
MCCaptures == <<"c1", "c2", "c3">>
MCApplicationOf == [z \in MCSets \cup {"c1", "c2", "c3"} |-> IF z = "dy" THEN "y" ELSE "x"]
MCDefaultOf == [a \in MCApplications |-> IF a = "x" THEN "dx" ELSE "dy"]
MCFileOf == [c \in {"c1", "c2", "c3"} |-> IF c = "c3" THEN "g" ELSE "f"]
MCNewerThan == {<<"c1", "c2">>}
MCChildOf == [s \in MCSets |-> IF s = "s2" THEN "s1" ELSE s]

MCFiles == {"r", "l"}
MCNewFile == <<"m1", "m2">>
MCRoles == {"itil", "admin", "internal"}
MCNewAcl == <<"b1", "b2">>
MCRecordOrder == <<"i1", "i2">>

(* A diamond with a way back, a relation to an item that is gone, and an    *)
(* item with more relations than a query is answered with.                  *)
MCCIs == {"ca", "cb", "cc", "cd", "ce"}
MCCIOrder == <<"ca", "cb", "cc", "cd", "ce", "cg">>
MCRelatedCIs == {<<"ca", "cb">>, <<"ca", "cc">>, <<"cb", "cd">>, <<"cc", "cd">>, <<"cd", "ca">>, <<"cb", "cg">>, <<"ca", "ce">>}
MCBehaviors == <<"rules", "flows">>

Req(family, rs) == {[r EXCEPT !.family = family] : r \in rs}

R(op) == [family |-> "", op |-> op]
With(r, f) == [x \in DOMAIN r \cup DOMAIN f |-> IF x \in DOMAIN f THEN f[x] ELSE r[x]]
S(op, f) == With(R(op), f)

MCRequests ==
    Req("sets",
        {S("useUpdateSet", [set |-> "s2"]), S("useUpdateSet", [set |-> "dx"]), S("restoreWorkingSet", [app |-> "x", set |-> "s1"]),
         S("restoreWorkingSet", [app |-> "y", set |-> "s1"]),
         S("moveCapture", [capture |-> "c3", set |-> "s1", target |-> "s2"]),
         S("moveCapture", [capture |-> "c1", set |-> "s1", target |-> "s2"]),
         S("completeUpdateSet", [set |-> "s1", captures |-> 2]), S("completeUpdateSet", [set |-> "s2", captures |-> 1]),
         S("createWorkingSet", [app |-> "x"]), S("createUpdateSet", [app |-> No]),
         S("setCurrentUpdateSet", [set |-> "s1"]), R("getCurrentUpdateSet"), R("listUpdateSets"),
         S("moveRecords", [set |-> "s1", target |-> "s2"]), S("inspectUpdateSet", [set |-> "s1"]),
         S("setCurrentApplication", [app |-> "y"])})
    \cup Req("exports",
        {S("exportUpdateSet", [set |-> "s1", incomplete |-> TRUE]),
         S("exportUpdateSet", [set |-> "s1", incomplete |-> FALSE]),
         R("exportRetrieved"), S("cloneUpdateSet", [set |-> "s1"])})
    \cup Req("forms",
        {S("writeFile", [kind |-> kind, file |-> "r", app |-> "x", asked |-> asked]) : kind \in {"update", "delete"}, asked \in {No, "s2"}}
        \cup {S("writeFile", [kind |-> "insert", file |-> "r", app |-> "x", asked |-> "s2"])}
        \cup {R("insertRecord"), S("updateRecord", [file |-> "r"])})
    \cup Req("columns",
        {S("addColumn", [file |-> "l", app |-> "x", set |-> "s1"])}
        \cup {S("removeColumn", [file |-> "r", app |-> "x", set |-> "s1", data |-> FALSE, dependents |-> dep]) : dep \in BOOLEAN})
    \cup Req("choices",
        {S("getChoices", [file |-> "r"]),
         S("writeChoice", [file |-> "r", app |-> "x", set |-> "s1", removing |-> TRUE, inUse |-> FALSE]),
         S("writeChoice", [file |-> "r", app |-> "x", set |-> "s1", removing |-> FALSE, inUse |-> FALSE])})
    \cup Req("layouts",
        {S("getLayout", [file |-> "r"]), S("setFormLayout", [file |-> "r", app |-> "x", set |-> "s1"]),
         S("setListLayout", [file |-> "r", app |-> "x", set |-> "s1"])})
    \cup Req("acls",
        {S("createAcl", [roles |-> roles, active |-> TRUE]) : roles \in {{}, {"itil"}, {"itil", "internal"}}}
        \cup {S("createAcl", [roles |-> {"itil", "admin"}, active |-> FALSE])}
        \cup {S("updateAcl", [acl |-> "a", active |-> active]) : active \in BOOLEAN}
        \cup {S("deleteAcl", [acl |-> "a"]), S("addRole", [acl |-> "a", role |-> "itil"]),
              S("removeRole", [acl |-> "a", role |-> "admin"])})
    \cup Req("scripts",
        {S("executeScript", [known |-> known]) : known \in BOOLEAN}
        \cup {S("executeScriptViaTrigger", [name |-> "auto"])}
        \cup {S("executeScriptAuto", [global |-> global]) : global \in BOOLEAN})
    \cup Req("flows",
        {S(op, [flow |-> "w"]) : op \in {"execute", "publishFlow", "getFlowActions", "getActionDefinition", "fetchFlowArtifact", "testFlow", "copyFlow"}}
        \cup {S(op, [context |-> "z"]) : op \in {"cancelFlow", "sendFlowMessage"}}
        \cup {R(op) : op \in {"getFlowContextStatus", "getFlowOutputs", "getFlowError", "getFlowContextDetails", "getFlowLogs"}})
    \cup Req("installs",
        {R(op) : op \in {"installBatch", "validateBatch", "searchApplications", "storeApplication", "installFromAppRepo", "publishToAppRepo",
                         "getProgress", "getCompanyApplications"}}
        \cup {S("repair", [app |-> "p"])})
    \cup Req("tests", {R("executeTest"), R("executeTestSuite")})
    \cup Req("records",
        {S("batchCreate", [transaction |-> transaction]) : transaction \in BOOLEAN}
        \cup {S(op, [record |-> "i1"]) : op \in {"updateTask", "publishArticle", "exportRecord"}}
        \cup {R(op) : op \in {"findByNumber", "createArticle", "createCategory", "listArticles", "listKnowledgeBases",
                         "getKnowledgeBase", "uploadAttachment", "getAttachments", "getCatalogItem", "listCatalogItemVariables", "listCatalogItems",
                         "listCatalogCategories", "getCatalogCategory", "submitCatalogRequest", "importRecords"}})
    \cup Req("queries",
        {S("batchUpdate", [stop |-> stop]) : stop \in BOOLEAN}
        \cup {S(op, [confirm |-> confirm]) : op \in {"queryUpdate", "queryDelete"}, confirm \in BOOLEAN})
    \cup Req("sync", {R("pullScript"), R("pushScript"), R("syncAllScripts")})
    \cup Req("cmdb",
        {S("getRelationships", [root |-> root, direction |-> "both"]) : root \in {"ca", "cg"}}
        \cup {S("traverseGraph", [root |-> "ca", direction |-> direction, maxDepth |-> depth, maxNodes |-> nodes]) :
                  direction \in {"downstream", "upstream"}, depth \in 1..3, nodes \in 2..5}
        \cup {S("traverseGraph", [root |-> "cd", direction |-> "both", maxDepth |-> depth, maxNodes |-> 5]) : depth \in 1..2})
    \cup Req("behavior", {R("discoverTableBehavior"), R("getBehaviorDetails")})
    \cup Req("discovery",
        {R(op) : op \in {"discoverTableSchema", "explainField", "validateCatalogConfiguration", "listTables", "listApplications", "searchCode",
                         "getSearchGroups", "getTableRecords", "addTableToSearchGroup", "count", "aggregate", "querySyslog", "checkHealth"}}
        \cup {S("listVariables", [choices |-> choices]) : choices \in BOOLEAN})
    \cup Req("workflows",
        {R(op) : op \in {"findWorkflows", "getActivityUsage", "getDraftVersion", "validateWorkflow"}}
        \cup {S("exportWorkflow", [which |-> which]) : which \in {"draft", "published", "current"}})
    \cup Req("transactions", {R("getTransactions")} \cup {S("killTransaction", [known |-> known]) : known \in BOOLEAN})

MCFamilies == {r.family : r \in MCRequests}
MCMaxCalls == [f \in MCFamilies |-> IF f \in {"forms", "columns", "choices", "cmdb", "discovery", "workflows"} THEN 1 ELSE 2]
MCMaxMoves == [f \in MCFamilies |-> IF f \in {"forms", "columns", "choices", "installs"} THEN 2 ELSE IF f \in {"acls", "records", "cmdb", "discovery"} THEN 0 ELSE 1]

For(family, ways) == {[family |-> family, way |-> w] : w \in ways}

MCMoves ==
    For("sets", {Becomes(Complete("s1"), StateOf("s1")), Becomes(Open("s1"), StateOf("s1")), Becomes(Complete("s2"), StateOf("s2")),
                 Moved("c3", "s2"), Moved("c2", "dx"), Becomes(CurrentSet("dx"), CurrentSets),
                 Becomes(Scoped("x", "dx"), ScopedSets("x")), Way({}, {}, {UsedByOther("s1")}, {})})
    \cup For("exports", {Becomes(Complete("s1"), StateOf("s1")), Moved("c3", "s2")})
    \cup UNION {For(f, {Becomes(CurrentSet("dx"), CurrentSets), Becomes(Scoped("x", "dx"), ScopedSets("x")),
                        Way({Row("r", 0)}, {}, {Row("r", Other), Cap("r", "s1", Other, "save")}, {Row("r", 0), Cap("r", "s1", 0, "save")})}) : f \in {"forms", "columns", "choices", "layouts"}}
    \cup For("forms", {Way({Row("r", 0)}, {}, {DeleteRecord("r", 0), Cap("r", "s1", Other, "delete")}, {Row("r", 0), Cap("r", "s1", 0, "save")}),
                       Becomes(Complete("s2"), StateOf("s2"))})
    \cup For("columns", {Way({}, {}, {Data("r")}, {}), Way({}, {}, {Dependent("r")}, {}), Way({}, {}, {Row("l", 0)}, {})})
    \cup For("choices", {Way({}, {}, {Data("r")}, {})})
    \cup UNION {For("scripts", triggerFires(k, "auto"))
                \cup For("installs", operationEnds(k) \cup historyWritten("p", k))
                \cup For("tests", testsEnd(k)) : k \in Calls}
    \cup For("flows", {Way({}, {}, {Stopped("z")}, {Runs("z")}), Way({}, {}, {}, {Flow("w"), Published("w")})})
    \cup For("queries", {Way({}, {}, {}, {Rec("i1"), Matches("i1")}), Way({}, {}, {}, {Matches("i2")})})
    \cup For("behavior", {Way({}, {}, {}, {Rule("rules")}), Way({}, {}, {Rule("flows")}, {})})
    \cup For("workflows", {Way({}, {}, {VersionIs(1, "retired"), VersionIs(2, "published")}, {VersionIs(1, "published"), VersionIs(2, "mine")}),
                           Way({}, {}, {}, VersionRows(2)), Becomes(VersionIs(2, "others"), VersionRows(2))})
    \cup For("transactions", {Way({}, {}, {}, {Transaction(1)}), Way({}, {}, {Transaction(2)}, {})})
    \cup For("sync", {Way({OnDisk(1)}, {}, {OnDisk(2)}, DiskRows), Way({}, {}, {}, ScriptRows)})

MCPresent ==
    {Open("s1"), Open("s2"), Open("dx"), Open("dy"), CurrentApp("x"), CurrentSet("s1"), Scoped("x", "s1"),
     In("c1", "s1"), In("c3", "s1"), In("c2", "s2"), Row("r", 0), Cap("r", "s1", 0, "save"),
     Acl("a"), Active("a"), AclRole("a", "admin"), Flow("w"), Runs("z"), StoreApp("p"),
     Rec("i1"), Rec("i2"), Matches("i1"), Matches("i2"), Script(1), OnDisk(1), Rule("rules"),
     VersionIs(1, "published"), VersionIs(2, "mine"), Transaction(1)}

MCMethods == LET methods == [r \in MCRequests, me \in Calls |-> Steps(r, me)] IN methods
================================================================================
