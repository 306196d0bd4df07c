--------------------------------- MODULE Records ---------------------------------
(* Records one at a time and many at once: sn/batch/BatchOperations.ts,     *)
(* QueryBatchOperations.ts, sn/task/TaskOperations.ts,                      *)
(* sn/knowledge/KnowledgeManager.ts, sn/catalog/CatalogManager.ts,          *)
(* sn/attachment/AttachmentManager.ts, sn/xml/XMLRecordManager.ts and       *)
(* sn/scriptsync/ScriptSync.ts.                                             *)
EXTENDS UpdateSets

CONSTANTS
    RecordOrder,  \* sequence of the records there are
    Versions      \* contents a script, and its file on disk, can have

Records == ToSet(RecordOrder)

(* A record; that it matches a query; what a call made of it; the records   *)
(* a call created, the second pointing at the first or at nothing.          *)
Rec(x) == <<"record", x>>
Matches(x) == <<"matches", x>>
Changed(me, x) == <<"changed", me, x>>
Deleted(x) == <<"deleted", x>>
New(me, i) == <<"new", me, i>>
PointsAtFirst(me) == <<"points at", me>>
PointsAtNothing(me) == <<"dangles", me>>

(* What a script is on the instance and what is in its file.                *)
Script(v) == <<"script", v>>
OnDisk(v) == <<"on disk", v>>

ScriptRows == {Script(v) : v \in Versions}
DiskRows == {OnDisk(v) : v \in Versions}

(* One record is made.                                                      *)
Insert(facts, code) == <<Write({Way({}, {}, facts, {}), Answered(code, NotApplied)}), Claim(facts)>>

(* A PUT is answered with the record as it is then, taken or not.           *)
Put(me, x, code) ==
    <<Write({Way({Rec(x)}, {}, {Changed(me, x)}, {}), Way({Rec(x)}, {}, {}, {}),
             Answered(code, NotApplied)})>>

(****************************************************************************)
(* BatchOperations and QueryBatchOperations                                 *)
(****************************************************************************)
(* An operation of a batch that fails is listed; it ends the batch or not.  *)
(* The batch answers in any case, with what it has done so far.             *)
Operation(body) == <<Try(body, <<Trouble>>)>>

(* The second record refers to the first by the name it was saved under; a  *)
(* name that was not saved stays in the data as it is.                      *)
batchCreate(me, transaction) ==
    Operation(Insert({New(me, 1)}, "not created"))
    \o <<IfTroubled(IF transaction THEN <<>> ELSE Operation(Insert({New(me, 2), PointsAtNothing(me)}, "not created")),
                    Operation(Insert({New(me, 2), PointsAtFirst(me)}, "not created")))>>

ForEachRecord(Steps(_)) == FlattenSeq([i \in DOMAIN RecordOrder |-> Steps(RecordOrder[i])])

batchUpdate(me, stopOnError) ==
    ForEachRecord(LAMBDA x : LET update == Operation(Put(me, x, "not updated"))
                             IN <<IfTroubled(IF stopOnError THEN <<>> ELSE update, update)>>)

(* What matches is read once; without a confirmation that is all. What the  *)
(* records have become meanwhile is not asked again.                        *)
findMatchingRecords == Note({Matches(x) : x \in Records}, <<Perhaps("query failed")>>)

queryUpdate(me, confirm) ==
    <<findMatchingRecords>>
    \o (IF ~confirm THEN <<>>
        ELSE ForEachRecord(LAMBDA x : <<IfNoted({Matches(x)}, Operation(Put(me, x, "not updated")), <<>>)>>))

deleteMatched(x) ==
    <<Write({Way({Rec(x)}, {}, {Deleted(x)}, {Rec(x), Matches(x)}), Answered("not deleted", NotApplied)}), Claim({Deleted(x)})>>

queryDelete(confirm) ==
    <<findMatchingRecords>>
    \o (IF ~confirm THEN <<>>
        ELSE ForEachRecord(LAMBDA x : <<IfNoted({Matches(x)}, Operation(deleteMatched(x)), <<>>)>>))

(****************************************************************************)
(* TaskOperations, KnowledgeManager, AttachmentManager                      *)
(****************************************************************************)
(* A comment, an assignment, a resolution, a closure, an approval.          *)
updateTask(me, x) == Put(me, x, "task failed")

findByNumber == required("task failed")

(* An article, a category of articles, an attachment.                       *)
createArticle(me) == Insert({New(me, 1)}, "not created")

createCategory(me) == createArticle(me)

uploadAttachment(me) == Insert({New(me, 1)}, "not created")

getAttachments == required("failed")

updateArticle(me, x) == Put(me, x, "not updated")

publishArticle(me, x) == updateArticle(me, x)

listArticles == required("failed")

listKnowledgeBases == required("failed")

(* A knowledge base and two counts, which are asked for together.           *)
getKnowledgeBase == required("failed") \o required("failed") \o required("failed")

(****************************************************************************)
(* CatalogManager and XMLRecordManager                                      *)
(****************************************************************************)
(* The variables of an item and of its variable sets; a read that is        *)
(* answered with an error counts as empty.                                  *)
fetchAllVariables == emptyOnError \o emptyOnError \o emptyOnError

getCatalogItem == required("failed") \o fetchAllVariables

listCatalogItemVariables == fetchAllVariables

listCatalogItems == required("failed")

listCatalogCategories == required("failed")

(* A category and the number of its items.                                  *)
getCatalogCategory == required("failed") \o required("failed")

(* The item of the order is looked up, and is not needed.                   *)
submitCatalogRequest(me) ==
    <<Write({Way({}, {}, {New(me, 1)}, {}), Answered("not ordered", NotApplied)}), Attempt(<<Read(<<>>)>>), Claim({New(me, 1)})>>

exportRecord(x) == <<Read(<<Has({Rec(x)}, "not exported")>>)>>

(* An upload that is answered at all was accepted; whether the records were *)
(* is not asked.                                                            *)
importRecords(me) ==
    <<Read(<<Perhaps("no token")>>), Write({Way({}, {}, {New(me, 1)}, {}), NotApplied, Answered("not imported", NotApplied)})>>

(****************************************************************************)
(* ScriptSync                                                               *)
(****************************************************************************)
(* The script is read and its file written; the file is read, the script    *)
(* looked for, and then written as the file was.                            *)
pullScript ==
    <<Note(ScriptRows, <<Some(ScriptRows, "script not found")>>)>>
    \o SetToSeq({IfNoted({Script(v)}, <<Write({Becomes(OnDisk(v), DiskRows)}), Claim({OnDisk(v)})>>, <<>>) : v \in Versions})

(* Decided from the policy alone, before anything is read or sent.          *)
requireExecute == <<Read(<<Perhaps("push refused")>>)>>

pushFile ==
    <<Note(DiskRows, <<>>), Read(<<Some(ScriptRows, "script not found")>>)>>
    \o SetToSeq({IfNoted({OnDisk(v)},
                         <<Write({Way({Script(w)}, {}, {Script(v)}, ScriptRows) : w \in Versions}
                                 \cup {Answered("not pushed", NotApplied)}),
                           Claim({Script(v)})>>, <<>>) : v \in Versions})

pushScript == requireExecute \o pushFile

(* One file after the other; what fails for one does not stop the others,   *)
(* and what is refused for one would have been refused up front.            *)
syncAllScripts == requireExecute \o <<Attempt(pushFile), Attempt(pushFile)>>

(* Codes with which these methods refuse before they write anything.        *)
RecordRefusals == {"query failed", "no token", "script not found", "push refused"}
================================================================================
