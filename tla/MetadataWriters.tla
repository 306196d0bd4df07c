--------------------------- MODULE MetadataWriters ---------------------------
(* Writes of application files through the platform's forms, each captured  *)
(* in an update set: sn/metadata/MetadataFormWriter.ts, ColumnWriter.ts,    *)
(* ChoiceWriter.ts, FormLayoutWriter.ts, ListLayoutWriter.ts, what they     *)
(* share under sn/metadata/internal, and comm/http/FormRecordWriter.ts.     *)
(*                                                                          *)
(* A form answers 200 whether or not it saved, and the capture goes where   *)
(* the platform puts it: a method knows what its write did only from what   *)
(* it reads afterwards. What is read after a write is judged as it is read, *)
(* but the session last. A token the page rejects ends the method, whatever *)
(* else is read.                                                            *)
EXTENDS UpdateSets

CONSTANTS
    Files,          \* application files: records, columns, choice lists, layouts
    newFile         \* call -> the file it inserts, if it inserts one

NewFile(me) == newFile[me]

AnyFile == Files \cup {NewFile(me) : me \in Calls}

(* The file as call k wrote it, and its capture in set s, made by call k    *)
(* for a save or a delete. Before any call it is writer 0; somebody else is *)
(* the last.                                                                *)
Other == Cardinality(Calls) + 1

Writers == 0..Other
Row(r, k) == <<"row", r, k>>
Cap(r, s, k, action) == <<"cap", r, s, action, k>>
DeleteRecord(r, k) == <<"deleted", r, k>>
Data(r) == <<"data", r>>
Dependent(r) == <<"dependent", r>>

RowsOf(r) == {Row(r, k) : k \in Writers}
Actions == {"save", "delete"}
CapsIn(r, s) == {Cap(r, s, k, action) : k \in Writers, action \in Actions}
CapsOf(r) == UNION {CapsIn(r, s) : s \in Sets}
CapsBy(r, action) == {Cap(r, s, k, action) : s \in Sets, k \in Writers}

(* What an answer says of several rows: none is left, one is captured.      *)
Gone(r) == <<"gone", r>>
CapturedIn(r, sets) == <<"captured in", r, sets>>
Unused(r) == <<"unused", r>>

Preferences == CurrentApps \cup CurrentSets \cup UNION {ScopedSets(a) : a \in Applications}

(****************************************************************************)
(* What the platform may do with a form that is submitted                   *)
(****************************************************************************)
(* The file is saved over what it was, or removed, and captured in set t,   *)
(* which may become the user's current set, or nowhere.                     *)
Saved(r, me, k, caps) == Way(k, {}, {Row(r, me)} \cup caps, RowsOf(r))

Captured(r, t, me, action, way) ==
    [way EXCEPT !.has = @ \cup {Open(t)}, !.add = @ \cup {Cap(r, t, me, action)},
                !.del = (@ \cup CapsIn(r, t)) \ {Cap(r, t, me, action)}]

Switching(t, way) == [way EXCEPT !.add = @ \cup {CurrentSet(t)}, !.del = (@ \cup CurrentSets) \ {CurrentSet(t)}]

(* A form names the set it wants: the platform follows, or does not.        *)
Submitted(r, e, me, action, way) ==
    {Captured(r, t, me, action, way) : t \in Sets} \cup {Switching(e, Captured(r, e, me, action, way)), way, NotApplied}

(* A layout page takes the user's set for the application.                  *)
PageSaved(r, a, me, way) ==
    {[Captured(r, t, me, "save", way) EXCEPT !.has = @ \cup {Scoped(a, t)}] : t \in Sets} \cup {way, NotApplied}

Saves(r, me) == {Way({Row(r, k)}, {}, {Row(r, me)}, RowsOf(r)) : k \in Writers}

Inserts(r, me) == {Way({}, {}, {Row(r, me)}, {})}

Removals(r, me) == {Way({Row(r, k)}, {}, {DeleteRecord(r, me)}, RowsOf(r)) : k \in Writers}
                   \cup {Way({Row(r, k)}, {}, {}, RowsOf(r)) : k \in Writers}

(****************************************************************************)
(* What the writers share                                                   *)
(****************************************************************************)
(* The set must be in progress and of the application (resolveScope).       *)
requireSet(a, e) == <<Read(<<Has({Open(e)}, "invalid_input"), Given(applicationOf[e] = a, "invalid_input")>>)>>

(* The user's preferences, and that the set is the user's for the           *)
(* application where the platform takes no other.                           *)
preferences(checks) == <<Note(Preferences, checks)>>

isCurrent(a, e) == Has({Scoped(a, e)}, "update_set_not_current")

(* comparePreferences: nothing may have changed before the submit; after it *)
(* only the current set, to one of the given.                               *)
unchangedBefore == <<Read(<<AsNoted(Preferences, "session_changed")>>)>>

(* What is still to be verified by then comes first in what is reported.    *)
unchangedAfter(sets, others) ==
    <<Try(<<Read(<<AsNoted(Preferences \ CurrentSets, "session_changed"),
                   NoneNew(CurrentSets \ {CurrentSet(s) : s \in sets}, "session_changed")>>)>>,
          <<IfCaught("session_changed", others \o <<Rethrow>>, <<Rethrow>>)>>)>>
    \o others

noteCaptures(r) == <<Note(CapsOf(r), <<>>)>>

(* Captures that changed since they were noted: there are, in one of the    *)
(* sets, of the application, of the right action; where they must be told   *)
(* apart, one.                                                              *)
capturedChecks(r, sets, action) ==
    <<SomeNew(CapsOf(r), "not_captured"),
      NoneNew(CapsOf(r) \ UNION {CapsIn(r, e) : e \in sets}, "captured_elsewhere"), Perhaps("mixed_scope_capture"),
      NoneNew(CapsOf(r) \ CapsBy(r, action), "not_captured")>>

captured(r, sets, action) == <<Read(capturedChecks(r, sets, action))>>

capturedOnce(r, e, action) ==
    <<Read(<<SomeNew(CapsOf(r), "not_captured"), OneNew(CapsOf(r), "verification_unavailable")>>
           \o capturedChecks(r, {e}, action))>>


Submit(ways) ==
    <<Tells, Phase("verification_unavailable"), WriteQuietly(ways \cup {Answered("csrf_rejected", NotApplied)})>>

(* The session is compared, the captures are noted, the method's last       *)
(* checks are made. Mutant: the session is compared after the submit.       *)
submitBeforeChecks(r, last, ways) == noteCaptures(r) \o last \o Submit(ways) \o unchangedBefore

submitAfterChecks(r, last, ways) == unchangedBefore \o noteCaptures(r) \o last \o Submit(ways)

(* A delete goes through the platform's own action (requirePlatformDelete)  *)
(* and leaves a row that records it.                                        *)
requirePlatformDelete == <<Read(<<Perhaps("delete_not_supported")>>)>>

deleteRecorded(r) == <<Read(<<Some({DeleteRecord(r, k) : k \in Calls}, "delete_not_captured")>>)>>

verified == <<Troubled("verification_unavailable")>>

(* What was saved is of the application the form was posted for.            *)
savedInScope == Perhaps("scope_not_applied")

(****************************************************************************)
(* MetadataFormWriter                                                       *)
(****************************************************************************)
(* The table must be one whose files are captured; a variable that is       *)
(* referred to must be the record's own; a value that is code needs the     *)
(* right to run code.                                                       *)
table == Perhaps("table_not_supported")

variableReference == Perhaps("invalid_input")

requireExecuteForCode == Perhaps("policy refused")

ownVariable == Perhaps("write_not_applied")

(* insert, update and delete of a file whose capture belongs in one of      *)
(* "sets"; "chosen" are those the platform may make the current one. The    *)
(* form shows the record and its scope; what is to be written is looked at  *)
(* with it.                                                                 *)
formSubmit(me, r, e, op) ==
    LET action == IF op = "delete" THEN "delete" ELSE "save"
        ways == CASE op = "insert" -> Inserts(r, me) [] op = "update" -> Saves(r, me) [] OTHER -> Removals(r, me)
    IN <<Read((IF op = "insert" THEN <<>> ELSE <<Some(RowsOf(r), "evidence_unavailable")>>)
             \o <<Perhaps("scope_not_applied")>>
             \o (IF op = "delete" THEN <<>> ELSE <<variableReference, requireExecuteForCode>>))>>
       \o (IF op = "delete" THEN requirePlatformDelete ELSE <<>>)
       \o submitAfterChecks(r, <<>>, UNION {Submitted(r, e, me, action, w) : w \in ways})

(* An update asks whether the record is there and of the scope, and whether *)
(* a variable it refers to is its own; not what else it holds.              *)
formVerify(me, r, sets, chosen, op) ==
    LET action == IF op = "delete" THEN "delete" ELSE "save"
    IN <<Read(IF op = "delete" THEN <<Lacks(RowsOf(r), "delete_not_applied")>>
              ELSE <<Some(RowsOf(r), "write_not_applied"), savedInScope, ownVariable>>)>>
       \o captured(r, sets, action)
       \o unchangedAfter(chosen, IF op = "delete" THEN deleteRecorded(r) ELSE <<>>)
       \o verified
       \o <<Claim({CapturedIn(r, sets)} \cup (IF op = "delete" THEN {Gone(r)} ELSE IF op = "insert" THEN {Row(r, me)} ELSE {}))>>

(* The set asked for, or the one the user has chosen for the application,   *)
(* or any of the application's.                                             *)
writeFile(me, r, a, asked, op) ==
    LET Through(sets, chosen, e) == formSubmit(me, r, e, op) \o formVerify(me, r, sets, chosen, op)
        Predicted(s) == IF asked = No THEN Through({s}, {s}, s) ELSE Through({asked}, {s, asked}, asked)
        Unpredicted == IF asked = No THEN Through({s \in Sets : applicationOf[s] = a}, {}, defaultOf[a]) ELSE Through({asked}, {asked}, asked)
    IN <<Phase("evidence_unavailable"), Read(<<table>> \o (IF op = "insert" THEN <<>> ELSE <<Some(RowsOf(r), "scope_mismatch")>>))>>
       \o preferences(<<>>)
       \o (IF asked = No THEN <<>> ELSE requireSet(a, asked))
       \o FoldLeft(LAMBDA rest, s : <<IfNoted({Scoped(a, s)}, Predicted(s), rest)>>, Unpredicted, SetToSeq(Sets))

(****************************************************************************)
(* ColumnWriter                                                             *)
(****************************************************************************)
addColumn(me, r, a, e) ==
    <<Phase("evidence_unavailable"), Read(<<Lacks(RowsOf(r), "column_exists")>>)>>
    \o requireSet(a, e) \o preferences(<<isCurrent(a, e)>>)
    \o <<Read(<<Perhaps("scope_not_applied")>>)>>
    \o submitAfterChecks(r, <<>>, UNION {Submitted(r, e, me, "save", w) : w \in Inserts(r, me)})
    \o <<Read(<<Has({Row(r, me)}, "write_not_applied"), savedInScope>>),
         Read(<<Lacks(RowsOf(r) \ {Row(r, me)}, "verification_unavailable"), Perhaps("write_not_applied"), savedInScope>>)>>
    \o capturedOnce(r, e, "save") \o unchangedAfter({e}, <<>>) \o verified
    \o <<Claim({Row(r, me), CapturedIn(r, {e})})>>

(* Rows that hold a value and files that depend on the column stop a        *)
(* removal unless they are acknowledged; asked twice, the second time last  *)
(* before the submit, for the same dependents.                              *)
gates(r, data, dependents, again) ==
    <<Read(IF data THEN <<>> ELSE <<Lacks({Data(r)}, "column_has_data")>>),
      Note(IF again THEN {} ELSE {Dependent(r)},
           (IF dependents THEN <<>> ELSE <<Lacks({Dependent(r)}, "column_has_dependents")>>)
           \o (IF again THEN <<AsNoted({Dependent(r)}, "column_has_dependents")>> ELSE <<>>))>>

removeColumn(me, r, a, e, data, dependents) ==
    <<Phase("evidence_unavailable"), Read(<<Some(RowsOf(r), "column_not_found")>>)>>
    \o requireSet(a, e) \o gates(r, data, dependents, FALSE) \o preferences(<<>>)
    \o <<Read(<<Some(RowsOf(r), "evidence_unavailable"), Perhaps("column_not_deletable")>>)>> \o requirePlatformDelete
    \o submitAfterChecks(r, gates(r, data, dependents, TRUE), UNION {Submitted(r, e, me, "delete", w) : w \in Removals(r, me)})
    \o <<Read(<<Lacks(RowsOf(r), "delete_not_applied"), Perhaps("delete_not_applied")>>)>>
    \o capturedOnce(r, e, "delete") \o unchangedAfter({e}, deleteRecorded(r)) \o verified
    \o <<Claim({Gone(r), CapturedIn(r, {e})} \cup (IF data THEN {} ELSE {Unused(r)}))>>

(****************************************************************************)
(* ChoiceWriter                                                             *)
(****************************************************************************)
getChoices(r) == <<Read(<<Perhaps("column_not_found")>>), Read(<<>>)>>

(* A choice is changed or removed in the list that is one file. What the    *)
(* capture holds is compared with the list: it is this call's.              *)
writeChoice(me, r, a, e, removing, inUse) ==
    LET used == IF removing /\ ~inUse THEN <<Read(<<Lacks({Data(r)}, "choice_in_use")>>)>> ELSE <<>>
    IN <<Phase("evidence_unavailable"), Read(<<Some(RowsOf(r), "choice_not_found")>>)>>
       \o requireSet(a, e) \o used \o preferences(<<>>)
       \o <<Read(<<Some(RowsOf(r), "evidence_unavailable"), Perhaps("scope_not_applied")>>)>>
       \o (IF removing THEN requirePlatformDelete ELSE <<>>)
       \o submitAfterChecks(r, used, UNION {Submitted(r, e, me, "save", w) : w \in Saves(r, me)})
       \o <<Read(<<Has({Row(r, me)}, "write_not_applied"), savedInScope>>)>>
       \o capturedOnce(r, e, "save")
       \o unchangedAfter({e}, <<Read(<<Has({Cap(r, e, me, "save")}, "not_captured")>>)>>)
       \o verified
       \o <<Claim({Row(r, me), Cap(r, e, me, "save")} \cup (IF used # <<>> THEN {Unused(r)} ELSE {}))>>

(****************************************************************************)
(* FormLayoutWriter and ListLayoutWriter                                    *)
(****************************************************************************)
getLayout(r) == <<Read(<<Some(RowsOf(r), "scope_mismatch")>>), Read(<<>>)>>

setFormLayout(me, r, a, e) ==
    <<Phase("evidence_unavailable"), Read(<<Some(RowsOf(r), "scope_mismatch")>>)>>
    \o requireSet(a, e) \o preferences(<<isCurrent(a, e)>>)
    \o <<Read(<<Perhaps("section_not_supported")>>), Read(<<Perhaps("not_permitted")>>)>>
    \o submitAfterChecks(r, <<>>, UNION {PageSaved(r, a, me, w) : w \in Saves(r, me)})
    \o <<Read(<<Has({Row(r, me)}, "write_not_applied"), savedInScope>>)>>
    \o capturedOnce(r, e, "save") \o unchangedAfter({e}, <<>>) \o verified
    \o <<Claim({Row(r, me), CapturedIn(r, {e})})>>

(* A save replaces the list's record by a new one; the old one may stay.    *)
(* The page must show the list that was read.                               *)
setListLayout(me, r, a, e) ==
    <<Phase("evidence_unavailable"), Note(RowsOf(r), <<Exactly(1, RowsOf(r), "evidence_unavailable")>>)>>
    \o requireSet(a, e) \o preferences(<<isCurrent(a, e)>>)
    \o <<Read(<<AsNoted(RowsOf(r), "evidence_unavailable"), Perhaps("not_permitted")>>)>>
    \o submitAfterChecks(r, <<>>, UNION {PageSaved(r, a, me, w) : w \in Saves(r, me) \cup Inserts(r, me)})
    \o <<Read(<<Some(RowsOf(r), "write_not_applied"), Exactly(1, RowsOf(r), "verification_unavailable"),
                Has({Row(r, me)}, "write_not_applied"), savedInScope>>)>>
    \o capturedOnce(r, e, "save") \o unchangedAfter({e}, <<>>) \o verified
    \o <<Claim({Row(r, me), CapturedIn(r, {e})})>>

(****************************************************************************)
(* FormRecordWriter                                                         *)
(****************************************************************************)
loadForm(checks) == <<Read(checks)>>

(* The page a submit lands on says whether it was accepted; "accepted" may  *)
(* still mean that a business rule dropped the insert.                      *)
submit(ways) == <<Write(ways \cup {Answered("not_accepted", NotApplied)})>>

requireExists(r) == <<Read(<<Some(RowsOf(r), "does_not_exist")>>)>>

insertRecord(me) ==
    loadForm(<<>>) \o submit(Inserts(NewFile(me), me) \cup {NotApplied}) \o requireExists(NewFile(me))
    \o <<Claim({Row(NewFile(me), me)})>>

(* An update is not read back: that it was accepted is all it says.         *)
updateRecord(me, r) == loadForm(<<Some(RowsOf(r), "not_found")>>) \o submit(Saves(r, me) \cup {NotApplied})

(* Codes with which these methods refuse, if they do not tell of a submit.  *)
MetadataRefusals ==
    {"invalid_input", "update_set_not_current", "session_changed", "evidence_unavailable",
     "scope_not_applied", "delete_not_supported", "column_exists", "column_not_found", "column_has_data",
     "column_has_dependents", "column_not_deletable", "choice_not_found", "choice_in_use", "section_not_supported",
     "not_permitted", "not_found", "table_not_supported", "policy refused"}

(* Methods that compare the session before they submit a form, and the      *)
(* requests they make in between: the captures, and what column and choice  *)
(* are still used for.                                                      *)
Submitting == {"writeFile", "addColumn", "removeColumn", "writeChoice", "setFormLayout", "setListLayout"}

LastLooks(op) == IF op = "removeColumn" THEN 3 ELSE IF op = "writeChoice" THEN 2 ELSE 1
================================================================================
