------------------------------ MODULE UpdateSets ------------------------------
(* Update sets, the user's working set and the current application:         *)
(* sn/updateset/WorkingSetManager.ts, UpdateSetManager.ts,                  *)
(* UpdateSetExporter.ts and sn/scope/ScopeManager.ts.                       *)
(*                                                                          *)
(* One definition per method: the requests it awaits, in their order, and   *)
(* what it makes of their answers. "me" is the number of the call.          *)
EXTENDS RemoteSteps, SequencesExt

CONSTANTS
    Applications,   \* applications (scopes)
    Sets,           \* update sets there are, beside those the calls create
    Captures,       \* sequence of the captures (sys_update_xml) there are
    applicationOf,  \* set or capture -> the application it belongs to
    defaultOf,      \* application -> its Default update set
    fileOf,         \* capture -> the file it captures (sys_update_xml.name)
    newerThan,      \* pairs of captures of one file, the newer first
    childOf,        \* set -> its child in a batch, or itself
    Calls,          \* numbers of calls
    newSet          \* call -> the set it creates, if it creates one

Capture == ToSet(Captures)

NewSet(me) == newSet[me]

AnySet == Sets \cup {NewSet(me) : me \in Calls}

(* Rows of sys_update_set, of the user's preferences, of other users'       *)
(* preferences, of sys_update_xml and of sys_remote_update_set.             *)
Open(s) == <<"open", s>>
Complete(s) == <<"complete", s>>
InApplication(s, a) == <<"of", s, a>>
CurrentSet(s) == <<"current set", s>>
CurrentApp(a) == <<"current app", a>>
Scoped(a, s) == <<"scoped", a, s>>
UsedByOther(s) == <<"used", s>>
In(c, s) == <<"in", c, s>>
Copy(me, s) == <<"copy", me, s>>

(* That a set is complete with n captures: what completing it says.         *)
CompleteWith(s, n) == <<"complete with", s, n>>

StateOf(s) == {Open(s), Complete(s)}
CapturesIn(s) == {In(c, s) : c \in Capture}
PlacesOf(c) == {In(c, s) : s \in AnySet}
CurrentSets == {CurrentSet(s) : s \in AnySet}
CurrentApps == {CurrentApp(a) : a \in Applications}
ScopedSets(a) == {Scoped(a, s) : s \in AnySet}
OfTheFile(c) == {d \in Capture : fileOf[d] = fileOf[c]}

(* The same steps for one capture after the other.                          *)
ForEachCapture(Steps(_)) == FlattenSeq([i \in DOMAIN Captures |-> Steps(Captures[i])])

(****************************************************************************)
(* WorkingSetManager                                                        *)
(****************************************************************************)
getUpdateSet(s, checks) == <<Read(<<Some(StateOf(s), "update_set_not_found")>> \o checks)>>

getWorkingSet == <<Note(CurrentApps \cup CurrentSets, <<>>)>>

IsOpen(s) == Has({Open(s)}, "update_set_closed")

NotDefault(s) == Given(\A a \in Applications : s # defaultOf[a], "default_update_set")

(* Two preferences and the current set are written by one script; the       *)
(* platform may refuse the set. Mutant: what was set is not read again.     *)
choosing(a, s) ==
    {Way({}, {}, {CurrentApp(a), CurrentSet(s), Scoped(a, s)}, CurrentApps \cup CurrentSets \cup ScopedSets(a)),
     Becomes(CurrentApp(a), CurrentApps), NotApplied}


persist(a, s) ==
    <<Write(choosing(a, s)),
      Note(CurrentApps \cup CurrentSets, <<>>),
      Read(<<Noted({CurrentApp(a), CurrentSet(s)}, "working_set_not_applied"),
             Has({Scoped(a, s)}, "working_set_not_applied")>>),
      Claim({CurrentApp(a), CurrentSet(s), Scoped(a, s)})>>

useUpdateSet(s) ==
    getUpdateSet(s, <<IsOpen(s), NotDefault(s)>>) \o getWorkingSet
    \o <<Phase("working_set_not_applied")>> \o persist(applicationOf[s], s)

(* Back to what useUpdateSet found, or to the application's Default set     *)
(* when that set is gone or closed by now.                                  *)
restoreWorkingSet(a, s) ==
    <<Note(StateOf(s), IF applicationOf[s] = a THEN <<>> ELSE <<Lacks(StateOf(s), "scope_mismatch")>>),
      IfNoted({Open(s)}, persist(a, s),
              <<Read(<<Has({Open(defaultOf[a])}, "no_single_default")>>)>> \o persist(a, defaultOf[a]))>>

(* A PUT in the scope of the record: an HTTP error of it is left to the     *)
(* read that follows, another failure is thrown.                            *)
writeInScope(ways) == <<WriteEither(ways)>>

Moved(c, t) == Becomes(In(c, t), PlacesOf(c))

moveCapture(c, s, t) ==
    <<Read(<<Has({In(c, s)}, "capture_not_in_source")>>),
      Note(StateOf(s), <<Some(StateOf(s), "update_set_not_found")>>),
      Read(<<Some(StateOf(t), "update_set_not_found"), Noted({Open(s)}, "update_set_closed"), IsOpen(t),
             NotDefault(t), Given(applicationOf[t] = applicationOf[c], "scope_mismatch")>>),
      Read(<<Lacks({In(d, t) : d \in OfTheFile(c)}, "duplicate_capture"),
             Lacks({In(d, x) : d \in {e \in OfTheFile(c) : <<e, c>> \in newerThan}, x \in AnySet}, "newer_capture")>>)>>
    \o writeInScope({Moved(c, t), NotApplied})
    \o <<Read(<<Has({In(c, t)}, "move_not_applied")>>), Claim({In(c, t)})>>

(* The captures are counted, checked, and compared again when the set is    *)
(* complete. A mismatch has the same code before and after; the detail of   *)
(* the second one holds the state the set is in.                            *)
counted(s, n) ==
    Note(CapturesIn(s),
         <<Exactly(n, CapturesIn(s), "capture_count_mismatch"),
           Lacks({In(c, s) : c \in {d \in Capture : applicationOf[d] # applicationOf[s]}}, "mixed_scope_capture")>>
         \o SetToSeq({NotAll({In(c, s), In(d, s)}, "duplicate_capture") : <<c, d>> \in newerThan}))

completeUpdateSet(s, n) ==
    getUpdateSet(s, <<IsOpen(s), NotDefault(s)>>)
    \o <<counted(s, n), Read(<<Lacks({UsedByOther(s)}, "update_set_in_use")>>)>>
    \o writeInScope({Becomes(Complete(s), StateOf(s)), NotApplied})
    \o getUpdateSet(s, <<Has({Complete(s)}, "complete_not_applied")>>)
    \o <<Tells, Read(<<AsNoted(CapturesIn(s), "capture_count_mismatch")>>), Claim({CompleteWith(s, n)})>>

(* One script looks for an open set of the name and inserts: on the         *)
(* instance that is one step.                                               *)
Created(me, a) == Way({}, {}, {Open(NewSet(me)), InApplication(NewSet(me), a)}, {})

createWorkingSet(me, a) ==
    LET taken == {InApplication(NewSet(k), a) : k \in Calls}
    IN <<Write({[Created(me, b) EXCEPT !.lacks = taken] : b \in Applications}
               \cup {Answered("create_not_applied", NotApplied)}
               \cup {Answered("update_set_exists", Way({row}, {}, {}, {})) : row \in taken})>>
       \o getUpdateSet(NewSet(me), <<Has({InApplication(NewSet(me), a), Open(NewSet(me))}, "application_not_applied")>>)
       \o <<Claim({InApplication(NewSet(me), a)})>>

(****************************************************************************)
(* UpdateSetManager and ScopeManager                                        *)
(****************************************************************************)
setCurrentUpdateSet(s) == <<Write({Becomes(CurrentSet(s), CurrentSets)}), Claim({CurrentSet(s)})>>

getCurrentUpdateSet == <<Read(<<>>), Read(<<>>)>>

listUpdateSets == <<Read(<<>>)>>

(* The Table API does not take an application: the set is in whichever is   *)
(* current. One requested for an application is created and verified.       *)
inserted(me) == <<Write({Created(me, b) : b \in Applications})>>

createUpdateSet(me, a) == IF a = No THEN inserted(me) \o <<Claim({Open(NewSet(me))})>> ELSE createWorkingSet(me, a)

(* A PUT across scopes is answered 200 and aborted: each capture is read    *)
(* back, and what fails for one does not stop the others.                   *)
moveRecordsToUpdateSet(s, t) ==
    <<Note(CapturesIn(s), <<>>)>>
    \o ForEachCapture(LAMBDA c :
           <<IfNoted({In(c, s)},
                     <<Attempt(<<Write({Moved(c, t), NotApplied}),
                                 If(Has({In(c, t)}, No), <<Claim({In(c, t)})>>, <<>>)>>)>>,
                     <<>>)>>)

Clone(c, me) == <<"clone", c, NewSet(me)>>

cloneUpdateSet(me, s) ==
    <<Read(<<Some(StateOf(s), "not_found")>>)>> \o inserted(me) \o <<Note(CapturesIn(s), <<>>)>>
    \o ForEachCapture(LAMBDA c :
           <<IfNoted({In(c, s)},
                     <<Attempt(<<Write({Way({}, {}, {Clone(c, me)}, {})}), Claim({Clone(c, me)})>>)>>,
                     <<>>)>>)

inspectUpdateSet(s) == <<Read(<<Some(StateOf(s), "not_found")>>), Read(<<>>)>>

getApplications == <<Read(<<Perhaps("not_found")>>)>>

getCurrentApplication == <<Read(<<>>)>>

(* What was current before and whether it took are asked, and need no       *)
(* answer: "verified" says whether the second was given.                    *)
setCurrentApplication(a) ==
    getApplications
    \o <<Attempt(getCurrentApplication),
         Write({Becomes(CurrentApp(a), CurrentApps)}),
         Attempt(<<If(Has({CurrentApp(a)}, No), <<Claim({CurrentApp(a)})>>, <<>>)>>)>>

(****************************************************************************)
(* UpdateSetExporter                                                        *)
(****************************************************************************)
Exported(s) == {s, childOf[s]}

CopiesOf(s) == {Copy(me, x) : me \in Calls, x \in Exported(s)}

Mine(me, s) == {Copy(me, x) : x \in Exported(s)}

(* The set, its children and how many captures each has.                    *)
plan(s, includeIncomplete) ==
    getUpdateSet(s, IF includeIncomplete THEN <<>> ELSE <<Has({Complete(s)}, "update_set_incomplete")>>)
    \o (IF childOf[s] = s THEN <<>> ELSE <<Read(<<>>)>>)
    \o <<Read(<<>>)>>

(* An export that may have left copies says which, where it can find out.   *)
(* The output of a script that cannot be read counts as a failed request.   *)
leftovers(s) ==
    <<Try(<<If(SomeNew(CopiesOf(s), No), <<Attempt(<<Read(<<>>)>>), Throw("temporary_listed")>>, <<Rethrow>>)>>, <<Rethrow>>)>>

copy(me, s) ==
    LET made == Way({}, {}, Mine(me, s), {})
    IN <<Note(CopiesOf(s), <<>>),
         Try(<<Write({made, Answered("update_set_not_found", NotApplied)})>>,
             <<IfCaught("update_set_not_found", <<Rethrow>>, leftovers(s))>>)>>

(* Copies still there are waited for when the platform is to remove them,   *)
(* then deleted, children first; a read says whether they are gone. "Tries" *)
(* stands for the attempts of the poll.                                     *)
Tries == 2

(* Mutant: what the deletes answer is believed.                             *)
cleanupTrusting(me, s, downloaded) ==
    <<Try(<<Until(Lacks(Mine(me, s), No), IF downloaded THEN Tries ELSE 1, <<>>,
                  <<Attempt(<<Write({Way({}, {}, {}, {Copy(me, childOf[s])}), NotApplied})>>),
                    Attempt(<<Write({Way({}, {}, {}, Mine(me, s)), NotApplied})>>)>>)>>,
          <<Throw("cleanup_unverified")>>)>>

cleanup(me, s, downloaded) ==
    <<Try(<<Until(Lacks(Mine(me, s), No), IF downloaded THEN Tries ELSE 1, <<>>,
                  (IF childOf[s] = s THEN <<>> ELSE <<Attempt(<<Write({Way({}, {}, {}, {Copy(me, childOf[s])}), NotApplied})>>)>>)
                  \o <<Attempt(<<Write({Way({}, {}, {}, {Copy(me, s)}), NotApplied})>>),
                       Until(Lacks(Mine(me, s), No), Tries, <<>>, <<Throw("cleanup_unverified")>>)>>)>>,
          <<Throw("cleanup_unverified")>>)>>

(* A local set is exported through a temporary copy that the download       *)
(* removes; what is in the file is checked against the plan.                *)
exportUpdateSet(me, s, includeIncomplete) ==
    plan(s, includeIncomplete) \o <<Read(<<Perhaps("evidence_unavailable")>>)>> \o copy(me, s)
    \o <<WriteQuietly({Way({}, {}, {}, Mine(me, s)), NotApplied}),
         IfTroubled(cleanup(me, s, FALSE), cleanup(me, s, TRUE)),
         Troubled("export_failed")>>

(* A retrieved set is downloaded as it is.                                  *)
exportRetrieved == <<Read(<<Perhaps("retrieved_state")>>), Read(<<>>), Read(<<Perhaps("evidence_unavailable")>>), Read(<<Perhaps("export_mismatch")>>)>>

(* Codes with which these methods refuse before they write anything.        *)
UpdateSetRefusals ==
    {"update_set_not_found", "update_set_closed", "default_update_set", "scope_mismatch", "capture_not_in_source",
     "duplicate_capture", "newer_capture", "capture_count_mismatch", "mixed_scope_capture", "update_set_in_use",
     "update_set_exists", "no_single_default", "update_set_incomplete"}
================================================================================
