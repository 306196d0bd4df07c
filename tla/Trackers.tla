-------------------------------- MODULE Trackers --------------------------------
(* Work the instance reports on with a tracker: installing, updating,       *)
(* repairing and publishing applications, and running tests:                *)
(* sn/application/ApplicationManager.ts, AppRepoApplication.ts,             *)
(* CompanyApplications.ts, sn/ProgressWorker.ts, sn/atf/ATFTestExecutor.ts. *)
(*                                                                          *)
(* The request that starts the work is answered with a tracker, which is    *)
(* read until it is at 100 percent or the time is out.                      *)
EXTENDS UpdateSets

(* The tracker of call k, that its work is over, the history rows finished  *)
(* work writes and the results of tests.                                    *)
Tracker(k, state) == <<"tracker", k, state>>
Over(k) == <<"over", k>>
History(a, k) == <<"history", a, k>>
TestResult(k) == <<"result", k>>
StoreApp(a) == <<"store app", a>>

TrackerRows(k) == {Tracker(k, state) : state \in {"running", "done", "failed", "cancelled"}} \cup {Over(k)}
HistoryOf(a) == {History(a, k) : k \in Calls}

(* A row of the history of an application, beside these, is finished.       *)
WrittenSince(a, rows) == <<"written since", a, rows>>

(* What the platform does with call k's work. Work that failed or was       *)
(* cancelled below 100 percent is, until the time is out, like work that    *)
(* goes on.                                                                 *)
operationEnds(k) ==
    {Way({Tracker(k, "running")}, {}, {Tracker(k, state), Over(k)}, TrackerRows(k)) : state \in {"done", "failed", "cancelled"}}

historyWritten(a, k) == {Way({Tracker(k, "done")}, {}, {History(a, k)}, {})}

testsEnd(k) ==
    {[w EXCEPT !.add = @ \cup results] : w \in operationEnds(k), results \in {{}, {TestResult(k)}}}

(****************************************************************************)
(* Starting and waiting                                                     *)
(****************************************************************************)
(* The answer names a tracker, or does not, or is an error, which need not  *)
(* mean that nothing was started.                                           *)
Start(me) ==
    LET started == Way({}, {}, {Tracker(me, "running")}, {})
    IN <<Write({started} \cup {Answered(code, w) : code \in {"no tracker", "start failed"}, w \in {started, NotApplied}})>>

getProgress == <<Read(<<>>)>>

(* "Tries" stands for the reads before the time is out. An answer without a *)
(* percentage is not below 100 percent: it ends the wait.                   *)
polled(me) ==
    <<Noting(TrackerRows(me), Until(LacksOrUnsaid({Tracker(me, "running")}, No), Tries, <<>>, <<Throw("timed out")>>)),
      IfNoted({Tracker(me, "failed")}, <<Throw("operation failed")>>, <<>>)>>

(****************************************************************************)
(* ApplicationManager                                                       *)
(****************************************************************************)
(* Work that is at 100 percent, without an error, counts as a success. So   *)
(* does work of which the last answer gave no percentage, nor a failure; it *)
(* is reported without a percentage, which says nothing of its end.         *)
waitForInstallationCompletion(me) ==
    polled(me) \o <<IfNoted({Tracker(me, "running")}, <<>>, <<Claim({Over(me)})>>)>>

(* A batch without a tracker is not waited for.                             *)
installBatch(me) == <<Try(Start(me) \o waitForInstallationCompletion(me), <<IfCaught("no tracker", <<>>, <<Rethrow>>)>>)>>

getApplicationDetails == <<Read(<<>>)>>

(* One read per application of the batch; one that fails is listed.         *)
validateBatchInstallation == <<Attempt(getApplicationDetails), Attempt(getApplicationDetails)>>

searchApplications == <<Read(<<>>)>>

(* Installing and updating differ in what is asked for.                     *)
storeApplication(me) == Start(me)

storeApplicationAndWait(me) == storeApplication(me) \o waitForInstallationCompletion(me)

(* The application, its repository and its customization.                   *)
repairTarget(a) == <<Read(<<Has({StoreApp(a)}, "app_not_found"), Perhaps("app not repairable")>>), Read(<<>>)>>

repairStoreApplication(me, a) == repairTarget(a) \o <<Note(HistoryOf(a), <<>>), Read(<<>>)>> \o Start(me)

RECURSIVE claimNewRow(_, _, _)
(* What a repair answers: the history has a row it did not have before. It  *)
(* may be another install's; that cannot be told.                           *)
claimNewRow(a, rows, old) ==
    IF rows = {} THEN <<Claim({WrittenSince(a, old)})>>
    ELSE LET row == CHOOSE x \in rows : TRUE
         IN <<IfNoted({row}, claimNewRow(a, rows \ {row}, old \cup {row}), claimNewRow(a, rows \ {row}, old))>>

(* A repair counts as made when the work is over and the history has a row  *)
(* it did not have before; that may come late, and counts from when it is   *)
(* finished. Work that was not a success is reported with what history      *)
(* there is.                                                                *)
waitForStoreApplicationRepair(me, a) ==
    LET reported == <<Read(<<>>), Rethrow>>
    IN <<Try(waitForInstallationCompletion(me),
             <<IfCaught("timed out", reported, <<IfCaught("operation failed", reported, <<Rethrow>>)>>)>>),
         Until(SomeNew(HistoryOf(a), No), Tries, <<>>, <<Throw("not repaired")>>),
         Read(<<>>)>>
       \o claimNewRow(a, HistoryOf(a), {})

repairStoreApplicationAndWait(me, a) == repairStoreApplication(me, a) \o waitForStoreApplicationRepair(me, a)

(****************************************************************************)
(* AppRepoApplication and CompanyApplications                               *)
(****************************************************************************)
(* Here only the status of a success is one.                                *)
waitForCompletion(me) ==
    polled(me) \o <<IfNoted({Tracker(me, "done")}, <<Claim({Tracker(me, "done")})>>, <<Throw("no success")>>)>>

installFromAppRepo(me) == Start(me)

installFromAppRepoAndWait(me) == installFromAppRepo(me) \o waitForCompletion(me)

publishToAppRepo(me) == Start(me)

publishToAppRepoAndWait(me) == publishToAppRepo(me) \o waitForCompletion(me)

getCompanyApplications == <<Read(<<Perhaps("failed")>>)>>

(****************************************************************************)
(* ATFTestExecutor                                                          *)
(****************************************************************************)
(* A test is waited for without a limit of time; a progress without a       *)
(* percentage, and one without a result, are answered with no result.       *)
waitForTestCompletion(me) == <<Until(Lacks({Tracker(me, "running")}, No), Tries, <<>>, <<Throw("no result")>>)>>

getTestResult(me) == <<Read(<<Has({TestResult(me)}, "no result")>>), Claim({TestResult(me)})>>

executeTest(me) == Start(me) \o waitForTestCompletion(me) \o getTestResult(me)

executeTestSuite(me) == Start(me)

(* A suite that failed or was cancelled is not waited for any longer.       *)
waitForTestSuiteCompletion(me) == waitForTestCompletion(me) \o getTestResult(me)

executeTestSuiteAndWait(me) == executeTestSuite(me) \o waitForTestSuiteCompletion(me)

(* Codes with which these methods refuse before they start anything.        *)
TrackerRefusals == {"app_not_found", "app not repairable"}
================================================================================
