--------------------------------- MODULE Scripts ---------------------------------
(* Background scripts and the flows that are run, cancelled and published   *)
(* by scripts: sn/BackgroundScriptExecutor.ts and sn/flow/FlowManager.ts.   *)
(*                                                                          *)
(* A script is posted to the page "Scripts - Background", which runs it     *)
(* before it answers, or is put into a trigger the scheduler runs later.    *)
EXTENDS UpdateSets

(* Call k's script ran when it was posted; it ran by its trigger; the       *)
(* trigger is there, under a name.                                          *)
Ran(k) == <<"ran", k>>
RanLater(k) == <<"ran later", k>>
Trigger(k, name) == <<"trigger", k, name>>

(* Rows of sys_hub_flow and sys_flow_context.                               *)
Flow(f) == <<"flow", f>>
Published(f) == <<"published", f>>
FlowCopy(k, f) == <<"flow copy", k, f>>
Runs(x) == <<"runs", x>>
Stopped(x) == <<"stopped", x>>
Told(k, x) == <<"told", k, x>>
RunOf(k, f) == <<"run of", k, f>>

(****************************************************************************)
(* BackgroundScriptExecutor                                                 *)
(****************************************************************************)
(* Tells a scope scripts cannot run in from a script that failed; the scope *)
(* is known to the executor from an earlier call, or looked up, twice when  *)
(* it is to be explained. An error with a code (session, network) is no     *)
(* refusal of the scope.                                                    *)
resolveScope(known) ==
    IF known THEN <<>>
    ELSE <<Phase("scope refused"),
           If(Perhaps(No), <<>>, <<Read(<<Perhaps("script failed")>>), Throw("scope refused")>>),
           Phase("script failed")>>

(* "not authorized", an empty answer and a status that is not 200 are       *)
(* failures; the last two do not say whether the script ran.                *)
postScript(effects) ==
    LET Done == {Answered(No, w) : w \in effects}
    IN <<Write(Done \cup {Answered("script failed", w) : w \in effects} \cup {Answered("script failed", NotApplied)})>>

(* None when the user is not logged in or the page has no token.            *)
getBackgroundScriptCSRFToken == <<Read(<<Perhaps("script failed")>>)>>

runScript(known, effects) ==
    <<Phase("script failed")>> \o getBackgroundScriptCSRFToken \o resolveScope(known) \o postScript(effects)

ScriptOf(me) == {Way({}, {}, {Ran(me)}, {})}

executeScript(me, known) == runScript(known, ScriptOf(me)) \o <<Claim({Ran(me)})>>

(* A run-once trigger, due in a second; it deletes one of its name.         *)
executeScriptViaTrigger(me, name) ==
    <<Phase("trigger failed"), Write({Way({}, {}, {Trigger(me, name)}, {}), Answered("trigger failed", NotApplied)}),
      Claim({Trigger(me, name)})>>

(* What the scheduler does with call k's trigger.                           *)
triggerFires(k, name) == {Way({Trigger(k, name), Trigger(j, name)}, {}, {RanLater(k)}, {Trigger(j, name)}) : j \in Calls}

(* A script that failed in the global scope is scheduled instead; one whose *)
(* scope was refused is not.                                                *)
fallback(me, global) ==
    IF global THEN <<IfCaught("scope refused", <<Rethrow>>, <<IfCaught("script failed", executeScriptViaTrigger(me, "auto"), <<Rethrow>>)>>)>>
    ELSE <<Rethrow>>

executeScriptAuto(me, global) == <<Try(executeScript(me, FALSE), fallback(me, global))>>

(****************************************************************************)
(* FlowManager                                                              *)
(****************************************************************************)
(* What the scripts do on the instance: run a flow, read a run, end one or  *)
(* only take note of the wish, tell it something, publish a flow.           *)
flowScript(me, f) == {Way({Flow(f)}, {}, {RunOf(me, f)}, {})}

statusScript == {NotApplied}

outputsScript == {NotApplied}

errorScript == {NotApplied}

cancelScript(x) == {Way({Runs(x)}, {}, {Stopped(x)}, {Runs(x)}), NotApplied}

sendMessageScript(me, x) == {Way({}, {}, {Told(me, x)}, {})}

publishScript(f) == {Way({Flow(f)}, {}, {Published(f)}, {})}

(* A script says what became of it in a line of its output: no such line,   *)
(* or one that says it failed, is a failure of the call.                    *)
runEnvelope(known, effects) == <<Try(runScript(known, effects), <<Throw("flow failed")>>)>>

(* The flow is run, or is started and goes on.                              *)
execute(me, f) == runEnvelope(TRUE, flowScript(me, f)) \o <<Claim({RunOf(me, f)})>>

getFlowContextStatus == runEnvelope(TRUE, statusScript)

getFlowOutputs == runEnvelope(TRUE, outputsScript)

getFlowError == runEnvelope(TRUE, errorScript)

cancelFlow(x) == runEnvelope(TRUE, cancelScript(x))

sendFlowMessage(me, x) == runEnvelope(TRUE, sendMessageScript(me, x)) \o <<Claim({Told(me, x)})>>

resolveFlowIdentifier(f) == <<Phase("flow not found"), Read(<<Has({Flow(f)}, "flow not found")>>), Phase("flow failed")>>

publishFlow(f) ==
    resolveFlowIdentifier(f) \o runEnvelope(FALSE, publishScript(f)) \o <<Claim({Published(f)})>>

(* The designer's own interface: an error code in the answer is a failure.  *)
processFlow(f) == <<Read(<<Has({Flow(f)}, "flow failed"), Perhaps("flow failed")>>)>>

getFlowDefinition(f) == processFlow(f)

getFlowActions(f) == processFlow(f)

(* Two reads for an action: what it is, and its steps.                      *)
getActionDefinition(f) == processFlow(f) \o <<Read(<<Perhaps("flow failed")>>)>>

fetchFlowArtifactDefinition(f) == processFlow(f)

(* A test runs the definition that was read, whatever the flow is by now.   *)
testFlow(me, f) ==
    resolveFlowIdentifier(f) \o getFlowDefinition(f)
    \o <<Write({Way({Flow(f)}, {}, {RunOf(me, f)}, {}), Answered("flow failed", NotApplied)}), Claim({RunOf(me, f)})>>

(* An answer without the new flow's sys_id is a failure, though the copy    *)
(* may be there.                                                            *)
copyFlow(me, f) ==
    LET made == Way({Flow(f)}, {}, {FlowCopy(me, f)}, {})
    IN resolveFlowIdentifier(f)
       \o <<Write({made, Answered("flow failed", made), Answered("flow failed", NotApplied)}), Claim({FlowCopy(me, f)})>>

getFlowContextDetails == <<Phase("flow failed"), Read(<<Perhaps("flow failed")>>)>>

getFlowLogs == <<Phase("flow failed"), Read(<<>>)>>

(* Codes with which these methods refuse before anything runs.              *)
ScriptRefusals == {"scope refused", "flow not found"}
================================================================================
