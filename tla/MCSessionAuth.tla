----------------------------- MODULE MCSessionAuth -----------------------------
(* Instances of SessionAuth for TLC: an ordinary read, a stateful write, a  *)
(* stateful read, a read declared to act on the session only, and a         *)
(* background script that the ladder refuses.                               *)
EXTENDS SessionAuth, TLC

plain(m, p) == [paths |-> {p}, method |-> m, query |-> {}, requires |-> NotDeclared]

(* What the pinning question needs: one read that renews, one workflow. *)
MCPinRequests == {plain("get", "plain"), plain("post", "workflow")}

MCRequests ==
    MCPinRequests \cup
    {plain("get", "workflow"),
     [plain("get", "plain") EXCEPT !.requires = [verbs |-> {}, target |-> "session"]],
     plain("post", "sys_scripts")}

MCLadder == <<denyLayer("NEX_POLICY_DENY", {"execute"}), grantLayer("default", {"write"})>>
================================================================================
