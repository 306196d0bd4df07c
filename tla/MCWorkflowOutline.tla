-------------------------- MODULE MCWorkflowOutline --------------------------
(* Instances of WorkflowOutline for TLC: five activities, the second a      *)
(* decision, the fourth perhaps a Join, the last an End.                    *)
EXTENDS WorkflowOutline

MCExportOrder == <<5, 2, 4, 1, 3>>

MCExits == [a \in Activities |-> CASE a = 2 -> 2 [] a = 5 -> 0 [] OTHER -> 1]

Out(f, e) == [t \in 1..4 |-> <<f, e, t + 1>>]

MCDrawable == Out(1, 1) \o Out(2, 1) \o Out(2, 2) \o Out(3, 1) \o Out(4, 1) \o << <<3, 0, 1>>, <<4, 1, 6>> >>
==============================================================================
