------------------------------- MODULE MCPolicy -------------------------------
(* Instances of Policy for TLC: every request over the abstract paths, with  *)
(* a path that resolves to another spelling, and ladders of up to two layers *)
(* between the environment's own.                                            *)
EXTENDS Policy

MCRequests ==
    [ paths    : {{p} : p \in Path} \cup {{"plain", p} : p \in Path},
      method   : Method,
      query    : {{}, {"sysparm_delete_all"}, {"sysparm_delete_when_done"}, {"sysverb_delete"}},
      requires : {NotDeclared, [verbs |-> {}, target |-> "instance"],
                  [verbs |-> {}, target |-> "local"],
                  [verbs |-> {"execute"}, target |-> "instance"],
                  [verbs |-> {"write"}, target |-> "session"]} ]

MCLayers == {grantLayer("read-only flag", {}), denyLayer("read-only flag", {"write"}),
             grantLayer("exec flag", {"execute"}), grantLayer("default", Verb)}

MCLadders == {<< >>} \cup { <<l>> : l \in MCLayers }
               \cup { <<l, grantLayer("write grant", {"write"})>> : l \in MCLayers }

MCDenyEnv == {Unset, {}, {"write"}, {"execute"}, {"all"}, {"wrtie"}, {"write", "wrtie"}}

MCAllowEnv == {Unset, {"execute", "wrtie"}}
================================================================================
