------------------------------ MODULE PolicyRules ------------------------------
(***************************************************************************)
(* What an outgoing request needs, and how a ladder of policy layers       *)
(* answers.  Translates src/src/policy/internal/Classify.ts,               *)
(* src/src/policy/Policy.ts and src/src/policy/PolicyEnv.ts.               *)
(*                                                                         *)
(* A path is abstracted to the class of floor rule it can match; a request *)
(* carries the SET of spellings its path has, the raw one and the ones     *)
(* pathSpellings() resolves it to.  A query is the set of the flags the    *)
(* floor looks at.  Method names are lower case, as floorFor() folds them. *)
(***************************************************************************)
EXTENDS Integers, Sequences

Verb == {"write", "execute"}

Target == {"instance", "local", "session"}

Method == {"get", "post", "put", "patch", "delete"}

(* "plain" is any path that no floor rule names; "workflow" is such a path   *)
(* that also matches /(impersonate|debugger|scripttracer)/.                 *)
Path == {"plain", "workflow", "sys_scripts", "flow_test", "flow_debug",
         "appmanager", "scheduled_table", "scheduled_form"}

Flag == {"sysparm_delete_all", "sysparm_delete_when_done", "sysverb_delete"}

(* request.requires when the caller leaves it unset *)
NotDeclared == [verbs |-> {}, target |-> "unset"]

Declaration == {NotDeclared} \cup [verbs : SUBSET Verb, target : Target]

Request == [paths : SUBSET Path, method : Method, query : SUBSET Flag, requires : Declaration]

--------------------------------------------------------------------------------
(* Classify.ts *)

NOT_GET == {"post", "put", "patch", "delete"}

(* A floor rule holds for a request whose method is one of `methods`, one of *)
(* whose spellings is in `paths`, whose query has every flag of `needs` and  *)
(* none of `unless`.                                                         *)
FLOOR ==
    { [why |-> "background_script_execution", verbs |-> {"execute"},
       methods |-> Method, paths |-> {"sys_scripts"}, needs |-> {}, unless |-> {}],
      [why |-> "flow_designer_test_run", verbs |-> {"execute"},
       methods |-> NOT_GET, paths |-> {"flow_test"}, needs |-> {}, unless |-> {}],
      [why |-> "flow_designer_debug_run", verbs |-> {"execute"},
       methods |-> NOT_GET, paths |-> {"flow_debug"}, needs |-> {}, unless |-> {}],
      [why |-> "app_client_install_update_repair_plugin_change", verbs |-> {"write"},
       methods |-> Method, paths |-> {"appmanager"}, needs |-> {}, unless |-> {}],
      [why |-> "scheduled_job", verbs |-> {"write"},
       methods |-> NOT_GET, paths |-> {"scheduled_table"}, needs |-> {}, unless |-> {}],
      [why |-> "scheduled_job_script", verbs |-> {"execute"},
       methods |-> {"post", "put", "patch"}, paths |-> {"scheduled_table"}, needs |-> {}, unless |-> {}],
      [why |-> "scheduled_job_form_submit", verbs |-> {"write", "execute"},
       methods |-> {"post"}, paths |-> {"scheduled_form"}, needs |-> {}, unless |-> {"sysverb_delete"}],
      [why |-> "sysparm_delete_all", verbs |-> {"write"},
       methods |-> Method, paths |-> Path, needs |-> {"sysparm_delete_all"}, unless |-> {}],
      [why |-> "sysparm_delete_when_done", verbs |-> {"write"},
       methods |-> Method, paths |-> Path, needs |-> {"sysparm_delete_when_done"}, unless |-> {}] }

(* Mutant: deleting a scheduled job by its form is taken for a submit. *)
floorForDeletes(r) ==
    { rule \in FLOOR :
        /\ r.method \in rule.methods
        /\ r.paths \cap rule.paths # {}
        /\ rule.needs \subseteq r.query }

floorFor(r) ==
    { rule \in FLOOR :
        /\ r.method \in rule.methods
        /\ r.paths \cap rule.paths # {}
        /\ rule.needs \subseteq r.query
        /\ rule.unless \cap r.query = {} }

floorVerbs(r) == UNION { rule.verbs : rule \in floorFor(r) }

verbDefault(method) == IF method = "get" THEN {} ELSE {"write"}

classify(r) ==
    LET declared == r.requires # NotDeclared
    IN  [ verbs  |-> (IF declared THEN r.requires.verbs ELSE verbDefault(r.method))
                        \cup floorVerbs(r),
          target |-> IF floorVerbs(r) # {} \/ ~declared
                     THEN "instance" ELSE r.requires.target ]

--------------------------------------------------------------------------------
(* Policy.ts *)

(* A layer grants some verbs, denies some, and abstains on the rest; names  *)
(* are those an application gives its layers, beside the environment's.     *)
Layer(names) ==
    { l \in [name : names \cup {"NEX_POLICY_DENY", "NEX_POLICY_DENY (malformed)", "NEX_POLICY_ALLOW"},
            grants : SUBSET Verb, denies : SUBSET Verb] : l.grants \cap l.denies = {} }

grantLayer(name, granted) == [name |-> name, grants |-> granted, denies |-> {}]

denyLayer(name, denied) == [name |-> name, grants |-> {}, denies |-> denied]

answer(layer, verb) ==
    CASE verb \in layer.grants -> "grant"
      [] verb \in layer.denies -> "deny"
      [] OTHER -> "abstain"

(* Mutant: the last layer that speaks decides. *)
resolveVerbLast(layers, verb) ==
    LET speaking == { i \in 1..Len(layers) : answer(layers[i], verb) # "abstain" }
        last     == CHOOSE i \in speaking : \A j \in speaking : i >= j
    IN  IF speaking = {}
        THEN [granted |-> FALSE, decidingLayer |-> "default"]
        ELSE [granted |-> answer(layers[last], verb) = "grant",
              decidingLayer |-> layers[last].name]

(* The first layer that does not abstain decides; nobody speaking refuses. *)
resolveVerb(layers, verb) ==
    LET speaking == { i \in 1..Len(layers) : answer(layers[i], verb) # "abstain" }
        first    == CHOOSE i \in speaking : \A j \in speaking : i <= j
    IN  IF speaking = {}
        THEN [granted |-> FALSE, decidingLayer |-> "default"]
        ELSE [granted |-> answer(layers[first], verb) = "grant",
              decidingLayer |-> layers[first].name]

(* Mutant: a permitted requirement names the layer of one verb only. *)
checkRequirementFirst(installed, layers, req) ==
    LET refused == { v \in req.verbs : ~resolveVerb(layers, v).granted }
    IN  IF ~installed \/ req.verbs = {} \/ req.target # "instance"
        THEN [allowed |-> TRUE, decidingLayers |-> {IF installed THEN "not-gated" ELSE "no-policy"}]
        ELSE [allowed |-> refused = {},
              decidingLayers |-> {resolveVerb(layers, CHOOSE v \in req.verbs : TRUE).decidingLayer}]

(* The layers a decision names: those that granted, or one that refused.  *)
(* The source tries the verbs in array order and names the first refusal; *)
(* verbs are a set here, so any of them may be the one named.             *)
checkRequirement(installed, layers, req) ==
    LET refused == { v \in req.verbs : ~resolveVerb(layers, v).granted }
    IN  IF ~installed \/ req.verbs = {} \/ req.target # "instance"
        THEN [allowed |-> TRUE, decidingLayers |-> {IF installed THEN "not-gated" ELSE "no-policy"}]
        ELSE [allowed |-> refused = {},
              decidingLayers |-> { resolveVerb(layers, v).decidingLayer :
                                     v \in IF refused = {} THEN req.verbs ELSE refused }]

--------------------------------------------------------------------------------
(* PolicyEnv.ts: an environment variable is unset (or blank), or the set of  *)
(* the tokens it is split into.  "wrtie" stands for every token that is not  *)
(* a verb.                                                                   *)

Unset == {"unset"}

Token == {"write", "execute", "all", "wrtie"}

(* Mutant: tokens that are no verbs are kept. *)
parseVerbListRaw(tokens) ==
    IF "all" \in tokens THEN [verbs |-> Verb, unknown |-> {}]
                        ELSE [verbs |-> tokens, unknown |-> tokens \ Verb]

parseVerbList(tokens) ==
    IF "all" \in tokens THEN [verbs |-> Verb, unknown |-> {}]
                        ELSE [verbs |-> tokens \cap Verb, unknown |-> tokens \ Verb]

(* Mutant: a misspelt verb is ignored, and so not denied. *)
denyFromEnvironmentOpen(raw) ==
    IF raw = Unset THEN << >> ELSE <<denyLayer("NEX_POLICY_DENY", parseVerbList(raw).verbs)>>

(* Zero or one layer: the layer is absent when the variable is unset. *)
denyFromEnvironment(raw) ==
    IF raw = Unset THEN << >>
    ELSE LET p == parseVerbList(raw)
         IN  IF p.unknown # {} THEN <<denyLayer("NEX_POLICY_DENY (malformed)", Verb)>>
                               ELSE <<denyLayer("NEX_POLICY_DENY", p.verbs)>>

allowFromEnvironment(raw) ==
    IF raw = Unset \/ parseVerbList(raw).verbs = {} THEN << >>
    ELSE <<grantLayer("NEX_POLICY_ALLOW", parseVerbList(raw).verbs)>>
================================================================================
