--------------------------------- MODULE Policy ---------------------------------
(***************************************************************************)
(* The process-wide permission policy of src/src/policy/Policy.ts as a     *)
(* state machine: an application installs a ladder of layers, and every    *)
(* request the process is about to send is classified and decided by       *)
(* RequestHandler.assertPermitted before it reaches the wire.              *)
(***************************************************************************)
EXTENDS PolicyRules

CONSTANTS
    Requests,   \* the requests the process may try to send
    DenyEnv,    \* values of NEX_POLICY_DENY: Unset, or a set of tokens
    AllowEnv,   \* values of NEX_POLICY_ALLOW
    LayerNames, \* names of the layers of an application
    Ladders     \* the layers an application puts between the two

ASSUME PolicyAssumption ==
    /\ Requests \subseteq Request
    /\ DenyEnv \subseteq {Unset} \cup SUBSET Token
    /\ AllowEnv \subseteq {Unset} \cup SUBSET Token
    /\ Ladders \subseteq Seq(Layer(LayerNames))

VARIABLES
    installed,  \* Policy.ts `installed`
    layers,     \* Policy.ts `layers`
    deny,       \* the NEX_POLICY_DENY the ladder was built from
    decision    \* the decision being acted on, or NoDecision

vars == <<installed, layers, deny, decision>>

NoDecision == [request |-> "none"]

Init ==
    /\ installed = FALSE
    /\ layers = << >>
    /\ deny = Unset
    /\ decision = NoDecision

(* installPolicy: the application builds its ladder from the environment.  *)
(* The deny layer comes first, NEX_POLICY_ALLOW after the application's.   *)
installPolicy(d, mid, a) ==
    /\ decision = NoDecision
    /\ installed' = TRUE
    /\ layers' = denyFromEnvironment(d) \o mid \o allowFromEnvironment(a)
    /\ deny' = d
    /\ UNCHANGED decision

resetPolicyForTests ==
    /\ decision = NoDecision
    /\ installed' = FALSE
    /\ layers' = << >>
    /\ deny' = Unset
    /\ UNCHANGED decision

(* A request that needs no verb is let through without asking the ladder. *)
assertPermitted(r) ==
    /\ decision = NoDecision
    /\ decision' =
         IF classify(r).verbs = {}
         THEN [request |-> r, allowed |-> TRUE, decidingLayers |-> {}]
         ELSE LET d == checkRequirement(installed, layers, classify(r))
              IN  [request |-> r, allowed |-> d.allowed, decidingLayers |-> d.decidingLayers]
    /\ UNCHANGED <<installed, layers, deny>>

(* The permitted request is sent, or the refusal is thrown. *)
settle ==
    /\ decision # NoDecision
    /\ decision' = NoDecision
    /\ UNCHANGED <<installed, layers, deny>>

Next ==
    \/ \E d \in DenyEnv, mid \in Ladders, a \in AllowEnv : installPolicy(d, mid, a)
    \/ resetPolicyForTests
    \/ \E r \in Requests : assertPermitted(r)
    \/ settle

Spec == Init /\ [][Next]_vars

--------------------------------------------------------------------------------
TypeOK ==
    /\ installed \in BOOLEAN
    /\ deny \in DenyEnv \cup {Unset}
    /\ \A i \in 1..Len(layers) : layers[i] \in Layer(LayerNames)
    /\ decision # NoDecision =>
         decision.request \in Requests /\ decision.allowed \in BOOLEAN

(* What NEX_POLICY_DENY forbids: a typo forbids everything. *)
deniedByEnvironment ==
    CASE deny = Unset -> {}
      [] deny # Unset /\ deny \subseteq Verb -> deny
      [] OTHER -> Verb

(* What a request does whatever its caller says of it: what its route does, *)
(* and a write when it is not a GET and nobody said otherwise.              *)
effects(r) ==
    floorVerbs(r) \cup (IF r.requires = NotDeclared THEN verbDefault(r.method) ELSE {})

decided == decision # NoDecision

(* No request gets past a verb that NEX_POLICY_DENY takes away: not by     *)
(* declaring its floor away or another target, not through another         *)
(* spelling of the path, not by a lower layer granting the verb, and not   *)
(* because the variable was misspelt (PolicyEnv.ts "FAILS CLOSED").        *)
DenyIsFinal ==
    decided /\ decision.allowed =>
        effects(decision.request) \cap deniedByEnvironment = {}

(* Once a policy is installed a mutation needs an explicit grant from a    *)
(* layer, and no layer above that one denied the verb: the FIRST layer to  *)
(* answer decides, and nobody answering refuses.                           *)
GrantedFromAbove ==
    decided /\ decision.allowed /\ installed =>
        \A v \in effects(decision.request) :
            \E i \in 1..Len(layers) :
                /\ v \in layers[i].grants
                /\ \A j \in 1..(i - 1) : v \notin layers[j].denies

(* A plain read is never refused, whatever the ladder; nor is reading the   *)
(* scheduled jobs or a debug run's breakpoints, which share their paths     *)
(* with operations that are gated.                                          *)
ReadsStayOpen ==
    decided /\ decision.request.method = "get"
            /\ decision.request.query = {}
            /\ decision.request.requires = NotDeclared
            /\ decision.request.paths \cap {"sys_scripts", "appmanager"} = {}
        => decision.allowed

(* A scheduled job can be removed, over the Table API or by its form, under *)
(* a policy that denies execute and grants write.                           *)
JobsRemovableUnderDenyExecute ==
    decided /\ deny = {"execute"}
            /\ (\A i \in 1..Len(layers) : "write" \notin layers[i].denies)
            /\ (\E i \in 1..Len(layers) : "write" \in layers[i].grants)
            /\ decision.request.requires = NotDeclared
            /\ \/ decision.request.paths = {"scheduled_table"} /\ decision.request.method = "delete"
               \/ /\ decision.request.paths = {"scheduled_form"} /\ decision.request.method = "post"
                  /\ "sysverb_delete" \in decision.request.query
        => decision.allowed

(* The floor under every declaration is no wider than it must be: whatever  *)
(* a policy denies, reads are open, and jobs can be removed without the     *)
(* right to execute.                                                        *)
FloorIsNarrow == ReadsStayOpen /\ JobsRemovableUnderDenyExecute

(* The audit line of a permitted mutation names every layer that granted a  *)
(* verb of it, not just the first verb's.                                   *)
AuditNamesEveryGrant ==
    decided /\ decision.allowed /\ installed /\ classify(decision.request).target = "instance" =>
        \A v \in classify(decision.request).verbs :
            \E i \in 1..Len(layers) :
                /\ v \in layers[i].grants
                /\ layers[i].name \in decision.decidingLayers
================================================================================
