------------------------------ MODULE PolicyProofs ------------------------------
(***************************************************************************)
(* The properties of Policy for any ladder of layers, any value of the two *)
(* environment variables and any requests.  PolicyInv says where an        *)
(* installed ladder came from and what the decision in hand was made of;   *)
(* the properties then follow from what the ladder answers.                *)
(***************************************************************************)
EXTENDS Policy, LeastElements

AnyLayer == Layer(LayerNames)

(* The ladder begins with what the environment denies.                     *)
DenialFirst ==
    /\ deny # Unset => Len(layers) >= 1 /\ layers[1].grants = {} /\ layers[1].denies = deniedByEnvironment
    /\ ~installed => deny = Unset

(* A decision in hand is what assertPermitted makes of the present ladder.  *)
Decided(d) ==
    LET need == classify(d.request)
    IN  /\ d.request \in Requests
        /\ d.allowed \in BOOLEAN
        /\ need.verbs = {} => d.allowed
        /\ need.verbs # {} =>
             /\ d.allowed = checkRequirement(installed, layers, need).allowed
             /\ d.decidingLayers = checkRequirement(installed, layers, need).decidingLayers

PolicyInv ==
    /\ installed \in BOOLEAN
    /\ deny \in DenyEnv \cup {Unset}
    /\ layers \in Seq(AnyLayer)
    /\ DenialFirst
    /\ decided => Decided(decision)

--------------------------------------------------------------------------------
(* The ladder *)

(* A layer that speaks of a verb, and no layer above it does.               *)
First(ls, v, i) ==
    /\ i \in 1..Len(ls)
    /\ answer(ls[i], v) # "abstain"
    /\ \A j \in 1..(i - 1) : answer(ls[j], v) = "abstain"

(* The first layer that speaks of a verb decides it; none, and it is        *)
(* refused (resolveVerb).                                                   *)
LEMMA FirstDecides ==
    ASSUME NEW ls \in Seq(AnyLayer), NEW v
    PROVE  \/ /\ \A i \in 1..Len(ls) : answer(ls[i], v) = "abstain"
              /\ resolveVerb(ls, v).granted = FALSE
           \/ \E i \in 1..Len(ls) :
                /\ First(ls, v, i)
                /\ resolveVerb(ls, v).granted = (answer(ls[i], v) = "grant")
                /\ resolveVerb(ls, v).decidingLayer = ls[i].name
<1> DEFINE speaking == {i \in 1..Len(ls) : answer(ls[i], v) # "abstain"}
           first == CHOOSE i \in speaking : \A j \in speaking : i <= j
<1>1. CASE speaking = {}
  BY <1>1 DEF resolveVerb
<1>2. CASE speaking # {}
  <2>1. \E i \in speaking : \A j \in speaking : i <= j
    <3>1. speaking \in SUBSET Nat
      OBVIOUS
    <3> HIDE DEF speaking
    <3> QED
      BY <1>2, <3>1, LeastElement
  <2>2. first \in speaking /\ \A j \in speaking : first <= j
    BY <2>1
  <2>3. /\ resolveVerb(ls, v).granted = (answer(ls[first], v) = "grant")
        /\ resolveVerb(ls, v).decidingLayer = ls[first].name
    BY <1>2 DEF resolveVerb
  <2> HIDE DEF first
  <2>4. \A j \in 1..(first - 1) : j \notin speaking /\ j \in 1..Len(ls)
    BY <2>2
  <2>5. First(ls, v, first)
    BY <2>2, <2>4 DEF First
  <2> QED
    BY <2>2, <2>3, <2>5
<1> QED
  BY <1>1, <1>2

(* What a layer grants it does not deny, and the other way round.           *)
LEMMA AnswerOf ==
    ASSUME NEW l \in AnyLayer, NEW v
    PROVE  /\ answer(l, v) = "grant" <=> v \in l.grants
           /\ answer(l, v) = "deny" <=> v \in l.denies
           /\ answer(l, v) \in {"grant", "deny", "abstain"}
  BY DEF answer, AnyLayer, Layer

(* A granted verb is granted by a layer below no denial of it, which the    *)
(* decision names.                                                          *)
LEMMA GrantedByLayer ==
    ASSUME NEW ls \in Seq(AnyLayer), NEW v, resolveVerb(ls, v).granted
    PROVE  \E i \in 1..Len(ls) :
              /\ v \in ls[i].grants
              /\ \A j \in 1..(i - 1) : v \notin ls[j].denies
              /\ resolveVerb(ls, v).decidingLayer = ls[i].name
<1>1. PICK i \in 1..Len(ls) : /\ First(ls, v, i)
                              /\ answer(ls[i], v) = "grant"
                              /\ resolveVerb(ls, v).decidingLayer = ls[i].name
  BY FirstDecides
<1>2. \A j \in 1..Len(ls) : ls[j] \in AnyLayer
  OBVIOUS
<1>3. \A j \in 1..(i - 1) : j \in 1..Len(ls) /\ v \notin ls[j].denies
  <2> TAKE j \in 1..(i - 1)
  <2>1. j \in 1..Len(ls) /\ answer(ls[j], v) = "abstain"
    BY <1>1 DEF First
  <2> QED
    BY <1>2, <2>1, AnswerOf
<1> QED
  BY <1>1, <1>2, <1>3, AnswerOf

(* A verb that some layer grants and none denies is granted.                *)
LEMMA GrantedWhereUndenied ==
    ASSUME NEW ls \in Seq(AnyLayer), NEW v,
           \A i \in 1..Len(ls) : v \notin ls[i].denies,
           \E i \in 1..Len(ls) : v \in ls[i].grants
    PROVE  resolveVerb(ls, v).granted
<1>1. \A i \in 1..Len(ls) : ls[i] \in AnyLayer
  OBVIOUS
<1>2. \A i \in 1..Len(ls) : answer(ls[i], v) # "deny"
  BY <1>1, AnswerOf
<1>3. PICK i \in 1..Len(ls) : answer(ls[i], v) = "grant"
  BY <1>1, AnswerOf
<1>4. PICK j \in 1..Len(ls) : /\ First(ls, v, j)
                              /\ resolveVerb(ls, v).granted = (answer(ls[j], v) = "grant")
  BY <1>3, FirstDecides
<1>5. answer(ls[j], v) = "grant"
  BY <1>1, <1>2, <1>4, AnswerOf DEF First
<1> QED
  BY <1>4, <1>5

(* An allowed requirement that is gated has every verb granted, by the      *)
(* layers the decision names.                                               *)
LEMMA AllowedIsGranted ==
    ASSUME NEW ls, NEW need, need.target = "instance",
           checkRequirement(TRUE, ls, need).allowed, NEW v \in need.verbs
    PROVE  /\ resolveVerb(ls, v).granted
           /\ resolveVerb(ls, v).decidingLayer \in checkRequirement(TRUE, ls, need).decidingLayers
<1> DEFINE refused == {w \in need.verbs : ~resolveVerb(ls, w).granted}
<1>1. checkRequirement(TRUE, ls, need).allowed <=> refused = {}
  BY DEF checkRequirement
<1>2. refused = {}
  BY <1>1
<1>3. checkRequirement(TRUE, ls, need).decidingLayers =
        {resolveVerb(ls, w).decidingLayer : w \in need.verbs}
  BY <1>2 DEF checkRequirement
<1> QED
  BY <1>2, <1>3

--------------------------------------------------------------------------------
(* The invariant *)

(* The ladder the environment makes is one of layers; NEX_POLICY_DENY is    *)
(* its first layer when it is set, and denies everything when it is         *)
(* misspelt (denyFromEnvironment).                                          *)
EnvironmentThen(d, mid, a) == denyFromEnvironment(d) \o mid \o allowFromEnvironment(a)

LEMMA EnvironmentLadder ==
    \A d \in DenyEnv, mid \in Ladders, a \in AllowEnv :
        LET ls == EnvironmentThen(d, mid, a)
        IN  /\ ls \in Seq(AnyLayer)
            /\ d # Unset => /\ Len(ls) >= 1 /\ ls[1].grants = {}
                            /\ ls[1].denies = IF d \subseteq Verb THEN d ELSE Verb
<1> TAKE d \in DenyEnv, mid \in Ladders, a \in AllowEnv
<1>1. /\ denyFromEnvironment(d) \in Seq(AnyLayer)
      /\ d # Unset => /\ Len(denyFromEnvironment(d)) = 1
                      /\ denyFromEnvironment(d)[1].grants = {}
                      /\ denyFromEnvironment(d)[1].denies = IF d \subseteq Verb THEN d ELSE Verb
  <2>1. CASE d = Unset
    BY <2>1 DEF denyFromEnvironment
  <2>2. CASE d # Unset
    <3>1. d \subseteq Token
      BY <2>2, PolicyAssumption
    <3> DEFINE vs == IF d \subseteq Verb THEN d ELSE Verb
    <3>2. \/ denyFromEnvironment(d) = <<denyLayer("NEX_POLICY_DENY (malformed)", vs)>>
          \/ denyFromEnvironment(d) = <<denyLayer("NEX_POLICY_DENY", vs)>>
      <4>1. CASE "all" \in d
        <5>1. vs = Verb
          BY <4>1 DEF Verb
        <5>2. parseVerbList(d).verbs = vs /\ parseVerbList(d).unknown = {}
          BY <4>1, <5>1 DEF parseVerbList
        <5> HIDE DEF vs
        <5> QED
          BY <2>2, <5>2 DEF denyFromEnvironment
      <4>2. CASE "all" \notin d /\ d \subseteq Verb
        <5>1. d \cap Verb = vs /\ d \ Verb = {}
          BY <4>2
        <5>2. parseVerbList(d).verbs = vs /\ parseVerbList(d).unknown = {}
          BY <4>2, <5>1 DEF parseVerbList
        <5> HIDE DEF vs
        <5> QED
          BY <2>2, <5>2 DEF denyFromEnvironment
      <4>3. CASE "all" \notin d /\ ~(d \subseteq Verb)
        <5>1. parseVerbList(d).unknown # {} /\ vs = Verb
          BY <4>3 DEF parseVerbList
        <5> HIDE DEF vs
        <5> QED
          BY <2>2, <5>1 DEF denyFromEnvironment
      <4> QED
        BY <4>1, <4>2, <4>3
    <3>3. ASSUME NEW name \in {"NEX_POLICY_DENY", "NEX_POLICY_DENY (malformed)"}
          PROVE  /\ denyLayer(name, vs) \in AnyLayer /\ denyLayer(name, vs).grants = {}
                 /\ denyLayer(name, vs).denies = vs
      BY DEF denyLayer, AnyLayer, Layer
    <3>4. \A l \in AnyLayer : <<l>> \in Seq(AnyLayer) /\ Len(<<l>>) = 1 /\ <<l>>[1] = l
      OBVIOUS
    <3> HIDE DEF vs, denyLayer
    <3>5. \E l \in AnyLayer : denyFromEnvironment(d) = <<l>> /\ l.grants = {} /\ l.denies = vs
      BY <3>2, <3>3
    <3> QED
      BY <3>4, <3>5 DEF vs
  <2> QED
    BY <2>1, <2>2
<1>2. allowFromEnvironment(a) \in Seq(AnyLayer)
  <2>1. CASE a = Unset \/ parseVerbList(a).verbs = {}
    BY <2>1 DEF allowFromEnvironment
  <2>2. CASE ~(a = Unset \/ parseVerbList(a).verbs = {})
    <3>1. parseVerbList(a).verbs \in SUBSET Verb
      BY DEF parseVerbList
    <3>2. grantLayer("NEX_POLICY_ALLOW", parseVerbList(a).verbs) \in AnyLayer
      BY <3>1 DEF grantLayer, AnyLayer, Layer
    <3> QED
      BY <2>2, <3>2 DEF allowFromEnvironment
  <2> QED
    BY <2>1, <2>2
<1>3. mid \in Seq(AnyLayer)
  BY PolicyAssumption DEF AnyLayer
<1> QED
  BY <1>1, <1>2, <1>3 DEF EnvironmentThen

LEMMA InitPolicy == Init => PolicyInv
<1>1. Init => layers \in Seq(AnyLayer)
  BY DEF Init
<1> QED
  BY <1>1 DEF Init, PolicyInv, DenialFirst, decided

(* Every step keeps the invariant.                                          *)
LEMMA StepPolicy == PolicyInv /\ [Next]_vars => PolicyInv'
<1> SUFFICES ASSUME PolicyInv, [Next]_vars PROVE PolicyInv'
  OBVIOUS
<1>1. ASSUME NEW d \in DenyEnv, NEW mid \in Ladders, NEW a \in AllowEnv, installPolicy(d, mid, a)
      PROVE  PolicyInv'
  <2>1. layers' \in Seq(AnyLayer) /\ (d # Unset => /\ Len(layers') >= 1 /\ layers'[1].grants = {}
                                               /\ layers'[1].denies = IF d \subseteq Verb THEN d ELSE Verb)
    <3>1. layers' = EnvironmentThen(d, mid, a)
      BY <1>1 DEF installPolicy, EnvironmentThen
    <3> QED
      BY <3>1, EnvironmentLadder
  <2>2. DenialFirst'
    BY <1>1, <2>1 DEF installPolicy, DenialFirst, deniedByEnvironment
  <2> QED
    BY <1>1, <2>1, <2>2 DEF installPolicy, PolicyInv, decided
<1>2. CASE resetPolicyForTests
  <2>1. layers' \in Seq(AnyLayer)
    BY <1>2 DEF resetPolicyForTests
  <2> QED
    BY <1>2, <2>1 DEF resetPolicyForTests, PolicyInv, DenialFirst, decided
<1>3. ASSUME NEW r \in Requests, assertPermitted(r)
      PROVE  PolicyInv'
  <2>1. UNCHANGED <<installed, layers, deny>>
    BY <1>3 DEF assertPermitted
  <2>2. DenialFirst'
    BY <2>1 DEF PolicyInv, DenialFirst, deniedByEnvironment
  <2>3. Decided(decision)'
    <3>1. CASE classify(r).verbs = {}
      BY <1>3, <3>1 DEF assertPermitted, Decided
    <3>2. CASE classify(r).verbs # {}
      <4>1. /\ decision'.request = r
            /\ decision'.allowed = checkRequirement(installed, layers, classify(r)).allowed
            /\ decision'.decidingLayers = checkRequirement(installed, layers, classify(r)).decidingLayers
        BY <1>3, <3>2 DEF assertPermitted
      <4>2. checkRequirement(installed, layers, classify(r)).allowed \in BOOLEAN
        BY DEF checkRequirement
      <4> QED
        BY <2>1, <3>2, <4>1, <4>2 DEF Decided
    <3> QED
      BY <3>1, <3>2
  <2> QED
    BY <2>1, <2>2, <2>3 DEF PolicyInv
<1>4. CASE settle
  BY <1>4 DEF settle, PolicyInv, DenialFirst, deniedByEnvironment, decided
<1>5. CASE UNCHANGED vars
  BY <1>5 DEF vars, PolicyInv, DenialFirst, deniedByEnvironment, decided, Decided
<1> QED
  BY <1>1, <1>2, <1>3, <1>4, <1>5 DEF Next

(* Whatever ladder is installed and whatever is asked of it, PolicyInv      *)
(* holds throughout.                                                        *)
THEOREM PolicySafe == Spec => []PolicyInv
  BY InitPolicy, StepPolicy, PTL DEF Spec

--------------------------------------------------------------------------------
(* What follows from it *)

(* The types of what Policy.ts keeps, and of the decision in hand.          *)
THEOREM PolicyTyped == Spec => []TypeOK
<1>1. PolicyInv => TypeOK
  BY DEF PolicyInv, TypeOK, Decided, decided, AnyLayer
<1> QED
  BY <1>1, PolicySafe, PTL

(* What a request does is among what it is held to need, on the instance    *)
(* (classify): a declaration never takes the floor or the target of a floor *)
(* away.                                                                    *)
LEMMA EffectsNeeded ==
    ASSUME NEW r, effects(r) # {}
    PROVE  effects(r) \subseteq classify(r).verbs /\ classify(r).target = "instance"
<1>1. CASE r.requires = NotDeclared
  BY <1>1 DEF effects, classify
<1>2. CASE r.requires # NotDeclared
  BY <1>2 DEF effects, classify
<1> QED
  BY <1>1, <1>2

(* An allowed request that does something, with a policy installed, had     *)
(* each verb it needs granted.                                              *)
LEMMA AllowedVerbsGranted ==
    ASSUME PolicyInv, decided, decision.allowed, installed,
           classify(decision.request).target = "instance",
           NEW v \in classify(decision.request).verbs
    PROVE  /\ resolveVerb(layers, v).granted
           /\ resolveVerb(layers, v).decidingLayer \in decision.decidingLayers
<1> DEFINE need == classify(decision.request)
<1>1. need.verbs # {}
  OBVIOUS
<1>2. /\ checkRequirement(TRUE, layers, need).allowed
      /\ decision.decidingLayers = checkRequirement(TRUE, layers, need).decidingLayers
  <2>1. installed = TRUE
    BY DEF PolicyInv
  <2>2. Decided(decision)
    BY DEF PolicyInv
  <2> QED
    BY <1>1, <2>1, <2>2 DEF Decided
<1> QED
  BY <1>2, AllowedIsGranted

(* No request gets past a verb that NEX_POLICY_DENY takes away, whatever    *)
(* the layers below say and whatever the request declares (DenyIsFinal).    *)
THEOREM DenialsHold == Spec => []DenyIsFinal
<1>1. PolicyInv => DenyIsFinal
  <2> SUFFICES ASSUME PolicyInv, decided, decision.allowed,
                      NEW v \in effects(decision.request) \cap deniedByEnvironment
               PROVE  FALSE
    BY DEF DenyIsFinal
  <2>1. deny # Unset /\ installed
    BY DEF deniedByEnvironment, PolicyInv, DenialFirst
  <2>2. Len(layers) >= 1 /\ v \in layers[1].denies
    BY <2>1 DEF PolicyInv, DenialFirst
  <2>3. /\ v \in classify(decision.request).verbs
        /\ classify(decision.request).target = "instance"
    BY EffectsNeeded
  <2>4. resolveVerb(layers, v).granted
    BY <2>1, <2>3, AllowedVerbsGranted
  <2>5. layers \in Seq(AnyLayer)
    BY DEF PolicyInv
  <2>6. PICK i \in 1..Len(layers) : v \in layers[i].grants /\ \A j \in 1..(i - 1) : v \notin layers[j].denies
    BY <2>4, <2>5, GrantedByLayer
  <2>7. i = 1
    BY <2>2, <2>5, <2>6
  <2> QED
    BY <2>1, <2>6, <2>7 DEF PolicyInv, DenialFirst
<1> QED
  BY <1>1, PolicySafe, PTL

(* With a policy installed, what a request does was granted by a layer      *)
(* above which no layer denied it (GrantedFromAbove).                       *)
THEOREM GrantsComeFromAbove == Spec => []GrantedFromAbove
<1>1. PolicyInv => GrantedFromAbove
  <2> SUFFICES ASSUME PolicyInv, decided, decision.allowed, installed,
                      NEW v \in effects(decision.request)
               PROVE  \E i \in 1..Len(layers) :
                         v \in layers[i].grants /\ \A j \in 1..(i - 1) : v \notin layers[j].denies
    BY DEF GrantedFromAbove
  <2>1. v \in classify(decision.request).verbs /\ classify(decision.request).target = "instance"
    BY EffectsNeeded
  <2>2. layers \in Seq(AnyLayer)
    BY DEF PolicyInv
  <2> QED
    BY <2>1, <2>2, AllowedVerbsGranted, GrantedByLayer
<1> QED
  BY <1>1, PolicySafe, PTL

(* A decision that permits names, for every verb, a layer that granted it   *)
(* (AuditNamesEveryGrant).                                                  *)
THEOREM AuditsAreComplete == Spec => []AuditNamesEveryGrant
<1>1. PolicyInv => AuditNamesEveryGrant
  <2> SUFFICES ASSUME PolicyInv, decided, decision.allowed, installed,
                      classify(decision.request).target = "instance",
                      NEW v \in classify(decision.request).verbs
               PROVE  \E i \in 1..Len(layers) :
                         v \in layers[i].grants /\ layers[i].name \in decision.decidingLayers
    BY DEF AuditNamesEveryGrant
  <2>1. /\ resolveVerb(layers, v).granted
        /\ resolveVerb(layers, v).decidingLayer \in decision.decidingLayers
    BY AllowedVerbsGranted
  <2>2. layers \in Seq(AnyLayer)
    BY DEF PolicyInv
  <2> QED
    BY <2>1, <2>2, GrantedByLayer
<1> QED
  BY <1>1, PolicySafe, PTL

(* A requirement none of whose verbs the ladder refuses is allowed.         *)
LEMMA UnrefusedIsAllowed ==
    ASSUME NEW ls, NEW need, \A v \in need.verbs : resolveVerb(ls, v).granted
    PROVE  \A set \in BOOLEAN : checkRequirement(set, ls, need).allowed
<1> DEFINE refused == {v \in need.verbs : ~resolveVerb(ls, v).granted}
<1>1. refused = {}
  OBVIOUS
<1> HIDE DEF refused
<1>2. \A set \in BOOLEAN : checkRequirement(set, ls, need).allowed <=>
         (~set \/ need.verbs = {} \/ need.target # "instance" \/ refused = {})
  BY DEF checkRequirement, refused
<1> QED
  BY <1>1, <1>2

(* A GET with no flags, of no path gated for every method, needs no verb.   *)
LEMMA PlainReadNeedsNothing ==
    ASSUME NEW r \in Request, r.method = "get", r.query = {}, r.requires = NotDeclared,
           r.paths \cap {"sys_scripts", "appmanager"} = {}
    PROVE  classify(r).verbs = {}
<1>1. ASSUME NEW rule \in FLOOR, rule \in floorFor(r) PROVE FALSE
  <2>1. "get" \in rule.methods /\ r.paths \cap rule.paths # {} /\ rule.needs = {}
    BY <1>1 DEF floorFor
  <2>2. rule.needs # {} \/ rule.paths = {"sys_scripts"} \/ rule.paths = {"appmanager"}
    BY <2>1 DEF FLOOR, NOT_GET
  <2> QED
    BY <2>1, <2>2
<1>2. floorVerbs(r) = {}
  BY <1>1 DEF floorVerbs, floorFor
<1> QED
  BY <1>2 DEF classify, verbDefault

(* Removing a scheduled job needs write only, over the Table API or by its  *)
(* form (the rules for scheduled jobs in FLOOR).                            *)
LEMMA JobRemovalNeedsWrite ==
    ASSUME NEW r \in Request, r.requires = NotDeclared,
           \/ r.paths = {"scheduled_table"} /\ r.method = "delete"
           \/ r.paths = {"scheduled_form"} /\ r.method = "post" /\ "sysverb_delete" \in r.query
    PROVE  classify(r).verbs \subseteq {"write"}
<1>1. ASSUME NEW rule \in FLOOR, rule \in floorFor(r) PROVE rule.verbs \subseteq {"write"}
  <2>1. /\ r.method \in rule.methods
        /\ r.paths \cap rule.paths # {}
        /\ rule.unless \cap r.query = {}
    BY <1>1 DEF floorFor
  <2>2. \/ rule.verbs = {"write"}
        \/ rule.paths = {"sys_scripts"}
        \/ rule.paths = {"flow_test"} \/ rule.paths = {"flow_debug"}
        \/ rule.paths = {"scheduled_table"} /\ "delete" \notin rule.methods
        \/ rule.paths = {"scheduled_form"} /\ rule.unless = {"sysverb_delete"}
    BY DEF FLOOR, NOT_GET
  <2> QED
    BY <2>1, <2>2
<1>2. floorVerbs(r) \subseteq {"write"}
  BY <1>1 DEF floorVerbs, floorFor
<1> QED
  BY <1>2 DEF classify, verbDefault

(* A plain read is permitted whatever the ladder (ReadsStayOpen).           *)
THEOREM ReadsAreNeverRefused == Spec => []ReadsStayOpen
<1>1. PolicyInv => ReadsStayOpen
  <2> SUFFICES ASSUME PolicyInv, decided, decision.request.method = "get",
                      decision.request.query = {}, decision.request.requires = NotDeclared,
                      decision.request.paths \cap {"sys_scripts", "appmanager"} = {}
               PROVE  decision.allowed
    BY DEF ReadsStayOpen
  <2>1. Decided(decision)
    BY DEF PolicyInv
  <2>2. decision.request \in Request
    BY <2>1, PolicyAssumption DEF Decided
  <2> QED
    BY <2>1, <2>2, PlainReadNeedsNothing DEF Decided
<1> QED
  BY <1>1, PolicySafe, PTL

(* A scheduled job can be removed under a policy that denies execute, where *)
(* a layer grants write and none denies it (JobsRemovableUnderDenyExecute). *)
THEOREM JobsStayRemovable == Spec => []JobsRemovableUnderDenyExecute
<1>1. PolicyInv => JobsRemovableUnderDenyExecute
  <2> DEFINE r == decision.request
  <2> SUFFICES ASSUME PolicyInv, decided,
                      \A i \in 1..Len(layers) : "write" \notin layers[i].denies,
                      \E i \in 1..Len(layers) : "write" \in layers[i].grants,
                      r.requires = NotDeclared,
                      \/ r.paths = {"scheduled_table"} /\ r.method = "delete"
                      \/ r.paths = {"scheduled_form"} /\ r.method = "post" /\ "sysverb_delete" \in r.query
               PROVE  decision.allowed
    BY DEF JobsRemovableUnderDenyExecute
  <2>1. Decided(decision) /\ installed \in BOOLEAN /\ layers \in Seq(AnyLayer)
    BY DEF PolicyInv
  <2>2. r \in Request
    BY <2>1, PolicyAssumption DEF Decided
  <2>3. classify(r).verbs \subseteq {"write"}
    BY <2>2, JobRemovalNeedsWrite
  <2>4. resolveVerb(layers, "write").granted
    BY <2>1, GrantedWhereUndenied
  <2>5. checkRequirement(installed, layers, classify(r)).allowed
    BY <2>1, <2>3, <2>4, UnrefusedIsAllowed
  <2> QED
    BY <2>1, <2>5 DEF Decided
<1> QED
  BY <1>1, PolicySafe, PTL

(* The floor is no wider than it must be (FloorIsNarrow).                   *)
THEOREM FloorStaysNarrow == Spec => []FloorIsNarrow
<1>1. ReadsStayOpen /\ JobsRemovableUnderDenyExecute => FloorIsNarrow
  BY DEF FloorIsNarrow
<1> QED
  BY <1>1, ReadsAreNeverRefused, JobsStayRemovable, PTL
================================================================================
