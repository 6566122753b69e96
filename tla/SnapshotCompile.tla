-------------------------- MODULE SnapshotCompile --------------------------
(***************************************************************************)
(* The operator's compiler from custom resources to the controller's       *)
(* configuration (operator/config_snapshot.go), the loaders that read the  *)
(* result (playbook/loader.go, config/*.go, detect/catalog.go) and the     *)
(* choices the controller makes from it (playbook/engine.go,               *)
(* config/accelerator_profiles.go).  The state is the set of resources a   *)
(* person edits; compiling and choosing are operators on it.               *)
(***************************************************************************)
EXTENDS Integers, FiniteSets

CONSTANTS
    ScName,     \* resource names, ordered as the compiler sorts them
    ScBook,     \* playbook names
    ScKey, ScValue,   \* node labels
    ScTime      \* instants a window may name

ASSUME ScNames == ScName \subseteq Nat

VARIABLES
    scTopic,    \* the kind of resource that is being edited
    scRes       \* the resources of that kind, by name

scVars == <<scTopic, scRes>>

Gone == [kind |-> "gone"]
Present(res) == {n \in DOMAIN res : res[n] # Gone}

-----------------------------------------------------------------------------
(* Runtime profiles                                                        *)

\* A matchLabels selector, and the labels of a node.
Labels == UNION {[K -> ScValue] : K \in SUBSET ScKey}

\* AcceleratorRuntimeProfile.MatchesLabels
MatchesLabels(selector, labels) ==
    /\ DOMAIN selector # {}
    /\ \A k \in DOMAIN selector : k \in DOMAIN labels /\ labels[k] = selector[k]

\* Variant: only selectors over the same keys are compared.
overlapOnSameKeys(left, right) ==
    DOMAIN left = DOMAIN right /\ \A k \in DOMAIN left : left[k] = right[k]

selectorsMayOverlap(left, right) ==
    \A k \in DOMAIN left \cap DOMAIN right : left[k] = right[k]

\* profiles is a function from names to [vendor, selector].
compileAcceleratorRuntimeProfiles(profiles) ==
    /\ \A n \in DOMAIN profiles : DOMAIN profiles[n].selector # {} /\ profiles[n].vendor = "nvidia"
    /\ \A m, n \in DOMAIN profiles :
           m # n /\ profiles[m].vendor = profiles[n].vendor =>
               ~selectorsMayOverlap(profiles[m].selector, profiles[n].selector)

\* ResolveAcceleratorRuntimeProfile answers only when exactly one name matches.
MatchingProfiles(profiles, labels, vendor) ==
    {n \in DOMAIN profiles : profiles[n].vendor = vendor /\ MatchesLabels(profiles[n].selector, labels)}

-----------------------------------------------------------------------------
(* Policies                                                                *)

\* compilePolicies sorts by priority, then by name.
Before(policies, m, n) ==
    \/ policies[m].priority < policies[n].priority
    \/ policies[m].priority = policies[n].priority /\ m < n

FirstOf(policies, S) == CHOOSE n \in S : \A m \in S \ {n} : Before(policies, n, m)
LastOf(policies, S) == CHOOSE n \in S : \A m \in S \ {n} : Before(policies, m, n)

\* The policies of the class that the loop has already passed.
earlier(policies, n) == {m \in DOMAIN policies : Before(policies, m, n) /\ policies[m].class = policies[n].class}

\* seenClass holds the priority of the last policy passed.
duplicatePriority(policies, n) ==
    /\ earlier(policies, n) # {}
    /\ policies[LastOf(policies, earlier(policies, n))].priority = policies[n].priority

compilePolicies(policies, books) ==
    /\ DOMAIN policies # {}
    /\ \A n \in DOMAIN policies : policies[n].book \in books /\ ~duplicatePriority(policies, n)

\* NewEngine
NewEngine(policies, books) == \A n \in DOMAIN policies : policies[n].book \in books

\* PolicyFor: the first exact vendor match, else the first unscoped policy.
PolicyFor(policies, class, vendor) ==
    LET exact == {n \in DOMAIN policies : policies[n].class = class /\ policies[n].vendor = vendor /\ vendor # ""}
        unscoped == {n \in DOMAIN policies : policies[n].class = class /\ policies[n].vendor = ""}
    IN  IF exact # {} THEN {FirstOf(policies, exact)}
        ELSE IF unscoped # {} THEN {FirstOf(policies, unscoped)}
        ELSE {}

-----------------------------------------------------------------------------
(* Playbooks                                                               *)

\* One walk of ValidateEscalationGraph, from a book and the books visited.
\* escalate maps a book to the one it escalates to, or to "".
walkEnds(escalate) ==
    LET walk[at \in DOMAIN escalate, visited \in SUBSET DOMAIN escalate] ==
            LET next == escalate[at]
            IN  \/ next = ""
                \/ /\ next # at /\ next \in DOMAIN escalate /\ next \notin visited
                   /\ walk[next, visited \cup {next}]
    IN  walk

\* Variant: only the existence of the target is checked.
targetsExist(escalate) == \A b \in DOMAIN escalate : escalate[b] \in DOMAIN escalate \cup {""}

ValidateEscalationGraph(escalate) == \A b \in DOMAIN escalate : walkEnds(escalate)[b, {b}]

\* The action registry, abstracted to what compilation reads of it.
ScAction == {"reset", "cordon", "drain", "reboot", "recycle", "replace"}
nodeScoped(action) == action # "reset"
requiresApproval(action) == action \in {"reboot", "recycle", "replace"}
cloudPrimitive(action) ==
    CASE action = "recycle" -> "reinitialize"
      [] action = "replace" -> "replace"
      [] OTHER -> "none"

\* A step: name, action, approval and force parameter.
ForceParam == {"absent", "false", "true", "garbled"}

\* Playbook.Validate
ValidatePlaybook(book) ==
    /\ DOMAIN book.steps # {}
    /\ \A i, j \in DOMAIN book.steps : i # j => book.steps[i].name # book.steps[j].name
    /\ \A i \in DOMAIN book.steps :
           LET s == book.steps[i]
           IN  /\ s.force # "absent" => s.action = "drain" /\ s.force # "garbled"
               /\ s.force = "true" => s.approval

approvalAsked(s) == requiresApproval(s.action) => s.approval

\* compilePlaybook
compilePlaybook(book) ==
    LET scoped == \E i \in DOMAIN book.steps : nodeScoped(book.steps[i].action)
    IN  /\ \A i \in DOMAIN book.steps : approvalAsked(book.steps[i])
        /\ book.target = "gpu" /\ scoped => "nodeScheduling" \in book.effects
        /\ book.target = "node" /\ ~scoped => "node" \in book.effects
        /\ ValidatePlaybook(book)

\* validateCloudCapabilities: provider is the set of primitives it declares,
\* empty when none is configured or known.
validateCloudCapabilities(book, provider) ==
    \A i \in DOMAIN book.steps : cloudPrimitive(book.steps[i].action) \in provider \cup {"none"}

-----------------------------------------------------------------------------
(* Windows, signal mappings, node configs, TLS Secrets                     *)

properWindow(w) == w.starts < w.ends

compileMaintenanceWindow(w) == w.starts # 0 /\ w.ends # 0 /\ properWindow(w) /\ w.pause /\ ~w.expressions

\* MaintenanceWindow.Validate, on load
ValidateWindow(w) == w.starts # 0 /\ w.ends # 0 /\ w.starts < w.ends

\* SignalOverride.Validate: exactly one matcher.
ValidateOverride(o) ==
    Cardinality({f \in {"xid", "alert", "fault"} : o[f] # {}}) = 1

\* NewCatalog: every code, alert and fault is overridden at most once.
NewCatalog(overrides) ==
    /\ \A n \in DOMAIN overrides : ValidateOverride(overrides[n])
    /\ \A f \in {"xid", "alert", "fault"} : \A m, n \in DOMAIN overrides :
           m # n => overrides[m][f] \cap overrides[n][f] = {}

compileSignalMappings(mappings) ==
    /\ \A n \in DOMAIN mappings : ~mappings[n].labels /\ mappings[n][mappings[n].source] # {}
    /\ NewCatalog(mappings)

compileNodeConfigs(configs) ==
    /\ \A n \in DOMAIN configs : ~configs[n].credentials
    /\ \A m, n \in DOMAIN configs : m # n => configs[m].node # configs[n].node

\* validateTLS: each role names a Secret of its own.
validateTLS(refs) == \A m, n \in DOMAIN refs : m # n => refs[m].secret # refs[n].secret

-----------------------------------------------------------------------------
(* The snapshot of the resources being edited                              *)

Set == [n \in Present(scRes) |-> scRes[n]]
Escalations == [b \in Present(scRes) |-> scRes[b].to]

\* CompileSnapshot, and the child compilers it calls in turn
CompileSnapshot ==
    CASE scTopic = "profiles" -> compileAcceleratorRuntimeProfiles(Set)
      [] scTopic = "policies" -> compilePolicies(Set, ScBook)
      [] scTopic = "ladders"  -> ValidateEscalationGraph(Escalations)
      [] scTopic = "steps"    -> \A b \in DOMAIN Set :
                                     compilePlaybook(Set[b]) /\ validateCloudCapabilities(Set[b], Set[b].provider)
      [] scTopic = "windows"  -> \A n \in DOMAIN Set : compileMaintenanceWindow(Set[n])
      [] scTopic = "mappings" -> compileSignalMappings(Set)
      [] scTopic = "nodes"    -> compileNodeConfigs(Set)
      [] scTopic = "tls"      -> validateTLS(Set)

\* What the controller's loaders require of the same document.
SnapshotLoads ==
    CASE scTopic = "policies" -> Set # <<>> /\ NewEngine(Set, ScBook)
      [] scTopic = "ladders"  -> ValidateEscalationGraph(Escalations)
      [] scTopic = "steps"    -> \A b \in DOMAIN Set : ValidatePlaybook(Set[b])
      [] scTopic = "windows"  -> \A n \in DOMAIN Set : ValidateWindow(Set[n])
      [] scTopic = "mappings" -> NewCatalog(Set)
      [] OTHER -> TRUE

-----------------------------------------------------------------------------
(* Editing                                                                 *)

ScStep == [name : {"one", "two"}, action : ScAction, approval : BOOLEAN, force : ForceParam]
Steps == {s \in [1..2 -> ScStep] : s[1].force = "absent" /\ s[2].name = "two"}

Profile == [selector : Labels, vendor : {"nvidia"}]
SomeBook == CHOOSE b \in ScBook : TRUE
Policy == [class : {"ecc", "hang"}, vendor : {"", "nvidia"}, priority : {10, 20},
           book : {SomeBook, "missing"}]

Resource(topic) ==
    CASE topic = "profiles" -> Profile
      [] topic = "policies" -> Policy
      [] topic = "ladders"  -> [to : ScBook \cup {"", "missing"}]
      [] topic = "steps"    -> [steps : Steps, target : {"gpu", "node"}, effects : SUBSET {"node", "nodeScheduling"},
                                provider : {{}, {"replace"}, {"reinitialize", "replace"}}]
      [] topic = "windows"  -> [starts : ScTime \cup {0}, ends : ScTime \cup {0}, pause : BOOLEAN, expressions : BOOLEAN]
      [] topic = "mappings" -> [source : {"xid", "alert", "fault"}, xid : SUBSET {48, 79}, alert : SUBSET {"hot"},
                                fault : SUBSET {"amd/ecc"}, labels : BOOLEAN]
      [] topic = "nodes"    -> [node : {"n1", "n2"}, credentials : BOOLEAN]
      [] topic = "tls"      -> [secret : {"s1", "s2", "s3"}]

\* The resources that can exist: ladders are named after their books, one
\* playbook is enough for its steps, and the TLS roles are always filled.
NamesOf(topic) ==
    CASE topic = "ladders" -> ScBook
      [] topic = "steps"   -> {1}
      [] topic \in {"windows", "mappings"} -> {1, 2}
      [] topic = "tls"     -> 1..4
      [] OTHER -> ScName

ScInit ==
    /\ scTopic \in {"profiles", "policies", "ladders", "steps", "windows", "mappings", "nodes", "tls"}
    /\ IF scTopic = "tls" THEN scRes = [n \in 1..4 |-> [secret |-> "s1"]]
       ELSE scRes = [n \in NamesOf(scTopic) |-> Gone]

\* A resource is created; a changed one is deleted and created again.
ScCreate(n) ==
    /\ scTopic = "tls" \/ scRes[n] = Gone
    /\ \E r \in Resource(scTopic) : scRes' = [scRes EXCEPT ![n] = r]
    /\ UNCHANGED scTopic

ScDelete(n) ==
    /\ scTopic # "tls" /\ scRes[n] # Gone
    /\ scRes' = [scRes EXCEPT ![n] = Gone]
    /\ UNCHANGED scTopic

ScNext == \E n \in DOMAIN scRes : ScCreate(n) \/ ScDelete(n)

ScSpec == ScInit /\ [][ScNext]_scVars

-----------------------------------------------------------------------------
(* Properties                                                              *)

(* "a node can never receive a capability decision based on object/list    *)
(* order": whatever labels a node carries, an accepted set of profiles     *)
(* answers it with at most one of them; and an accepted set of mappings,   *)
(* node configs or TLS references answers each code, node and role once.   *)
OneAnswer ==
    CompileSnapshot =>
        /\ scTopic = "profiles" =>
               \A labels \in Labels : \A m, n \in MatchingProfiles(Set, labels, "nvidia") : m = n
        /\ scTopic = "mappings" =>
               \A f \in {"xid", "alert", "fault"} : \A m, n \in DOMAIN Set :
                   Set[m][f] \cap Set[n][f] # {} => m = n

(* The policy an incident runs is decided by priority alone: of an accepted *)
(* set, the policy chosen for a class and a vendor has a strictly smaller  *)
(* priority than every other candidate of its scope, so that renaming a    *)
(* resource never changes what is done to a node, and a vendor's own       *)
(* policy is never shadowed by a fallback.                                 *)
PolicyByPriority ==
    scTopic = "policies" /\ CompileSnapshot =>
        \A class \in {"ecc", "hang"}, vendor \in {"", "nvidia", "amd"} :
            \A n \in PolicyFor(Set, class, vendor) :
                /\ \A m \in DOMAIN Set \ {n} :
                       Set[m].class = class /\ Set[m].vendor = Set[n].vendor => Set[n].priority < Set[m].priority
                /\ Set[n].vendor = "" /\ vendor # "" =>
                       \A m \in DOMAIN Set : Set[m].class = class => Set[m].vendor # vendor

(* What the compiler accepts works.  "lets the ladder repeat its           *)
(* destructive rungs forever without ever reaching a human": in an accepted*)
(* set, every set of playbooks has one that escalates out of it, to an     *)
(* existing playbook or to a person.  And the controller loads it: a       *)
(* published snapshot never leaves the fleet on its previous configuration *)
(* because a loader applies a stricter rule than the compiler did.         *)
AcceptedWorks ==
    CompileSnapshot =>
        /\ scTopic = "ladders" =>
               /\ \A b \in DOMAIN Set : Set[b].to \in DOMAIN Set \cup {""}
               /\ \A S \in SUBSET DOMAIN Set : S # {} => \E b \in S : Set[b].to \notin S
        /\ SnapshotLoads
=============================================================================
