---------------------------- MODULE TSCAdmission ----------------------------
(***************************************************************************)
(* Pod admission in the TSC controller, against hot reload of its          *)
(* configuration.                                                          *)
(*                                                                         *)
(* Every replica serves /mutate/pods.  A request reads the configuration   *)
(* under configLock, looks the owner up with one or two API calls, takes   *)
(* configLock again (isControllerSelf) and reads the exclusion rules under *)
(* rulesLock.  Meanwhile loadConfig holds configLock over its Get, writes  *)
(* the rules, then the configuration.  The API server creates the Pod      *)
(* without a patch when no answer arrives (failurePolicy: Ignore) and      *)
(* refuses it when the patched Pod is not valid.                           *)
(*                                                                         *)
(* The operator namespace is fixed by the installation, so whether a       *)
(* workload is the controller itself is an attribute of the workload.      *)
(* What a pattern of an exclusion rule matches is a set of workloads.      *)
(***************************************************************************)
EXTENDS TSCConfig, Integers, Sequences

CONSTANTS
  Replica,         \* the controller's pods
  Workload,        \* set of [kind, name] records
  ReplicaSet,      \* names of ReplicaSets
  DeploymentOf,    \* ReplicaSet -> the Deployment that owns it, or Nil
  Request,         \* CREATE requests for Pods
  PodSpecs,        \* the Pods that are created
  InitWorkloads,   \* what the workloads may be at first ...
  Edits,           \* ... and what users make of one; Nil = it is deleted
  ConfigMaps,      \* contents users give the ConfigMap; Nil = it is absent
  InitConfigMap,
  Env,             \* the replicas' environment
  IntBits,         \* width of int32
  MaxChanges,      \* bound: what users do
  MaxFaults,       \* bound: API errors
  MaxCrashes       \* bound: replicas that die

Empty      == ""
Policies   == {"ScheduleAnyway", "DoNotSchedule"}

\* A JSON text: absent (or empty), unreadable, or a value.
Json(S)    == [text : {"absent", "bad", "ok"}, value : S]

\* fromTemplate: the constraint has the shape of defaultConstraintTemplate.
Constraint ==
  [maxSkew : Int, topologyKey : STRING, whenUnsatisfiable : STRING,
   fromTemplate : BOOLEAN]

\* Nil = the field is not set; a regular expression that does not compile
\* matches nothing.
Pattern    == {Nil} \cup SUBSET Workload
Rule       == [namespaceRegex : Pattern, nameRegex : Pattern, labels : Pattern]

ConfigMap ==
  [settings : RawConfig, defaultConstraints : Json(Seq(Constraint)),
   exclusions : Json(SUBSET Rule)]

\* Annotations are Nil when absent or empty.
WorkloadSpec ==
  [replicas : {Nil} \cup Nat, self : BOOLEAN, constraints : Json(Seq(Constraint)),
   maxSkew : {Nil} \cup Int, topologyKey : {Nil} \cup (STRING \ {Empty}),
   whenUnsatisfiable : {Nil} \cup STRING]

\* What ParseTSCConfig makes of a ConfigMap.
ParsedConfig == [settings : Config, constraints : Seq(Constraint)]

PodSpec ==
  [bypass : BOOLEAN, ownConstraints : BOOLEAN,
   statefulSet : {Nil} \cup Workload, replicaSet : {Nil} \cup ReplicaSet]

VARIABLES
  configMap, workloads, replicaSets,     \* the API server
  config, exclusionRules,  \* replica -> globals; config is Nil while down
  serving,         \* replicas whose webhook server runs
  loader, fetched, \* replica -> where loadConfig is, what its Get returned
  pending,         \* replicas with a ConfigMap event not yet handled
  request,         \* request -> Nil or what its handler holds
  outcome,         \* request -> Nil or what became of the Pod
  changes, faults, crashes

cluster == <<configMap, workloads, replicaSets>>
process == <<config, exclusionRules, serving, loader, fetched, pending>>
bounds  == <<changes, faults, crashes>>
vars    == <<cluster, process, request, outcome, bounds>>

Loading  == {"get", "config"}
Labels   == {"config", "replicaSet", "owner", "self", "rules", "answered",
             "unanswered"}
Finished == {"answered", "unanswered"}

\* What the handler of a request holds.
Held ==
  [pod : PodSpecs, by : Replica, at : Labels, cfg : {Nil} \cup ParsedConfig,
   ref : {Nil} \cup Workload, owner : {Nil} \cup WorkloadSpec]

ASSUME ConstantsAssumption ==
  /\ Workload \subseteq [kind : {"Deployment", "StatefulSet"},
                         name : {w.name : w \in Workload}]
  /\ \A rs \in ReplicaSet :
       DeploymentOf[rs] \in {Nil} \cup {w \in Workload : w.kind = "Deployment"}
  /\ PodSpecs \subseteq PodSpec
  /\ \A f \in InitWorkloads : f \in [Workload -> WorkloadSpec]
  /\ \A v \in Edits : v = Nil \/ v \in WorkloadSpec
  /\ \A cm \in ConfigMaps \cup {InitConfigMap} : cm = Nil \/ cm \in ConfigMap
  /\ Env \in Environment
  /\ IntBits \in Nat \ {0, 1}
  /\ MaxChanges \in Nat /\ MaxFaults \in Nat /\ MaxCrashes \in Nat

\* What the provers do not know of two powers and of string literals.
ASSUME PowersOfTwo ==
  /\ 2^IntBits \in Nat /\ 2^(IntBits - 1) \in Nat
  /\ 2^IntBits = 2 * 2^(IntBits - 1)
  /\ 2^(IntBits - 1) > 1

ASSUME Literals ==
  Policies \cup {"topology.kubernetes.io/zone", "kubernetes.io/hostname"}
    \subseteq STRING

ASSUME NilAssumption == Nil \notin ParsedConfig \cup Held

(***************************************************************************)
(* The configuration: ParseTSCConfig with its constraints, and the rules   *)
(* loadConfig parses beside it.                                            *)
(***************************************************************************)
Zone     == "topology.kubernetes.io/zone"
Hostname == "kubernetes.io/hostname"

defaultConstraintTemplate(maxSkew, topologyKey, whenUnsatisfiable) ==
  [maxSkew |-> maxSkew, topologyKey |-> topologyKey,
   whenUnsatisfiable |-> whenUnsatisfiable, fromTemplate |-> TRUE]

defaultConstraints ==
  <<[maxSkew |-> 1, topologyKey |-> Zone,
     whenUnsatisfiable |-> "ScheduleAnyway", fromTemplate |-> FALSE],
    [maxSkew |-> 1, topologyKey |-> Hostname,
     whenUnsatisfiable |-> "ScheduleAnyway", fromTemplate |-> FALSE]>>

\* A mutated form: a missing policy stays missing.
SoftNot(c) == c

\* "so workloads are never hard-blocked": no policy means ScheduleAnyway.
Soft(c) ==
  IF c.whenUnsatisfiable = Empty
  THEN [c EXCEPT !.whenUnsatisfiable = "ScheduleAnyway"]
  ELSE c

ParsedConstraints(json) ==
  IF json.text = "ok" THEN [i \in DOMAIN json.value |-> Soft(json.value[i])]
                      ELSE defaultConstraints

\* A Get that fails or finds nothing still returns an empty object.
Got(cm) ==
  IF cm # Nil THEN cm
  ELSE [settings           |-> EmptyConfigMap,
        defaultConstraints |-> [text |-> "absent", value |-> <<>>],
        exclusions         |-> [text |-> "absent", value |-> {}]]

Parsed(cm) ==
  [settings    |-> ParseTSCConfig(Got(cm).settings, Env),
   constraints |-> ParsedConstraints(Got(cm).defaultConstraints)]

\* A mutated form: a ConfigMap without the key leaves the rules alone.
NewRulesStale(cm, old) ==
  IF Got(cm).exclusions.text = "ok" THEN Got(cm).exclusions.value ELSE old

\* "Silently keeping the stale slice would contradict the contract".
NewRules(cm, old) ==
  IF Got(cm).exclusions.text = "ok" THEN Got(cm).exclusions.value ELSE {}

(***************************************************************************)
(* loadConfig, from main and from the ConfigMap's events.                  *)
(***************************************************************************)
Locked(r) == loader[r] \in Loading
Fault     == faults < MaxFaults /\ faults' = faults + 1

Lock(r) ==
  /\ loader[r] = "idle"
  /\ loader' = [loader EXCEPT ![r] = "get"]

\* main: the first load comes before the servers.
Boot(r) ==
  /\ config[r] = Nil
  /\ r \notin serving
  /\ Lock(r)
  /\ UNCHANGED <<cluster, config, exclusionRules, serving, fetched, pending,
                 request, outcome, bounds>>

\* Run: the informer's first list reports a ConfigMap that exists, then the
\* webhook server starts.
Serve(r) ==
  /\ config[r] # Nil
  /\ r \notin serving
  /\ loader[r] = "idle"
  /\ serving' = serving \cup {r}
  /\ pending' = IF configMap = Nil THEN pending ELSE pending \cup {r}
  /\ UNCHANGED <<cluster, config, exclusionRules, loader, fetched, request,
                 outcome, bounds>>

\* A mutated form: an event without a change is ignored.
EventDueOnce(r) == r \in pending

\* An Add, an Update, or the resync of what the informer has.  There is no
\* handler for a deletion.
EventDue(r) == r \in pending \/ configMap # Nil

onConfigMapEvent(r) ==
  /\ r \in serving
  /\ EventDue(r)
  /\ Lock(r)
  /\ pending' = pending \ {r}
  /\ UNCHANGED <<cluster, config, exclusionRules, serving, fetched, request,
                 outcome, bounds>>

\* The Get, and the rules under rulesLock: nothing happens in between that a
\* request could tell.
SetRules(r) ==
  /\ loader[r] = "get"
  /\ \/ fetched' = [fetched EXCEPT ![r] = configMap] /\ UNCHANGED faults
     \/ fetched' = [fetched EXCEPT ![r] = Nil] /\ Fault
  /\ exclusionRules' = [exclusionRules EXCEPT ![r] = NewRules(fetched'[r], @)]
  /\ loader' = [loader EXCEPT ![r] = "config"]
  /\ UNCHANGED <<cluster, config, serving, pending, request, outcome, changes,
                 crashes>>

\* A mutated form: a failed load returns without Unlock.
UnlockUnlessFailed(r) == IF fetched[r] = Nil THEN "config" ELSE "idle"

Unlock(r) == "idle"

SetConfig(r) ==
  /\ loader[r] = "config"
  /\ config'  = [config EXCEPT ![r] = Parsed(fetched[r])]
  /\ loader'  = [loader EXCEPT ![r] = Unlock(r)]
  /\ fetched' = [fetched EXCEPT ![r] = Nil]
  /\ UNCHANGED <<cluster, exclusionRules, serving, pending, request, outcome,
                 bounds>>

loadConfig(r) == SetRules(r) \/ SetConfig(r)

(***************************************************************************)
(* buildPodTSCPatches: its pure parts.                                     *)
(***************************************************************************)
replicasOrZero(replicas) == IF replicas = Nil THEN 0 ELSE replicas

isExcluded(w, rules) ==
  \E rule \in rules :
    \A f \in {"namespaceRegex", "nameRegex", "labels"} :
      rule[f] = Nil \/ w \in rule[f]

\* Conversion of an int to a signed integer of IntBits bits.
ToInt32(n) ==
  LET m == n % 2^IntBits
  IN  IF m < 2^(IntBits - 1) THEN m ELSE m - 2^IntBits

\* An override that cannot be read counts as absent.
readSimpleOverrides(w) ==
  [maxSkew           |-> IF w.maxSkew # Nil /\ w.maxSkew > 0
                         THEN w.maxSkew ELSE Nil,
   topologyKey       |-> w.topologyKey,
   whenUnsatisfiable |-> IF w.whenUnsatisfiable \in Policies
                         THEN w.whenUnsatisfiable ELSE Nil]

Or(v, def) == IF v = Nil THEN def ELSE v

buildPodTSCConstraints(w, defaults) ==
  LET o == readSimpleOverrides(w)
  IN  IF w.constraints.text = "ok" /\ w.constraints.value # <<>>
      THEN w.constraints.value
      ELSE IF o.maxSkew # Nil \/ o.topologyKey # Nil \/ o.whenUnsatisfiable # Nil
      THEN <<defaultConstraintTemplate(ToInt32(Or(o.maxSkew, 1)),
                                       Or(o.topologyKey, Zone),
                                       Or(o.whenUnsatisfiable, "ScheduleAnyway"))>>
      ELSE [i \in DOMAIN defaults |->
              defaultConstraintTemplate(defaults[i].maxSkew,
                                        defaults[i].topologyKey,
                                        defaults[i].whenUnsatisfiable)]

\* A mutated form: only an absent replica count is skipped.
TooFewOffByOne(cfg, w) ==
  cfg.settings.skipSingleReplica /\ replicasOrZero(w.replicas) < 1

TooFew(cfg, w) ==
  cfg.settings.skipSingleReplica /\ replicasOrZero(w.replicas) < 2

\* Steps 6 to 8: the patch for a workload that no rule excludes.
PatchFor(cfg, w) ==
  IF TooFew(cfg, w) \/ cfg.settings.mode = "recommend" THEN <<>>
  ELSE buildPodTSCConstraints(w, cfg.constraints)

(***************************************************************************)
(* Validation of a Pod by the API server.                                  *)
(***************************************************************************)
ValidConstraints(cs) ==
  /\ \A i \in DOMAIN cs : /\ cs[i].maxSkew > 0
                          /\ cs[i].topologyKey # Empty
                          /\ cs[i].whenUnsatisfiable \in Policies
  /\ \A i, j \in DOMAIN cs :
       /\ cs[i].topologyKey = cs[j].topologyKey
       /\ cs[i].whenUnsatisfiable = cs[j].whenUnsatisfiable
       => i = j

(***************************************************************************)
(* handlePodAdmission.                                                     *)
(***************************************************************************)
At(q, label) == request[q] # Nil /\ request[q].at = label
InFlight(q)  == request[q] # Nil /\ request[q].at \notin Finished

Goto(q, label) ==
  /\ request' = [request EXCEPT ![q].at = label]
  /\ UNCHANGED outcome

Answer(q, patch, held) ==
  /\ request' = [request EXCEPT ![q] = [held EXCEPT !.at = "answered"]]
  /\ outcome' = [outcome EXCEPT ![q] =
                   [created |-> ValidConstraints(patch), patch |-> patch]]

\* The API server sends a CREATE to a replica.
Admit(q, r, pod) ==
  /\ request[q] = Nil
  /\ r \in serving
  /\ request' = [request EXCEPT ![q] =
                   [pod |-> pod, by |-> r, at |-> "config", cfg |-> Nil,
                    ref |-> Nil, owner |-> Nil]]
  /\ UNCHANGED <<cluster, process, outcome, bounds>>

\* Without a configuration the handler would use a fall-back that has no
\* constraints; main never serves without one.
Fallback ==
  [settings    |-> [managementEnabled |-> TRUE, rollbackOnDisable |-> FALSE,
                    mode |-> "apply", snapshotEnabled |-> FALSE,
                    skipSingleReplica |-> TRUE],
   constraints |-> <<>>]

\* The snapshot of the configuration and steps 1 to 3.  A StatefulSet is
\* preferred to a ReplicaSet.
ReadConfig(q) ==
  /\ At(q, "config")
  /\ ~Locked(request[q].by)
  /\ LET cfg  == IF config[request[q].by] = Nil THEN Fallback
                                                ELSE config[request[q].by]
         pod  == request[q].pod
         held == [request[q] EXCEPT !.cfg = cfg, !.ref = pod.statefulSet]
     IN  IF \/ ~cfg.settings.managementEnabled
            \/ pod.bypass
            \/ pod.ownConstraints
            \/ pod.statefulSet = Nil /\ pod.replicaSet = Nil
         THEN Answer(q, <<>>, held)
         ELSE /\ request' = [request EXCEPT ![q] =
                               [held EXCEPT !.at = IF pod.statefulSet # Nil
                                                   THEN "owner"
                                                   ELSE "replicaSet"]]
              /\ UNCHANGED outcome
  /\ UNCHANGED <<cluster, process, bounds>>

\* resolveWorkloadOwner, from a ReplicaSet to its Deployment.
GetReplicaSet(q) ==
  LET rs == request[q].pod.replicaSet
  IN  /\ At(q, "replicaSet")
      /\ \/ /\ rs \in replicaSets
            /\ DeploymentOf[rs] # Nil
            /\ request' = [request EXCEPT ![q].ref = DeploymentOf[rs],
                                          ![q].at  = "owner"]
            /\ UNCHANGED <<outcome, faults>>
         \/ /\ rs \notin replicaSets \/ DeploymentOf[rs] = Nil
            /\ Answer(q, <<>>, request[q])
            /\ UNCHANGED faults
         \/ Fault /\ Answer(q, <<>>, request[q])
      /\ UNCHANGED <<cluster, process, changes, crashes>>

\* resolveWorkloadOwner, the Deployment or StatefulSet.
GetOwner(q) ==
  LET w == request[q].ref
  IN  /\ At(q, "owner")
      /\ \/ /\ workloads[w] # Nil
            /\ request' = [request EXCEPT ![q].owner = workloads[w],
                                          ![q].at    = "self"]
            /\ UNCHANGED <<outcome, faults>>
         \/ /\ workloads[w] = Nil
            /\ Answer(q, <<>>, request[q])
            /\ UNCHANGED faults
         \/ Fault /\ Answer(q, <<>>, request[q])
      /\ UNCHANGED <<cluster, process, changes, crashes>>

\* isControllerSelf takes configLock a second time.
CheckSelf(q) ==
  /\ At(q, "self")
  /\ ~Locked(request[q].by)
  /\ IF request[q].owner.self THEN Answer(q, <<>>, request[q]) ELSE Goto(q, "rules")
  /\ UNCHANGED <<cluster, process, bounds>>

\* The exclusion rules as they are now, the configuration as it was.
Decide(q) ==
  LET held == request[q]
  IN  /\ At(q, "rules")
      /\ IF isExcluded(held.ref, exclusionRules[held.by])
         THEN Answer(q, <<>>, held)
         ELSE Answer(q, PatchFor(held.cfg, held.owner), held)
      /\ UNCHANGED <<cluster, process, bounds>>

Handle(q) ==
  \/ ReadConfig(q) \/ GetReplicaSet(q) \/ GetOwner(q) \/ CheckSelf(q)
  \/ Decide(q)

\* The API server's time limit: the Pod is created without a patch.  What the
\* handler still does, it does for nobody.
Abandoned(held) ==
  [held EXCEPT !.at = "unanswered", !.cfg = Nil, !.ref = Nil, !.owner = Nil]

TimeOut(q) ==
  /\ InFlight(q)
  /\ request' = [request EXCEPT ![q] = Abandoned(@)]
  /\ outcome' = [outcome EXCEPT ![q] = [created |-> TRUE, patch |-> <<>>]]
  /\ UNCHANGED <<cluster, process, bounds>>

(***************************************************************************)
(* A replica dies with its requests; what users do.                        *)
(***************************************************************************)
Crash(r) ==
  LET lost == {q \in Request : InFlight(q) /\ request[q].by = r}
  IN  /\ config[r] # Nil \/ Locked(r)
      /\ crashes < MaxCrashes
      /\ crashes' = crashes + 1
      /\ config'  = [config EXCEPT ![r] = Nil]
      /\ exclusionRules' = [exclusionRules EXCEPT ![r] = {}]
      /\ serving' = serving \ {r}
      /\ loader'  = [loader EXCEPT ![r] = "idle"]
      /\ fetched' = [fetched EXCEPT ![r] = Nil]
      /\ pending' = pending \ {r}
      /\ request' = [q \in Request |->
                       IF q \in lost THEN Abandoned(request[q]) ELSE request[q]]
      /\ outcome' = [q \in Request |->
                       IF q \in lost THEN [created |-> TRUE, patch |-> <<>>]
                                     ELSE outcome[q]]
      /\ UNCHANGED <<cluster, changes, faults>>

User == changes < MaxChanges /\ changes' = changes + 1

ChangeConfigMap(cm) ==
  /\ User
  /\ cm # configMap
  /\ configMap' = cm
  /\ pending' = IF cm = Nil THEN pending ELSE serving
  /\ UNCHANGED <<workloads, replicaSets, config, exclusionRules, serving,
                 loader, fetched, request, outcome, faults, crashes>>

ChangeWorkload(w, v) ==
  /\ User
  /\ v # workloads[w]
  /\ workloads' = [workloads EXCEPT ![w] = v]
  /\ UNCHANGED <<configMap, replicaSets, process, request, outcome, faults,
                 crashes>>

DeleteReplicaSet(rs) ==
  /\ User
  /\ rs \in replicaSets
  /\ replicaSets' = replicaSets \ {rs}
  /\ UNCHANGED <<configMap, workloads, process, request, outcome, faults,
                 crashes>>

(***************************************************************************)
(* The specification.                                                      *)
(***************************************************************************)
Init ==
  /\ configMap = InitConfigMap
  /\ workloads \in InitWorkloads
  /\ replicaSets = ReplicaSet
  /\ config  = [r \in Replica |-> Nil]
  /\ exclusionRules = [r \in Replica |-> {}]
  /\ serving = {}
  /\ loader  = [r \in Replica |-> "idle"]
  /\ fetched = [r \in Replica |-> Nil]
  /\ pending = {}
  /\ request = [q \in Request |-> Nil]
  /\ outcome = [q \in Request |-> Nil]
  /\ changes = 0 /\ faults = 0 /\ crashes = 0

Next ==
  \/ \E r \in Replica :
       \/ Boot(r) \/ Serve(r) \/ onConfigMapEvent(r) \/ loadConfig(r)
       \/ Crash(r)
  \/ \E q \in Request :
       \/ \E r \in Replica, pod \in PodSpecs : Admit(q, r, pod)
       \/ Handle(q)
       \/ TimeOut(q)
  \/ \E cm \in ConfigMaps : ChangeConfigMap(cm)
  \/ \E w \in Workload, v \in Edits : ChangeWorkload(w, v)
  \/ \E rs \in ReplicaSet : DeleteReplicaSet(rs)

Spec == Init /\ [][Next]_vars

\* Pods are restarted, calls return, goroutines get their locks, and the
\* informer resyncs every five minutes.  No call has to fail and no request
\* has to time out.  At most one of a replica's own steps is enabled at a
\* time, so their weak fairness is that of their disjunction.
Fairness ==
  /\ \A r \in Replica :
       WF_vars(Boot(r) \/ Serve(r) \/ loadConfig(r) \/ onConfigMapEvent(r))
  /\ \A q \in Request : SF_vars(Handle(q))

FairSpec == Spec /\ Fairness

(***************************************************************************)
(* Properties.                                                             *)
(***************************************************************************)
\* What each variable holds; in particular a configuration only has modes the
\* code knows, whatever the ConfigMap says.
TypeOK ==
  /\ configMap \in ConfigMaps \cup {InitConfigMap}
  /\ workloads \in [Workload -> {Nil} \cup WorkloadSpec]
  /\ replicaSets \subseteq ReplicaSet
  /\ config \in [Replica -> {Nil} \cup ParsedConfig]
  /\ exclusionRules \in [Replica -> SUBSET Rule]
  /\ serving \subseteq Replica
  /\ loader \in [Replica -> {"idle"} \cup Loading]
  /\ fetched \in [Replica -> {Nil} \cup ConfigMaps \cup {InitConfigMap}]
  /\ pending \subseteq Replica
  /\ request \in [Request -> {Nil} \cup Held]
  /\ outcome \in [Request -> {Nil} \cup
       [created : BOOLEAN, patch : Seq(Constraint)]]
  /\ changes \in 0..MaxChanges
  /\ faults \in 0..MaxFaults
  /\ crashes \in 0..MaxCrashes

\* What a load may have read: a ConfigMap, or none.
Sources == ConfigMaps \cup {InitConfigMap, Nil}

Loads(r, cm) ==
  /\ config[r] = Parsed(cm)
  /\ exclusionRules[r] = NewRules(cm, {})

\* Configuration and exclusion rules are two globals behind two locks;
\* whenever no load is under way they come from one and the same ConfigMap
\* (or both from a failed Get), never rules of an older one.
RulesMatchConfig ==
  \A r \in Replica :
    config[r] # Nil /\ ~Locked(r) =>
      \E cm \in Sources : Loads(r, cm)

\* What the documentation of buildPodTSCPatches asks for, of one ConfigMap.
Wanted(cm, pod, ref, owner) ==
  LET cfg == Parsed(cm)
  IN  IF /\ cfg.settings.managementEnabled
         /\ cfg.settings.mode = "apply"
         /\ ~pod.bypass /\ ~pod.ownConstraints
         /\ owner # Nil /\ ~owner.self
         /\ ~isExcluded(ref, NewRules(cm, {}))
         /\ cfg.settings.skipSingleReplica =>
              owner.replicas # Nil /\ owner.replicas >= 2
      THEN buildPodTSCConstraints(owner, cfg.constraints)
      ELSE <<>>

Fits(q, cm) ==
  outcome'[q].patch =
    Wanted(cm, request'[q].pod, request'[q].ref, request'[q].owner)

Answers(q) == InFlight(q) /\ request'[q].at = "answered"

\* A request that no reload overtook is decided by one ConfigMap, rules and
\* configuration alike.
SteadyDecisions ==
  [][\A q \in Request :
       LET r == request[q].by
       IN  Answers(q) /\ ~Locked(r) /\ config[r] = request'[q].cfg =>
             \E cm \in Sources :
               Loads(r, cm) /\ Fits(q, cm)]_vars

\* Every handler returns: neither the lock that loadConfig holds over its Get
\* nor the second look at it keeps a request for ever.
HandlersReturn ==
  \A q \in Request : InFlight(q) ~> ~InFlight(q)

\* A ConfigMap that stays is what every replica that stays up decides by,
\* from some time on, whatever failed or was deleted before.
ConfigSettles ==
  \A r \in Replica :
    \A cm \in ConfigMaps \ {Nil} :
      <>[](configMap = cm /\ r \in serving) => <>[]Loads(r, cm)

\* Constraints of a ConfigMap, where a missing policy is filled in, that stay
\* invalid.
Hopeless(cs) ==
  \/ \E i \in DOMAIN cs : \/ cs[i].maxSkew <= 0
                          \/ cs[i].topologyKey = Empty
                          \/ cs[i].whenUnsatisfiable \notin Policies \cup {Empty}
  \/ \E i, j \in DOMAIN cs : i # j /\ cs[i].topologyKey = cs[j].topologyKey

\* "we never block Pod creation": a Pod is refused over its patch only when
\* the owner's constraints annotation is not valid as it stands, a missing
\* policy included, when the ConfigMap's constraints could never be valid, or
\* when maxSkew does not fit into 32 bits.
BlockedOnlyByBadInput ==
  \A q \in Request :
    outcome[q] # Nil /\ ~outcome[q].created =>
      LET owner == request[q].owner
      IN  \/ /\ owner.constraints.text = "ok"
             /\ ~ValidConstraints(owner.constraints.value)
          \/ owner.maxSkew # Nil /\ owner.maxSkew >= 2^(IntBits - 1)
          \/ \E cm \in ConfigMaps \cup {InitConfigMap} :
               /\ cm # Nil /\ request[q].cfg = Parsed(cm)
               /\ Hopeless(cm.defaultConstraints.value)

(***************************************************************************)
(* Why the safety properties hold, whatever a reload overtakes.            *)
(***************************************************************************)
\* The rules of a load under way are already those of its ConfigMap; servers
\* never run without a configuration.
ReplicaOK(r) ==
  /\ loader[r] = "config" => exclusionRules[r] = NewRules(fetched[r], {})
  /\ config[r] # Nil => \E cm \in Sources : config[r] = Parsed(cm)
  /\ r \in serving => config[r] # Nil

\* What the handler of a request has found out, by where it is.
HandlerOK(q) ==
  LET held == request[q]
      pod  == held.pod
  IN  request[q] # Nil =>
        /\ InFlight(q) => held.by \in serving
        /\ held.at \in {"config", "replicaSet", "owner"} => held.owner = Nil
        /\ held.at \notin {"config", "unanswered"} =>
             \E cm \in Sources : held.cfg = Parsed(cm)
        /\ held.at \in {"replicaSet", "owner", "self", "rules"} =>
             /\ held.cfg.settings.managementEnabled
             /\ ~pod.bypass /\ ~pod.ownConstraints
        /\ held.at = "replicaSet" => pod.replicaSet # Nil
        /\ held.at \in {"owner", "self", "rules"} => held.ref # Nil
        /\ held.at \in {"self", "rules"} => held.owner # Nil
        /\ held.at = "rules" => ~held.owner.self

\* Only a finished request has an outcome, and only an answered one has cost
\* anybody the Pod.
OutcomeOK(q) ==
  outcome[q] # Nil =>
    /\ request[q] # Nil /\ request[q].at \in Finished
    /\ ~outcome[q].created => request[q].at = "answered"

IInv ==
  /\ TypeOK /\ RulesMatchConfig /\ BlockedOnlyByBadInput
  /\ \A r \in Replica : ReplicaOK(r)
  /\ \A q \in Request : HandlerOK(q) /\ OutcomeOK(q)
=============================================================================
