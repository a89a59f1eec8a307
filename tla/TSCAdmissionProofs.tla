------------------------ MODULE TSCAdmissionProofs --------------------------
(***************************************************************************)
(* Proofs about TSCAdmission, for every set of replicas, requests,         *)
(* workloads, ReplicaSets and Pods, every ConfigMap and every bound.       *)
(***************************************************************************)
EXTENDS TSCAdmission, TSCConfigProofs

\* None of the program's own strings is empty.
LEMMA NoneEmpty ==
  /\ Zone # Empty /\ Hostname # Empty
  /\ "ScheduleAnyway" # Empty /\ "DoNotSchedule" # Empty
  BY Zenon DEF Zone, Hostname, Empty

(***************************************************************************)
(* Lemmas about the configuration.                                         *)
(***************************************************************************)
\* A ConfigMap that cannot be had counts as an empty one.
LEMMA GotTyped ==
  ASSUME NEW cm \in Sources
  PROVE  /\ Got(cm).defaultConstraints \in Json(Seq(Constraint))
         /\ Got(cm).exclusions \in Json(SUBSET Rule)
         /\ cm # Nil => Got(cm) = cm
  <1>1. CASE cm = Nil
    BY <1>1 DEF Got, Json
  <1>2. CASE cm # Nil
    <2>1. Got(cm) = cm
      BY <1>2 DEF Got
    <2>2. cm \in ConfigMap
      BY <1>2, ConstantsAssumption DEF Sources
    <2>. QED
      BY <2>1, <2>2 DEF ConfigMap
  <1>. QED
    BY <1>1, <1>2

\* What a constraint becomes when its missing policy is filled in.
LEMMA SoftTyped ==
  ASSUME NEW c \in Constraint
  PROVE  /\ Soft(c) \in Constraint
         /\ Soft(c).maxSkew = c.maxSkew /\ Soft(c).topologyKey = c.topologyKey
         /\ Soft(c).whenUnsatisfiable =
              IF c.whenUnsatisfiable = Empty THEN "ScheduleAnyway"
                                          ELSE c.whenUnsatisfiable
  BY Literals DEF Soft, Constraint, Policies

\* loadConfig computes a configuration whatever it has read.
LEMMA ParsedTyped ==
  ASSUME NEW cm \in Sources
  PROVE  Parsed(cm) \in ParsedConfig
  <1>. DEFINE json == Got(cm).defaultConstraints
  <1>1. ParseTSCConfig(Got(cm).settings, Env) \in Config
    BY ConfigTyped
  <1>2. json.value \in Seq(Constraint)
    BY GotTyped DEF Json
  <1>3. [i \in DOMAIN json.value |-> Soft(json.value[i])] \in Seq(Constraint)
    <2>1. DOMAIN json.value = 1..Len(json.value) /\ Len(json.value) \in Nat
      BY <1>2
    <2>2. \A i \in 1..Len(json.value) : json.value[i] \in Constraint
      BY <1>2
    <2>3. \A i \in 1..Len(json.value) : Soft(json.value[i]) \in Constraint
      BY <2>2, SoftTyped
    <2>. QED
      BY <2>1, <2>3
  <1>4. defaultConstraints \in Seq(Constraint)
    BY Literals DEF defaultConstraints, Constraint, Zone, Hostname, Policies
  <1>5. ParsedConstraints(json) \in Seq(Constraint)
    BY <1>3, <1>4 DEF ParsedConstraints
  <1>. QED
    BY <1>1, <1>5 DEF Parsed, ParsedConfig

\* The rules are those of what was read, whatever they were before.
LEMMA RulesTyped ==
  ASSUME NEW cm \in Sources
  PROVE  /\ NewRules(cm, {}) \in SUBSET Rule
         /\ \A old : NewRules(cm, old) = NewRules(cm, {})
  BY GotTyped DEF NewRules, Json

(***************************************************************************)
(* Lemmas about the constraints that are built.                            *)
(***************************************************************************)
\* An int that fits keeps its value, and every int becomes some int.
LEMMA Converted ==
  ASSUME NEW n \in Int
  PROVE  /\ ToInt32(n) \in Int
         /\ 0 <= n /\ n < 2^(IntBits - 1) => ToInt32(n) = n
  <1>. DEFINE p == 2^IntBits
              h == 2^(IntBits - 1)
  <1>1. p \in Nat /\ h \in Nat /\ p = 2 * h /\ h > 1
    BY PowersOfTwo
  <1>. HIDE DEF p, h
  <1>2. n % p \in 0..(p - 1)
    BY <1>1
  <1>3. 0 <= n /\ n < p => n % p = n
    BY <1>1
  <1>4. ToInt32(n) = IF n % p < h THEN n % p ELSE (n % p) - p
    BY DEF ToInt32, p, h
  <1>5. ToInt32(n) \in Int
    BY <1>1, <1>2, <1>4
  <1>6. 0 <= n /\ n < h => ToInt32(n) = n
    BY <1>1, <1>3, <1>4
  <1>. QED
    BY <1>5, <1>6 DEF h

\* The three overrides, and the one constraint they make.
LEMMA OverridesTyped ==
  ASSUME NEW w \in WorkloadSpec
  PROVE  LET o    == readSimpleOverrides(w)
             skew == Or(o.maxSkew, 1)
             key  == Or(o.topologyKey, Zone)
             when == Or(o.whenUnsatisfiable, "ScheduleAnyway")
         IN  /\ skew \in Int /\ skew > 0
             /\ skew = 1 \/ (w.maxSkew # Nil /\ skew = w.maxSkew)
             /\ key \in STRING /\ key # Empty
             /\ when \in Policies
  <1>. DEFINE o == readSimpleOverrides(w)
  <1>1. w.maxSkew \in {Nil} \cup Int /\ w.topologyKey \in {Nil} \cup (STRING \ {Empty})
    BY DEF WorkloadSpec
  <1>2. /\ o.maxSkew = IF w.maxSkew # Nil /\ w.maxSkew > 0 THEN w.maxSkew ELSE Nil
        /\ o.topologyKey = w.topologyKey
        /\ o.whenUnsatisfiable = IF w.whenUnsatisfiable \in Policies
                                THEN w.whenUnsatisfiable ELSE Nil
    BY DEF readSimpleOverrides
  <1>. HIDE DEF o
  <1>3. LET skew == Or(o.maxSkew, 1)
        IN  /\ skew \in Int /\ skew > 0
            /\ skew = 1 \/ (w.maxSkew # Nil /\ skew = w.maxSkew)
    <2>1. CASE o.maxSkew = Nil
      <3>1. Or(o.maxSkew, 1) = 1
        BY <2>1 DEF Or
      <3>. QED
        BY <3>1
    <2>2. CASE o.maxSkew # Nil
      <3>1. Or(o.maxSkew, 1) = w.maxSkew /\ w.maxSkew # Nil /\ w.maxSkew > 0
        BY <1>2, <2>2 DEF Or
      <3>2. w.maxSkew \in Int
        BY <1>1, <3>1
      <3>. QED
        BY <3>1, <3>2
    <2>. QED
      BY <2>1, <2>2
  <1>4. LET key == Or(o.topologyKey, Zone) IN key \in STRING /\ key # Empty
    BY <1>1, <1>2, Literals, NoneEmpty DEF Or, Zone
  <1>5. Or(o.whenUnsatisfiable, "ScheduleAnyway") \in Policies
    BY <1>2 DEF Or, Policies
  <1>. QED
    BY <1>3, <1>4, <1>5 DEF o

\* What is built is a sequence of constraints.
LEMMA BuiltTyped ==
  ASSUME NEW w \in WorkloadSpec, NEW defaults \in Seq(Constraint)
  PROVE  buildPodTSCConstraints(w, defaults) \in Seq(Constraint)
  <1>. DEFINE o == readSimpleOverrides(w)
              one == defaultConstraintTemplate(
                       ToInt32(Or(o.maxSkew, 1)), Or(o.topologyKey, Zone),
                       Or(o.whenUnsatisfiable, "ScheduleAnyway"))
              all == [i \in DOMAIN defaults |->
                        defaultConstraintTemplate(defaults[i].maxSkew,
                          defaults[i].topologyKey, defaults[i].whenUnsatisfiable)]
  <1>1. w.constraints.value \in Seq(Constraint)
    BY DEF WorkloadSpec, Json
  <1>2. one \in Constraint
    BY OverridesTyped, Converted, Literals
       DEF defaultConstraintTemplate, Constraint
  <1>3. all \in Seq(Constraint)
    <2>1. DOMAIN defaults = 1..Len(defaults) /\ Len(defaults) \in Nat
      OBVIOUS
    <2>2. \A i \in 1..Len(defaults) : defaults[i] \in Constraint
      OBVIOUS
    <2>3. \A i \in 1..Len(defaults) :
            defaultConstraintTemplate(defaults[i].maxSkew,
              defaults[i].topologyKey, defaults[i].whenUnsatisfiable) \in Constraint
      BY <2>2 DEF defaultConstraintTemplate, Constraint
    <2>. QED
      BY <2>1, <2>3
  <1>4. <<one>> \in Seq(Constraint)
    BY <1>2
  <1>5. buildPodTSCConstraints(w, defaults) \in {w.constraints.value, <<one>>, all}
    BY DEF buildPodTSCConstraints
  <1>. QED
    BY <1>1, <1>3, <1>4, <1>5

\* Constraints that are made of one template are valid when it is.
LEMMA OneValid ==
  ASSUME NEW c \in Constraint,
         c.maxSkew > 0, c.topologyKey # Empty, c.whenUnsatisfiable \in Policies
  PROVE  ValidConstraints(<<c>>)
  <1>1. /\ <<c>> \in Seq({c}) /\ Len(<<c>>) = 1
        /\ DOMAIN <<c>> = 1..Len(<<c>>) /\ <<c>>[1] = c
    OBVIOUS
  <1>. QED
    BY <1>1 DEF ValidConstraints

\* What of a workload and a ConfigMap makes a patch invalid.
BadInput(w, cm) ==
  \/ w.constraints.text = "ok" /\ ~ValidConstraints(w.constraints.value)
  \/ w.maxSkew # Nil /\ w.maxSkew >= 2^(IntBits - 1)
  \/ cm # Nil /\ Hopeless(cm.defaultConstraints.value)

\* The constraints of a configuration, in the shape of the template, are valid
\* unless those of its ConfigMap are hopeless.
LEMMA DefaultsValid ==
  ASSUME NEW cm \in Sources, cm = Nil \/ ~Hopeless(cm.defaultConstraints.value)
  PROVE  LET cs == Parsed(cm).constraints
         IN  ValidConstraints([i \in DOMAIN cs |->
               defaultConstraintTemplate(cs[i].maxSkew, cs[i].topologyKey,
                                         cs[i].whenUnsatisfiable)])
  <1>. DEFINE cs == Parsed(cm).constraints
              json == Got(cm).defaultConstraints
              all == [i \in DOMAIN cs |->
                        defaultConstraintTemplate(cs[i].maxSkew,
                          cs[i].topologyKey, cs[i].whenUnsatisfiable)]
  <1>1. cs = ParsedConstraints(json)
    BY DEF Parsed
  <1>2. /\ DOMAIN all = DOMAIN cs
        /\ \A i \in DOMAIN cs : /\ all[i].maxSkew = cs[i].maxSkew
                                /\ all[i].topologyKey = cs[i].topologyKey
                                /\ all[i].whenUnsatisfiable = cs[i].whenUnsatisfiable
    BY DEF defaultConstraintTemplate
  <1>. HIDE DEF all, cs
  <1>3. SUFFICES
          /\ \A i \in DOMAIN cs : /\ cs[i].maxSkew > 0
                                  /\ cs[i].topologyKey # Empty
                                  /\ cs[i].whenUnsatisfiable \in Policies
          /\ \A i, j \in DOMAIN cs : cs[i].topologyKey = cs[j].topologyKey => i = j
    <2>1. ValidConstraints(all)
      BY <1>2 DEF ValidConstraints
    <2>. QED
      BY <2>1 DEF all, cs
  <1>4. CASE json.text = "ok"
    <2>1. cm # Nil /\ json = cm.defaultConstraints
      BY <1>4, GotTyped DEF Got
    <2>2. ~Hopeless(json.value)
      BY <2>1
    <2>3. json.value \in Seq(Constraint)
      BY GotTyped DEF Json
    <2>4. \A i \in DOMAIN json.value : json.value[i] \in Constraint
      BY <2>3
    <2>5. cs = [i \in DOMAIN json.value |-> Soft(json.value[i])]
      BY <1>1, <1>4 DEF ParsedConstraints
    <2>6. \A i \in DOMAIN json.value :
            /\ cs[i].maxSkew = json.value[i].maxSkew
            /\ cs[i].topologyKey = json.value[i].topologyKey
            /\ cs[i].whenUnsatisfiable =
                 IF json.value[i].whenUnsatisfiable = Empty THEN "ScheduleAnyway"
                 ELSE json.value[i].whenUnsatisfiable
      BY <2>4, <2>5, SoftTyped
    <2>7. \A i \in DOMAIN json.value :
            /\ json.value[i].maxSkew \in Int /\ ~(json.value[i].maxSkew <= 0)
            /\ json.value[i].topologyKey # Empty
            /\ json.value[i].whenUnsatisfiable \in Policies \cup {Empty}
      BY <2>2, <2>4 DEF Hopeless, Constraint
    <2>8. \A i, j \in DOMAIN json.value :
            json.value[i].topologyKey = json.value[j].topologyKey => i = j
      BY <2>2 DEF Hopeless
    <2>9. DOMAIN cs = DOMAIN json.value
      BY <2>5
    <2>10. \A i \in DOMAIN json.value :
             cs[i].maxSkew > 0 /\ cs[i].topologyKey # Empty
      BY <2>6, <2>7
    <2>11. \A i \in DOMAIN json.value : cs[i].whenUnsatisfiable \in Policies
      BY <2>6, <2>7 DEF Policies
    <2>12. \A i, j \in DOMAIN json.value :
             cs[i].topologyKey = cs[j].topologyKey => i = j
      BY <2>6, <2>8
    <2>. QED
      BY <2>9, <2>10, <2>11, <2>12
  <1>5. CASE json.text # "ok"
    <2>1. cs = defaultConstraints
      BY <1>1, <1>5 DEF ParsedConstraints
    <2>2. DOMAIN defaultConstraints = {1, 2}
      BY DEF defaultConstraints
    <2>3. /\ defaultConstraints[1].topologyKey = Zone
          /\ defaultConstraints[2].topologyKey = Hostname
          /\ Zone # Hostname
          /\ \A i \in {1, 2} :
               /\ defaultConstraints[i].maxSkew = 1
               /\ defaultConstraints[i].whenUnsatisfiable = "ScheduleAnyway"
      BY DEF defaultConstraints, Zone, Hostname
    <2>4. DOMAIN cs = {1, 2}
      BY <2>1, <2>2
    <2>5. \A i \in {1, 2} : /\ cs[i].maxSkew > 0 /\ cs[i].topologyKey # Empty
                           /\ cs[i].whenUnsatisfiable \in Policies
      BY <2>1, <2>3, NoneEmpty DEF Policies
    <2>6. \A i, j \in {1, 2} : cs[i].topologyKey = cs[j].topologyKey => i = j
      BY <2>1, <2>3
    <2>. QED
      BY <2>4, <2>5, <2>6
  <1>. QED
    BY <1>4, <1>5

\* The API server accepts what is built for a workload, bad input apart.
LEMMA BuiltValid ==
  ASSUME NEW w \in WorkloadSpec, NEW cm \in Sources, ~BadInput(w, cm)
  PROVE  ValidConstraints(buildPodTSCConstraints(w, Parsed(cm).constraints))
  <1>. DEFINE o    == readSimpleOverrides(w)
              cs   == Parsed(cm).constraints
              skew == Or(o.maxSkew, 1)
              key  == Or(o.topologyKey, Zone)
              when == Or(o.whenUnsatisfiable, "ScheduleAnyway")
              one  == defaultConstraintTemplate(ToInt32(skew), key, when)
              all  == [i \in DOMAIN cs |->
                         defaultConstraintTemplate(cs[i].maxSkew,
                           cs[i].topologyKey, cs[i].whenUnsatisfiable)]
  <1>1. CASE w.constraints.text = "ok" /\ w.constraints.value # <<>>
    BY <1>1 DEF BadInput, buildPodTSCConstraints
  <1>2. CASE /\ ~(w.constraints.text = "ok" /\ w.constraints.value # <<>>)
             /\ o.maxSkew # Nil \/ o.topologyKey # Nil \/ o.whenUnsatisfiable # Nil
    <2>1. /\ skew \in Int /\ skew > 0 /\ key \in STRING /\ key # Empty
          /\ skew = 1 \/ (w.maxSkew # Nil /\ skew = w.maxSkew)
          /\ when \in Policies
      BY OverridesTyped
    <2>. HIDE DEF skew, key, when
    <2>2. ToInt32(skew) = skew
      <3>. DEFINE h == 2^(IntBits - 1)
      <3>1. ~(w.maxSkew # Nil /\ w.maxSkew >= h)
        BY DEF BadInput
      <3>2. h \in Nat /\ h > 1
        BY PowersOfTwo
      <3>3. 0 <= skew /\ skew < h => ToInt32(skew) = skew
        BY <2>1, Converted
      <3>. HIDE DEF h
      <3>4. skew < h
        <4>1. CASE skew = 1
          BY <3>2, <4>1
        <4>2. CASE w.maxSkew # Nil /\ skew = w.maxSkew
          BY <2>1, <3>1, <3>2, <4>2
        <4>. QED
          BY <2>1, <4>1, <4>2
      <3>. QED
        BY <2>1, <3>3, <3>4
    <2>4. /\ one \in Constraint /\ one.maxSkew = skew
          /\ one.topologyKey = key /\ one.whenUnsatisfiable = when
      BY <2>1, <2>2, Literals DEF defaultConstraintTemplate, Constraint
    <2>. HIDE DEF one
    <2>5. ValidConstraints(<<one>>)
      BY <2>1, <2>4, OneValid
    <2>6. buildPodTSCConstraints(w, cs) = <<one>>
      BY <1>2 DEF buildPodTSCConstraints, one, skew, key, when
    <2>. QED
      BY <2>5, <2>6
  <1>3. CASE /\ ~(w.constraints.text = "ok" /\ w.constraints.value # <<>>)
             /\ ~(o.maxSkew # Nil \/ o.topologyKey # Nil \/ o.whenUnsatisfiable # Nil)
    <2>1. buildPodTSCConstraints(w, cs) = all
      BY <1>3 DEF buildPodTSCConstraints
    <2>2. ValidConstraints(all)
      BY DefaultsValid DEF BadInput
    <2>. QED
      BY <2>1, <2>2
  <1>. QED
    BY <1>1, <1>2, <1>3

\* The patch for a workload that no rule excludes: constraints, valid unless
\* the input was bad.
LEMMA PatchTyped ==
  ASSUME NEW w \in WorkloadSpec, NEW cm \in Sources
  PROVE  /\ PatchFor(Parsed(cm), w) \in Seq(Constraint)
         /\ BadInput(w, cm) \/ ValidConstraints(PatchFor(Parsed(cm), w))
  <1>1. Parsed(cm).constraints \in Seq(Constraint)
    BY ParsedTyped DEF ParsedConfig
  <1>2. /\ <<>> \in Seq(Constraint)
        /\ ValidConstraints(<<>>)
    BY DEF ValidConstraints
  <1>. QED
    BY <1>1, <1>2, BuiltTyped, BuiltValid DEF PatchFor

\* Decided by one ConfigMap, a request gets the patch that is wanted.
LEMMA PatchWanted ==
  ASSUME NEW cm \in Sources, NEW pod, NEW ref, NEW w \in WorkloadSpec, w # Nil,
         Parsed(cm).settings.managementEnabled, ~pod.bypass, ~pod.ownConstraints,
         ~w.self
  PROVE  Wanted(cm, pod, ref, w) =
           IF isExcluded(ref, NewRules(cm, {})) THEN <<>>
                                               ELSE PatchFor(Parsed(cm), w)
  <1>1. Parsed(cm).settings.mode \in {"apply", "recommend"}
    BY ParsedTyped DEF ParsedConfig, Config
  <1>2. w.replicas = Nil \/ w.replicas \in Nat
    BY DEF WorkloadSpec
  <1>3. replicasOrZero(w.replicas) < 2 <=> ~(w.replicas # Nil /\ w.replicas >= 2)
    <2>1. CASE w.replicas = Nil
      <3>1. replicasOrZero(w.replicas) = 0
        BY <2>1 DEF replicasOrZero
      <3>. QED
        BY <2>1, <3>1
    <2>2. CASE w.replicas # Nil
      <3>1. replicasOrZero(w.replicas) = w.replicas /\ w.replicas \in Nat
        BY <1>2, <2>2 DEF replicasOrZero
      <3>. QED
        BY <2>2, <3>1
    <2>. QED
      BY <2>1, <2>2
  <1>. QED
    BY <1>1, <1>3 DEF Wanted, PatchFor, TooFew

(***************************************************************************)
(* The initial states.                                                     *)
(***************************************************************************)
\* What is said of one request's Pod.
BlockedOK(q) ==
  outcome[q] # Nil /\ ~outcome[q].created =>
    LET owner == request[q].owner
    IN  \/ owner.constraints.text = "ok" /\ ~ValidConstraints(owner.constraints.value)
        \/ owner.maxSkew # Nil /\ owner.maxSkew >= 2^(IntBits - 1)
        \/ \E cm \in ConfigMaps \cup {InitConfigMap} :
             /\ cm # Nil /\ request[q].cfg = Parsed(cm)
             /\ Hopeless(cm.defaultConstraints.value)

LEMMA Blocked == BlockedOnlyByBadInput <=> \A q \in Request : BlockedOK(q)
  BY DEF BlockedOnlyByBadInput, BlockedOK

\* At first nothing is loaded, served or asked.
LEMMA InitIInv == Init => IInv
  <1>. SUFFICES ASSUME Init
                PROVE  IInv
    OBVIOUS
  <1>1. TypeOK
    <2>1. workloads \in [Workload -> {Nil} \cup WorkloadSpec]
      BY ConstantsAssumption DEF Init
    <2>2. changes \in 0..MaxChanges /\ faults \in 0..MaxFaults
          /\ crashes \in 0..MaxCrashes
      BY ConstantsAssumption DEF Init
    <2>. QED
      BY <2>1, <2>2 DEF Init, TypeOK
  <1>2. RulesMatchConfig
    BY DEF Init, RulesMatchConfig
  <1>3. \A r \in Replica : ReplicaOK(r)
    BY DEF Init, ReplicaOK
  <1>4. \A q \in Request : HandlerOK(q) /\ OutcomeOK(q) /\ BlockedOK(q)
    BY DEF Init, HandlerOK, OutcomeOK, BlockedOK
  <1>. QED
    BY <1>1, <1>2, <1>3, <1>4, Blocked DEF IInv

(***************************************************************************)
(* The steps of a replica.  No request moves, and no server disappears.    *)
(***************************************************************************)
\* What a step must show besides the invariant, for SteadyDecisions.
Steady ==
  \A q \in Request :
    LET r == request[q].by
    IN  Answers(q) /\ ~Locked(r) /\ config[r] = request'[q].cfg =>
          \E cm \in Sources : Loads(r, cm) /\ Fits(q, cm)

\* A step that answers no request.
LEMMA NoAnswer ==
  ASSUME UNCHANGED request
  PROVE  Steady
  BY DEF Steady, Answers, InFlight, Finished

\* A step in which no request moves keeps the invariant when it keeps the
\* types and what is said of the replicas.
LEMMA ReplicaStepOK ==
  ASSUME IInv, UNCHANGED <<request, outcome>>, serving \subseteq serving',
         TypeOK', RulesMatchConfig', \A r \in Replica : ReplicaOK(r)'
  PROVE  IInv' /\ Steady
  <1>1. \A q \in Request : HandlerOK(q)' /\ OutcomeOK(q)'
    BY DEF IInv, HandlerOK, OutcomeOK, InFlight
  <1>2. BlockedOnlyByBadInput'
    BY DEF IInv, BlockedOnlyByBadInput
  <1>. QED
    BY <1>1, <1>2, NoAnswer DEF IInv

LEMMA BootOK ==
  ASSUME IInv, NEW r \in Replica, Boot(r)
  PROVE  IInv' /\ Steady
  <1>. USE DEF Boot, Lock, cluster, bounds
  <1>1. TypeOK'
    BY DEF IInv, TypeOK, Loading
  <1>2. RulesMatchConfig'
    BY DEF IInv, TypeOK, RulesMatchConfig, Locked, Loading, Loads
  <1>3. \A o \in Replica : ReplicaOK(o)'
    BY DEF IInv, TypeOK, ReplicaOK
  <1>. QED
    BY <1>1, <1>2, <1>3, ReplicaStepOK

LEMMA ServeOK ==
  ASSUME IInv, NEW r \in Replica, Serve(r)
  PROVE  IInv' /\ Steady
  <1>. USE DEF Serve, cluster, bounds
  <1>1. TypeOK'
    BY DEF IInv, TypeOK
  <1>2. RulesMatchConfig'
    BY DEF IInv, RulesMatchConfig, Locked, Loads
  <1>3. \A o \in Replica : ReplicaOK(o)'
    BY DEF IInv, TypeOK, ReplicaOK
  <1>. QED
    BY <1>1, <1>2, <1>3, ReplicaStepOK

LEMMA EventOK ==
  ASSUME IInv, NEW r \in Replica, onConfigMapEvent(r)
  PROVE  IInv' /\ Steady
  <1>. USE DEF onConfigMapEvent, Lock, cluster, bounds
  <1>1. TypeOK'
    BY DEF IInv, TypeOK, Loading
  <1>2. RulesMatchConfig'
    BY DEF IInv, TypeOK, RulesMatchConfig, Locked, Loading, Loads
  <1>3. \A o \in Replica : ReplicaOK(o)'
    BY DEF IInv, TypeOK, ReplicaOK
  <1>. QED
    BY <1>1, <1>2, <1>3, ReplicaStepOK

\* The rules are set first, and are those of what was fetched.
LEMMA SetRulesOK ==
  ASSUME IInv, NEW r \in Replica, SetRules(r)
  PROVE  IInv' /\ Steady
  <1>. USE DEF SetRules, cluster
  <1>1. fetched' \in [Replica -> {Nil} \cup ConfigMaps \cup {InitConfigMap}]
    BY DEF IInv, TypeOK
  <1>2. fetched'[r] \in Sources
    BY <1>1 DEF Sources
  <1>3. /\ exclusionRules' = [exclusionRules EXCEPT ![r] = NewRules(fetched'[r], {})]
        /\ NewRules(fetched'[r], {}) \in SUBSET Rule
    BY <1>2, RulesTyped
  <1>4. faults' \in 0..MaxFaults
    BY ConstantsAssumption DEF IInv, TypeOK, Fault
  <1>5. TypeOK'
    BY <1>1, <1>3, <1>4 DEF IInv, TypeOK, Loading
  <1>6. RulesMatchConfig'
    BY <1>3 DEF IInv, TypeOK, RulesMatchConfig, Locked, Loading, Loads
  <1>7. \A o \in Replica : ReplicaOK(o)'
    BY <1>3 DEF IInv, TypeOK, ReplicaOK
  <1>. QED
    BY <1>5, <1>6, <1>7, ReplicaStepOK

\* The configuration follows, of the same ConfigMap.
LEMMA SetConfigOK ==
  ASSUME IInv, NEW r \in Replica, SetConfig(r)
  PROVE  IInv' /\ Steady
  <1>. USE DEF SetConfig, Unlock, cluster, bounds
  <1>1. fetched[r] \in Sources
    BY DEF IInv, TypeOK, Sources
  <1>2. /\ Parsed(fetched[r]) \in ParsedConfig /\ Parsed(fetched[r]) # Nil
        /\ exclusionRules[r] = NewRules(fetched[r], {})
    BY <1>1, ParsedTyped, NilAssumption DEF IInv, ReplicaOK
  <1>3. TypeOK'
    BY <1>2 DEF IInv, TypeOK
  <1>4. RulesMatchConfig'
    BY <1>1, <1>2 DEF IInv, TypeOK, RulesMatchConfig, Locked, Loads
  <1>5. \A o \in Replica : ReplicaOK(o)'
    BY <1>1, <1>2 DEF IInv, TypeOK, ReplicaOK
  <1>. QED
    BY <1>3, <1>4, <1>5, ReplicaStepOK

\* Users change no variable of a replica but its pending events.
LEMMA UserOK ==
  ASSUME IInv,
         \/ \E cm \in ConfigMaps : ChangeConfigMap(cm)
         \/ \E w \in Workload, v \in Edits : ChangeWorkload(w, v)
         \/ \E rs \in ReplicaSet : DeleteReplicaSet(rs)
  PROVE  IInv' /\ Steady
  <1>1. /\ UNCHANGED <<config, exclusionRules, serving, loader, fetched>>
        /\ UNCHANGED <<request, outcome, faults, crashes>>
        /\ changes' \in 0..MaxChanges
    BY ConstantsAssumption
       DEF IInv, TypeOK, ChangeConfigMap, ChangeWorkload, DeleteReplicaSet, User,
           process
  <1>2. /\ configMap' \in ConfigMaps \cup {InitConfigMap}
        /\ workloads' \in [Workload -> {Nil} \cup WorkloadSpec]
        /\ replicaSets' \subseteq ReplicaSet
        /\ pending' \subseteq Replica
    BY ConstantsAssumption
       DEF IInv, TypeOK, ChangeConfigMap, ChangeWorkload, DeleteReplicaSet,
           process
  <1>3. TypeOK'
    BY <1>1, <1>2 DEF IInv, TypeOK
  <1>4. RulesMatchConfig'
    BY <1>1 DEF IInv, RulesMatchConfig, Locked, Loads
  <1>5. \A r \in Replica : ReplicaOK(r)'
    BY <1>1 DEF IInv, ReplicaOK
  <1>. QED
    BY <1>1, <1>3, <1>4, <1>5, ReplicaStepOK

(***************************************************************************)
(* The steps of a request.  No replica moves.                              *)
(***************************************************************************)
Outcome == [created : BOOLEAN, patch : Seq(Constraint)]

\* A step of one request keeps the invariant when it keeps what is said of
\* that request.
LEMMA RequestStepOK ==
  ASSUME IInv, NEW q \in Request,
         UNCHANGED <<cluster, process, changes, crashes>>,
         faults' \in 0..MaxFaults,
         NEW held \in Held, request' = [request EXCEPT ![q] = held],
         NEW out \in {Nil} \cup Outcome, outcome' = [outcome EXCEPT ![q] = out],
         HandlerOK(q)', OutcomeOK(q)', BlockedOK(q)'
  PROVE  IInv'
  <1>. USE DEF cluster, process
  <1>1. TypeOK'
    BY DEF IInv, TypeOK, Outcome
  <1>2. RulesMatchConfig' /\ \A r \in Replica : ReplicaOK(r)'
    BY DEF IInv, RulesMatchConfig, Locked, Loads, ReplicaOK
  <1>3. \A o \in Request \ {q} :
          request'[o] = request[o] /\ outcome'[o] = outcome[o]
    BY DEF IInv, TypeOK
  <1>4. \A o \in Request : HandlerOK(o)' /\ OutcomeOK(o)'
    BY <1>3 DEF IInv, HandlerOK, OutcomeOK, InFlight
  <1>5. \A o \in Request : BlockedOK(o)'
    BY <1>3, Blocked DEF IInv, BlockedOK
  <1>6. BlockedOnlyByBadInput'
    BY <1>5 DEF BlockedOnlyByBadInput, BlockedOK
  <1>. QED
    BY <1>1, <1>2, <1>4, <1>6 DEF IInv

\* An answer keeps the invariant when its patch is valid or the input was bad;
\* it is steady when the patch is the one that is wanted.
LEMMA AnswerOK ==
  ASSUME IInv, NEW q \in Request, InFlight(q),
         UNCHANGED <<cluster, process, changes, crashes>>,
         faults' \in 0..MaxFaults,
         NEW held \in Held, held.by = request[q].by,
         NEW cm \in Sources, held.cfg = Parsed(cm),
         NEW patch \in Seq(Constraint), Answer(q, patch, held),
         ValidConstraints(patch) \/ BadInput(held.owner, cm),
         \A c \in Sources :
           Parsed(c) = held.cfg /\ exclusionRules[held.by] = NewRules(c, {}) =>
             patch = Wanted(c, held.pod, held.ref, held.owner)
  PROVE  IInv' /\ Steady
  <1>. DEFINE done == [held EXCEPT !.at = "answered"]
              out  == [created |-> ValidConstraints(patch), patch |-> patch]
  <1>1. /\ done \in Held /\ done.at = "answered" /\ done.cfg = held.cfg
        /\ done.owner = held.owner /\ done.by = held.by
        /\ done.pod = held.pod /\ done.ref = held.ref
    BY DEF Held, Labels
  <1>2. out \in Outcome /\ out.created = ValidConstraints(patch) /\ out.patch = patch
    <2>1. ValidConstraints(patch) \in BOOLEAN
      BY DEF ValidConstraints
    <2>. QED
      BY <2>1 DEF Outcome
  <1>3. request' = [request EXCEPT ![q] = done] /\ outcome' = [outcome EXCEPT ![q] = out]
    BY DEF Answer
  <1>. HIDE DEF done, out
  <1>4. request'[q] = done /\ outcome'[q] = out
    BY <1>3 DEF IInv, TypeOK
  <1>5. done # Nil
    BY <1>1, NilAssumption
  <1>6. HandlerOK(q)' /\ OutcomeOK(q)'
    BY <1>1, <1>4, <1>5 DEF HandlerOK, OutcomeOK, InFlight, Finished
  <1>7. BlockedOK(q)'
    <2>. SUFFICES ASSUME ~out.created
                  PROVE  BlockedOK(q)'
      BY <1>4 DEF BlockedOK
    <2>1. BadInput(held.owner, cm)
      BY <1>2
    <2>2. CASE cm # Nil /\ Hopeless(cm.defaultConstraints.value)
      BY <1>1, <1>4, <2>2 DEF BlockedOK, Sources
    <2>3. CASE ~(cm # Nil /\ Hopeless(cm.defaultConstraints.value))
      BY <1>1, <1>4, <2>1, <2>3 DEF BlockedOK, BadInput
    <2>. QED
      BY <2>2, <2>3
  <1>8. IInv'
    BY <1>1, <1>2, <1>3, <1>6, <1>7, RequestStepOK
  <1>9. Steady
    <2>. SUFFICES ASSUME NEW o \in Request, Answers(o), ~Locked(request[o].by),
                         config[request[o].by] = request'[o].cfg
                  PROVE  \E c \in Sources : Loads(request[o].by, c) /\ Fits(o, c)
      BY DEF Steady
    <2>1. o = q
      BY <1>3 DEF IInv, TypeOK, Answers, InFlight, Finished
    <2>2. /\ request[q].by \in Replica
          /\ config[held.by] = held.cfg
      BY <1>1, <1>4, <2>1 DEF Held
    <2>3. config[held.by] # Nil
      BY <2>1, <2>2 DEF IInv, HandlerOK, ReplicaOK, InFlight
    <2>4. PICK c \in Sources : Loads(held.by, c)
      BY <2>1, <2>2, <2>3 DEF IInv, RulesMatchConfig
    <2>5. patch = Wanted(c, held.pod, held.ref, held.owner)
      BY <2>2, <2>4 DEF Loads
    <2>. QED
      BY <1>1, <1>2, <1>4, <2>1, <2>4, <2>5 DEF Fits
  <1>. QED
    BY <1>8, <1>9

\* An answer without a patch.
LEMMA EmptyPatch == <<>> \in Seq(Constraint) /\ ValidConstraints(<<>>)
  BY DEF ValidConstraints

LEMMA EmptyAnswerOK ==
  ASSUME IInv, NEW q \in Request, InFlight(q),
         UNCHANGED <<cluster, process, changes, crashes>>,
         faults' \in 0..MaxFaults,
         NEW held \in Held, held.by = request[q].by,
         NEW cm \in Sources, held.cfg = Parsed(cm), Answer(q, <<>>, held),
         \/ ~held.cfg.settings.managementEnabled
         \/ held.pod.bypass \/ held.pod.ownConstraints
         \/ held.owner = Nil
         \/ held.owner.self
  PROVE  IInv' /\ Steady
  <1>1. \A c \in Sources : Parsed(c) = held.cfg =>
          Wanted(c, held.pod, held.ref, held.owner) = <<>>
    BY DEF Wanted
  <1>. QED
    BY <1>1, EmptyPatch, AnswerOK

\* A step of one request that does not answer it.
LEMMA QuietStepOK ==
  ASSUME IInv, NEW q \in Request,
         UNCHANGED <<cluster, process, outcome, changes, crashes>>,
         faults' \in 0..MaxFaults,
         NEW held \in Held, request' = [request EXCEPT ![q] = held],
         held.at # "answered", InFlight(q) \/ request[q] = Nil,
         HandlerOK(q)'
  PROVE  IInv' /\ Steady
  <1>1. request'[q] = held /\ held # Nil
    BY NilAssumption DEF IInv, TypeOK
  <1>2. outcome[q] = Nil
    BY DEF IInv, OutcomeOK, InFlight
  <1>3. OutcomeOK(q)' /\ BlockedOK(q)'
    BY <1>2 DEF OutcomeOK, BlockedOK
  <1>4. outcome' = [outcome EXCEPT ![q] = outcome[q]] /\ outcome[q] \in {Nil} \cup Outcome
    BY DEF IInv, TypeOK, Outcome
  <1>5. IInv'
    BY <1>3, <1>4, RequestStepOK
  <1>6. \A o \in Request : ~Answers(o)
    BY <1>1 DEF IInv, TypeOK, Answers, InFlight, Finished
  <1>. QED
    BY <1>5, <1>6 DEF Steady

\* The API server gives up on a request.
LEMMA TimeOutOK ==
  ASSUME IInv, NEW q \in Request, TimeOut(q)
  PROVE  IInv' /\ Steady
  <1>. DEFINE held == Abandoned(request[q])
              out  == [created |-> TRUE, patch |-> <<>>]
  <1>1. request[q] \in Held
    BY DEF IInv, TypeOK, TimeOut, InFlight
  <1>2. held \in Held /\ held.at = "unanswered" /\ held.owner = Nil
    BY <1>1 DEF Abandoned, Held, Labels
  <1>3. out \in Outcome /\ out.created
    BY EmptyPatch DEF Outcome
  <1>4. /\ request' = [request EXCEPT ![q] = held]
        /\ outcome' = [outcome EXCEPT ![q] = out]
        /\ UNCHANGED <<cluster, process, changes, crashes>>
        /\ faults' \in 0..MaxFaults
    BY DEF TimeOut, bounds, IInv, TypeOK
  <1>. HIDE DEF held, out
  <1>5. request'[q] = held /\ outcome'[q] = out
    BY <1>4 DEF IInv, TypeOK
  <1>6. HandlerOK(q)' /\ OutcomeOK(q)' /\ BlockedOK(q)'
    BY <1>2, <1>3, <1>5, NilAssumption
       DEF HandlerOK, OutcomeOK, BlockedOK, InFlight, Finished
  <1>7. IInv'
    BY <1>2, <1>3, <1>4, <1>6, RequestStepOK
  <1>8. \A o \in Request : ~Answers(o)
    BY <1>2, <1>4 DEF IInv, TypeOK, Answers, InFlight, Finished
  <1>. QED
    BY <1>7, <1>8 DEF Steady

\* What is known of a request whose handler is under way.
LEMMA UnderWay ==
  ASSUME IInv, NEW q \in Request, NEW label \in Labels \ Finished, At(q, label)
  PROVE  /\ request[q] \in Held /\ request[q].at = label /\ InFlight(q)
         /\ request[q].by \in Replica /\ request[q].pod \in PodSpec
         /\ config[request[q].by] # Nil
         /\ faults \in 0..MaxFaults
         /\ Fault => faults' \in 0..MaxFaults
         /\ label # "config" => \E cm \in Sources : request[q].cfg = Parsed(cm)
  <1>1. request[q] \in Held /\ request[q].at = label /\ InFlight(q)
    BY DEF IInv, TypeOK, At, InFlight
  <1>2. request[q].by \in Replica /\ request[q].pod \in PodSpec
    BY <1>1, ConstantsAssumption DEF Held
  <1>3. config[request[q].by] # Nil
    BY <1>1, <1>2 DEF IInv, HandlerOK, ReplicaOK, InFlight
  <1>4. faults \in 0..MaxFaults /\ (Fault => faults' \in 0..MaxFaults)
    BY ConstantsAssumption DEF IInv, TypeOK, Fault
  <1>5. label # "config" => \E cm \in Sources : request[q].cfg = Parsed(cm)
    BY <1>1 DEF IInv, HandlerOK, InFlight, Finished
  <1>. QED
    BY <1>1, <1>2, <1>3, <1>4, <1>5

\* A request arrives at a replica that serves.
LEMMA AdmitOK ==
  ASSUME IInv, NEW q \in Request, NEW r \in Replica, NEW pod \in PodSpecs,
         Admit(q, r, pod)
  PROVE  IInv' /\ Steady
  <1>. DEFINE held == [pod |-> pod, by |-> r, at |-> "config", cfg |-> Nil,
                       ref |-> Nil, owner |-> Nil]
  <1>1. held \in Held /\ held.at = "config" /\ held.by = r /\ held.owner = Nil
    BY DEF Held, Labels
  <1>2. /\ request' = [request EXCEPT ![q] = held]
        /\ request[q] = Nil /\ r \in serving
        /\ UNCHANGED <<cluster, process, outcome, changes, crashes>>
        /\ serving' = serving
        /\ faults' \in 0..MaxFaults
    BY DEF Admit, bounds, process, IInv, TypeOK
  <1>. HIDE DEF held
  <1>3. request'[q] = held
    BY <1>2 DEF IInv, TypeOK
  <1>4. HandlerOK(q)'
    BY <1>1, <1>2, <1>3 DEF HandlerOK
  <1>. QED
    BY <1>1, <1>2, <1>4, QuietStepOK

\* The configuration is read, and the Pod and its owners are looked at.
LEMMA ReadConfigOK ==
  ASSUME IInv, NEW q \in Request, ReadConfig(q)
  PROVE  IInv' /\ Steady
  <1>1. "config" \in Labels \ Finished
    BY DEF Labels, Finished
  <1>2. /\ At(q, "config")
        /\ UNCHANGED <<cluster, process, changes, crashes>>
        /\ faults' \in 0..MaxFaults
    BY <1>1, UnderWay DEF ReadConfig, bounds
  <1>. DEFINE cfg  == config[request[q].by]
              pod  == request[q].pod
              held == [request[q] EXCEPT !.cfg = cfg, !.ref = pod.statefulSet]
              next == [held EXCEPT !.at = IF pod.statefulSet # Nil THEN "owner"
                                                                  ELSE "replicaSet"]
  <1>3. /\ request[q] \in Held /\ request[q].at = "config" /\ InFlight(q)
        /\ request[q].by \in Replica /\ pod \in PodSpec /\ cfg # Nil
    BY <1>1, <1>2, UnderWay
  <1>4. PICK cm \in Sources : cfg = Parsed(cm)
    BY <1>3 DEF IInv, ReplicaOK
  <1>5. cfg \in ParsedConfig
    BY <1>4, ParsedTyped
  <1>6. request[q].owner = Nil
    BY <1>3 DEF IInv, HandlerOK, InFlight
  <1>7. pod.statefulSet \in {Nil} \cup Workload
    BY <1>3 DEF PodSpec
  <1>8. /\ held \in Held /\ held.by = request[q].by /\ held.cfg = cfg
        /\ held.pod = pod /\ held.owner = Nil /\ held.ref = pod.statefulSet
    BY <1>3, <1>5, <1>6, <1>7 DEF Held
  <1>. HIDE DEF held
  <1>9. CASE Answer(q, <<>>, held)
    BY <1>2, <1>3, <1>4, <1>8, <1>9, EmptyAnswerOK
  <1>10. CASE /\ cfg.settings.managementEnabled
              /\ ~pod.bypass /\ ~pod.ownConstraints
              /\ pod.statefulSet # Nil \/ pod.replicaSet # Nil
              /\ request' = [request EXCEPT ![q] = next]
              /\ UNCHANGED outcome
    <2>1. /\ next \in Held /\ next.by = request[q].by /\ next.cfg = cfg
          /\ next.pod = pod /\ next.owner = Nil /\ next.ref = pod.statefulSet
          /\ next.at = IF pod.statefulSet # Nil THEN "owner" ELSE "replicaSet"
      BY <1>8 DEF Held, Labels
    <2>. HIDE DEF next
    <2>2. request'[q] = next
      BY <1>10 DEF IInv, TypeOK
    <2>3. serving' = serving /\ request[q].by \in serving
      BY <1>2, <1>3 DEF process, IInv, HandlerOK, InFlight
    <2>. HIDE DEF cfg, pod
    <2>4. HandlerOK(q)'
      BY <1>4, <1>10, <2>1, <2>2, <2>3 DEF HandlerOK
    <2>5. next.at # "answered"
      BY <2>1
    <2>. QED
      BY <1>2, <1>3, <1>10, <2>1, <2>4, <2>5, QuietStepOK
  <1>. QED
    BY <1>3, <1>9, <1>10 DEF ReadConfig, held

\* The ReplicaSet's Deployment is found, or it is not and the Pod stays as is.
LEMMA GetReplicaSetOK ==
  ASSUME IInv, NEW q \in Request, GetReplicaSet(q)
  PROVE  IInv' /\ Steady
  <1>. DEFINE rs   == request[q].pod.replicaSet
              next == [request[q] EXCEPT !.ref = DeploymentOf[rs], !.at = "owner"]
  <1>1. "replicaSet" \in Labels \ Finished
    BY DEF Labels, Finished
  <1>2. /\ At(q, "replicaSet")
        /\ UNCHANGED <<cluster, process, changes, crashes>>
    BY DEF GetReplicaSet
  <1>3. /\ request[q] \in Held /\ request[q].at = "replicaSet" /\ InFlight(q)
        /\ request[q].pod \in PodSpec /\ faults' \in 0..MaxFaults
    BY <1>1, <1>2, UnderWay DEF GetReplicaSet
  <1>4. PICK cm \in Sources : request[q].cfg = Parsed(cm)
    BY <1>1, <1>2, UnderWay
  <1>5. request[q].owner = Nil
    BY <1>3 DEF IInv, HandlerOK, InFlight
  <1>6. CASE Answer(q, <<>>, request[q])
    BY <1>2, <1>3, <1>4, <1>5, <1>6, EmptyAnswerOK
  <1>7. CASE /\ rs \in replicaSets /\ DeploymentOf[rs] # Nil
             /\ request' = [request EXCEPT ![q] = next]
             /\ UNCHANGED outcome
    <2>1. DeploymentOf[rs] \in Workload
      BY <1>7, ConstantsAssumption DEF IInv, TypeOK
    <2>2. /\ next \in Held /\ next.at = "owner" /\ next.by = request[q].by
          /\ next.cfg = request[q].cfg /\ next.pod = request[q].pod
          /\ next.owner = Nil /\ next.ref = DeploymentOf[rs]
      BY <1>3, <1>5, <2>1 DEF Held, Labels
    <2>. HIDE DEF next
    <2>3. request'[q] = next
      BY <1>7 DEF IInv, TypeOK
    <2>4. /\ serving' = serving /\ request[q].by \in serving
          /\ request[q].cfg.settings.managementEnabled
          /\ ~request[q].pod.bypass /\ ~request[q].pod.ownConstraints
      BY <1>2, <1>3 DEF process, IInv, HandlerOK, InFlight
    <2>5. HandlerOK(q)'
      BY <1>4, <1>7, <2>2, <2>3, <2>4 DEF HandlerOK
    <2>. QED
      BY <1>2, <1>3, <1>7, <2>2, <2>5, QuietStepOK
  <1>. QED
    BY <1>3, <1>6, <1>7 DEF GetReplicaSet

\* The workload is found, or it is not and the Pod stays as it is.
LEMMA GetOwnerOK ==
  ASSUME IInv, NEW q \in Request, GetOwner(q)
  PROVE  IInv' /\ Steady
  <1>. DEFINE w    == request[q].ref
              next == [request[q] EXCEPT !.owner = workloads[w], !.at = "self"]
  <1>1. "owner" \in Labels \ Finished
    BY DEF Labels, Finished
  <1>2. /\ At(q, "owner")
        /\ UNCHANGED <<cluster, process, changes, crashes>>
    BY DEF GetOwner
  <1>3. /\ request[q] \in Held /\ request[q].at = "owner" /\ InFlight(q)
        /\ faults' \in 0..MaxFaults
    BY <1>1, <1>2, UnderWay DEF GetOwner
  <1>4. PICK cm \in Sources : request[q].cfg = Parsed(cm)
    BY <1>1, <1>2, UnderWay
  <1>5. request[q].owner = Nil /\ request[q].ref # Nil
    BY <1>3 DEF IInv, HandlerOK, InFlight
  <1>6. CASE Answer(q, <<>>, request[q])
    BY <1>2, <1>3, <1>4, <1>5, <1>6, EmptyAnswerOK
  <1>7. CASE /\ workloads[w] # Nil
             /\ request' = [request EXCEPT ![q] = next]
             /\ UNCHANGED outcome
    <2>1. w \in Workload /\ workloads[w] \in WorkloadSpec
      BY <1>3, <1>5, <1>7 DEF Held, IInv, TypeOK
    <2>2. /\ next \in Held /\ next.at = "self" /\ next.by = request[q].by
          /\ next.cfg = request[q].cfg /\ next.pod = request[q].pod
          /\ next.owner = workloads[w] /\ next.ref = request[q].ref
      BY <1>3, <2>1 DEF Held, Labels
    <2>. HIDE DEF next
    <2>3. request'[q] = next
      BY <1>7 DEF IInv, TypeOK
    <2>4. /\ serving' = serving /\ request[q].by \in serving
          /\ request[q].cfg.settings.managementEnabled
          /\ ~request[q].pod.bypass /\ ~request[q].pod.ownConstraints
      BY <1>2, <1>3 DEF process, IInv, HandlerOK, InFlight
    <2>5. HandlerOK(q)'
      BY <1>4, <1>5, <1>7, <2>2, <2>3, <2>4 DEF HandlerOK
    <2>. QED
      BY <1>2, <1>3, <1>7, <2>2, <2>5, QuietStepOK
  <1>. QED
    BY <1>3, <1>6, <1>7 DEF GetOwner

\* The controller's own Pods stay as they are.
LEMMA CheckSelfOK ==
  ASSUME IInv, NEW q \in Request, CheckSelf(q)
  PROVE  IInv' /\ Steady
  <1>. DEFINE next == [request[q] EXCEPT !.at = "rules"]
  <1>1. "self" \in Labels \ Finished
    BY DEF Labels, Finished
  <1>2. /\ At(q, "self")
        /\ UNCHANGED <<cluster, process, changes, crashes>>
        /\ faults' \in 0..MaxFaults
    BY <1>1, UnderWay DEF CheckSelf, bounds
  <1>3. request[q] \in Held /\ request[q].at = "self" /\ InFlight(q)
    BY <1>1, <1>2, UnderWay
  <1>4. PICK cm \in Sources : request[q].cfg = Parsed(cm)
    BY <1>1, <1>2, UnderWay
  <1>5. CASE request[q].owner.self /\ Answer(q, <<>>, request[q])
    BY <1>2, <1>3, <1>4, <1>5, EmptyAnswerOK
  <1>6. CASE /\ ~request[q].owner.self
             /\ request' = [request EXCEPT ![q] = next]
             /\ UNCHANGED outcome
    <2>1. /\ next \in Held /\ next.at = "rules" /\ next.by = request[q].by
          /\ next.cfg = request[q].cfg /\ next.pod = request[q].pod
          /\ next.owner = request[q].owner /\ next.ref = request[q].ref
      BY <1>3 DEF Held, Labels
    <2>. HIDE DEF next
    <2>2. request'[q] = next
      BY <1>6 DEF IInv, TypeOK
    <2>3. /\ serving' = serving /\ request[q].by \in serving
          /\ request[q].cfg.settings.managementEnabled
          /\ ~request[q].pod.bypass /\ ~request[q].pod.ownConstraints
          /\ request[q].ref # Nil /\ request[q].owner # Nil
      BY <1>2, <1>3 DEF process, IInv, HandlerOK, InFlight
    <2>4. HandlerOK(q)'
      BY <1>4, <1>6, <2>1, <2>2, <2>3 DEF HandlerOK
    <2>. QED
      BY <1>2, <1>3, <1>6, <2>1, <2>4, QuietStepOK
  <1>. QED
    BY <1>3, <1>5, <1>6 DEF CheckSelf, Goto

\* Rules as they are now, configuration as it was: when both are of one
\* ConfigMap, the patch is the one it asks for.
LEMMA DecideOK ==
  ASSUME IInv, NEW q \in Request, Decide(q)
  PROVE  IInv' /\ Steady
  <1>. DEFINE held  == request[q]
              rules == exclusionRules[held.by]
              patch == IF isExcluded(held.ref, rules) THEN <<>>
                       ELSE PatchFor(held.cfg, held.owner)
  <1>1. "rules" \in Labels \ Finished
    BY DEF Labels, Finished
  <1>2. /\ At(q, "rules")
        /\ UNCHANGED <<cluster, process, changes, crashes>>
        /\ faults' \in 0..MaxFaults
        /\ Answer(q, patch, held)
    BY <1>1, UnderWay DEF Decide, bounds
  <1>3. held \in Held /\ held.at = "rules" /\ InFlight(q)
    BY <1>1, <1>2, UnderWay
  <1>4. PICK cm \in Sources : held.cfg = Parsed(cm)
    BY <1>1, <1>2, UnderWay
  <1>5. /\ held.cfg.settings.managementEnabled
        /\ ~held.pod.bypass /\ ~held.pod.ownConstraints
        /\ held.owner # Nil /\ ~held.owner.self
    BY <1>3 DEF IInv, HandlerOK, InFlight
  <1>6. held.owner \in WorkloadSpec
    BY <1>3, <1>5 DEF Held
  <1>7. patch \in Seq(Constraint) /\ (ValidConstraints(patch) \/ BadInput(held.owner, cm))
    BY <1>4, <1>6, PatchTyped, EmptyPatch
  <1>8. ASSUME NEW c \in Sources, Parsed(c) = held.cfg, rules = NewRules(c, {})
        PROVE  patch = Wanted(c, held.pod, held.ref, held.owner)
    BY <1>5, <1>6, <1>8, PatchWanted
  <1>. HIDE DEF patch
  <1>. QED
    BY <1>2, <1>3, <1>4, <1>7, <1>8, AnswerOK

\* A replica dies, and the requests it holds go unanswered.
LEMMA CrashOK ==
  ASSUME IInv, NEW r \in Replica, Crash(r)
  PROVE  IInv' /\ Steady
  <1>. DEFINE lost == {q \in Request : InFlight(q) /\ request[q].by = r}
              none == [created |-> TRUE, patch |-> <<>>]
  <1>1. /\ config' = [config EXCEPT ![r] = Nil]
        /\ exclusionRules' = [exclusionRules EXCEPT ![r] = {}]
        /\ serving' = serving \ {r} /\ pending' = pending \ {r}
        /\ loader' = [loader EXCEPT ![r] = "idle"]
        /\ fetched' = [fetched EXCEPT ![r] = Nil]
        /\ UNCHANGED <<configMap, workloads, replicaSets, changes, faults>>
        /\ crashes' \in 0..MaxCrashes
    BY ConstantsAssumption DEF Crash, cluster, IInv, TypeOK
  <1>2. /\ request' = [q \in Request |->
                         IF q \in lost THEN Abandoned(request[q]) ELSE request[q]]
        /\ outcome' = [q \in Request |-> IF q \in lost THEN none ELSE outcome[q]]
    BY DEF Crash
  <1>3. \A q \in lost : /\ Abandoned(request[q]) \in Held
                        /\ Abandoned(request[q]).at = "unanswered"
                        /\ Abandoned(request[q]).owner = Nil
                        /\ Abandoned(request[q]) # Nil
    <2>1. \A q \in lost : request[q] \in Held
      BY DEF IInv, TypeOK, InFlight
    <2>. QED
      BY <2>1, NilAssumption DEF Abandoned, Held, Labels
  <1>4. none \in Outcome /\ none.created
    BY EmptyPatch DEF Outcome
  <1>. HIDE DEF none
  <1>5. \A q \in Request :
          \/ q \in lost /\ request'[q] = Abandoned(request[q]) /\ outcome'[q] = none
          \/ q \notin lost /\ request'[q] = request[q] /\ outcome'[q] = outcome[q]
    BY <1>2
  <1>6. TypeOK'
    <2>1. request' \in [Request -> {Nil} \cup Held]
      BY <1>2, <1>3 DEF IInv, TypeOK
    <2>2. outcome' \in [Request -> {Nil} \cup Outcome]
      BY <1>2, <1>4 DEF IInv, TypeOK, Outcome
    <2>. QED
      BY <1>1, <2>1, <2>2 DEF IInv, TypeOK, Outcome
  <1>7. RulesMatchConfig'
    BY <1>1 DEF IInv, TypeOK, RulesMatchConfig, Locked, Loads, Loading
  <1>8. \A o \in Replica : ReplicaOK(o)'
    BY <1>1 DEF IInv, TypeOK, ReplicaOK
  <1>9. \A q \in Request : HandlerOK(q)' /\ OutcomeOK(q)' /\ BlockedOK(q)'
    <2>. SUFFICES ASSUME NEW q \in Request
                  PROVE  HandlerOK(q)' /\ OutcomeOK(q)' /\ BlockedOK(q)'
      OBVIOUS
    <2>1. CASE q \in lost
      BY <1>3, <1>4, <1>5, <2>1
         DEF HandlerOK, OutcomeOK, BlockedOK, InFlight, Finished
    <2>2. CASE q \notin lost
      <3>1. InFlight(q) => request[q].by \in serving'
        BY <1>1, <2>2 DEF IInv, HandlerOK, InFlight
      <3>2. request'[q] = request[q] /\ outcome'[q] = outcome[q]
        BY <1>5, <2>2
      <3>. QED
        BY <3>1, <3>2, Blocked
           DEF IInv, HandlerOK, OutcomeOK, BlockedOK, InFlight
    <2>. QED
      BY <2>1, <2>2
  <1>10. BlockedOnlyByBadInput'
    BY <1>9 DEF BlockedOnlyByBadInput, BlockedOK
  <1>11. \A q \in Request : ~Answers(q)
    BY <1>3, <1>5 DEF Answers, InFlight, Finished
  <1>. QED
    BY <1>6, <1>7, <1>8, <1>9, <1>10, <1>11 DEF IInv, Steady

(***************************************************************************)
(* The theorems.                                                           *)
(***************************************************************************)
\* Every step keeps the invariant and answers steadily.
LEMMA NextOK == IInv /\ [Next]_vars => IInv' /\ (Steady \/ UNCHANGED vars)
  <1>. SUFFICES ASSUME IInv, [Next]_vars
                PROVE  IInv' /\ (Steady \/ UNCHANGED vars)
    OBVIOUS
  <1>1. CASE UNCHANGED vars
    <2>1. /\ UNCHANGED <<configMap, workloads, replicaSets>>
          /\ UNCHANGED <<config, exclusionRules, serving, loader, fetched, pending>>
          /\ UNCHANGED <<request, outcome, changes, faults, crashes>>
      BY <1>1 DEF vars, cluster, process, bounds
    <2>2. TypeOK'
      BY <2>1 DEF IInv, TypeOK
    <2>3. RulesMatchConfig' /\ \A r \in Replica : ReplicaOK(r)'
      BY <2>1 DEF IInv, RulesMatchConfig, Locked, Loads, ReplicaOK
    <2>. QED
      BY <1>1, <2>1, <2>2, <2>3, ReplicaStepOK
  <1>2. ASSUME NEW r \in Replica,
               \/ Boot(r) \/ Serve(r) \/ onConfigMapEvent(r) \/ loadConfig(r)
               \/ Crash(r)
        PROVE  IInv' /\ Steady
    BY <1>2, BootOK, ServeOK, EventOK, SetRulesOK, SetConfigOK, CrashOK
       DEF loadConfig
  <1>3. ASSUME NEW q \in Request,
               \/ \E r \in Replica, pod \in PodSpecs : Admit(q, r, pod)
               \/ Handle(q) \/ TimeOut(q)
        PROVE  IInv' /\ Steady
    BY <1>3, AdmitOK, ReadConfigOK, GetReplicaSetOK, GetOwnerOK, CheckSelfOK,
       DecideOK, TimeOutOK
       DEF Handle
  <1>. QED
    BY <1>1, <1>2, <1>3, UserOK DEF Next

\* The invariant holds in every reachable state.
THEOREM Invariance == Spec => []IInv
  BY InitIInv, NextOK, PTL DEF Spec

\* The variables keep their types: a configuration only has modes the code
\* knows, and constraints are built for it whatever the ConfigMap says.
THEOREM TypeCorrect == Spec => []TypeOK
  <1>1. IInv => TypeOK
    BY DEF IInv
  <1>. QED
    BY Invariance, <1>1, PTL

\* Whenever no load is under way, configuration and exclusion rules come from
\* one and the same ConfigMap.
THEOREM OneConfigMap == Spec => []RulesMatchConfig
  <1>1. IInv => RulesMatchConfig
    BY DEF IInv
  <1>. QED
    BY Invariance, <1>1, PTL

\* A Pod is refused over its patch only because of the owner's annotations or
\* the ConfigMap's constraints.
THEOREM OnlyBadInputBlocks == Spec => []BlockedOnlyByBadInput
  <1>1. IInv => BlockedOnlyByBadInput
    BY DEF IInv
  <1>. QED
    BY Invariance, <1>1, PTL

\* A request that no reload overtook is decided by one ConfigMap.
THEOREM DecidedByOne == Spec => SteadyDecisions
  <1>1. IInv /\ [Next]_vars =>
          [\A q \in Request :
             LET r == request[q].by
             IN  Answers(q) /\ ~Locked(r) /\ config[r] = request'[q].cfg =>
                   \E cm \in Sources : Loads(r, cm) /\ Fits(q, cm)]_vars
    BY NextOK DEF Steady
  <1>. QED
    BY Invariance, <1>1, PTL DEF Spec, SteadyDecisions
=============================================================================
