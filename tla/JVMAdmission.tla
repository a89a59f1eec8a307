---------------------------- MODULE JVMAdmission ----------------------------
(***************************************************************************)
(* Pod admission in the JVM probe controller, and hot reload of its        *)
(* configuration.                                                          *)
(*                                                                         *)
(* A replica reads the ConfigMap once with a Get, then follows it with an  *)
(* informer: a list, which an API server may answer from a cache that is   *)
(* behind, and the changes after it, each handed to handleConfigMapUpdate  *)
(* with the object.  There is no resync and no handler for a deletion.     *)
(* A request takes the configuration under configLock, once, and makes no  *)
(* API call: the whole handler is one step.                                *)
(***************************************************************************)
EXTENDS JVMProbes

CONSTANTS
  Replica,         \* the controller's pods
  Request,         \* CREATE requests for Pods
  Pods,            \* the Pods that are created
  ConfigMaps,      \* contents users give the ConfigMap; Nil = it is absent
  InitConfigMap,
  DefaultRules,    \* DefaultExclusionRules()
  MaxChanges,      \* bound: changes of the ConfigMap
  MaxFaults,       \* bound: Gets that fail
  MaxCrashes       \* bound: replicas that die

\* Nil = the key is absent.
Key == {Nil} \cup STRING

\* frameworks is a text, and the map it stands for when it can be read.
IsConfigMap(cm) ==
  /\ cm.frameworks.text = "ok" =>
       \A f \in DOMAIN cm.frameworks.value :
         cm.frameworks.value[f] \in FrameworkConfig
  /\ {cm.injectLiveness, cm.injectReadiness, cm.injectStartup, cm.align,
      cm.managementEnabled, cm.enableProbeManagement} \subseteq Key
  /\ {cm.minWindow, cm.maxFailure} \subseteq Text
  /\ cm.exclusions \in {Empty, "bad", "rules"}

IsJVMConfig(cfg) ==
  /\ \A f \in DOMAIN cfg.frameworks : cfg.frameworks[f] \in FrameworkConfig
  /\ {cfg.injectLiveness, cfg.injectReadiness, cfg.injectStartup, cfg.align,
      cfg.managementEnabled} \subseteq BOOLEAN
  /\ cfg.minWindow \in Int32 /\ cfg.maxFailure \in Int32

Container ==
  [env : Seq([java : BOOLEAN, framework : {Nil} \cup Frameworks]),
   image : SUBSET ImageClass, ports : Seq(PortRef),
   liveness : {Nil} \cup Probe, readiness : {Nil} \cup Probe,
   startup : {Nil} \cup Probe]

\* A container of a Pod the API server would store as it is, with its
\* defaults.
ValidContainer(c) ==
  /\ c \in Container
  /\ Defaulted(c) = c
  /\ \A kind \in Kinds : ValidProbe(kind, c[kind])
  /\ \A j \in DOMAIN c.ports : c.ports[j].number \in 1..MaxPort

IsPod(pod) ==
  /\ pod = [annotations |-> pod.annotations, containers |-> pod.containers]
  /\ IsAnnotations(pod.annotations)
  /\ pod.containers \in Seq(Container)
  /\ \A i \in DOMAIN pod.containers : ValidContainer(pod.containers[i])

ASSUME ConstantsAssumption ==
  /\ \A pod \in Pods : IsPod(pod)
  /\ \A cm \in ConfigMaps \cup {InitConfigMap} : cm = Nil \/ IsConfigMap(cm)
  /\ MaxChanges \in Nat /\ MaxFaults \in Nat /\ MaxCrashes \in Nat

VARIABLES
  history,         \* the contents the ConfigMap has had, the present one last
  config,          \* replica -> JVMConfig; Nil while it is down
  exclusionRules,  \* replica -> the global, which no request reads
  serving,         \* replicas whose informer and webhook server run
  seen,            \* replica -> how much of history its informer handled
  answer,          \* request -> what the last invocation did, if any
  changes, faults, crashes

bounds == <<changes, faults, crashes>>
vars   == <<history, config, exclusionRules, serving, seen, answer, bounds>>

configMap == history[Len(history)]

(***************************************************************************)
(* ParseJVMConfig.                                                         *)
(***************************************************************************)
HTTP(liveness, readiness, startup, delay) ==
  [livenessPath |-> liveness, readinessPath |-> readiness,
   startupPath |-> startup, delay |-> delay, period |-> 10, failure |-> 3,
   success |-> 1, useTCP |-> FALSE]

DefaultFrameworkConfigs ==
  [framework \in Frameworks \cup {"generic"} |->
     CASE framework = "spring-boot" ->
            HTTP("/actuator/health/liveness", "/actuator/health/readiness",
                 "/actuator/health", 60)
       [] framework = "quarkus" ->
            HTTP("/q/health/live", "/q/health/ready", "/q/health/started", 30)
       [] framework = "micronaut" ->
            HTTP("/health/liveness", "/health/readiness", "/health", 30)
       [] OTHER -> [HTTP(Empty, Empty, Empty, 30) EXCEPT !.useTCP = TRUE]]

\* What the provers do not know of string literals.
ASSUME Literals ==
  {Empty, "true", "/actuator/health/liveness", "/actuator/health/readiness",
   "/actuator/health", "/q/health/live", "/q/health/ready", "/q/health/started",
   "/health/liveness", "/health/readiness", "/health"} \subseteq STRING

DefaultJVMConfig ==
  [frameworks |-> DefaultFrameworkConfigs, injectLiveness |-> FALSE,
   injectReadiness |-> TRUE, injectStartup |-> TRUE, align |-> FALSE,
   minWindow |-> 60, maxFailure |-> 10, managementEnabled |-> TRUE]

Switch(v, default) == IF v = Nil THEN default ELSE v = "true"
Atoi(v, default)   == IF v.text = "ok" THEN ToInt32(v.value) ELSE default

\* The canonical key wins, even when it is empty; what cannot be read is true.
ManagementEnabled(cm) ==
  IF cm.managementEnabled # Nil
  THEN cm.managementEnabled # "false"
  ELSE cm.enableProbeManagement # "false"

\* "mode" can only become apply, and is not read.
ParseJVMConfig(cm) ==
  IF cm = Nil THEN DefaultJVMConfig
  ELSE [frameworks        |-> IF cm.frameworks.text = "ok"
                              THEN cm.frameworks.value
                              ELSE DefaultFrameworkConfigs,
        injectLiveness    |-> Switch(cm.injectLiveness, FALSE),
        injectReadiness   |-> Switch(cm.injectReadiness, TRUE),
        injectStartup     |-> Switch(cm.injectStartup, TRUE),
        align             |-> Switch(cm.align, FALSE),
        minWindow         |-> Atoi(cm.minWindow, 60),
        maxFailure        |-> Atoi(cm.maxFailure, 10),
        managementEnabled |-> ManagementEnabled(cm)]

ASSUME NilAssumption ==
  /\ Nil \notin Container /\ Nil \notin Probe
  /\ \A cm \in ConfigMaps \cup {InitConfigMap, Nil} : ParseJVMConfig(cm) # Nil

parseExclusionRules(text) == IF text = "bad" THEN DefaultRules ELSE text

\* No key, or an empty one: the rules stay.
Rules(cm, old) ==
  IF cm = Nil \/ cm.exclusions = Empty THEN old ELSE parseExclusionRules(cm.exclusions)

(***************************************************************************)
(* main and the informer.                                                  *)
(***************************************************************************)
\* main: a Get that fails leaves the defaults.
Boot(r) ==
  /\ config[r] = Nil
  /\ \E cm \in {configMap, Nil} :
       /\ IF cm = configMap
          THEN UNCHANGED faults
          ELSE faults < MaxFaults /\ faults' = faults + 1
       /\ config' = [config EXCEPT ![r] = ParseJVMConfig(cm)]
       /\ exclusionRules' = [exclusionRules EXCEPT ![r] = Rules(cm, DefaultRules)]
  /\ UNCHANGED <<history, serving, seen, answer, changes, crashes>>

\* Run: the list is of any version the API server's cache may have; the
\* servers start before the handlers have seen it.
Run(r) ==
  /\ config[r] # Nil
  /\ r \notin serving
  /\ \E listed \in DOMAIN history : seen' = [seen EXCEPT ![r] = listed - 1]
  /\ serving' = serving \cup {r}
  /\ UNCHANGED <<history, config, exclusionRules, answer, bounds>>

\* A mutated form: the handler is given the old object.
EventObjectOld(r) == IF seen[r] = 0 THEN history[1] ELSE history[seen[r]]

EventObject(r) == history[seen[r] + 1]

handleConfigMapUpdate(r) ==
  /\ r \in serving
  /\ seen[r] < Len(history)
  /\ seen' = [seen EXCEPT ![r] = @ + 1]
  /\ LET cm == EventObject(r)
     IN  IF cm = Nil
         THEN UNCHANGED <<config, exclusionRules>>
         ELSE /\ config' = [config EXCEPT ![r] = ParseJVMConfig(cm)]
              /\ exclusionRules' = [exclusionRules EXCEPT ![r] = Rules(cm, @)]
  /\ UNCHANGED <<history, serving, answer, bounds>>

Crash(r) ==
  /\ config[r] # Nil
  /\ crashes < MaxCrashes
  /\ crashes' = crashes + 1
  /\ config'  = [config EXCEPT ![r] = Nil]
  /\ exclusionRules' = [exclusionRules EXCEPT ![r] = DefaultRules]
  /\ serving' = serving \ {r}
  /\ seen'    = [seen EXCEPT ![r] = 0]
  /\ UNCHANGED <<history, answer, changes, faults>>

ChangeConfigMap(cm) ==
  /\ changes < MaxChanges
  /\ changes' = changes + 1
  /\ cm # configMap
  /\ history' = Append(history, cm)
  /\ UNCHANGED <<config, exclusionRules, serving, seen, answer, faults, crashes>>

(***************************************************************************)
(* handlePodAdmission, and the API server around it.                       *)
(***************************************************************************)
NoAnswer == [pod |-> Nil, cfg |-> Nil, calls |-> 0, created |-> FALSE, stored |-> Nil]

Answered(pod, cfg, calls, patch) ==
  [pod |-> pod, cfg |-> cfg, calls |-> calls, created |-> ~Refused(pod, patch),
   stored |-> IF Refused(pod, patch) THEN Nil ELSE Stored(pod, patch)]

mutatePod(pod, cfg, calls) ==
  Answered(pod, cfg, calls, buildPodProbePatches(pod, cfg))

Admit(q, r, pod) ==
  /\ answer[q].calls = 0
  /\ r \in serving
  /\ answer' = [answer EXCEPT ![q] = mutatePod(pod, config[r], 1)]
  /\ UNCHANGED <<history, config, exclusionRules, serving, seen, bounds>>

\* reinvocationPolicy IfNeeded: another webhook changed the Pod after us.
Reinvoke(q, r) ==
  /\ answer[q].calls = 1
  /\ answer[q].created
  /\ r \in serving
  /\ answer' = [answer EXCEPT ![q] = mutatePod(@.stored, config[r], 2)]
  /\ UNCHANGED <<history, config, exclusionRules, serving, seen, bounds>>

(***************************************************************************)
(* The specification.                                                      *)
(***************************************************************************)
Init ==
  /\ history = <<InitConfigMap>>
  /\ config  = [r \in Replica |-> Nil]
  /\ exclusionRules = [r \in Replica |-> DefaultRules]
  /\ serving = {}
  /\ seen    = [r \in Replica |-> 0]
  /\ answer  = [q \in Request |-> NoAnswer]
  /\ changes = 0 /\ faults = 0 /\ crashes = 0

Next ==
  \/ \E r \in Replica :
       Boot(r) \/ Run(r) \/ handleConfigMapUpdate(r) \/ Crash(r)
  \/ \E q \in Request, r \in Replica :
       Reinvoke(q, r) \/ \E pod \in Pods : Admit(q, r, pod)
  \/ \E cm \in ConfigMaps : ChangeConfigMap(cm)

Spec == Init /\ [][Next]_vars

\* Pods are restarted and the informer delivers what it has received.
Fairness ==
  \A r \in Replica : WF_vars(Boot(r) \/ Run(r) \/ handleConfigMapUpdate(r))

FairSpec == Spec /\ Fairness

(***************************************************************************)
(* Properties.                                                             *)
(***************************************************************************)
\* What each variable holds: in particular every number of a stored probe is
\* an int32, whatever was written in an annotation.
TypeOK ==
  /\ history \in Seq(ConfigMaps \cup {InitConfigMap})
  /\ history # <<>> /\ Len(history) = changes + 1
  /\ DOMAIN config = Replica
  /\ \A r \in Replica : config[r] = Nil \/ IsJVMConfig(config[r])
  /\ exclusionRules \in [Replica -> {DefaultRules, "rules"}]
  /\ serving \subseteq {r \in Replica : config[r] # Nil}
  /\ seen \in [Replica -> 0..Len(history)]
  /\ DOMAIN answer = Request
  /\ \A q \in Request :
       /\ answer[q].calls \in 0..2 /\ answer[q].created \in BOOLEAN
       /\ answer[q].created => IsPod(answer[q].stored)
  /\ changes \in 0..MaxChanges
  /\ faults \in 0..MaxFaults
  /\ crashes \in 0..MaxCrashes

NoOverwrite(a) == \A kind \in Kinds : ~ShouldOverwrite(a, kind)
First(p, q) == IF p # Nil THEN p ELSE q

\* The probe of a kind the container comes with, else the one that is built.
Kept(kind, c, a, cfg) ==
  First(c[kind], BuildProbe(kind, FrameworkOf(c, a), c, a, cfg))

\* Steps 1 to 3: what the startup probe is made of, or Nil.
CopiedProbe(c, a, cfg) ==
  LET fallback == IF shouldInjectStartup(a, cfg)
                  THEN BuildProbe("startup", FrameworkOf(c, a), c, a, cfg) ELSE Nil
  IN  First(Kept("liveness", c, a, cfg), First(Kept("readiness", c, a, cfg), fallback))

\* Step 5: the well-known name of a port instead of a number.
ByName(p, c) ==
  LET named == Matched(WellKnownPorts, c)
  IN  IF p.handler.kind = "exec" \/ p.handler.port.name # Empty \/ named = 0 THEN p
      ELSE [p EXCEPT !.handler.port = [name |-> c.ports[named].name, number |-> 0]]

\* Step 6: the least threshold that covers the window, up to the cap.  It
\* extends: the threshold never becomes smaller.
Stretched(p, cfg) ==
  LET enough == {f \in p.failure..cfg.maxFailure : p.period * f >= cfg.minWindow}
  IN  IF p.period <= 0 \/ p.period * p.failure >= cfg.minWindow THEN p.failure
      ELSE IF enough # {} THEN CHOOSE f \in enough : \A g \in enough : f <= g
      ELSE IF p.failure > cfg.maxFailure THEN p.failure ELSE cfg.maxFailure

\* "How the mutation works", of a container whose probes are not overwritten.
Reference(c, a, cfg) ==
  LET source  == CopiedProbe(c, a, cfg)
      gains   == c.startup = Nil /\ source # Nil
      aligned == gains /\ ShouldAlignProbes(a, cfg.align)
      own     == \/ c.liveness # Nil
                 \/ c.readiness # Nil /\ Kept("liveness", c, a, cfg) = Nil
      Final(kind) ==
        LET p == Kept(kind, c, a, cfg)
        IN  IF p = Nil THEN Nil
            ELSE [p EXCEPT
                    !.delay   = IF \/ aligned
                                   \/ Flag(a, "clear-delays") /\ c[kind] # Nil
                                THEN 0 ELSE @,
                    !.failure = IF aligned THEN Stretched(p, cfg) ELSE @]
  IN  IF \/ FrameworkOf(c, a) = Nil \/ Skips(FrameworkOf(c, a), c)
         \/ ~cfg.managementEnabled \/ IsBypassAnnotation(a)
      THEN c
      ELSE [c EXCEPT
              !.liveness  = Final("liveness"),
              !.readiness = Final("readiness"),
              !.startup   =
                IF gains
                THEN [(IF own THEN ByName(source, c) ELSE source) EXCEPT
                        !.delay = 0, !.success = 1,
                        !.period  = getAnnotationInt(a, "startup-period", 15),
                        !.failure = getAnnotationInt(a, "startup-failure-threshold", 40)]
                ELSE @]

\* The code's cap: where the window cannot be covered, a threshold above
\* maxFailure is lowered to it.
CutToCap(got, want, cfg) ==
  /\ want # Nil
  /\ TooShort(want, cfg) /\ want.failure > cfg.maxFailure
  /\ got = WithDefaults([want EXCEPT !.failure = cfg.maxFailure])

\* "The original handler and path/port are preserved": the README says so after
\* its steps, and the code does that and not step 5.
HandlerPreserved(got, want, c, a, cfg) ==
  /\ c.startup = Nil /\ want # Nil
  /\ got = [want EXCEPT !.handler = CopiedProbe(c, a, cfg).handler]

\* What the container has is what the steps give, but for these two.
AsDescribed(got, c, a, cfg) ==
  LET want == Defaulted(Reference(c, a, cfg))
  IN  \/ got = want
      \/ /\ got = [want EXCEPT !.liveness  = got.liveness,
                               !.readiness = got.readiness,
                               !.startup   = got.startup]
         /\ \A kind \in {"liveness", "readiness"} :
              got[kind] = want[kind] \/ CutToCap(got[kind], want[kind], cfg)
         /\ \/ got.startup = want.startup
            \/ HandlerPreserved(got.startup, want.startup, c, a, cfg)

\* The patch operations, applied in their order, give the Pod that the
\* README's steps describe: the startup probe is a copy of the liveness, else
\* of the readiness probe, and alignment gives both the configured window.
\* The code leaves the steps in two places, CutToCap and HandlerPreserved.
MatchesReference ==
  \A q \in Request :
    answer[q].created =>
      LET pod == answer[q].pod
      IN  NoOverwrite(pod.annotations) =>
            \A i \in DOMAIN pod.containers :
              AsDescribed(answer[q].stored.containers[i], pod.containers[i],
                          pod.annotations, answer[q].cfg)

Positive == 1 .. 2^(IntBits - 1) - 1

InRange(key) ==
  IF key = "success-threshold" THEN {1}
  ELSE IF key = "port" THEN 1..MaxPort ELSE Positive

BadAnnotation(a) ==
  \E key \in DOMAIN a \cap Numbers : a[key].text = "ok" /\ a[key].value \notin InRange(key)

BadConfig(cfg) ==
  \/ "generic" \notin DOMAIN cfg.frameworks
  \/ \E f \in DOMAIN cfg.frameworks :
       \/ {cfg.frameworks[f].period, cfg.frameworks[f].failure} \ Positive # {}
       \/ cfg.frameworks[f].success # 1
       \/ cfg.frameworks[f].delay < 0
  \/ cfg.maxFailure <= 0

\* "we never block Pod creation": the patch always applies and leaves a valid
\* Pod, unless a number in an annotation or in the ConfigMap is itself out of
\* range.
BlockedOnlyByBadNumbers ==
  \A q \in Request :
    answer[q].calls > 0 /\ ~answer[q].created =>
      BadAnnotation(answer[q].pod.annotations) \/ BadConfig(answer[q].cfg)

\* "the controller never fabricates probes against an unknown listener": a
\* probe with a handler of the controller's own targets a port the container
\* declares.  It may be 8080 by convention only for a framework that is not
\* generic, or where an annotation names the port.
TargetsDeclaredPorts ==
  \A q \in Request :
    answer[q].created =>
      LET pod == answer[q].pod
      IN  \A i \in DOMAIN pod.containers :
            LET c   == pod.containers[i]
                own == {c[kind].handler : kind \in {k \in Kinds : c[k] # Nil}}
            IN  \A kind \in Kinds :
                  LET p == answer[q].stored.containers[i][kind]
                  IN  \/ p = Nil
                      \/ p.handler \in own
                      \/ Has(pod.annotations, "port")
                      \/ \E j \in DOMAIN c.ports :
                           IF p.handler.port.name # Empty
                           THEN c.ports[j].name = p.handler.port.name
                           ELSE c.ports[j].number = p.handler.port.number
                      \/ c.ports = <<>> /\ FrameworkOf(c, pod.annotations) # "generic"

\* "on a second invocation the container logic produces no patches": without
\* overwrite annotations a second call, under whatever configuration, keeps
\* the handler and period of every probe and the whole startup probe; under
\* the same configuration it changes nothing, unless clear-delays is set.
InvokedTwice ==
  [][\A q \in Request :
       LET a   == answer[q].stored.annotations
           old == answer[q].stored.containers
           new == answer'[q].stored.containers
       IN  /\ answer[q].calls > 0
           /\ answer'[q] # answer[q]
           /\ NoOverwrite(a)
           => /\ answer'[q].created =>
                   \A i \in DOMAIN old, kind \in Kinds :
                     old[i][kind] # Nil =>
                       /\ new[i][kind].handler = old[i][kind].handler
                       /\ new[i][kind].period = old[i][kind].period
                       /\ kind = "startup" => new[i][kind] = old[i][kind]
              /\ answer'[q].cfg = answer[q].cfg /\ ~Flag(a, "clear-delays") =>
                   answer'[q].created /\ answer'[q].stored = answer[q].stored]_vars

\* A ConfigMap that stays is what a replica that stays up decides by, from
\* some time on: the list may be older than main's Get and put an older
\* configuration back, but the changes after it follow.
ConfigSettles ==
  \A r \in Replica :
    \A cm \in ConfigMaps \ {Nil} :
      <>[](configMap = cm /\ r \in serving) => <>[](config[r] = ParseJVMConfig(cm))

(***************************************************************************)
(* Why the safety properties hold.                                         *)
(***************************************************************************)
\* An answer is what the code makes of a valid Pod under a configuration that
\* parsing can give.
AnswerOK(q) ==
  LET held == answer[q]
  IN  IF held.calls = 0 THEN held = NoAnswer
      ELSE /\ IsPod(held.pod) /\ IsJVMConfig(held.cfg)
           /\ held = mutatePod(held.pod, held.cfg, held.calls)

IInv == TypeOK /\ \A q \in Request : AnswerOK(q)
=============================================================================
