----------------------------- MODULE JVMProbes ------------------------------
(***************************************************************************)
(* What the JVM probe controller does to one Pod: detection, probe         *)
(* building and the JSON patch, as operators.                              *)
(*                                                                         *)
(* Abstractions.  An image is the set of the pattern lists it matches; an  *)
(* environment variable is whether its name is one of the Java names and   *)
(* which framework it points to.  Annotations are a function from the keys *)
(* that are present (without their prefix).  A number in an annotation or  *)
(* a ConfigMap is a Text: empty, unreadable, or a number.  timeoutSeconds, *)
(* which is copied and never decided on, is left out.  In JSON a field     *)
(* that is 0 is absent (omitempty).                                        *)
(***************************************************************************)
EXTENDS Integers, Sequences, SequencesExt

CONSTANTS
  Nil,
  IntBits          \* width of int32

ASSUME IntBitsAssumption == IntBits \in Nat \ {0}

\* The greatest port number.
MaxPort == 65535

\* What the provers do not know of two powers: every port, and every number the
\* code itself writes into a probe or a configuration, is an int32.
ASSUME PowersOfTwo ==
  /\ 2^IntBits \in Nat /\ 2^(IntBits - 1) \in Nat
  /\ 2^IntBits = 2 * 2^(IntBits - 1)
  /\ 2^(IntBits - 1) > MaxPort

Empty == ""

Frameworks == {"spring-boot", "quarkus", "micronaut"}
ImageClass == Frameworks \cup {"runtime", "nonJVM"}
Kinds      == {"liveness", "readiness", "startup"}

Int32  == -(2^(IntBits - 1)) .. 2^(IntBits - 1) - 1
Text   == [text : {"empty", "bad", "ok"}, value : Int]

\* name = Empty: the port is given by its number.
PortRef == [name : STRING, number : Int]
Handler == [kind : {"httpGet", "tcpSocket", "exec"}, path : STRING, port : PortRef]
Probe   == [handler : Handler, delay : Int32, period : Int32, failure : Int32,
            success : Int32]

FrameworkConfig ==
  [livenessPath : STRING, readinessPath : STRING, startupPath : STRING,
   delay : Int32, period : Int32, failure : Int32, success : Int32,
   useTCP : BOOLEAN]

\* A mutated form: the number is taken as it is.
ToInt32Exact(n) == n

\* Conversion of an int to int32.
ToInt32(n) ==
  LET m == n % 2^IntBits
  IN  IF m < 2^(IntBits - 1) THEN m ELSE m - 2^IntBits

(***************************************************************************)
(* Annotations.                                                            *)
(***************************************************************************)
Numbers ==
  {"port", "initial-delay", "period", "failure-threshold", "success-threshold",
   "startup-period", "startup-failure-threshold"}

IsAnnotations(a) ==
  /\ a = [key \in DOMAIN a |-> a[key]]
  /\ \A key \in DOMAIN a : a[key] \in IF key \in Numbers THEN Text ELSE STRING

InjectKey ==
  [liveness |-> "inject-liveness", readiness |-> "inject-readiness",
   startup |-> "inject-startup"]
OverwriteKey ==
  [liveness |-> "overwrite-liveness", readiness |-> "overwrite-readiness",
   startup |-> "overwrite-startup"]

Truthy(v)   == v \in {"true", "yes", "1"}
Has(a, key) == key \in DOMAIN a
Flag(a, key) == Has(a, key) /\ Truthy(a[key])

IsBypassAnnotation(a) == Has(a, "bypass") /\ a["bypass"] \in {"true", "TRUE"}

ShouldOverwrite(a, kind) ==
  Flag(a, "overwrite-all") \/ Flag(a, OverwriteKey[kind])

\* An empty value is an answer for these two ...
ShouldAlignProbes(a, default) ==
  IF Has(a, "align") THEN Truthy(a["align"]) ELSE default
shouldInjectStartup(a, cfg) ==
  IF Has(a, "inject-startup") THEN Truthy(a["inject-startup"])
                              ELSE cfg.injectStartup

\* ... and none for these.
getAnnotation(a, key, fallback) ==
  IF Has(a, key) /\ a[key] # Empty THEN a[key] ELSE fallback
getAnnotationBool(a, key, fallback) ==
  IF Has(a, key) /\ a[key] # Empty THEN Truthy(a[key]) ELSE fallback
getAnnotationInt(a, key, fallback) ==
  IF Has(a, key) /\ a[key].text = "ok" THEN ToInt32(a[key].value) ELSE fallback

(***************************************************************************)
(* Detection.                                                              *)
(***************************************************************************)
Matched(names, c) == SelectInSeq(c.ports, LAMBDA p : p.name \in names)
Numbered(nums, c) == SelectInSeq(c.ports, LAMBDA p : p.number \in nums)

WellKnownPorts == {"http", "web", "http-web", "https"}

detectContainerPort(c) ==
  LET named  == Matched(WellKnownPorts, c)
      common == Numbered({8080, 8443, 9090, 8888}, c)
  IN  IF named # 0 THEN c.ports[named]
      ELSE IF common # 0 THEN [name |-> Empty, number |-> c.ports[common].number]
      ELSE IF c.ports # <<>> THEN c.ports[1]
      ELSE [name |-> Empty, number |-> 8080]

envVarsIndicateJVM(c) == \E i \in DOMAIN c.env : c.env[i].java

EnvFramework(c) ==
  LET last == SelectLastInSubSeq(c.env, 1, Len(c.env),
                                 LAMBDA e : e.framework # Nil)
  IN  IF last = 0 THEN Nil ELSE c.env[last].framework

ImageFramework(c) ==
  IF "spring-boot" \in c.image THEN "spring-boot"
  ELSE IF "quarkus" \in c.image THEN "quarkus"
  ELSE IF "micronaut" \in c.image THEN "micronaut"
  ELSE "generic"

\* A framework keyword is not cleared by the false-positive list, a runtime
\* keyword is.
IsJVM(c) ==
  \/ envVarsIndicateJVM(c)
  \/ "runtime" \in c.image /\ "nonJVM" \notin c.image
  \/ c.image \cap Frameworks # {}

DetectedFramework(c) ==
  IF EnvFramework(c) # Nil THEN EnvFramework(c) ELSE ImageFramework(c)

GetFrameworkOverride(a) == getAnnotation(a, "framework", Empty)

\* The framework a container is treated as; Nil = it is left alone.
FrameworkOf(c, a) ==
  LET override == GetFrameworkOverride(a)
  IN  IF ~IsJVM(c) /\ (override = Empty \/ c.ports = <<>>) THEN Nil
      ELSE IF override # Empty THEN override
      ELSE DetectedFramework(c)

(***************************************************************************)
(* BuildProbesForFramework.                                                *)
(***************************************************************************)
NoFramework ==
  [livenessPath |-> Empty, readinessPath |-> Empty, startupPath |-> Empty, delay |-> 0,
   period |-> 0, failure |-> 0, success |-> 0, useTCP |-> FALSE]

ConfigFor(framework, cfg) ==
  IF framework \in DOMAIN cfg.frameworks THEN cfg.frameworks[framework]
  ELSE IF "generic" \in DOMAIN cfg.frameworks THEN cfg.frameworks["generic"]
  ELSE NoFramework

\* A port annotation forces the number, even when it cannot be read.
Targeted(port, a) ==
  IF Has(a, "port")
  THEN [name |-> Empty, number |-> getAnnotationInt(a, "port", port.number)]
  ELSE IF port.name # Empty THEN [name |-> port.name, number |-> 0]
  ELSE port
TargetPort(c, a) == Targeted(detectContainerPort(c), a)

PathOf(kind, fc, a) ==
  CASE kind = "liveness"  -> getAnnotation(a, "liveness-path", fc.livenessPath)
    [] kind = "readiness" -> getAnnotation(a, "readiness-path", fc.readinessPath)
    [] kind = "startup"   -> getAnnotation(a, "startup-path", fc.startupPath)

Injects(kind, a, cfg) ==
  getAnnotationBool(a, InjectKey[kind],
    CASE kind = "liveness"  -> cfg.injectLiveness
      [] kind = "readiness" -> cfg.injectReadiness
      [] kind = "startup"   -> cfg.injectStartup)

\* The probe of one kind, or Nil.  (A startup probe gets other delays and
\* thresholds here, which tuneStartupProbe replaces.)
BuildProbe(kind, framework, c, a, cfg) ==
  LET fc   == ConfigFor(framework, cfg)
      tcp  == fc.useTCP \/ framework = "generic"
      path == PathOf(kind, fc, a)
      handler ==
        [kind |-> IF tcp THEN "tcpSocket" ELSE "httpGet",
         path |-> IF tcp THEN Empty ELSE path,
         port |-> TargetPort(c, a)]
  IN  IF Injects(kind, a, cfg) /\ (tcp \/ path # Empty)
      THEN [handler |-> handler,
            delay   |-> getAnnotationInt(a, "initial-delay", fc.delay),
            period  |-> getAnnotationInt(a, "period", fc.period),
            failure |-> getAnnotationInt(a, "failure-threshold", fc.failure),
            success |-> IF tcp THEN 1
                        ELSE getAnnotationInt(a, "success-threshold", fc.success)]
      ELSE Nil

(***************************************************************************)
(* buildContainerPatches.  An operation is at a probe or at a field of it. *)
(***************************************************************************)
Op(op, kind, field, probe, number) ==
  [op |-> op, kind |-> kind, field |-> field, probe |-> probe, number |-> number]

buildProbePatch(kind, exists, probe) ==
  <<Op(IF exists THEN "replace" ELSE "add", kind, Empty, probe, 0)>>

removeField(kind, field) == <<Op("remove", kind, field, Nil, 0)>>

tuneStartupProbe(p, period, failure) ==
  [p EXCEPT !.delay = 0, !.period = period, !.failure = failure, !.success = 1]

CeilDiv(m, n) == -((-m) \div n)

\* A mutated form: the window is rounded down.
AlignedFailureFloor(p, cfg) ==
  LET needed == cfg.minWindow \div p.period
  IN  IF needed <= p.failure THEN p.failure
      ELSE IF needed > cfg.maxFailure THEN cfg.maxFailure ELSE needed

\* The threshold alignment asks for; the cap also lowers one above it.
AlignedFailure(p, cfg) ==
  LET needed == CeilDiv(cfg.minWindow, p.period)
      raised == IF needed > p.failure THEN needed ELSE p.failure
  IN  IF raised > cfg.maxFailure THEN cfg.maxFailure ELSE raised

TooShort(p, cfg) == p.period > 0 /\ ToInt32(p.period * p.failure) < cfg.minWindow

alignProbe(kind, p, cfg) ==
  (IF p.delay > 0 THEN removeField(kind, "delay") ELSE <<>>)
  \o (IF TooShort(p, cfg) /\ AlignedFailure(p, cfg) # p.failure
      THEN <<Op("replace", kind, "failure", Nil, AlignedFailure(p, cfg))>>
      ELSE <<>>)

\* An overwrite annotation switches injection on for the probes built first.
Effective(a, overwrite) ==
  LET forced == {InjectKey[kind] : kind \in overwrite}
  IN  [key \in DOMAIN a \cup forced |-> IF key \in forced THEN "true" ELSE a[key]]

\* A mutated form: the copy for alignment still has the delay that
\* clear-delays removes.
ForAlignmentAsIs(p, own, clear) == p

\* The copy alignment works on.
ForAlignment(p, own, clear) ==
  IF clear /\ own # Nil THEN [p EXCEPT !.delay = 0] ELSE p

\* A mutated form: a startup probe is replaced unasked.
MissingUnasked(kind, own, overwrite) ==
  own = Nil \/ kind \in overwrite \/ kind = "startup"

\* An overwritten probe counts as missing (have* in the code is the negation).
Missing(kind, own, overwrite) == own = Nil \/ kind \in overwrite

\* The probe the container will have.
Working(kind, own, built, overwrite) ==
  IF Missing(kind, own, overwrite) /\ built # Nil THEN built ELSE own

\* A mutated form: readiness first.
StartupSourceReadiness(liveness, readiness, built) ==
  IF readiness # Nil THEN readiness
  ELSE IF liveness # Nil THEN liveness ELSE built

StartupSource(liveness, readiness, built) ==
  IF liveness # Nil THEN liveness
  ELSE IF readiness # Nil THEN readiness ELSE built

\* Add, replace or trim the liveness or readiness probe.
ProbePatch(kind, own, built, overwrite, clear) ==
  IF Missing(kind, own, overwrite)
  THEN IF built # Nil THEN buildProbePatch(kind, own # Nil, built) ELSE <<>>
  ELSE IF clear /\ own.delay # 0 THEN removeField(kind, "delay") ELSE <<>>

\* A mutated form: generic containers without ports are not skipped.
SkipsNone(framework, c) == FALSE

\* "port 8080 is only a convention".
Skips(framework, c) == framework = "generic" /\ c.ports = <<>>

buildContainerPatches(c, framework, a, cfg) ==
  LET overwrite == {kind \in Kinds : ShouldOverwrite(a, kind)}
      clear     == Flag(a, "clear-delays")
      effective == Effective(a, overwrite)
      liveness  == BuildProbe("liveness", framework, c, effective, cfg)
      readiness == BuildProbe("readiness", framework, c, effective, cfg)
      workingLiveness  == Working("liveness", c.liveness, liveness, overwrite)
      workingReadiness == Working("readiness", c.readiness, readiness, overwrite)
      built      == IF shouldInjectStartup(a, cfg)
                    THEN BuildProbe("startup", framework, c, a, cfg) ELSE Nil
      startupSrc == StartupSource(workingLiveness, workingReadiness, built)
      injected   == Missing("startup", c.startup, overwrite) /\ startupSrc # Nil
      startup  == tuneStartupProbe(startupSrc,
                                   getAnnotationInt(a, "startup-period", 15),
                                   getAnnotationInt(a, "startup-failure-threshold", 40))
      Align(kind, working, own) ==
        IF working = Nil THEN <<>>
        ELSE alignProbe(kind, ForAlignment(working, own, clear), cfg)
  IN  IF Skips(framework, c) THEN <<>>
      ELSE ProbePatch("liveness", c.liveness, liveness, overwrite, clear)
        \o ProbePatch("readiness", c.readiness, readiness, overwrite, clear)
        \o (IF injected THEN buildProbePatch("startup", c.startup # Nil, startup)
                        ELSE <<>>)
        \o (IF injected /\ ShouldAlignProbes(a, cfg.align)
            THEN Align("liveness", workingLiveness, c.liveness)
                   \o Align("readiness", workingReadiness, c.readiness)
            ELSE <<>>)

(***************************************************************************)
(* buildPodProbePatches: the operations per container, and where the       *)
(* managed annotation is added ("map" when there are no annotations yet).  *)
(***************************************************************************)
ContainerPatches(pod, i, cfg) ==
  LET c == pod.containers[i]
      framework == FrameworkOf(c, pod.annotations)
  IN  IF framework = Nil THEN <<>>
      ELSE buildContainerPatches(c, framework, pod.annotations, cfg)

NoPatch(pod) ==
  [containers |-> [i \in DOMAIN pod.containers |-> <<>>], managed |-> "none"]

buildPodProbePatches(pod, cfg) ==
  IF ~cfg.managementEnabled \/ IsBypassAnnotation(pod.annotations)
  THEN NoPatch(pod)
  ELSE LET ops == [i \in DOMAIN pod.containers |-> ContainerPatches(pod, i, cfg)]
       IN  [containers |-> ops,
            managed |-> IF \/ \A i \in DOMAIN ops : ops[i] = <<>>
                           \/ getAnnotation(pod.annotations, "managed", Empty) = "true"
                        THEN "none"
                        ELSE IF DOMAIN pod.annotations = {} THEN "map" ELSE "key"]

(***************************************************************************)
(* The API server: RFC 6902, then defaults, then validation.               *)
(***************************************************************************)
\* The container after one operation; Nil = the patch does not apply.
ApplyOp(c, op) ==
  IF c = Nil THEN Nil
  ELSE IF op.field = Empty THEN
    IF op.op = "replace" /\ c[op.kind] = Nil THEN Nil
    ELSE [c EXCEPT ![op.kind] = op.probe]
  ELSE IF c[op.kind] = Nil \/ c[op.kind][op.field] = 0 THEN Nil
  ELSE [c EXCEPT ![op.kind][op.field] = op.number]

ApplyOps(c, ops) ==
  LET after[n \in 0..Len(ops)] ==
        IF n = 0 THEN c ELSE ApplyOp(after[n - 1], ops[n])
  IN  after[Len(ops)]

Or(v, default) == IF v = 0 THEN default ELSE v
WithDefaults(p) ==
  IF p = Nil THEN Nil
  ELSE [p EXCEPT !.period = Or(@, 10), !.failure = Or(@, 3), !.success = Or(@, 1)]

Defaulted(c) ==
  [c EXCEPT !.liveness = WithDefaults(@), !.readiness = WithDefaults(@),
            !.startup = WithDefaults(@)]

ValidProbe(kind, p) ==
  p # Nil =>
    /\ p.delay >= 0 /\ p.period > 0 /\ p.failure > 0 /\ p.success > 0
    /\ kind # "readiness" => p.success = 1
    /\ p.handler.kind # "exec" /\ p.handler.port.name = Empty =>
         p.handler.port.number \in 1..MaxPort

Manage(a, where) ==
  IF where = "none" THEN a
  ELSE [key \in DOMAIN a \cup {"managed"} |->
          IF key = "managed" THEN "true" ELSE a[key]]

Patched(pod, patch) ==
  [i \in DOMAIN pod.containers |->
     ApplyOps(pod.containers[i], patch.containers[i])]

Refused(pod, patch) ==
  LET cs == Patched(pod, patch)
  IN  \/ \E i \in DOMAIN cs : cs[i] = Nil
      \/ patch.managed = "key" /\ DOMAIN pod.annotations = {}
      \/ \E i \in DOMAIN cs, kind \in Kinds :
           ~ValidProbe(kind, Defaulted(cs[i])[kind])

\* The Pod that is stored unless the request is refused.
Stored(pod, patch) ==
  LET cs == Patched(pod, patch)
  IN  [annotations |-> Manage(pod.annotations, patch.managed),
       containers  |-> [i \in DOMAIN cs |-> Defaulted(cs[i])]]
=============================================================================
