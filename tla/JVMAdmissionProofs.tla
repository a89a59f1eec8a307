------------------------- MODULE JVMAdmissionProofs -------------------------
(***************************************************************************)
(* Proofs about JVMAdmission, for all replicas, requests, Pods, ConfigMaps *)
(* and bounds, and for every int32 that is wide enough for ports and for   *)
(* the code's own numbers.                                                 *)
(***************************************************************************)
EXTENDS JVMAdmission, WellFoundedInduction, TLAPS

(***************************************************************************)
(* Least elements.  They stand for induction, whose theorems take an       *)
(* operator.                                                               *)
(***************************************************************************)
LEMMA LeastElement ==
  ASSUME NEW S \in SUBSET Nat, S # {}
  PROVE  \E m \in S : \A k \in S : m <= k
  <1>. DEFINE Less == {ss \in Nat \X Nat : ss[1] < ss[2]}
  <1>1. IsWellFoundedOn(Less, Nat)
    BY NatLessThanWellFounded DEF OpToRel
  <1>. HIDE DEF Less
  <1>2. PICK m \in S : \A k \in S : ~(<<k, m>> \in Less)
    BY <1>1, WFMin, Zenon
  <1>3. \A k \in S : ~(k < m)
    <2>. TAKE k \in S
    <2>1. k \in Nat /\ m \in Nat
      OBVIOUS
    <2>2. <<k, m>> \in Nat \X Nat => (<<k, m>> \in Less <=> k < m)
      BY DEF Less
    <2>. QED
      BY <2>1, <2>2, <1>2
  <1>. QED
    BY <1>3

LEMMA Induction ==
  ASSUME NEW S \in SUBSET Nat, NEW N \in Nat, 0 \in S,
         \A n \in 1..N : n - 1 \in S => n \in S
  PROVE  \A n \in 0..N : n \in S
  <1>. SUFFICES ASSUME NEW bad \in (0..N) \ S
                PROVE  FALSE
    OBVIOUS
  <1>. DEFINE Bad == {n \in 0..N : n \notin S}
  <1>1. Bad \in SUBSET Nat /\ Bad # {}
    OBVIOUS
  <1>2. \A n \in Bad : n \in 0..N /\ n \notin S
    OBVIOUS
  <1>3. \A n \in 0..N : n \notin S => n \in Bad
    OBVIOUS
  <1>. HIDE DEF Bad
  <1>4. PICK m \in Bad : \A k \in Bad : m <= k
    BY <1>1, LeastElement
  <1>5. m \in 1..N
    BY <1>2
  <1>6. m - 1 \in 0..N /\ m - 1 \notin S
    BY <1>2, <1>5
  <1>. QED
    BY <1>3, <1>4, <1>5, <1>6

(***************************************************************************)
(* The operations of a patch, one after the other.                         *)
(***************************************************************************)
\* f is the containers between the operations.
Traces(f, c, ops, N) ==
  f = [n \in 0..N |-> IF n = 0 THEN c ELSE ApplyOp(f[n - 1], ops[n])]

LEMMA TraceExists ==
  ASSUME NEW c, NEW ops, NEW N \in Nat
  PROVE  \E f : Traces(f, c, ops, N)
  <1>. DEFINE S == {n \in Nat : \E f : Traces(f, c, ops, n)}
  <1>1. 0 \in S
    <2>. DEFINE g == [n \in 0..0 |-> c]
    <2>1. g = [n \in 0..0 |-> IF n = 0 THEN c ELSE ApplyOp(g[n - 1], ops[n])]
      OBVIOUS
    <2>. QED
      BY <2>1 DEF Traces
  <1>2. ASSUME NEW n \in 1..N, n - 1 \in S
        PROVE  n \in S
    <2>1. PICK f : Traces(f, c, ops, n - 1)
      BY <1>2
    <2>. DEFINE g == [m \in 0..n |-> IF m = n THEN ApplyOp(f[n - 1], ops[n]) ELSE f[m]]
    <2>2. \A m \in 0..n-1 : f[m] = IF m = 0 THEN c ELSE ApplyOp(f[m - 1], ops[m])
      BY <2>1 DEF Traces
    <2>3. \A m \in 0..n : g[m] = IF m = 0 THEN c ELSE ApplyOp(g[m - 1], ops[m])
      BY <2>2
    <2>4. g = [m \in 0..n |-> IF m = 0 THEN c ELSE ApplyOp(g[m - 1], ops[m])]
      BY <2>3
    <2>. HIDE DEF g
    <2>. QED
      BY <2>4 DEF Traces
  <1>. HIDE DEF S
  <1>3. S \in SUBSET Nat
    BY DEF S
  <1>4. N \in S
    BY <1>1, <1>2, <1>3, Induction
  <1>. QED
    BY <1>4 DEF S

LEMMA TracesAgree ==
  ASSUME NEW c, NEW s, NEW t, NEW M \in Nat, NEW N \in Nat, M <= N,
         \A n \in 1..M : s[n] = t[n],
         NEW f, Traces(f, c, s, M), NEW g, Traces(g, c, t, N)
  PROVE  f[M] = g[M]
  <1>. DEFINE S == {n \in Nat : n <= M => f[n] = g[n]}
  <1>1. \A n \in 0..M : f[n] = IF n = 0 THEN c ELSE ApplyOp(f[n - 1], s[n])
    BY DEF Traces
  <1>2. \A n \in 0..M : g[n] = IF n = 0 THEN c ELSE ApplyOp(g[n - 1], t[n])
    BY DEF Traces
  <1>3. 0 \in S
    BY <1>1, <1>2
  <1>4. \A n \in 1..M : n - 1 \in S => n \in S
    BY <1>1, <1>2
  <1>5. S \in SUBSET Nat
    OBVIOUS
  <1>6. \A n \in S : n <= M => f[n] = g[n]
    OBVIOUS
  <1>. HIDE DEF S
  <1>7. M \in S
    BY <1>3, <1>4, <1>5, Induction
  <1>. QED
    BY <1>6, <1>7

LEMMA AppliedTrace ==
  ASSUME NEW c, NEW ops, Len(ops) \in Nat
  PROVE  \E f : Traces(f, c, ops, Len(ops)) /\ ApplyOps(c, ops) = f[Len(ops)]
  <1>. DEFINE after == CHOOSE f : f = [n \in 0..Len(ops) |->
                         IF n = 0 THEN c ELSE ApplyOp(f[n - 1], ops[n])]
  <1>1. ApplyOps(c, ops) = after[Len(ops)]
    BY DEF ApplyOps
  <1>2. Traces(after, c, ops, Len(ops))
    BY TraceExists DEF Traces
  <1>. QED
    BY <1>1, <1>2

LEMMA AppliedNone ==
  ASSUME NEW c
  PROVE  ApplyOps(c, <<>>) = c
  <1>1. PICK f : Traces(f, c, <<>>, 0) /\ ApplyOps(c, <<>>) = f[0]
    BY AppliedTrace
  <1>. QED
    BY <1>1 DEF Traces

LEMMA AppliedConcat ==
  ASSUME NEW c, NEW S, NEW s \in Seq(S), NEW t \in Seq(S)
  PROVE  ApplyOps(c, s \o t) = ApplyOps(ApplyOps(c, s), t)
  <1>. DEFINE M == Len(s)
              N == Len(t)
              d == ApplyOps(c, s)
              u == s \o t
  <1>1. /\ M \in Nat /\ N \in Nat /\ Len(u) = M + N
        /\ \A n \in 1..M : u[n] = s[n]
        /\ \A n \in 1..N : u[M + n] = t[n]
    OBVIOUS
  <1>. HIDE DEF u
  <1>2. PICK f : Traces(f, c, u, M + N) /\ ApplyOps(c, u) = f[M + N]
    <2>1. Len(u) \in Nat
      BY <1>1
    <2>. QED
      BY <1>1, <2>1, AppliedTrace, Zenon
  <1>3. PICK e : Traces(e, c, s, M) /\ d = e[M]
    BY <1>1, AppliedTrace
  <1>4. PICK g : Traces(g, d, t, N) /\ ApplyOps(d, t) = g[N]
    BY <1>1, AppliedTrace
  <1>. HIDE DEF d, M, N
  <1>5. d = f[M]
    <2>1. M <= M + N /\ M + N \in Nat
      BY <1>1
    <2>. QED
      BY <2>1, <1>1, <1>2, <1>3, TracesAgree
  <1>. DEFINE h == [n \in 0..N |-> f[M + n]]
  <1>6. \A n \in 0..N : h[n] = IF n = 0 THEN d ELSE ApplyOp(h[n - 1], t[n])
    <2>. TAKE n \in 0..N
    <2>1. CASE n = 0
      BY <2>1, <1>1, <1>5
    <2>2. CASE n # 0
      <3>1. /\ M + n \in 0..(M + N) /\ M + n # 0 /\ n \in 1..N
            /\ (M + n) - 1 = M + (n - 1) /\ n - 1 \in 0..N
        BY <2>2, <1>1
      <3>2. f[M + n] = ApplyOp(f[(M + n) - 1], u[M + n])
        BY <3>1, <1>2 DEF Traces
      <3>. QED
        BY <3>1, <3>2, <1>1, <2>2
    <2>. QED
      BY <2>1, <2>2
  <1>7. Traces(h, d, t, N)
    BY <1>6 DEF Traces
  <1>8. h[N] = f[M + N]
    BY <1>1
  <1>. HIDE DEF h
  <1>9. h[N] = g[N]
    BY <1>1, <1>4, <1>7, TracesAgree
  <1>. QED
    BY <1>2, <1>4, <1>8, <1>9 DEF d, u

LEMMA AppliedOne ==
  ASSUME NEW c, NEW o
  PROVE  ApplyOps(c, <<o>>) = ApplyOp(c, o)
  <1>1. PICK f : Traces(f, c, <<o>>, 1) /\ ApplyOps(c, <<o>>) = f[1]
    <2>1. Len(<<o>>) = 1
      OBVIOUS
    <2>. QED
      BY <2>1, AppliedTrace
  <1>2. f[1] = ApplyOp(f[0], <<o>>[1]) /\ f[0] = c
    BY <1>1 DEF Traces
  <1>. QED
    BY <1>1, <1>2

(***************************************************************************)
(* Numbers, annotations and the probes that are built.                     *)
(***************************************************************************)
LEMMA Wrapped ==
  /\ \A n \in Int : ToInt32(n) \in Int32
  /\ \A n \in Int32 : n \in Int /\ ToInt32(n) = n
  /\ Int32 \subseteq Int /\ 0..60 \subseteq Int32
  <1>. DEFINE p == 2^IntBits
              h == 2^(IntBits - 1)
  <1>1. p \in Nat /\ h \in Nat /\ p = 2 * h /\ h > 65535
    BY PowersOfTwo DEF MaxPort
  <1>2. Int32 = -h .. h - 1
    BY DEF Int32
  <1>3. \A n : ToInt32(n) = IF n % p < h THEN n % p ELSE (n % p) - p
    BY DEF ToInt32
  <1>. HIDE DEF p, h
  <1>4. \A n \in Int : n % p \in 0..p-1
    BY <1>1
  <1>5. \A n \in 0..h-1 : n % p = n
    BY <1>1
  <1>6. \A n \in -h..-1 : n % p = n + p
    BY <1>1
  <1>7. ASSUME NEW n \in Int
        PROVE  ToInt32(n) \in Int32
    <2>. DEFINE m == n % p
    <2>1. m \in 0..p-1
      BY <1>4
    <2>2. ToInt32(n) = IF m < h THEN m ELSE m - p
      BY <1>3
    <2>. HIDE DEF m
    <2>. QED
      BY <2>1, <2>2, <1>1, <1>2
  <1>8. \A n \in Int32 : n \in Int /\ ToInt32(n) = n
    <2>. TAKE n \in Int32
    <2>1. CASE n \in 0..h-1
      BY <2>1, <1>1, <1>3, <1>5
    <2>2. CASE n \in -h..-1
      BY <2>2, <1>1, <1>3, <1>6
    <2>. QED
      BY <1>1, <1>2, <2>1, <2>2
  <1>9. 0..60 \subseteq Int32
    BY <1>1, <1>2
  <1>. QED
    BY <1>7, <1>8, <1>9

\* The conversion never makes a number greater.
LEMMA WrappedDown ==
  ASSUME NEW n \in Nat
  PROVE  ToInt32(n) <= n
  <1>. DEFINE p == 2^IntBits
              h == 2^(IntBits - 1)
              m == n % p
  <1>1. p \in Nat /\ h \in Nat /\ p > 0
    BY PowersOfTwo DEF MaxPort
  <1>2. ToInt32(n) = IF m < h THEN m ELSE m - p
    BY DEF ToInt32
  <1>. HIDE DEF p, h
  <1>3. m \in 0..p-1 /\ m <= n
    <2>1. m \in 0..p-1
      BY <1>1
    <2>2. CASE n < p
      BY <1>1, <2>2
    <2>3. CASE ~(n < p)
      BY <1>1, <2>1, <2>3
    <2>. QED
      BY <2>1, <2>2, <2>3
  <1>. HIDE DEF m
  <1>. QED
    BY <1>1, <1>2, <1>3

LEMMA IntTyped ==
  ASSUME NEW a, IsAnnotations(a), NEW key \in Numbers, NEW fallback
  PROVE  /\ fallback \in Int => getAnnotationInt(a, key, fallback) \in Int
         /\ fallback \in Int32 => getAnnotationInt(a, key, fallback) \in Int32
  BY Wrapped DEF getAnnotationInt, Has, IsAnnotations, Text

LEMMA TextTyped ==
  ASSUME NEW a, IsAnnotations(a), NEW key, key \notin Numbers,
         NEW fallback \in STRING
  PROVE  getAnnotation(a, key, fallback) \in STRING
  BY DEF getAnnotation, Has, IsAnnotations

LEMMA KeysApart ==
  \A kind \in Kinds : InjectKey[kind] \notin Numbers \cup {"managed"}
  BY DEF Kinds, InjectKey, Numbers

LEMMA EffectiveTyped ==
  ASSUME NEW a, IsAnnotations(a), NEW overwrite \in SUBSET Kinds
  PROVE  IsAnnotations(Effective(a, overwrite))
  BY KeysApart, Literals DEF Effective, IsAnnotations

LEMMA ConfigTyped ==
  ASSUME NEW cfg, IsJVMConfig(cfg), NEW framework
  PROVE  ConfigFor(framework, cfg) \in FrameworkConfig
  BY Wrapped, Literals DEF ConfigFor, NoFramework, IsJVMConfig, FrameworkConfig

LEMMA LeastIndex ==
  ASSUME NEW N \in Nat, NEW I \in SUBSET (1..N)
  PROVE  (IF I # {} THEN Min(I) ELSE 0) \in {0} \cup I
  <1>1. ASSUME I # {}
        PROVE  \E m \in I : \A k \in I : m <= k
    BY <1>1, LeastElement
  <1>. QED
    BY <1>1 DEF Min

LEMMA PortsFound ==
  ASSUME NEW c \in Container, NEW names, NEW nums
  PROVE  /\ Matched(names, c) \in {0} \cup {i \in DOMAIN c.ports : c.ports[i].name \in names}
         /\ Numbered(nums, c) \in {0} \cup {i \in DOMAIN c.ports : c.ports[i].number \in nums}
  <1>. DEFINE N == Len(c.ports)
              I == {i \in 1..N : c.ports[i].name \in names}
              J == {i \in 1..N : c.ports[i].number \in nums}
  <1>1. N \in Nat /\ 1..N = DOMAIN c.ports
    BY DEF Container
  <1>2. Matched(names, c) = IF I # {} THEN Min(I) ELSE 0
    BY DEF Matched, SelectInSeq
  <1>3. Numbered(nums, c) = IF J # {} THEN Min(J) ELSE 0
    BY DEF Numbered, SelectInSeq
  <1>4. I \in SUBSET (1..N) /\ J \in SUBSET (1..N)
    OBVIOUS
  <1>5. /\ I = {i \in DOMAIN c.ports : c.ports[i].name \in names}
        /\ J = {i \in DOMAIN c.ports : c.ports[i].number \in nums}
    BY <1>1
  <1>. HIDE DEF N, I, J
  <1>6. Matched(names, c) \in {0} \cup I
    <2>1. (IF I # {} THEN Min(I) ELSE 0) \in {0} \cup I
      BY <1>1, <1>4, LeastIndex
    <2>. QED
      BY <2>1, <1>2, Zenon
  <1>7. Numbered(nums, c) \in {0} \cup J
    <2>1. (IF J # {} THEN Min(J) ELSE 0) \in {0} \cup J
      BY <1>1, <1>4, LeastIndex
    <2>. QED
      BY <2>1, <1>3, Zenon
  <1>. QED
    BY <1>5, <1>6, <1>7, Zenon

\* The port is one the container declares, whole or by its number, or else the
\* convention of a container that declares none.
LEMMA PortDetected ==
  ASSUME NEW c \in Container
  PROVE  LET port == detectContainerPort(c)
         IN  \/ \E j \in DOMAIN c.ports :
                  \/ port = c.ports[j]
                  \/ port = [name |-> Empty, number |-> c.ports[j].number]
             \/ c.ports = <<>> /\ port = [name |-> Empty, number |-> 8080]
  <1>. DEFINE named  == Matched(WellKnownPorts, c)
              common == Numbered({8080, 8443, 9090, 8888}, c)
  <1>1. named \in {0} \cup DOMAIN c.ports /\ common \in {0} \cup DOMAIN c.ports
    BY PortsFound
  <1>2. detectContainerPort(c) =
          IF named # 0 THEN c.ports[named]
          ELSE IF common # 0 THEN [name |-> Empty, number |-> c.ports[common].number]
          ELSE IF c.ports # <<>> THEN c.ports[1]
          ELSE [name |-> Empty, number |-> 8080]
    BY DEF detectContainerPort
  <1>3. c.ports # <<>> => 1 \in DOMAIN c.ports
    BY DEF Container
  <1>. HIDE DEF named, common
  <1>. QED
    BY <1>1, <1>2, <1>3

LEMMA PortTyped ==
  ASSUME NEW c \in Container, NEW a, IsAnnotations(a)
  PROVE  detectContainerPort(c) \in PortRef /\ TargetPort(c, a) \in PortRef
  <1>1. \A j \in DOMAIN c.ports : c.ports[j] \in PortRef
    BY DEF Container
  <1>2. detectContainerPort(c) \in PortRef
    BY <1>1, PortDetected, Literals DEF PortRef
  <1>3. "port" \in Numbers
    BY DEF Numbers
  <1>4. getAnnotationInt(a, "port", detectContainerPort(c).number) \in Int
    BY <1>2, <1>3, IntTyped DEF PortRef
  <1>. QED
    BY <1>2, <1>4, Literals DEF TargetPort, Targeted, PortRef

LEMMA PathTyped ==
  ASSUME NEW kind \in Kinds, NEW a, IsAnnotations(a), NEW fc \in FrameworkConfig
  PROVE  PathOf(kind, fc, a) \in STRING
  <1>1. {"liveness-path", "readiness-path", "startup-path"} \cap Numbers = {}
    BY DEF Numbers
  <1>2. /\ fc.livenessPath \in STRING /\ fc.readinessPath \in STRING
        /\ fc.startupPath \in STRING
    BY DEF FrameworkConfig
  <1>. QED
    BY <1>1, <1>2, TextTyped DEF PathOf, Kinds

\* What BuildProbe decides and what it fills in.
BuiltHandler(kind, framework, c, a, cfg) ==
  LET fc  == ConfigFor(framework, cfg)
      tcp == fc.useTCP \/ framework = "generic"
  IN  [kind |-> IF tcp THEN "tcpSocket" ELSE "httpGet",
       path |-> IF tcp THEN Empty ELSE PathOf(kind, fc, a),
       port |-> TargetPort(c, a)]

BuiltSuccess(framework, a, cfg) ==
  LET fc == ConfigFor(framework, cfg)
  IN  IF fc.useTCP \/ framework = "generic" THEN 1
      ELSE getAnnotationInt(a, "success-threshold", fc.success)

BuiltProbe(kind, framework, c, a, cfg) ==
  LET fc == ConfigFor(framework, cfg)
  IN  [handler |-> BuiltHandler(kind, framework, c, a, cfg),
       delay   |-> getAnnotationInt(a, "initial-delay", fc.delay),
       period  |-> getAnnotationInt(a, "period", fc.period),
       failure |-> getAnnotationInt(a, "failure-threshold", fc.failure),
       success |-> BuiltSuccess(framework, a, cfg)]

Builds(kind, framework, a, cfg) ==
  LET fc == ConfigFor(framework, cfg)
  IN  /\ Injects(kind, a, cfg)
      /\ fc.useTCP \/ framework = "generic" \/ PathOf(kind, fc, a) # Empty

LEMMA Built ==
  ASSUME NEW kind, NEW framework, NEW c, NEW a, NEW cfg
  PROVE  BuildProbe(kind, framework, c, a, cfg) =
           IF Builds(kind, framework, a, cfg)
           THEN BuiltProbe(kind, framework, c, a, cfg) ELSE Nil
  BY Zenon DEF BuildProbe, Builds, BuiltProbe, BuiltHandler, BuiltSuccess

LEMMA BuiltTyped ==
  ASSUME NEW kind \in Kinds, NEW framework, NEW c \in Container,
         NEW a, IsAnnotations(a), NEW cfg, IsJVMConfig(cfg)
  PROVE  /\ BuiltProbe(kind, framework, c, a, cfg) \in Probe
         /\ BuildProbe(kind, framework, c, a, cfg) \in {Nil} \cup Probe
  <1>. DEFINE fc == ConfigFor(framework, cfg)
  <1>1. fc \in FrameworkConfig
    BY ConfigTyped
  <1>2. /\ fc.delay \in Int32 /\ fc.period \in Int32 /\ fc.failure \in Int32
        /\ fc.success \in Int32
    BY <1>1 DEF FrameworkConfig
  <1>. HIDE DEF fc
  <1>3. {"initial-delay", "period", "failure-threshold", "success-threshold"} \subseteq Numbers
    BY DEF Numbers
  <1>4. /\ getAnnotationInt(a, "initial-delay", fc.delay) \in Int32
        /\ getAnnotationInt(a, "period", fc.period) \in Int32
        /\ getAnnotationInt(a, "failure-threshold", fc.failure) \in Int32
        /\ getAnnotationInt(a, "success-threshold", fc.success) \in Int32
    BY <1>2, <1>3, IntTyped
  <1>5. BuiltSuccess(framework, a, cfg) \in Int32
    <2>1. 1 \in Int32
      BY Wrapped
    <2>. QED
      BY <1>4, <2>1 DEF BuiltSuccess, fc
  <1>6. BuiltHandler(kind, framework, c, a, cfg) \in Handler
    <2>1. PathOf(kind, fc, a) \in STRING /\ TargetPort(c, a) \in PortRef
      BY <1>1, PathTyped, PortTyped
    <2>. QED
      BY <2>1, Literals DEF BuiltHandler, Handler, fc
  <1>7. BuiltProbe(kind, framework, c, a, cfg) \in Probe
    BY <1>4, <1>5, <1>6 DEF BuiltProbe, Probe, fc
  <1>. QED
    BY <1>7, Built

(***************************************************************************)
(* The patch of one container and what it leads to, kind by kind: f is the *)
(* framework the container is treated as.                                  *)
(***************************************************************************)
Overwritten(a) == {kind \in Kinds : ShouldOverwrite(a, kind)}
Clears(a)      == Flag(a, "clear-delays")

NewProbe(kind, f, c, a, cfg) ==
  BuildProbe(kind, f, c, Effective(a, Overwritten(a)), cfg)

Work(kind, f, c, a, cfg) ==
  Working(kind, c[kind], NewProbe(kind, f, c, a, cfg), Overwritten(a))

Source(f, c, a, cfg) ==
  StartupSource(Work("liveness", f, c, a, cfg), Work("readiness", f, c, a, cfg),
                IF shouldInjectStartup(a, cfg)
                THEN BuildProbe("startup", f, c, a, cfg) ELSE Nil)

Injected(f, c, a, cfg) ==
  Missing("startup", c.startup, Overwritten(a)) /\ Source(f, c, a, cfg) # Nil

Tuned(f, c, a, cfg) ==
  tuneStartupProbe(Source(f, c, a, cfg),
                   getAnnotationInt(a, "startup-period", 15),
                   getAnnotationInt(a, "startup-failure-threshold", 40))

Copy(kind, f, c, a, cfg) ==
  ForAlignment(Work(kind, f, c, a, cfg), c[kind], Clears(a))

Aligns(kind, f, c, a, cfg) ==
  /\ Injected(f, c, a, cfg) /\ ShouldAlignProbes(a, cfg.align)
  /\ Work(kind, f, c, a, cfg) # Nil

PlaceOps(kind, f, c, a, cfg) ==
  ProbePatch(kind, c[kind], NewProbe(kind, f, c, a, cfg), Overwritten(a), Clears(a))

StartupOps(f, c, a, cfg) ==
  IF Injected(f, c, a, cfg)
  THEN buildProbePatch("startup", c.startup # Nil, Tuned(f, c, a, cfg)) ELSE <<>>

AlignOps(kind, f, c, a, cfg) ==
  IF Aligns(kind, f, c, a, cfg)
  THEN alignProbe(kind, Copy(kind, f, c, a, cfg), cfg) ELSE <<>>

LEMMA Patches ==
  ASSUME NEW c, NEW f, NEW a, NEW cfg
  PROVE  buildContainerPatches(c, f, a, cfg) =
           IF Skips(f, c) THEN <<>>
           ELSE PlaceOps("liveness", f, c, a, cfg)
             \o PlaceOps("readiness", f, c, a, cfg)
             \o StartupOps(f, c, a, cfg)
             \o (AlignOps("liveness", f, c, a, cfg)
                   \o AlignOps("readiness", f, c, a, cfg))
  <1>. DEFINE placed == PlaceOps("liveness", f, c, a, cfg)
                          \o PlaceOps("readiness", f, c, a, cfg)
                          \o StartupOps(f, c, a, cfg)
              aligned == Injected(f, c, a, cfg) /\ ShouldAlignProbes(a, cfg.align)
              Align(kind) == IF Work(kind, f, c, a, cfg) = Nil THEN <<>>
                             ELSE alignProbe(kind, Copy(kind, f, c, a, cfg), cfg)
  <1>1. buildContainerPatches(c, f, a, cfg) =
          IF Skips(f, c) THEN <<>>
          ELSE placed \o (IF aligned THEN Align("liveness") \o Align("readiness")
                                     ELSE <<>>)
    BY Zenon DEF buildContainerPatches, PlaceOps, StartupOps, Injected, Source, Tuned,
       Work, NewProbe, Overwritten, Clears, Copy
  <1>2. AlignOps("liveness", f, c, a, cfg) = IF aligned THEN Align("liveness") ELSE <<>>
    BY DEF AlignOps, Aligns
  <1>3. AlignOps("readiness", f, c, a, cfg) = IF aligned THEN Align("readiness") ELSE <<>>
    BY DEF AlignOps, Aligns
  <1>4. <<>> \o <<>> = <<>>
    OBVIOUS
  <1>. HIDE DEF placed, aligned, Align
  <1>. QED
    BY <1>1, <1>2, <1>3, <1>4, Zenon DEF placed

LEMMA ContainerProbes ==
  ASSUME NEW c \in Container, NEW kind \in Kinds
  PROVE  /\ c # Nil /\ c[kind] \in {Nil} \cup Probe
         /\ \A p \in {Nil} \cup Probe :
              /\ [c EXCEPT ![kind] = p] \in Container
              /\ [c EXCEPT ![kind] = p][kind] = p
              /\ \A other \in Kinds \ {kind} :
                   [c EXCEPT ![kind] = p][other] = c[other]
  BY NilAssumption DEF Container, Kinds

LEMMA FieldsTyped ==
  ASSUME NEW p \in Probe, NEW n \in Int32
  PROVE  /\ p # Nil
         /\ p.delay \in Int32 /\ p.failure \in Int32 /\ p.period \in Int32
         /\ p.success \in Int32 /\ p.handler \in Handler
         /\ [p EXCEPT !.delay = n] \in Probe
         /\ [p EXCEPT !.failure = n] \in Probe
         /\ [p EXCEPT !.delay = n].failure = p.failure
         /\ [p EXCEPT !.delay = n].period = p.period
         /\ [p EXCEPT !.delay = n].delay = n
         /\ [p EXCEPT !.failure = n].delay = p.delay
         /\ [p EXCEPT !.failure = n].failure = n
  BY NilAssumption DEF Probe

LEMMA ProbeReplaced ==
  ASSUME NEW c \in Container, NEW kind \in Kinds, NEW p
  PROVE  ApplyOps(c, buildProbePatch(kind, c[kind] # Nil, p)) = [c EXCEPT ![kind] = p]
  <1>1. c # Nil
    BY ContainerProbes
  <1>. DEFINE o == Op(IF c[kind] # Nil THEN "replace" ELSE "add", kind, Empty, p, 0)
  <1>2. ApplyOp(c, o) = [c EXCEPT ![kind] = p]
    BY <1>1 DEF ApplyOp, Op
  <1>. QED
    BY <1>2, AppliedOne DEF buildProbePatch

LEMMA EmptyIsNoField == Empty # "delay" /\ Empty # "failure"
  BY Zenon DEF Empty

LEMMA DelayRemoved ==
  ASSUME NEW c \in Container, NEW kind \in Kinds, c[kind] # Nil, c[kind].delay # 0
  PROVE  ApplyOps(c, removeField(kind, "delay")) =
           [c EXCEPT ![kind] = [c[kind] EXCEPT !.delay = 0]]
  <1>1. c # Nil /\ c[kind] \in Probe
    BY ContainerProbes
  <1>. DEFINE o == Op("remove", kind, "delay", Nil, 0)
  <1>2. ApplyOp(c, o) = [c EXCEPT ![kind]["delay"] = 0]
    BY <1>1, EmptyIsNoField DEF ApplyOp, Op
  <1>3. [c EXCEPT ![kind]["delay"] = 0] = [c EXCEPT ![kind] = [c[kind] EXCEPT !.delay = 0]]
    OBVIOUS
  <1>. QED
    BY <1>2, <1>3, AppliedOne DEF removeField

LEMMA FailureReplaced ==
  ASSUME NEW c \in Container, NEW kind \in Kinds, c[kind] # Nil, NEW n
  PROVE  ApplyOps(c, <<Op("replace", kind, "failure", Nil, n)>>) =
           IF c[kind].failure = 0 THEN Nil
           ELSE [c EXCEPT ![kind] = [c[kind] EXCEPT !.failure = n]]
  <1>1. c # Nil /\ c[kind] \in Probe
    BY ContainerProbes
  <1>. DEFINE o == Op("replace", kind, "failure", Nil, n)
  <1>2. ApplyOp(c, o) = IF c[kind].failure = 0 THEN Nil
                        ELSE [c EXCEPT ![kind]["failure"] = n]
    BY <1>1, EmptyIsNoField DEF ApplyOp, Op
  <1>3. [c EXCEPT ![kind]["failure"] = n] = [c EXCEPT ![kind] = [c[kind] EXCEPT !.failure = n]]
    OBVIOUS
  <1>. QED
    BY <1>2, <1>3, AppliedOne

LEMMA NothingApplies ==
  ASSUME NEW S, NEW ops \in Seq(S)
  PROVE  ApplyOps(Nil, ops) = Nil
  <1>. DEFINE N == Len(ops)
  <1>1. N \in Nat
    OBVIOUS
  <1>2. PICK f : Traces(f, Nil, ops, N) /\ ApplyOps(Nil, ops) = f[N]
    BY <1>1, AppliedTrace
  <1>. HIDE DEF N
  <1>3. \A n \in 0..N : f[n] = IF n = 0 THEN Nil ELSE ApplyOp(f[n - 1], ops[n])
    BY <1>2 DEF Traces
  <1>4. \A o : ApplyOp(Nil, o) = Nil
    BY DEF ApplyOp
  <1>. DEFINE T == {n \in Nat : n <= N => f[n] = Nil}
  <1>5. 0 \in T
    BY <1>1, <1>3
  <1>6. \A n \in 1..N : n - 1 \in T => n \in T
    BY <1>1, <1>3, <1>4
  <1>7. T \in SUBSET Nat /\ \A n \in T : n <= N => f[n] = Nil
    OBVIOUS
  <1>. HIDE DEF T
  <1>8. N \in T
    <2>1. T \in SUBSET Nat
      BY <1>7
    <2>2. \A n \in 0..N : n \in T
      BY <1>1, <1>5, <1>6, <2>1, Induction
    <2>. QED
      BY <1>1, <2>2
  <1>. QED
    BY <1>1, <1>2, <1>7, <1>8

LEMMA AlignedTyped ==
  ASSUME NEW p \in Probe, NEW cfg, IsJVMConfig(cfg), TooShort(p, cfg)
  PROVE  AlignedFailure(p, cfg) \in Int32
  <1>1. /\ p.period \in Int /\ p.period > 0 /\ p.failure \in Int32
        /\ cfg.minWindow \in Int /\ cfg.maxFailure \in Int32
    BY Wrapped DEF Probe, IsJVMConfig, TooShort
  <1>2. CeilDiv(cfg.minWindow, p.period) \in Int
    BY <1>1 DEF CeilDiv
  <1>3. 2^(IntBits - 1) \in Nat
    BY PowersOfTwo
  <1>. QED
    BY <1>1, <1>2, <1>3 DEF AlignedFailure, Int32

LEMMA PiecesTyped ==
  ASSUME NEW kind \in Kinds, NEW f, NEW c \in Container,
         NEW a, IsAnnotations(a), NEW cfg, IsJVMConfig(cfg)
  PROVE  /\ Overwritten(a) \in SUBSET Kinds
         /\ NewProbe(kind, f, c, a, cfg) \in {Nil} \cup Probe
         /\ Work(kind, f, c, a, cfg) \in {Nil} \cup Probe
         /\ Source(f, c, a, cfg) \in {Nil} \cup Probe
         /\ Injected(f, c, a, cfg) => Tuned(f, c, a, cfg) \in Probe
         /\ Work(kind, f, c, a, cfg) # Nil => Copy(kind, f, c, a, cfg) \in Probe
  <1>1. Overwritten(a) \in SUBSET Kinds
    BY DEF Overwritten
  <1>2. \A k \in Kinds : NewProbe(k, f, c, a, cfg) \in {Nil} \cup Probe
    BY <1>1, EffectiveTyped, BuiltTyped DEF NewProbe
  <1>3. \A k \in Kinds : Work(k, f, c, a, cfg) \in {Nil} \cup Probe
    BY <1>2, ContainerProbes DEF Work, Working
  <1>4. Source(f, c, a, cfg) \in {Nil} \cup Probe
    <2>1. {"liveness", "readiness", "startup"} \subseteq Kinds
      BY DEF Kinds
    <2>2. BuildProbe("startup", f, c, a, cfg) \in {Nil} \cup Probe
      BY <2>1, BuiltTyped
    <2>3. /\ Work("liveness", f, c, a, cfg) \in {Nil} \cup Probe
          /\ Work("readiness", f, c, a, cfg) \in {Nil} \cup Probe
      BY <2>1, <1>3
    <2>. QED
      BY <2>2, <2>3 DEF Source, StartupSource
  <1>5. Injected(f, c, a, cfg) => Tuned(f, c, a, cfg) \in Probe
    <2>1. {"startup-period", "startup-failure-threshold"} \subseteq Numbers
      BY DEF Numbers
    <2>2. /\ getAnnotationInt(a, "startup-period", 15) \in Int32
          /\ getAnnotationInt(a, "startup-failure-threshold", 40) \in Int32
          /\ 0 \in Int32 /\ 1 \in Int32
      BY <2>1, Wrapped, IntTyped
    <2>. QED
      BY <1>4, <2>2 DEF Injected, Tuned, tuneStartupProbe, Probe
  <1>6. Work(kind, f, c, a, cfg) # Nil => Copy(kind, f, c, a, cfg) \in Probe
    <2>1. 0 \in Int32
      BY Wrapped
    <2>. QED
      BY <1>3, <2>1, FieldsTyped DEF Copy, ForAlignment
  <1>. QED
    BY <1>1, <1>2, <1>3, <1>4, <1>5, <1>6

\* The probe after the first operations of its kind, ...
Placed(kind, f, c, a, cfg) ==
  LET new == NewProbe(kind, f, c, a, cfg)
  IN  IF Missing(kind, c[kind], Overwritten(a))
      THEN IF new # Nil THEN new ELSE c[kind]
      ELSE IF Clears(a) THEN [c[kind] EXCEPT !.delay = 0] ELSE c[kind]

\* ... and after alignment, unless that is refused.
Lengthened(p, w, cfg) ==
  [p EXCEPT !.delay   = IF w.delay > 0 THEN 0 ELSE @,
            !.failure = IF TooShort(w, cfg) THEN AlignedFailure(w, cfg) ELSE @]

Final(kind, f, c, a, cfg) ==
  IF Aligns(kind, f, c, a, cfg)
  THEN Lengthened(Placed(kind, f, c, a, cfg), Copy(kind, f, c, a, cfg), cfg)
  ELSE Placed(kind, f, c, a, cfg)

FinalStartup(f, c, a, cfg) ==
  IF Injected(f, c, a, cfg) THEN Tuned(f, c, a, cfg) ELSE c["startup"]

Stuck(kind, f, c, a, cfg) ==
  LET w == Copy(kind, f, c, a, cfg)
  IN  /\ Aligns(kind, f, c, a, cfg)
      /\ TooShort(w, cfg) /\ AlignedFailure(w, cfg) # w.failure
      /\ w.failure = 0

LEMMA PlacedTyped ==
  ASSUME NEW kind \in Kinds, NEW f, NEW c \in Container,
         NEW a, IsAnnotations(a), NEW cfg, IsJVMConfig(cfg)
  PROVE  /\ Placed(kind, f, c, a, cfg) \in {Nil} \cup Probe
         /\ Work(kind, f, c, a, cfg) = Nil => Placed(kind, f, c, a, cfg) = Nil
         /\ Work(kind, f, c, a, cfg) # Nil =>
              LET p == Placed(kind, f, c, a, cfg)
                  w == Copy(kind, f, c, a, cfg)
              IN  /\ p \in Probe /\ w \in Probe
                  /\ w = p \/ w = [p EXCEPT !.delay = 0]
  <1>1. /\ c[kind] \in {Nil} \cup Probe
        /\ NewProbe(kind, f, c, a, cfg) \in {Nil} \cup Probe
        /\ 0 \in Int32
    BY ContainerProbes, PiecesTyped, Wrapped
  <1>2. \A p \in Probe : /\ p # Nil /\ [p EXCEPT !.delay = 0] \in Probe
                         /\ [p EXCEPT !.delay = 0] # Nil
                         /\ [[p EXCEPT !.delay = 0] EXCEPT !.delay = 0] = [p EXCEPT !.delay = 0]
    BY <1>1, FieldsTyped
  <1>. QED
    BY <1>1, <1>2 DEF Placed, Work, Working, Missing, Copy, ForAlignment

Operation ==
  [op : {"add", "replace", "remove"}, kind : Kinds, field : {Empty, "delay", "failure"},
   probe : {Nil} \cup Probe, number : Int32]

LEMMA OpsTyped ==
  ASSUME NEW kind \in Kinds, NEW f, NEW c \in Container,
         NEW a, IsAnnotations(a), NEW cfg, IsJVMConfig(cfg)
  PROVE  /\ PlaceOps(kind, f, c, a, cfg) \in Seq(Operation)
         /\ StartupOps(f, c, a, cfg) \in Seq(Operation)
         /\ AlignOps(kind, f, c, a, cfg) \in Seq(Operation)
         /\ \A w \in Probe : alignProbe(kind, w, cfg) \in Seq(Operation)
  <1>1. \A o \in Operation : <<o>> \in Seq(Operation)
    OBVIOUS
  <1>2. <<>> \in Seq(Operation) /\ \A s, t \in Seq(Operation) : s \o t \in Seq(Operation)
    OBVIOUS
  <1>3. \A k \in Kinds, p \in {Nil} \cup Probe, exists \in BOOLEAN :
          buildProbePatch(k, exists, p) \in Seq(Operation)
    <2>1. \A k \in Kinds, p \in {Nil} \cup Probe, op \in {"add", "replace"} :
            Op(op, k, Empty, p, 0) \in Operation
      BY Wrapped DEF Op, Operation
    <2>. QED
      BY <1>1, <2>1 DEF buildProbePatch
  <1>4. removeField(kind, "delay") \in Seq(Operation)
    <2>1. Op("remove", kind, "delay", Nil, 0) \in Operation
      BY Wrapped DEF Op, Operation
    <2>. QED
      BY <1>1, <2>1 DEF removeField
  <1>5. PlaceOps(kind, f, c, a, cfg) \in Seq(Operation)
    BY <1>2, <1>3, <1>4, PiecesTyped DEF PlaceOps, ProbePatch
  <1>6. StartupOps(f, c, a, cfg) \in Seq(Operation)
    <2>1. "startup" \in Kinds
      BY DEF Kinds
    <2>. QED
      BY <1>2, <1>3, <2>1, PiecesTyped DEF StartupOps
  <1>7. ASSUME NEW w \in Probe
        PROVE  alignProbe(kind, w, cfg) \in Seq(Operation)
    <2>1. ASSUME TooShort(w, cfg)
          PROVE  Op("replace", kind, "failure", Nil, AlignedFailure(w, cfg)) \in Operation
      BY <2>1, AlignedTyped DEF Op, Operation
    <2>. QED
      BY <1>1, <1>2, <1>4, <2>1 DEF alignProbe
  <1>8. AlignOps(kind, f, c, a, cfg) \in Seq(Operation)
    BY <1>2, <1>7, PlacedTyped DEF AlignOps, Aligns
  <1>. QED
    BY <1>5, <1>6, <1>7, <1>8

LEMMA PlaceApplied ==
  ASSUME NEW kind \in Kinds, NEW f, NEW c \in Container,
         NEW a, IsAnnotations(a), NEW cfg, IsJVMConfig(cfg),
         NEW d \in Container, d[kind] = c[kind]
  PROVE  ApplyOps(d, PlaceOps(kind, f, c, a, cfg)) =
           [d EXCEPT ![kind] = Placed(kind, f, c, a, cfg)]
  <1>. DEFINE new == NewProbe(kind, f, c, a, cfg)
              missing == Missing(kind, c[kind], Overwritten(a))
  <1>1. [d EXCEPT ![kind] = c[kind]] = d
    BY DEF Container
  <1>2. missing /\ new # Nil =>
          ApplyOps(d, PlaceOps(kind, f, c, a, cfg)) = [d EXCEPT ![kind] = new]
    BY ProbeReplaced DEF PlaceOps, ProbePatch
  <1>3. missing /\ new = Nil => PlaceOps(kind, f, c, a, cfg) = <<>>
    BY DEF PlaceOps, ProbePatch
  <1>4. ~missing => c[kind] \in Probe
    BY ContainerProbes DEF Missing
  <1>5. ~missing /\ Clears(a) /\ c[kind].delay = 0 => [c[kind] EXCEPT !.delay = 0] = c[kind]
    BY <1>4 DEF Probe
  <1>6. ~missing /\ Clears(a) /\ c[kind].delay # 0 =>
          ApplyOps(d, PlaceOps(kind, f, c, a, cfg)) =
            [d EXCEPT ![kind] = [c[kind] EXCEPT !.delay = 0]]
    <2>1. ~missing => d[kind] # Nil
      BY <1>4, NilAssumption
    <2>. QED
      BY <2>1, DelayRemoved DEF PlaceOps, ProbePatch
  <1>7. ~missing /\ (~Clears(a) \/ c[kind].delay = 0) => PlaceOps(kind, f, c, a, cfg) = <<>>
    BY DEF PlaceOps, ProbePatch
  <1>8. Placed(kind, f, c, a, cfg) =
          IF missing THEN IF new # Nil THEN new ELSE c[kind]
          ELSE IF Clears(a) THEN [c[kind] EXCEPT !.delay = 0] ELSE c[kind]
    BY DEF Placed
  <1>. HIDE DEF new, missing
  <1>. QED
    BY <1>1, <1>2, <1>3, <1>5, <1>6, <1>7, <1>8, AppliedNone

LEMMA StartupApplied ==
  ASSUME NEW f, NEW c \in Container, NEW a, NEW cfg,
         NEW d \in Container, d["startup"] = c["startup"]
  PROVE  ApplyOps(d, StartupOps(f, c, a, cfg)) =
           [d EXCEPT !["startup"] = FinalStartup(f, c, a, cfg)]
  <1>1. [d EXCEPT !["startup"] = c["startup"]] = d
    BY DEF Container
  <1>2. "startup" \in Kinds /\ c.startup = c["startup"]
    BY DEF Kinds
  <1>. QED
    BY <1>1, <1>2, ProbeReplaced, AppliedNone DEF StartupOps, FinalStartup

\* One step of alignment after the other, of a probe p whose copy is w.
LEMMA AlignSteps ==
  ASSUME NEW kind \in Kinds, NEW d \in Container, NEW p \in Probe, d[kind] = p,
         NEW w \in Probe, w = p \/ w = [p EXCEPT !.delay = 0],
         NEW cfg, IsJVMConfig(cfg)
  PROVE  ApplyOps(d, alignProbe(kind, w, cfg)) =
           IF TooShort(w, cfg) /\ AlignedFailure(w, cfg) # w.failure /\ w.failure = 0
           THEN Nil ELSE [d EXCEPT ![kind] = Lengthened(p, w, cfg)]
  <1>. DEFINE n == AlignedFailure(w, cfg)
              raises == TooShort(w, cfg) /\ n # w.failure
              first == IF w.delay > 0 THEN removeField(kind, "delay") ELSE <<>>
              second == IF raises THEN <<Op("replace", kind, "failure", Nil, n)>> ELSE <<>>
              q == IF w.delay > 0 THEN [p EXCEPT !.delay = 0] ELSE p
              e == [d EXCEPT ![kind] = q]
  <1>1. alignProbe(kind, w, cfg) = first \o second
    BY DEF alignProbe
  <1>2. first \in Seq(Operation) /\ second \in Seq(Operation)
    <2>1. Op("remove", kind, "delay", Nil, 0) \in Operation
      BY Wrapped DEF Op, Operation
    <2>2. raises => Op("replace", kind, "failure", Nil, n) \in Operation
      BY AlignedTyped DEF Op, Operation
    <2>. QED
      BY <2>1, <2>2 DEF removeField
  <1>3. 0 \in Int32
    BY Wrapped
  <1>4. /\ [p EXCEPT !.delay = 0] \in Probe
        /\ [p EXCEPT !.delay = 0].failure = p.failure
        /\ [p EXCEPT !.delay = 0].delay = 0
    BY <1>3 DEF Probe
  <1>5. w.failure = p.failure /\ (w.delay > 0 => w = p)
    <2>1. CASE w = p
      BY <2>1
    <2>2. CASE w = [p EXCEPT !.delay = 0]
      <3>1. w.failure = p.failure /\ w.delay = 0
        BY <2>2, <1>4, Zenon
      <3>. QED
        BY <3>1
    <2>. QED
      BY <2>1, <2>2
  <1>6. q \in Probe /\ q.failure = w.failure /\ q # Nil
    BY <1>4, <1>5, NilAssumption
  <1>7. ApplyOps(d, first) = e
    <2>1. CASE w.delay > 0
      <3>1. d[kind] # Nil /\ d[kind].delay # 0
        BY <2>1, <1>5, NilAssumption
      <3>. QED
        BY <2>1, <3>1, DelayRemoved
    <2>2. CASE ~(w.delay > 0)
      <3>1. [d EXCEPT ![kind] = p] = d
        BY DEF Container
      <3>. QED
        BY <2>2, <3>1, AppliedNone
    <2>. QED
      BY <2>1, <2>2
  <1>8. e \in Container /\ e[kind] = q
    BY <1>6, ContainerProbes
  <1>9. Lengthened(p, w, cfg) = IF raises THEN [q EXCEPT !.failure = n] ELSE q
    <2>1. Lengthened(p, w, cfg) =
            [p EXCEPT !.delay = IF w.delay > 0 THEN 0 ELSE @,
                      !.failure = IF TooShort(w, cfg) THEN n ELSE @]
      BY DEF Lengthened
    <2>2. TooShort(w, cfg) /\ ~raises => n = p.failure
      BY <1>5
    <2>3. CASE raises
      BY <2>1, <2>3 DEF Probe
    <2>4. CASE ~raises
      <3>1. (IF TooShort(w, cfg) THEN n ELSE p.failure) = p.failure
        BY <2>2, <2>4
      <3>2. Lengthened(p, w, cfg) =
              [p EXCEPT !.delay = IF w.delay > 0 THEN 0 ELSE @, !.failure = p.failure]
        BY <2>1, <3>1 DEF Probe
      <3>. QED
        BY <2>4, <3>2 DEF Probe
    <2>. QED
      BY <2>3, <2>4
  <1>10. \A x : [e EXCEPT ![kind] = x] = [d EXCEPT ![kind] = x]
    OBVIOUS
  <1>. HIDE DEF first, e
  <1>11. ApplyOps(d, first \o second) = ApplyOps(e, second)
    <2>. HIDE DEF second
    <2>1. ApplyOps(d, first \o second) = ApplyOps(ApplyOps(d, first), second)
      BY <1>2, AppliedConcat
    <2>. QED
      BY <2>1, <1>7
  <1>. HIDE DEF q
  <1>12. CASE raises
    <2>1. ApplyOps(e, second) = IF e[kind].failure = 0 THEN Nil
                                ELSE [e EXCEPT ![kind] = [e[kind] EXCEPT !.failure = n]]
      <3>1. e[kind] # Nil
        BY <1>6, <1>8
      <3>2. second = <<Op("replace", kind, "failure", Nil, n)>>
        BY <1>12
      <3>. HIDE DEF n, second, raises
      <3>. QED
        BY <3>1, <3>2, <1>8, FailureReplaced
    <2>2. ApplyOps(d, alignProbe(kind, w, cfg)) =
            IF w.failure = 0 THEN Nil ELSE [d EXCEPT ![kind] = [q EXCEPT !.failure = n]]
      <3>. HIDE DEF n, second
      <3>. QED
        BY <2>1, <1>1, <1>6, <1>8, <1>10, <1>11
    <2>. QED
      BY <1>12, <2>2, <1>9, Zenon
  <1>13. CASE ~raises
    <2>1. ApplyOps(e, second) = e
      BY <1>13, AppliedNone
    <2>2. e = [d EXCEPT ![kind] = q]
      BY DEF e
    <2>3. ApplyOps(d, alignProbe(kind, w, cfg)) = [d EXCEPT ![kind] = q]
      BY <2>1, <2>2, <1>1, <1>11, Zenon
    <2>. QED
      BY <1>13, <2>3, <1>9, Zenon
  <1>. QED
    BY <1>12, <1>13

LEMMA AlignApplied ==
  ASSUME NEW kind \in Kinds, NEW f, NEW c \in Container,
         NEW a, IsAnnotations(a), NEW cfg, IsJVMConfig(cfg),
         NEW d \in Container, d[kind] = Placed(kind, f, c, a, cfg)
  PROVE  ApplyOps(d, AlignOps(kind, f, c, a, cfg)) =
           IF Stuck(kind, f, c, a, cfg) THEN Nil
           ELSE [d EXCEPT ![kind] = Final(kind, f, c, a, cfg)]
  <1>1. CASE ~Aligns(kind, f, c, a, cfg)
    <2>1. [d EXCEPT ![kind] = Placed(kind, f, c, a, cfg)] = d
      BY DEF Container
    <2>. QED
      BY <1>1, <2>1, AppliedNone DEF AlignOps, Final, Stuck
  <1>2. CASE Aligns(kind, f, c, a, cfg)
    <2>. DEFINE p == d[kind]
                w == Copy(kind, f, c, a, cfg)
    <2>1. /\ p \in Probe /\ w \in Probe
          /\ w = p \/ w = [p EXCEPT !.delay = 0]
      BY <1>2, PlacedTyped DEF Aligns
    <2>2. AlignOps(kind, f, c, a, cfg) = alignProbe(kind, w, cfg)
      BY <1>2 DEF AlignOps
    <2>3. Stuck(kind, f, c, a, cfg) <=>
            TooShort(w, cfg) /\ AlignedFailure(w, cfg) # w.failure /\ w.failure = 0
      BY <1>2 DEF Stuck
    <2>4. Final(kind, f, c, a, cfg) = Lengthened(p, w, cfg)
      BY <1>2 DEF Final
    <2>. HIDE DEF w
    <2>5. ApplyOps(d, alignProbe(kind, w, cfg)) =
           IF TooShort(w, cfg) /\ AlignedFailure(w, cfg) # w.failure /\ w.failure = 0
           THEN Nil ELSE [d EXCEPT ![kind] = Lengthened(p, w, cfg)]
      BY <2>1, AlignSteps
    <2>. QED
      BY <2>2, <2>3, <2>4, <2>5
  <1>. QED
    BY <1>1, <1>2

LEMMA FinalTyped ==
  ASSUME NEW kind \in Kinds, NEW f, NEW c \in Container,
         NEW a, IsAnnotations(a), NEW cfg, IsJVMConfig(cfg)
  PROVE  /\ Final(kind, f, c, a, cfg) \in {Nil} \cup Probe
         /\ Placed(kind, f, c, a, cfg) # Nil => Final(kind, f, c, a, cfg) \in Probe
         /\ FinalStartup(f, c, a, cfg) \in {Nil} \cup Probe
  <1>1. ASSUME NEW p \in Probe, NEW w \in Probe
        PROVE  Lengthened(p, w, cfg) \in Probe
    <2>1. 0 \in Int32 /\ (TooShort(w, cfg) => AlignedFailure(w, cfg) \in Int32)
      BY Wrapped, AlignedTyped
    <2>. QED
      BY <2>1 DEF Lengthened, Probe
  <1>2. /\ Final(kind, f, c, a, cfg) \in {Nil} \cup Probe
        /\ Placed(kind, f, c, a, cfg) # Nil => Final(kind, f, c, a, cfg) \in Probe
    <2>1. CASE Aligns(kind, f, c, a, cfg)
      <3>1. Placed(kind, f, c, a, cfg) \in Probe /\ Copy(kind, f, c, a, cfg) \in Probe
        BY <2>1, PlacedTyped DEF Aligns
      <3>. QED
        BY <2>1, <3>1, <1>1 DEF Final
    <2>2. CASE ~Aligns(kind, f, c, a, cfg)
      BY <2>2, PlacedTyped DEF Final
    <2>. QED
      BY <2>1, <2>2
  <1>3. FinalStartup(f, c, a, cfg) \in {Nil} \cup Probe
    <2>1. "startup" \in Kinds
      BY DEF Kinds
    <2>2. c["startup"] \in {Nil} \cup Probe
      BY <2>1, ContainerProbes
    <2>. QED
      BY <2>2, PiecesTyped DEF FinalStartup
  <1>. QED
    BY <1>2, <1>3

\* What a container becomes; Nil = its patch does not apply.
Result(f, c, a, cfg) ==
  IF Stuck("liveness", f, c, a, cfg) \/ Stuck("readiness", f, c, a, cfg) THEN Nil
  ELSE [c EXCEPT !["liveness"]  = Final("liveness", f, c, a, cfg),
                 !["readiness"] = Final("readiness", f, c, a, cfg),
                 !["startup"]   = FinalStartup(f, c, a, cfg)]

\* The operations of the patch, one by one, have that effect.
LEMMA PatchApplied ==
  ASSUME NEW f, NEW c \in Container, NEW a, IsAnnotations(a),
         NEW cfg, IsJVMConfig(cfg), ~Skips(f, c)
  PROVE  ApplyOps(c, buildContainerPatches(c, f, a, cfg)) = Result(f, c, a, cfg)
  <1>. DEFINE L == "liveness"
              R == "readiness"
              S == "startup"
              P1 == PlaceOps(L, f, c, a, cfg)
              P2 == PlaceOps(R, f, c, a, cfg)
              P3 == StartupOps(f, c, a, cfg)
              A1 == AlignOps(L, f, c, a, cfg)
              A2 == AlignOps(R, f, c, a, cfg)
              c1 == [c EXCEPT ![L] = Placed(L, f, c, a, cfg)]
              c2 == [c1 EXCEPT ![R] = Placed(R, f, c, a, cfg)]
              c3 == [c2 EXCEPT ![S] = FinalStartup(f, c, a, cfg)]
              c4 == [c3 EXCEPT ![L] = Final(L, f, c, a, cfg)]
              c5 == [c4 EXCEPT ![R] = Final(R, f, c, a, cfg)]
              stuck == Stuck(L, f, c, a, cfg)
  <1>1. L \in Kinds /\ R \in Kinds /\ S \in Kinds /\ L # R /\ L # S /\ R # S
    BY DEF Kinds
  <1>2. buildContainerPatches(c, f, a, cfg) = P1 \o P2 \o P3 \o (A1 \o A2)
    BY Patches
  <1>. HIDE DEF L, R, S
  <1>3. /\ P1 \in Seq(Operation) /\ P2 \in Seq(Operation) /\ P3 \in Seq(Operation)
        /\ A1 \in Seq(Operation) /\ A2 \in Seq(Operation)
    BY <1>1, OpsTyped
  <1>4. /\ Placed(L, f, c, a, cfg) \in {Nil} \cup Probe
        /\ Placed(R, f, c, a, cfg) \in {Nil} \cup Probe
        /\ Final(L, f, c, a, cfg) \in {Nil} \cup Probe
        /\ Final(R, f, c, a, cfg) \in {Nil} \cup Probe
        /\ FinalStartup(f, c, a, cfg) \in {Nil} \cup Probe
    BY <1>1, PlacedTyped, FinalTyped
  <1>5. ApplyOps(c, P1) = c1
    BY <1>1, PlaceApplied
  <1>6. c1 \in Container /\ c1[R] = c[R] /\ c1[S] = c[S] /\ c1[L] = Placed(L, f, c, a, cfg)
    BY <1>1, <1>4, ContainerProbes
  <1>. HIDE DEF c1
  <1>7. ApplyOps(c1, P2) = c2
    BY <1>1, <1>6, PlaceApplied
  <1>8. /\ c2 \in Container /\ c2[S] = c[S]
        /\ c2[L] = Placed(L, f, c, a, cfg) /\ c2[R] = Placed(R, f, c, a, cfg)
    BY <1>1, <1>4, <1>6, ContainerProbes
  <1>. HIDE DEF c2
  <1>9. ApplyOps(c2, P3) = c3
    BY <1>8, StartupApplied DEF S
  <1>10. /\ c3 \in Container
         /\ c3[L] = Placed(L, f, c, a, cfg) /\ c3[R] = Placed(R, f, c, a, cfg)
    BY <1>1, <1>4, <1>8, ContainerProbes
  <1>. HIDE DEF c3
  <1>11. ApplyOps(c3, A1) = IF stuck THEN Nil ELSE c4
    BY <1>1, <1>10, AlignApplied
  <1>12. c4 \in Container /\ c4[R] = Placed(R, f, c, a, cfg)
    BY <1>1, <1>4, <1>10, ContainerProbes
  <1>. HIDE DEF c4
  <1>13. ApplyOps(c4, A2) = IF Stuck(R, f, c, a, cfg) THEN Nil ELSE c5
    BY <1>1, <1>12, AlignApplied
  <1>. HIDE DEF P1, P2, P3, A1, A2, stuck
  <1>14. ApplyOps(c, P1 \o P2 \o P3 \o (A1 \o A2)) = ApplyOps(c3, A1 \o A2)
    <2>. DEFINE U == P1 \o P2
                V == U \o P3
                W == A1 \o A2
    <2>1. U \in Seq(Operation) /\ V \in Seq(Operation) /\ W \in Seq(Operation)
      BY <1>3
    <2>2. ApplyOps(c, U) = c2
      BY <1>3, <1>5, <1>7, AppliedConcat
    <2>. HIDE DEF U
    <2>3. ApplyOps(c, V) = c3
      BY <1>3, <2>1, <2>2, <1>9, AppliedConcat
    <2>. HIDE DEF V, W
    <2>4. ApplyOps(c, V \o W) = ApplyOps(c3, W)
      BY <2>1, <2>3, AppliedConcat
    <2>. QED
      BY <2>4 DEF U, V, W
  <1>15. ApplyOps(c3, A1 \o A2) =
           IF stuck \/ Stuck(R, f, c, a, cfg) THEN Nil ELSE c5
    <2>1. ApplyOps(c3, A1 \o A2) = ApplyOps(ApplyOps(c3, A1), A2)
      BY <1>3, AppliedConcat
    <2>2. ApplyOps(Nil, A2) = Nil
      BY <1>3, NothingApplies
    <2>. QED
      BY <2>1, <2>2, <1>11, <1>13
  <1>16. c5 = [c EXCEPT ![L] = Final(L, f, c, a, cfg),
                        ![R] = Final(R, f, c, a, cfg),
                        ![S] = FinalStartup(f, c, a, cfg)]
    BY <1>1 DEF c1, c2, c3, c4, Container
  <1>. QED
    BY <1>2, <1>14, <1>15, <1>16 DEF Result, L, R, S, stuck

LEMMA ResultTyped ==
  ASSUME NEW f, NEW c \in Container, NEW a, IsAnnotations(a),
         NEW cfg, IsJVMConfig(cfg), Result(f, c, a, cfg) # Nil
  PROVE  LET d == Result(f, c, a, cfg)
         IN  /\ d \in Container
             /\ d.ports = c.ports /\ d.env = c.env /\ d.image = c.image
             /\ d["liveness"]  = Final("liveness", f, c, a, cfg)
             /\ d["readiness"] = Final("readiness", f, c, a, cfg)
             /\ d["startup"]   = FinalStartup(f, c, a, cfg)
  <1>1. {"liveness", "readiness", "startup"} \subseteq Kinds
    BY DEF Kinds
  <1>2. /\ Final("liveness", f, c, a, cfg) \in {Nil} \cup Probe
        /\ Final("readiness", f, c, a, cfg) \in {Nil} \cup Probe
        /\ FinalStartup(f, c, a, cfg) \in {Nil} \cup Probe
    BY <1>1, FinalTyped
  <1>3. Result(f, c, a, cfg) =
          [c EXCEPT !["liveness"]  = Final("liveness", f, c, a, cfg),
                    !["readiness"] = Final("readiness", f, c, a, cfg),
                    !["startup"]   = FinalStartup(f, c, a, cfg)]
    BY Zenon DEF Result
  <1>. QED
    BY <1>2, <1>3 DEF Container

(***************************************************************************)
(* The patch of a Pod.                                                     *)
(***************************************************************************)
\* A container the controller does not touch.
LeftAlone(c, a, cfg) ==
  \/ ~cfg.managementEnabled \/ IsBypassAnnotation(a)
  \/ FrameworkOf(c, a) = Nil \/ Skips(FrameworkOf(c, a), c)

Outcome(c, a, cfg) ==
  IF LeftAlone(c, a, cfg) THEN c ELSE Result(FrameworkOf(c, a), c, a, cfg)

LEMMA PodPatched ==
  ASSUME NEW pod, IsPod(pod), NEW cfg, IsJVMConfig(cfg)
  PROVE  Patched(pod, buildPodProbePatches(pod, cfg)) =
           [i \in DOMAIN pod.containers |->
              Outcome(pod.containers[i], pod.annotations, cfg)]
  <1>. DEFINE a == pod.annotations
              patch == buildPodProbePatches(pod, cfg)
  <1>1. IsAnnotations(a) /\ \A i \in DOMAIN pod.containers : pod.containers[i] \in Container
    BY DEF IsPod, ValidContainer
  <1>2. ASSUME NEW i \in DOMAIN pod.containers
        PROVE  ApplyOps(pod.containers[i], patch.containers[i]) =
                 Outcome(pod.containers[i], a, cfg)
    <2>. DEFINE c == pod.containers[i]
                f == FrameworkOf(c, a)
    <2>1. CASE ~cfg.managementEnabled \/ IsBypassAnnotation(a)
      <3>1. patch.containers[i] = <<>>
        BY <2>1 DEF buildPodProbePatches, NoPatch
      <3>. QED
        BY <2>1, <3>1, AppliedNone DEF Outcome, LeftAlone
    <2>2. CASE ~(~cfg.managementEnabled \/ IsBypassAnnotation(a))
      <3>1. patch.containers[i] = ContainerPatches(pod, i, cfg)
        BY <2>2 DEF buildPodProbePatches
      <3>2. ContainerPatches(pod, i, cfg) =
              IF f = Nil THEN <<>> ELSE buildContainerPatches(c, f, a, cfg)
        BY DEF ContainerPatches
      <3>3. Skips(f, c) => buildContainerPatches(c, f, a, cfg) = <<>>
        BY Patches
      <3>4. ~Skips(f, c) =>
              ApplyOps(c, buildContainerPatches(c, f, a, cfg)) = Result(f, c, a, cfg)
        BY <1>1, PatchApplied
      <3>5. LeftAlone(c, a, cfg) <=> f = Nil \/ Skips(f, c)
        BY <2>2 DEF LeftAlone
      <3>6. Outcome(c, a, cfg) = IF LeftAlone(c, a, cfg) THEN c ELSE Result(f, c, a, cfg)
        BY DEF Outcome
      <3>. HIDE DEF f, patch
      <3>. QED
        BY <3>1, <3>2, <3>3, <3>4, <3>5, <3>6, AppliedNone
    <2>. QED
      BY <2>1, <2>2
  <1>. QED
    BY <1>2 DEF Patched

LEMMA OutcomeTyped ==
  ASSUME NEW c \in Container, NEW a, IsAnnotations(a), NEW cfg, IsJVMConfig(cfg),
         Outcome(c, a, cfg) # Nil
  PROVE  /\ Outcome(c, a, cfg) \in Container
         /\ Outcome(c, a, cfg).ports = c.ports
         /\ Outcome(c, a, cfg).env = c.env /\ Outcome(c, a, cfg).image = c.image
  BY ResultTyped DEF Outcome

LEMMA ProbeDefaults ==
  ASSUME NEW p \in {Nil} \cup Probe
  PROVE  /\ WithDefaults(p) \in {Nil} \cup Probe
         /\ WithDefaults(WithDefaults(p)) = WithDefaults(p)
         /\ WithDefaults(p) = Nil <=> p = Nil
         /\ p # Nil => /\ WithDefaults(p).handler = p.handler
                       /\ WithDefaults(p).delay = p.delay
                       /\ WithDefaults(p).period = Or(p.period, 10)
                       /\ WithDefaults(p).failure = Or(p.failure, 3)
                       /\ WithDefaults(p).success = Or(p.success, 1)
  <1>1. 10 \in Int32 /\ 3 \in Int32 /\ 1 \in Int32
    BY Wrapped
  <1>2. CASE p = Nil
    BY <1>2 DEF WithDefaults
  <1>3. CASE p \in Probe
    <2>1. p # Nil
      BY <1>3, NilAssumption
    <2>. DEFINE q == [p EXCEPT !.period = Or(@, 10), !.failure = Or(@, 3),
                               !.success = Or(@, 1)]
    <2>2. q \in Probe
      BY <1>1, <1>3 DEF Probe, Or
    <2>3. WithDefaults(p) = q
      BY <2>1 DEF WithDefaults
    <2>4. q # Nil
      BY <2>2, NilAssumption
    <2>5. [q EXCEPT !.period = Or(@, 10), !.failure = Or(@, 3), !.success = Or(@, 1)] = q
      BY <1>3 DEF Probe, Or
    <2>6. WithDefaults(q) = q
      BY <2>4, <2>5 DEF WithDefaults
    <2>7. /\ q.handler = p.handler /\ q.delay = p.delay
          /\ q.period = Or(p.period, 10)
          /\ q.failure = Or(p.failure, 3)
          /\ q.success = Or(p.success, 1)
      BY <1>3 DEF Probe
    <2>. HIDE DEF q
    <2>. QED
      BY <2>1, <2>2, <2>3, <2>4, <2>6, <2>7
  <1>. QED
    BY <1>2, <1>3

LEMMA ContainerDefaults ==
  ASSUME NEW c \in Container
  PROVE  /\ Defaulted(c) \in Container
         /\ Defaulted(Defaulted(c)) = Defaulted(c)
         /\ \A kind \in Kinds : Defaulted(c)[kind] = WithDefaults(c[kind])
         /\ Defaulted(c).ports = c.ports
         /\ Defaulted(c).env = c.env /\ Defaulted(c).image = c.image
  <1>1. \A kind \in Kinds : c[kind] \in {Nil} \cup Probe
    BY DEF Container, Kinds
  <1>2. \A kind \in Kinds : /\ WithDefaults(c[kind]) \in {Nil} \cup Probe
                            /\ WithDefaults(WithDefaults(c[kind])) = WithDefaults(c[kind])
    BY <1>1, ProbeDefaults
  <1>. QED
    BY <1>2 DEF Defaulted, Container, Kinds

LEMMA ManageTyped ==
  ASSUME NEW a, IsAnnotations(a), NEW where
  PROVE  /\ IsAnnotations(Manage(a, where))
         /\ \A key : key # "managed" =>
              /\ Has(Manage(a, where), key) <=> Has(a, key)
              /\ Has(a, key) => Manage(a, where)[key] = a[key]
         /\ where # "none" \/ Has(a, "managed") => Has(Manage(a, where), "managed")
  <1>1. "managed" \notin Numbers /\ "true" \in STRING
    BY Literals DEF Numbers
  <1>. QED
    BY <1>1 DEF Manage, IsAnnotations, Has

\* What is stored is a Pod the API server would store as it is.
LEMMA StoredIsPod ==
  ASSUME NEW pod, IsPod(pod), NEW cfg, IsJVMConfig(cfg),
         ~Refused(pod, buildPodProbePatches(pod, cfg))
  PROVE  LET stored == Stored(pod, buildPodProbePatches(pod, cfg))
         IN  /\ IsPod(stored)
             /\ stored.annotations =
                  Manage(pod.annotations, buildPodProbePatches(pod, cfg).managed)
             /\ stored.containers =
                  [i \in DOMAIN pod.containers |->
                     Defaulted(Outcome(pod.containers[i], pod.annotations, cfg))]
             /\ \A i \in DOMAIN pod.containers :
                  Outcome(pod.containers[i], pod.annotations, cfg) \in Container
  <1>. DEFINE patch == buildPodProbePatches(pod, cfg)
              a == pod.annotations
              I == DOMAIN pod.containers
              new(i) == Outcome(pod.containers[i], a, cfg)
  <1>1. /\ IsAnnotations(a) /\ pod.containers \in Seq(Container)
        /\ I = 1..Len(pod.containers) /\ Len(pod.containers) \in Nat
        /\ \A i \in I : ValidContainer(pod.containers[i]) /\ pod.containers[i] \in Container
    BY DEF IsPod, ValidContainer
  <1>2. Patched(pod, patch) = [i \in I |-> new(i)]
    BY PodPatched
  <1>3. \A i \in I : /\ new(i) # Nil
                     /\ \A kind \in Kinds : ValidProbe(kind, Defaulted(new(i))[kind])
    BY <1>2 DEF Refused
  <1>4. \A i \in I : new(i) \in Container /\ new(i).ports = pod.containers[i].ports
    BY <1>1, <1>3, OutcomeTyped
  <1>5. Stored(pod, patch) = [annotations |-> Manage(a, patch.managed),
                              containers |-> [i \in I |-> Defaulted(new(i))]]
    BY <1>2 DEF Stored
  <1>6. ASSUME NEW i \in I
        PROVE  ValidContainer(Defaulted(new(i)))
    <2>1. Defaulted(new(i)) \in Container /\ Defaulted(Defaulted(new(i))) = Defaulted(new(i))
          /\ Defaulted(new(i)).ports = pod.containers[i].ports
      BY <1>4, ContainerDefaults
    <2>. HIDE DEF new
    <2>. QED
      BY <2>1, <1>1, <1>3 DEF ValidContainer
  <1>. HIDE DEF new, patch
  <1>7. [i \in I |-> Defaulted(new(i))] \in Seq(Container)
    <2>1. \A i \in I : Defaulted(new(i)) \in Container
      BY <1>6 DEF ValidContainer
    <2>. QED
      BY <1>1, <2>1
  <1>8. IsPod(Stored(pod, patch))
    <2>1. IsAnnotations(Manage(a, patch.managed))
      BY <1>1, ManageTyped
    <2>. QED
      BY <2>1, <1>5, <1>6, <1>7 DEF IsPod
  <1>. QED
    BY <1>4, <1>5, <1>8 DEF patch, new

(***************************************************************************)
(* The inductive invariant.                                                *)
(***************************************************************************)
LEMMA ParseTyped ==
  ASSUME NEW cm \in ConfigMaps \cup {InitConfigMap, Nil}
  PROVE  IsJVMConfig(ParseJVMConfig(cm)) /\ ParseJVMConfig(cm) # Nil
  <1>1. /\ 30 \in Int32 /\ 60 \in Int32 /\ 10 \in Int32 /\ 3 \in Int32
        /\ 1 \in Int32 /\ 0 \in Int32
    BY Wrapped
  <1>2. \A l, r, s \in STRING, d \in Int32 : HTTP(l, r, s, d) \in FrameworkConfig
    BY <1>1 DEF HTTP, FrameworkConfig
  <1>3. \A f \in DOMAIN DefaultFrameworkConfigs : DefaultFrameworkConfigs[f] \in FrameworkConfig
    <2>1. [HTTP(Empty, Empty, Empty, 30) EXCEPT !.useTCP = TRUE] \in FrameworkConfig
      BY <1>1, Literals DEF HTTP, FrameworkConfig
    <2>2. \A l, r, s, d : HTTP(l, r, s, d) \in FrameworkConfig =>
            l \in STRING /\ r \in STRING /\ s \in STRING
      BY DEF HTTP, FrameworkConfig
    <2>. QED
      BY <1>1, <1>2, <2>1, Literals DEF DefaultFrameworkConfigs
  <1>4. CASE cm = Nil
    BY <1>1, <1>3, <1>4, NilAssumption DEF ParseJVMConfig, DefaultJVMConfig, IsJVMConfig
  <1>5. CASE cm # Nil
    <2>1. IsConfigMap(cm)
      BY <1>5, ConstantsAssumption
    <2>3. Atoi(cm.minWindow, 60) \in Int32 /\ Atoi(cm.maxFailure, 10) \in Int32
      BY <2>1, <1>1, Wrapped DEF Atoi, IsConfigMap, Text
    <2>4. /\ Switch(cm.injectLiveness, FALSE) \in BOOLEAN
          /\ Switch(cm.injectReadiness, TRUE) \in BOOLEAN
          /\ Switch(cm.injectStartup, TRUE) \in BOOLEAN
          /\ Switch(cm.align, FALSE) \in BOOLEAN
          /\ ManagementEnabled(cm) \in BOOLEAN
      BY DEF Switch, ManagementEnabled
    <2>5. \A f \in DOMAIN cm.frameworks.value :
            cm.frameworks.text = "ok" => cm.frameworks.value[f] \in FrameworkConfig
      BY <2>1 DEF IsConfigMap
    <2>. QED
      BY <1>5, <1>3, <2>3, <2>4, <2>5, NilAssumption DEF ParseJVMConfig, IsJVMConfig
  <1>. QED
    BY <1>4, <1>5

\* An answer that the code makes is as AnswerOK and TypeOK say.
LEMMA AnswerTyped ==
  ASSUME NEW pod, IsPod(pod), NEW cfg, IsJVMConfig(cfg), NEW calls \in 1..2
  PROVE  LET held == mutatePod(pod, cfg, calls)
         IN  /\ held.calls = calls /\ held.created \in BOOLEAN
             /\ held.pod = pod /\ held.cfg = cfg
             /\ held.created => IsPod(held.stored)
             /\ held = mutatePod(held.pod, held.cfg, held.calls)
             /\ held.created <=> ~Refused(pod, buildPodProbePatches(pod, cfg))
             /\ held.created =>
                  held.stored = Stored(pod, buildPodProbePatches(pod, cfg))
  <1>. DEFINE patch == buildPodProbePatches(pod, cfg)
  <1>1. mutatePod(pod, cfg, calls) =
          [pod |-> pod, cfg |-> cfg, calls |-> calls,
           created |-> ~Refused(pod, patch),
           stored |-> IF Refused(pod, patch) THEN Nil ELSE Stored(pod, patch)]
    BY DEF mutatePod, Answered
  <1>2. ~Refused(pod, patch) => IsPod(Stored(pod, patch))
    BY StoredIsPod
  <1>3. (~Refused(pod, patch)) \in BOOLEAN
    BY DEF Refused
  <1>. HIDE DEF patch
  <1>. DEFINE held == mutatePod(pod, cfg, calls)
  <1>4. /\ held.pod = pod /\ held.cfg = cfg /\ held.calls = calls
        /\ held.stored = IF Refused(pod, patch) THEN Nil ELSE Stored(pod, patch)
    BY <1>1
  <1>5. held.created = ~Refused(pod, patch)
    <2>. DEFINE b == ~Refused(pod, patch)
                x == IF Refused(pod, patch) THEN Nil ELSE Stored(pod, patch)
    <2>1. held = [pod |-> pod, cfg |-> cfg, calls |-> calls, created |-> b, stored |-> x]
      BY <1>1
    <2>. HIDE DEF b, x, held
    <2>2. held.created = b
      BY <2>1
    <2>. QED
      BY <2>2 DEF b
  <1>. HIDE DEF held
  <1>6. /\ held.created \in BOOLEAN
        /\ held.created <=> ~Refused(pod, patch)
        /\ held.created => held.stored = Stored(pod, patch) /\ IsPod(held.stored)
    <2>1. held.created <=> ~Refused(pod, patch)
      BY <1>5, Zenon
    <2>2. ~Refused(pod, patch) => held.stored = Stored(pod, patch)
      BY <1>4, Zenon
    <2>. QED
      BY <1>2, <1>3, <1>5, <2>1, <2>2, Zenon
  <1>7. held = mutatePod(held.pod, held.cfg, held.calls)
    BY <1>4 DEF held
  <1>. HIDE DEF patch
  <1>8. held.created => IsPod(held.stored)
    BY <1>6, Zenon
  <1>9. held.created => held.stored = Stored(pod, patch)
    BY <1>6, Zenon
  <1>10. held.created <=> ~Refused(pod, patch)
    BY <1>6, Zenon
  <1>11. held.created \in BOOLEAN
    BY <1>6, Zenon
  <1>12. /\ held.calls = calls /\ held.created \in BOOLEAN
         /\ held.pod = pod /\ held.cfg = cfg
         /\ held.created => IsPod(held.stored)
         /\ held = mutatePod(held.pod, held.cfg, held.calls)
         /\ held.created <=> ~Refused(pod, patch)
         /\ held.created => held.stored = Stored(pod, patch)
    BY <1>4, <1>7, <1>8, <1>9, <1>10, <1>11, Zenon
  <1>. QED
    BY <1>12, Zenon DEF patch, held

LEMMA InitIInv == Init => IInv
  <1>. SUFFICES ASSUME Init PROVE IInv
    OBVIOUS
  <1>1. TypeOK
    <2>1. history \in Seq(ConfigMaps \cup {InitConfigMap}) /\ history # <<>>
          /\ Len(history) = changes + 1
      BY DEF Init
    <2>2. /\ DOMAIN config = Replica
          /\ \A r \in Replica : config[r] = Nil \/ IsJVMConfig(config[r])
          /\ exclusionRules \in [Replica -> {DefaultRules, "rules"}]
          /\ serving \subseteq {r \in Replica : config[r] # Nil}
          /\ seen \in [Replica -> 0..Len(history)]
      BY DEF Init
    <2>3. /\ DOMAIN answer = Request
          /\ \A q \in Request :
               /\ answer[q].calls \in 0..2 /\ answer[q].created \in BOOLEAN
               /\ answer[q].created => IsPod(answer[q].stored)
      <3>1. \A q \in Request : answer[q] = NoAnswer
        BY DEF Init
      <3>2. NoAnswer.calls = 0 /\ NoAnswer.created = FALSE
        BY DEF NoAnswer
      <3>3. DOMAIN answer = Request
        BY DEF Init
      <3>4. \A q \in Request : answer[q].calls = 0 /\ answer[q].created = FALSE
        BY <3>1, <3>2, Zenon
      <3>5. \A q \in Request : answer[q].calls \in 0..2
        BY <3>4
      <3>6. \A q \in Request : answer[q].created \in BOOLEAN /\ ~answer[q].created
        BY <3>4, Zenon
      <3>. QED
        BY <3>3, <3>5, <3>6, Zenon
    <2>4. changes \in 0..MaxChanges /\ faults \in 0..MaxFaults /\ crashes \in 0..MaxCrashes
      BY ConstantsAssumption DEF Init
    <2>. QED
      BY <2>1, <2>2, <2>3, <2>4 DEF TypeOK
  <1>2. \A q \in Request : AnswerOK(q)
    BY DEF Init, AnswerOK, NoAnswer
  <1>. QED
    BY <1>1, <1>2 DEF IInv

\* What the informer and the Gets read is a content the ConfigMap has had.
LEMMA HistoryRead ==
  ASSUME TypeOK
  PROVE  /\ Len(history) \in Nat /\ Len(history) > 0
         /\ configMap \in ConfigMaps \cup {InitConfigMap}
         /\ \A n \in 1..Len(history) : history[n] \in ConfigMaps \cup {InitConfigMap}
  BY DEF TypeOK, configMap

\* A step that leaves the answers alone keeps what is said of them.
LEMMA AnswersKept ==
  ASSUME IInv, UNCHANGED answer
  PROVE  /\ DOMAIN answer' = Request
         /\ \A q \in Request :
              /\ answer[q].calls' \in 0..2 /\ answer[q].created' \in BOOLEAN
              /\ answer[q].created' => IsPod(answer[q].stored)'
              /\ AnswerOK(q)'
  BY DEF IInv, TypeOK, AnswerOK

\* And one that makes an answer.
LEMMA AnswerMade ==
  ASSUME IInv, NEW q \in Request, NEW pod, IsPod(pod), NEW cfg, IsJVMConfig(cfg),
         NEW calls \in 1..2, answer' = [answer EXCEPT ![q] = mutatePod(pod, cfg, calls)],
         UNCHANGED <<history, config, exclusionRules, serving, seen, bounds>>
  PROVE  IInv'
  <1>1. DOMAIN answer' = Request
    BY DEF IInv, TypeOK
  <1>2. \A p \in Request :
          /\ answer'[p].calls \in 0..2 /\ answer'[p].created \in BOOLEAN
          /\ answer'[p].created => IsPod(answer'[p].stored)
          /\ AnswerOK(p)'
    <2>. TAKE p \in Request
    <2>1. CASE p = q
      <3>1. answer'[p] = mutatePod(pod, cfg, calls)
        BY <2>1 DEF IInv, TypeOK
      <3>. QED
        BY <3>1, AnswerTyped DEF AnswerOK
    <2>2. CASE p # q
      <3>1. answer'[p] = answer[p]
        BY <2>2 DEF IInv, TypeOK
      <3>. QED
        BY <3>1 DEF IInv, TypeOK, AnswerOK
    <2>. QED
      BY <2>1, <2>2
  <1>3. TypeOK'
    BY <1>1, <1>2 DEF IInv, TypeOK, bounds
  <1>. QED
    BY <1>2, <1>3 DEF IInv

LEMMA NextOK == IInv /\ [Next]_vars => IInv'
  <1>. SUFFICES ASSUME IInv, [Next]_vars PROVE IInv'
    OBVIOUS
  <1>. USE DEF bounds
  <1>1. TypeOK
    BY DEF IInv
  <1>2. ASSUME NEW r \in Replica, Boot(r)
        PROVE  IInv'
    <2>1. PICK cm \in {configMap, Nil} :
            /\ IF cm = configMap THEN UNCHANGED faults
               ELSE faults < MaxFaults /\ faults' = faults + 1
            /\ config' = [config EXCEPT ![r] = ParseJVMConfig(cm)]
            /\ exclusionRules' = [exclusionRules EXCEPT ![r] = Rules(cm, DefaultRules)]
      BY <1>2 DEF Boot
    <2>2. cm \in ConfigMaps \cup {InitConfigMap, Nil}
      BY <1>1, HistoryRead
    <2>3. IsJVMConfig(ParseJVMConfig(cm)) /\ ParseJVMConfig(cm) # Nil
      BY <2>2, ParseTyped
    <2>4. Rules(cm, DefaultRules) \in {DefaultRules, "rules"}
      BY <2>2, ConstantsAssumption DEF Rules, parseExclusionRules, IsConfigMap
    <2>5. /\ DOMAIN config' = Replica
          /\ \A s \in Replica : config'[s] = Nil \/ IsJVMConfig(config'[s])
          /\ serving \subseteq {s \in Replica : config'[s] # Nil}
          /\ exclusionRules' \in [Replica -> {DefaultRules, "rules"}]
      BY <1>1, <2>1, <2>3, <2>4 DEF TypeOK
    <2>6. faults' \in 0..MaxFaults
      BY <1>1, <2>1, ConstantsAssumption DEF TypeOK
    <2>. QED
      BY <1>1, <1>2, <2>5, <2>6, AnswersKept DEF Boot, IInv, TypeOK
  <1>3. ASSUME NEW r \in Replica, Run(r)
        PROVE  IInv'
    <2>1. seen' \in [Replica -> 0..Len(history)]
      BY <1>1, <1>3, HistoryRead DEF Run, TypeOK
    <2>2. serving' \subseteq {s \in Replica : config[s] # Nil}
      BY <1>1, <1>3 DEF Run, TypeOK
    <2>. QED
      BY <1>1, <1>3, <2>1, <2>2, AnswersKept DEF Run, IInv, TypeOK
  <1>4. ASSUME NEW r \in Replica, handleConfigMapUpdate(r)
        PROVE  IInv'
    <2>. DEFINE cm == EventObject(r)
    <2>1. seen[r] \in 0..Len(history) /\ Len(history) \in Nat
      BY <1>1, HistoryRead DEF TypeOK
    <2>2. cm \in ConfigMaps \cup {InitConfigMap}
      BY <1>1, <1>4, <2>1, HistoryRead DEF handleConfigMapUpdate, EventObject
    <2>3. seen' \in [Replica -> 0..Len(history)]
      BY <1>1, <1>4, <2>1 DEF handleConfigMapUpdate, TypeOK
    <2>4. /\ IF cm = Nil THEN UNCHANGED <<config, exclusionRules>>
             ELSE /\ config' = [config EXCEPT ![r] = ParseJVMConfig(cm)]
                  /\ exclusionRules' = [exclusionRules EXCEPT ![r] = Rules(cm, @)]
          /\ UNCHANGED <<history, serving, answer, bounds>>
      BY <1>4 DEF handleConfigMapUpdate
    <2>5. IsJVMConfig(ParseJVMConfig(cm)) /\ ParseJVMConfig(cm) # Nil
      BY <2>2, ParseTyped
    <2>6. exclusionRules[r] \in {DefaultRules, "rules"}
      BY <1>1 DEF TypeOK
    <2>7. Rules(cm, exclusionRules[r]) \in {DefaultRules, "rules"}
      BY <2>2, <2>6, ConstantsAssumption DEF Rules, parseExclusionRules, IsConfigMap
    <2>. HIDE DEF cm
    <2>8. /\ DOMAIN config' = Replica
          /\ \A s \in Replica : config'[s] = Nil \/ IsJVMConfig(config'[s])
          /\ serving \subseteq {s \in Replica : config'[s] # Nil}
          /\ exclusionRules' \in [Replica -> {DefaultRules, "rules"}]
      BY <1>1, <2>4, <2>5, <2>7 DEF TypeOK
    <2>. QED
      BY <1>1, <2>3, <2>4, <2>8, AnswersKept DEF IInv, TypeOK
  <1>5. ASSUME NEW r \in Replica, Crash(r)
        PROVE  IInv'
    <2>1. /\ DOMAIN config' = Replica
          /\ \A s \in Replica : config'[s] = Nil \/ IsJVMConfig(config'[s])
          /\ serving' \subseteq {s \in Replica : config'[s] # Nil}
          /\ exclusionRules' \in [Replica -> {DefaultRules, "rules"}]
      BY <1>1, <1>5 DEF Crash, TypeOK
    <2>2. seen' \in [Replica -> 0..Len(history)] /\ crashes' \in 0..MaxCrashes
      BY <1>1, <1>5, HistoryRead, ConstantsAssumption DEF Crash, TypeOK
    <2>. QED
      BY <1>1, <1>5, <2>1, <2>2, AnswersKept DEF Crash, IInv, TypeOK
  <1>6. ASSUME NEW cm \in ConfigMaps, ChangeConfigMap(cm)
        PROVE  IInv'
    <2>1. /\ history' \in Seq(ConfigMaps \cup {InitConfigMap}) /\ history' # <<>>
          /\ Len(history') = Len(history) + 1 /\ Len(history') = changes' + 1
      BY <1>1, <1>6 DEF ChangeConfigMap, TypeOK
    <2>2. changes' \in 0..MaxChanges
      BY <1>1, <1>6, ConstantsAssumption DEF ChangeConfigMap, TypeOK
    <2>3. seen' \in [Replica -> 0..Len(history')]
      <3>1. seen' = seen
        BY <1>6 DEF ChangeConfigMap
      <3>. QED
        BY <1>1, <2>1, <3>1, HistoryRead DEF TypeOK
    <2>. QED
      BY <1>1, <1>6, <2>1, <2>2, <2>3, AnswersKept DEF ChangeConfigMap, IInv, TypeOK
  <1>7. ASSUME NEW q \in Request, NEW r \in Replica, NEW pod \in Pods, Admit(q, r, pod)
        PROVE  IInv'
    <2>1. IsPod(pod) /\ IsJVMConfig(config[r])
      BY <1>1, <1>7, ConstantsAssumption DEF Admit, TypeOK
    <2>2. answer' = [answer EXCEPT ![q] = mutatePod(pod, config[r], 1)] /\ 1 \in 1..2
      BY <1>7 DEF Admit
    <2>3. UNCHANGED <<history, config, exclusionRules, serving, seen, bounds>>
      BY <1>7 DEF Admit
    <2>. QED
      BY <1>7, <2>1, <2>2, <2>3, AnswerMade
  <1>8. ASSUME NEW q \in Request, NEW r \in Replica, Reinvoke(q, r)
        PROVE  IInv'
    <2>1. IsPod(answer[q].stored) /\ IsJVMConfig(config[r])
      BY <1>1, <1>8 DEF Reinvoke, TypeOK
    <2>2. answer' = [answer EXCEPT ![q] = mutatePod(answer[q].stored, config[r], 2)]
          /\ 2 \in 1..2
      BY <1>8 DEF Reinvoke
    <2>3. UNCHANGED <<history, config, exclusionRules, serving, seen, bounds>>
      BY <1>8 DEF Reinvoke
    <2>. DEFINE pod == answer[q].stored
                cfg == config[r]
    <2>. HIDE DEF pod, cfg
    <2>. QED
      BY <1>8, <2>1, <2>2, <2>3, AnswerMade DEF pod, cfg
  <1>9. CASE UNCHANGED vars
    BY <1>1, <1>9, AnswersKept DEF IInv, TypeOK, vars
  <1>. QED
    BY <1>2, <1>3, <1>4, <1>5, <1>6, <1>7, <1>8, <1>9 DEF Next

THEOREM Invariance == Spec => []IInv
  BY InitIInv, NextOK, PTL DEF Spec

\* The variables have their types: every number the admission stores is an
\* int32, and a Pod that is created is one the API server would store again.
THEOREM TypeCorrect == Spec => []TypeOK
  <1>1. IInv => TypeOK
    BY DEF IInv
  <1>. QED
    BY Invariance, <1>1, PTL

(***************************************************************************)
(* A request is refused only for a number that is out of range.            *)
(***************************************************************************)
\* Every port number is a positive int32, and the conventional port is one.
LEMMA PortBound ==
  /\ \A n \in 1..MaxPort : n \in Int32 /\ n > 0
  /\ 8080 \in 1..MaxPort
  <1>. DEFINE h == 2^(IntBits - 1)
  <1>1. MaxPort \in Int /\ 8080 <= MaxPort
    BY DEF MaxPort
  <1>2. h \in Nat /\ h > MaxPort /\ Int32 = -h .. h - 1
    BY PowersOfTwo DEF Int32
  <1>. HIDE DEF h
  <1>3. ASSUME NEW n \in 1..MaxPort
        PROVE  n \in Int32 /\ n > 0
    BY <1>1, <1>2
  <1>. QED
    BY <1>1, <1>3

LEMMA GoodNumber ==
  ASSUME NEW a, IsAnnotations(a), ~BadAnnotation(a), NEW key \in Numbers,
         NEW fallback \in Int
  PROVE  /\ fallback > 0 => getAnnotationInt(a, key, fallback) > 0
         /\ fallback >= 0 => getAnnotationInt(a, key, fallback) >= 0
         /\ key = "success-threshold" /\ fallback = 1 =>
              getAnnotationInt(a, key, fallback) = 1
         /\ key = "port" /\ fallback \in 1..MaxPort =>
              getAnnotationInt(a, key, fallback) \in 1..MaxPort
  <1>1. CASE Has(a, key) /\ a[key].text = "ok"
    <2>1. /\ key = "success-threshold" => a[key].value = 1
          /\ key = "port" => a[key].value \in 1..MaxPort
          /\ key \notin {"success-threshold", "port"} => a[key].value \in Positive
      <3>1. a[key].value \in InRange(key)
        BY <1>1 DEF BadAnnotation, Has
      <3>. QED
        BY <3>1 DEF InRange
    <2>2. 2^(IntBits - 1) \in Nat /\ 2^(IntBits - 1) > 65535
      BY PowersOfTwo DEF MaxPort
    <2>3. a[key].value \in Int32 /\ a[key].value > 0
      <3>1. CASE key = "success-threshold"
        BY <3>1, <2>1, <2>2 DEF Int32
      <3>2. CASE key = "port"
        BY <3>2, <2>1, PortBound
      <3>3. CASE key \notin {"success-threshold", "port"}
        BY <3>3, <2>1, <2>2 DEF Int32, Positive
      <3>. QED
        BY <3>1, <3>2, <3>3
    <2>4. getAnnotationInt(a, key, fallback) = a[key].value
      BY <1>1, <2>3, Wrapped DEF getAnnotationInt
    <2>5. a[key].value \in Int
      BY <2>3, Wrapped
    <2>. QED
      BY <2>1, <2>3, <2>4, <2>5
  <1>2. CASE ~(Has(a, key) /\ a[key].text = "ok")
    BY <1>2 DEF getAnnotationInt
  <1>. QED
    BY <1>1, <1>2

LEMMA EffectiveNumbers ==
  ASSUME NEW a, NEW overwrite \in SUBSET Kinds, NEW key \in Numbers
  PROVE  /\ Has(Effective(a, overwrite), key) <=> Has(a, key)
         /\ Has(a, key) => Effective(a, overwrite)[key] = a[key]
  BY KeysApart DEF Effective, Has

LEMMA EffectiveGood ==
  ASSUME NEW a, ~BadAnnotation(a), NEW overwrite \in SUBSET Kinds
  PROVE  ~BadAnnotation(Effective(a, overwrite))
  <1>. DEFINE e == Effective(a, overwrite)
  <1>1. \A key \in Numbers : /\ key \in DOMAIN e <=> key \in DOMAIN a
                             /\ key \in DOMAIN a => e[key] = a[key]
    BY EffectiveNumbers DEF Has
  <1>. HIDE DEF e
  <1>2. ~BadAnnotation(e)
    BY <1>1 DEF BadAnnotation
  <1>. QED
    BY <1>2 DEF e

LEMMA GoodConfig ==
  ASSUME NEW cfg, IsJVMConfig(cfg), ~BadConfig(cfg), NEW framework
  PROVE  LET fc == ConfigFor(framework, cfg)
         IN  fc.period > 0 /\ fc.failure > 0 /\ fc.success = 1 /\ fc.delay >= 0
  <1>1. \A f \in DOMAIN cfg.frameworks :
          /\ cfg.frameworks[f].period \in Positive /\ cfg.frameworks[f].failure \in Positive
          /\ cfg.frameworks[f].success = 1 /\ ~(cfg.frameworks[f].delay < 0)
    BY DEF BadConfig
  <1>2. \E f \in DOMAIN cfg.frameworks : ConfigFor(framework, cfg) = cfg.frameworks[f]
    BY DEF BadConfig, ConfigFor
  <1>3. 2^(IntBits - 1) \in Nat
    BY PowersOfTwo
  <1>4. ConfigFor(framework, cfg).delay \in Int
    BY ConfigTyped, Wrapped DEF FrameworkConfig
  <1>. QED
    BY <1>1, <1>2, <1>3, <1>4 DEF Positive

LEMMA GoodPort ==
  ASSUME NEW c \in Container, \A j \in DOMAIN c.ports : c.ports[j].number \in 1..MaxPort,
         NEW a, IsAnnotations(a), ~BadAnnotation(a)
  PROVE  TargetPort(c, a).name = Empty => TargetPort(c, a).number \in 1..MaxPort
  <1>. DEFINE port == detectContainerPort(c)
  <1>1. port.number \in 1..MaxPort
    <2>1. CASE \E j \in DOMAIN c.ports :
                 \/ port = c.ports[j]
                 \/ port = [name |-> Empty, number |-> c.ports[j].number]
      <3>. HIDE DEF port
      <3>. QED
        BY <2>1
    <2>2. CASE port = [name |-> Empty, number |-> 8080]
      <3>1. port.number = 8080
        BY <2>2
      <3>. QED
        BY <3>1, PortBound
    <2>. QED
      BY <2>1, <2>2, PortDetected
  <1>2. port.number \in Int
    BY PortTyped DEF PortRef
  <1>. HIDE DEF port
  <1>3. "port" \in Numbers
    BY DEF Numbers
  <1>4. getAnnotationInt(a, "port", port.number) \in 1..MaxPort
    BY <1>1, <1>2, <1>3, GoodNumber
  <1>. QED
    BY <1>1, <1>4 DEF TargetPort, Targeted, port

\* What BuildProbe builds from good numbers is valid, whatever its kind.
LEMMA BuiltValid ==
  ASSUME NEW kind \in Kinds, NEW k \in Kinds, NEW framework, NEW c, ValidContainer(c),
         NEW a, IsAnnotations(a), ~BadAnnotation(a),
         NEW cfg, IsJVMConfig(cfg), ~BadConfig(cfg)
  PROVE  ValidProbe(k, BuildProbe(kind, framework, c, a, cfg))
  <1>. DEFINE fc == ConfigFor(framework, cfg)
              p == BuildProbe(kind, framework, c, a, cfg)
  <1>1. c \in Container /\ \A j \in DOMAIN c.ports : c.ports[j].number \in 1..MaxPort
    BY DEF ValidContainer
  <1>2. /\ fc.period > 0 /\ fc.failure > 0 /\ fc.success = 1 /\ fc.delay >= 0
        /\ fc.period \in Int /\ fc.failure \in Int /\ fc.success \in Int /\ fc.delay \in Int
    BY GoodConfig, ConfigTyped, Wrapped DEF FrameworkConfig
  <1>3. {"initial-delay", "period", "failure-threshold", "success-threshold"} \subseteq Numbers
    BY DEF Numbers
  <1>4. BuiltSuccess(framework, a, cfg) = 1
    <2>. HIDE DEF fc
    <2>1. getAnnotationInt(a, "success-threshold", fc.success) = 1
      BY <1>2, <1>3, GoodNumber
    <2>. QED
      BY <2>1 DEF BuiltSuccess, fc
  <1>5. LET h == BuiltHandler(kind, framework, c, a, cfg)
        IN  h.port.name = Empty => h.port.number \in 1..MaxPort
    BY <1>1, GoodPort DEF BuiltHandler
  <1>. HIDE DEF fc
  <1>6. /\ getAnnotationInt(a, "initial-delay", fc.delay) >= 0
        /\ getAnnotationInt(a, "period", fc.period) > 0
        /\ getAnnotationInt(a, "failure-threshold", fc.failure) > 0
    BY <1>2, <1>3, GoodNumber
  <1>7. \/ p = Nil
        \/ p = [handler |-> BuiltHandler(kind, framework, c, a, cfg),
                delay   |-> getAnnotationInt(a, "initial-delay", fc.delay),
                period  |-> getAnnotationInt(a, "period", fc.period),
                failure |-> getAnnotationInt(a, "failure-threshold", fc.failure),
                success |-> BuiltSuccess(framework, a, cfg)]
    BY Built DEF BuiltProbe, fc
  <1>. HIDE DEF p
  <1>8. ValidProbe(k, p)
    BY <1>4, <1>5, <1>6, <1>7 DEF ValidProbe
  <1>. QED
    BY <1>8 DEF p

\* Every probe along the way is valid.
LEMMA PiecesValid ==
  ASSUME NEW kind \in Kinds, NEW f, NEW c, ValidContainer(c),
         NEW a, IsAnnotations(a), ~BadAnnotation(a),
         NEW cfg, IsJVMConfig(cfg), ~BadConfig(cfg)
  PROVE  /\ ValidProbe(kind, Placed(kind, f, c, a, cfg))
         /\ Source(f, c, a, cfg) # Nil =>
              \E k \in Kinds : ValidProbe(k, Source(f, c, a, cfg))
  <1>1. c \in Container /\ \A k \in Kinds : ValidProbe(k, c[k])
    BY DEF ValidContainer
  <1>2. Overwritten(a) \in SUBSET Kinds
    BY DEF Overwritten
  <1>3. \A k \in Kinds : ValidProbe(k, NewProbe(k, f, c, a, cfg))
    BY <1>2, EffectiveTyped, EffectiveGood, BuiltValid DEF NewProbe
  <1>4. ValidProbe(kind, Placed(kind, f, c, a, cfg))
    <2>1. ~Missing(kind, c[kind], Overwritten(a)) =>
            ValidProbe(kind, [c[kind] EXCEPT !.delay = 0])
      <3>1. ~Missing(kind, c[kind], Overwritten(a)) => c[kind] \in Probe
        BY <1>1, ContainerProbes DEF Missing
      <3>2. c[kind] \in Probe => c[kind] # Nil
        BY NilAssumption
      <3>. QED
        BY <1>1, <3>1, <3>2 DEF ValidProbe, Probe
    <2>. QED
      BY <1>1, <1>3, <2>1 DEF Placed
  <1>5. \A k \in Kinds : ValidProbe(k, Work(k, f, c, a, cfg))
    BY <1>1, <1>3 DEF Work, Working
  <1>6. Source(f, c, a, cfg) # Nil => \E k \in Kinds : ValidProbe(k, Source(f, c, a, cfg))
    <2>1. {"liveness", "readiness", "startup"} \subseteq Kinds
      BY DEF Kinds
    <2>2. ValidProbe("startup", BuildProbe("startup", f, c, a, cfg))
      BY <2>1, BuiltValid
    <2>3. /\ ValidProbe("liveness", Work("liveness", f, c, a, cfg))
          /\ ValidProbe("readiness", Work("readiness", f, c, a, cfg))
      BY <2>1, <1>5
    <2>. QED
      BY <2>1, <2>2, <2>3 DEF Source, StartupSource
  <1>. QED
    BY <1>4, <1>6

\* What is placed, aligned and tuned is valid, and alignment never finds a
\* threshold that JSON leaves out.
LEMMA FinalValid ==
  ASSUME NEW kind \in Kinds, NEW f, NEW c, ValidContainer(c),
         NEW a, IsAnnotations(a), ~BadAnnotation(a),
         NEW cfg, IsJVMConfig(cfg), ~BadConfig(cfg)
  PROVE  /\ ~Stuck(kind, f, c, a, cfg)
         /\ ValidProbe(kind, Final(kind, f, c, a, cfg))
         /\ ValidProbe("startup", FinalStartup(f, c, a, cfg))
  <1>1. c \in Container /\ \A k \in Kinds : ValidProbe(k, c[k])
    BY DEF ValidContainer
  <1>2. ValidProbe(kind, Placed(kind, f, c, a, cfg))
    BY PiecesValid
  <1>3. ASSUME NEW p \in Probe, NEW w \in Probe, w = p \/ w = [p EXCEPT !.delay = 0],
               ValidProbe(kind, p)
        PROVE  w.failure > 0 /\ ValidProbe(kind, Lengthened(p, w, cfg))
    <2>1. /\ p.delay >= 0 /\ p.period > 0 /\ p.failure > 0 /\ p.success > 0
          /\ kind # "readiness" => p.success = 1
          /\ p.handler.kind # "exec" /\ p.handler.port.name = Empty =>
               p.handler.port.number \in 1..MaxPort
      BY <1>3, NilAssumption DEF ValidProbe
    <2>2. w.failure = p.failure /\ w.period = p.period
      BY <1>3 DEF Probe
    <2>3. /\ w.failure \in Int /\ w.period \in Int /\ cfg.maxFailure \in Int
          /\ cfg.minWindow \in Int
      BY <1>3, Wrapped DEF Probe, IsJVMConfig
    <2>4. cfg.maxFailure > 0
      BY <2>3 DEF BadConfig
    <2>5. w.failure > 0 /\ w.period > 0
      BY <2>1, <2>2
    <2>6. AlignedFailure(w, cfg) > 0
      <3>1. CeilDiv(cfg.minWindow, w.period) \in Int
        BY <2>3, <2>5 DEF CeilDiv
      <3>. QED
        BY <3>1, <2>3, <2>4, <2>5 DEF AlignedFailure
    <2>. DEFINE d == IF w.delay > 0 THEN 0 ELSE p.delay
                n == IF TooShort(w, cfg) THEN AlignedFailure(w, cfg) ELSE p.failure
    <2>7. Lengthened(p, w, cfg) = [p EXCEPT !.delay = d, !.failure = n]
      BY DEF Lengthened
    <2>8. d >= 0 /\ n > 0
      BY <2>1, <2>6
    <2>. HIDE DEF d, n
    <2>9. ValidProbe(kind, [p EXCEPT !.delay = d, !.failure = n])
      BY <2>1, <2>8 DEF ValidProbe, Probe
    <2>. QED
      BY <2>5, <2>7, <2>9
  <1>4. ~Stuck(kind, f, c, a, cfg) /\ ValidProbe(kind, Final(kind, f, c, a, cfg))
    <2>1. CASE Aligns(kind, f, c, a, cfg)
      <3>. DEFINE p == Placed(kind, f, c, a, cfg)
                  w == Copy(kind, f, c, a, cfg)
      <3>1. p \in Probe /\ w \in Probe /\ (w = p \/ w = [p EXCEPT !.delay = 0])
        BY <2>1, <1>1, PlacedTyped DEF Aligns
      <3>. HIDE DEF p, w
      <3>2. w.failure > 0 /\ ValidProbe(kind, Lengthened(p, w, cfg))
        BY <3>1, <1>2, <1>3 DEF p
      <3>. QED
        BY <2>1, <3>2 DEF Stuck, Final, p, w
    <2>2. CASE ~Aligns(kind, f, c, a, cfg)
      BY <2>2, <1>2 DEF Stuck, Final
    <2>. QED
      BY <2>1, <2>2
  <1>5. ValidProbe("startup", FinalStartup(f, c, a, cfg))
    <2>1. "startup" \in Kinds /\ {"startup-period", "startup-failure-threshold"} \subseteq Numbers
      BY DEF Kinds, Numbers
    <2>2. CASE Injected(f, c, a, cfg)
      <3>. DEFINE s == Source(f, c, a, cfg)
                  period == getAnnotationInt(a, "startup-period", 15)
                  failure == getAnnotationInt(a, "startup-failure-threshold", 40)
      <3>1. s \in Probe
        BY <1>1, <2>2, PiecesTyped DEF Injected
      <3>2. PICK k \in Kinds : ValidProbe(k, s)
        BY <2>2, PiecesValid DEF Injected
      <3>3. period > 0 /\ failure > 0
        BY <2>1, GoodNumber
      <3>. HIDE DEF s, period, failure
      <3>4. ValidProbe("startup", tuneStartupProbe(s, period, failure))
        BY <3>1, <3>2, <3>3, NilAssumption DEF ValidProbe, Probe, tuneStartupProbe
      <3>. QED
        BY <2>2, <3>4 DEF FinalStartup, Tuned, s, period, failure
    <2>3. CASE ~Injected(f, c, a, cfg)
      BY <1>1, <2>1, <2>3 DEF FinalStartup
    <2>. QED
      BY <2>2, <2>3
  <1>. QED
    BY <1>4, <1>5

LEMMA OutcomeValid ==
  ASSUME NEW c, ValidContainer(c), NEW a, IsAnnotations(a), ~BadAnnotation(a),
         NEW cfg, IsJVMConfig(cfg), ~BadConfig(cfg)
  PROVE  /\ Outcome(c, a, cfg) # Nil
         /\ \A kind \in Kinds : ValidProbe(kind, Defaulted(Outcome(c, a, cfg))[kind])
  <1>. DEFINE new == Outcome(c, a, cfg)
              f == FrameworkOf(c, a)
  <1>1. c \in Container /\ \A k \in Kinds : ValidProbe(k, c[k])
    BY DEF ValidContainer
  <1>2. {"liveness", "readiness", "startup"} = Kinds
    BY DEF Kinds
  <1>3. new # Nil /\ new \in Container /\ \A k \in Kinds : ValidProbe(k, new[k])
    <2>1. CASE LeftAlone(c, a, cfg)
      BY <1>1, <2>1, NilAssumption DEF Outcome
    <2>2. CASE ~LeftAlone(c, a, cfg)
      <3>1. new = Result(f, c, a, cfg)
        BY <2>2 DEF Outcome
      <3>. HIDE DEF f
      <3>2. ~Stuck("liveness", f, c, a, cfg) /\ ~Stuck("readiness", f, c, a, cfg)
        BY <1>2, FinalValid
      <3>3. Result(f, c, a, cfg) =
              [c EXCEPT !["liveness"]  = Final("liveness", f, c, a, cfg),
                        !["readiness"] = Final("readiness", f, c, a, cfg),
                        !["startup"]   = FinalStartup(f, c, a, cfg)]
        BY <3>2 DEF Result
      <3>4. /\ Final("liveness", f, c, a, cfg) \in {Nil} \cup Probe
            /\ Final("readiness", f, c, a, cfg) \in {Nil} \cup Probe
            /\ FinalStartup(f, c, a, cfg) \in {Nil} \cup Probe
        BY <1>1, <1>2, FinalTyped
      <3>5. Result(f, c, a, cfg) \in Container
        BY <1>1, <3>3, <3>4 DEF Container
      <3>6. Result(f, c, a, cfg) # Nil
        BY <3>5, NilAssumption
      <3>7. /\ Result(f, c, a, cfg)["liveness"]  = Final("liveness", f, c, a, cfg)
            /\ Result(f, c, a, cfg)["readiness"] = Final("readiness", f, c, a, cfg)
            /\ Result(f, c, a, cfg)["startup"]   = FinalStartup(f, c, a, cfg)
        BY <1>1, <3>6, ResultTyped
      <3>8. /\ ValidProbe("liveness", Final("liveness", f, c, a, cfg))
            /\ ValidProbe("readiness", Final("readiness", f, c, a, cfg))
            /\ ValidProbe("startup", FinalStartup(f, c, a, cfg))
        BY <1>2, FinalValid
      <3>. QED
        BY <1>2, <3>1, <3>5, <3>6, <3>7, <3>8
    <2>. QED
      BY <2>1, <2>2
  <1>. HIDE DEF new
  <1>4. ASSUME NEW kind \in Kinds
        PROVE  ValidProbe(kind, Defaulted(new)[kind])
    <2>1. Defaulted(new)[kind] = WithDefaults(new[kind]) /\ new[kind] \in {Nil} \cup Probe
      BY <1>3, ContainerDefaults, ContainerProbes
    <2>2. ValidProbe(kind, new[kind])
      BY <1>3
    <2>. DEFINE p == new[kind]
    <2>. HIDE DEF p
    <2>3. ValidProbe(kind, WithDefaults(p))
      <3>1. CASE p = Nil
        BY <3>1 DEF WithDefaults, ValidProbe
      <3>2. CASE p # Nil
        BY <3>2, <2>1, <2>2, ProbeDefaults DEF p, ValidProbe, Or
      <3>. QED
        BY <3>1, <3>2
    <2>. QED
      BY <2>1, <2>3 DEF p
  <1>. QED
    BY <1>3, <1>4 DEF new

\* Where the patch adds the managed annotation to a map there is a map.
LEMMA ManagedKey ==
  ASSUME NEW pod, NEW cfg, buildPodProbePatches(pod, cfg).managed = "key"
  PROVE  DOMAIN pod.annotations # {}
  BY DEF buildPodProbePatches, NoPatch

\* "We never block Pod creation": a request is refused only when a number in
\* an annotation or in the configuration is itself out of range.
THEOREM OnlyBadNumbersBlock == Spec => []BlockedOnlyByBadNumbers
  <1>1. IInv => BlockedOnlyByBadNumbers
    <2>. SUFFICES ASSUME IInv, NEW q \in Request, answer[q].calls > 0, ~answer[q].created,
                         ~BadAnnotation(answer[q].pod.annotations),
                         ~BadConfig(answer[q].cfg)
                  PROVE  FALSE
      BY DEF BlockedOnlyByBadNumbers
    <2>. DEFINE pod == answer[q].pod
                cfg == answer[q].cfg
                patch == buildPodProbePatches(pod, cfg)
    <2>1. /\ IsPod(pod) /\ IsJVMConfig(cfg) /\ answer[q].calls \in 1..2
          /\ answer[q] = mutatePod(pod, cfg, answer[q].calls)
      BY DEF IInv, TypeOK, AnswerOK
    <2>. HIDE DEF pod, cfg
    <2>2. Refused(pod, patch)
      BY <2>1, AnswerTyped
    <2>3. /\ IsAnnotations(pod.annotations)
          /\ \A i \in DOMAIN pod.containers : ValidContainer(pod.containers[i])
      BY <2>1 DEF IsPod
    <2>4. ~BadAnnotation(pod.annotations) /\ ~BadConfig(cfg)
      BY DEF pod, cfg
    <2>5. \A i \in DOMAIN pod.containers :
            LET new == Outcome(pod.containers[i], pod.annotations, cfg)
            IN  new # Nil /\ \A kind \in Kinds : ValidProbe(kind, Defaulted(new)[kind])
      BY <2>1, <2>3, <2>4, OutcomeValid
    <2>6. Patched(pod, patch) =
            [i \in DOMAIN pod.containers |->
               Outcome(pod.containers[i], pod.annotations, cfg)]
      BY <2>1, PodPatched
    <2>7. patch.managed = "key" => DOMAIN pod.annotations # {}
      BY ManagedKey
    <2>. HIDE DEF patch
    <2>. QED
      BY <2>2, <2>5, <2>6, <2>7 DEF Refused
  <1>. QED
    BY Invariance, <1>1, PTL

(***************************************************************************)
(* The ports probes target.                                                *)
(***************************************************************************)
OwnHandlers(c) == {c[kind].handler : kind \in {k \in Kinds : c[k] # Nil}}

\* The handler is the container's own, or targets the port that is detected.
Stems(p, c, a) ==
  p = Nil \/ p.handler \in OwnHandlers(c) \/ p.handler.port = TargetPort(c, a)

LEMMA PiecesStem ==
  ASSUME NEW kind \in Kinds, NEW f, NEW c \in Container,
         NEW a, IsAnnotations(a), NEW cfg, IsJVMConfig(cfg)
  PROVE  /\ Stems(Final(kind, f, c, a, cfg), c, a)
         /\ Stems(FinalStartup(f, c, a, cfg), c, a)
  <1>1. Overwritten(a) \in SUBSET Kinds /\ "port" \in Numbers
    BY DEF Overwritten, Numbers
  <1>2. TargetPort(c, Effective(a, Overwritten(a))) = TargetPort(c, a)
    BY <1>1, EffectiveNumbers DEF TargetPort, Targeted, getAnnotationInt
  <1>3. \A k, b : Stems(BuildProbe(k, f, c, b, cfg), c, b)
    <2>. TAKE k, b
    <2>1. \A p : p.handler = BuiltHandler(k, f, c, b, cfg) => p.handler.port = TargetPort(c, b)
      BY DEF BuiltHandler
    <2>2. BuiltProbe(k, f, c, b, cfg).handler = BuiltHandler(k, f, c, b, cfg)
      BY DEF BuiltProbe
    <2>. QED
      BY <2>1, <2>2, Built DEF Stems
  <1>4. \A k \in Kinds : Stems(NewProbe(k, f, c, a, cfg), c, a)
    BY <1>2, <1>3 DEF NewProbe, Stems
  <1>5. \A k \in Kinds : c[k] = Nil \/ c[k].handler \in OwnHandlers(c)
    BY DEF OwnHandlers
  <1>6. \A k \in Kinds : c[k] \in {Nil} \cup Probe
    BY ContainerProbes
  <1>7. \A k \in Kinds : /\ Stems(Work(k, f, c, a, cfg), c, a)
                         /\ Stems(Placed(k, f, c, a, cfg), c, a)
    <2>. TAKE k \in Kinds
    <2>1. Stems(Work(k, f, c, a, cfg), c, a)
      BY <1>4, <1>5 DEF Work, Working, Stems
    <2>2. Stems(c[k], c, a)
      BY <1>5 DEF Stems
    <2>3. c[k] \in Probe => [c[k] EXCEPT !.delay = 0].handler = c[k].handler
      BY DEF Probe
    <2>4. ~Missing(k, c[k], Overwritten(a)) => Stems([c[k] EXCEPT !.delay = 0], c, a)
      BY <1>5, <1>6, <2>3 DEF Missing, Stems
    <2>5. Stems(Placed(k, f, c, a, cfg), c, a)
      BY <1>4, <2>2, <2>4 DEF Placed
    <2>. QED
      BY <2>1, <2>5
  <1>8. \A p \in Probe : \A w : Lengthened(p, w, cfg).handler = p.handler
    BY DEF Lengthened, Probe
  <1>9. Stems(Final(kind, f, c, a, cfg), c, a)
    <2>1. CASE Aligns(kind, f, c, a, cfg)
      <3>1. Placed(kind, f, c, a, cfg) \in Probe
        BY <2>1, PlacedTyped DEF Aligns
      <3>2. Placed(kind, f, c, a, cfg) # Nil
        BY <3>1, NilAssumption
      <3>3. Final(kind, f, c, a, cfg).handler = Placed(kind, f, c, a, cfg).handler
        BY <2>1, <3>1, <1>8 DEF Final
      <3>. QED
        BY <3>2, <3>3, <1>7 DEF Stems
    <2>2. CASE ~Aligns(kind, f, c, a, cfg)
      BY <2>2, <1>7 DEF Final
    <2>. QED
      BY <2>1, <2>2
  <1>10. Stems(FinalStartup(f, c, a, cfg), c, a)
    <2>1. {"liveness", "readiness", "startup"} \subseteq Kinds
      BY DEF Kinds
    <2>2. CASE Injected(f, c, a, cfg)
      <3>1. Source(f, c, a, cfg) \in Probe
        BY <2>2, PiecesTyped DEF Injected
      <3>2. Stems(BuildProbe("startup", f, c, a, cfg), c, a)
        BY <1>3
      <3>3. /\ Stems(Work("liveness", f, c, a, cfg), c, a)
            /\ Stems(Work("readiness", f, c, a, cfg), c, a)
        BY <1>7, <2>1
      <3>4. Stems(Source(f, c, a, cfg), c, a) /\ Source(f, c, a, cfg) # Nil
        BY <2>2, <3>2, <3>3 DEF Source, StartupSource, Injected
      <3>5. Tuned(f, c, a, cfg).handler = Source(f, c, a, cfg).handler
        BY <3>1 DEF Tuned, tuneStartupProbe, Probe
      <3>. QED
        BY <2>2, <3>4, <3>5 DEF FinalStartup, Stems
    <2>3. CASE ~Injected(f, c, a, cfg)
      BY <1>5, <2>1, <2>3 DEF FinalStartup, Stems
    <2>. QED
      BY <2>2, <2>3
  <1>. QED
    BY <1>9, <1>10

LEMMA PortDeclared ==
  ASSUME NEW c \in Container, NEW a, ~Has(a, "port")
  PROVE  LET port == TargetPort(c, a)
         IN  \/ \E j \in DOMAIN c.ports :
                  IF port.name # Empty THEN c.ports[j].name = port.name
                  ELSE c.ports[j].number = port.number
             \/ c.ports = <<>>
  <1>. DEFINE port == detectContainerPort(c)
  <1>1. TargetPort(c, a) = IF port.name # Empty THEN [name |-> port.name, number |-> 0]
                           ELSE port
    BY DEF TargetPort, Targeted
  <1>2. \/ \E j \in DOMAIN c.ports :
             \/ port = c.ports[j]
             \/ port = [name |-> Empty, number |-> c.ports[j].number]
        \/ c.ports = <<>>
    BY PortDetected
  <1>. HIDE DEF port
  <1>. QED
    BY <1>1, <1>2

\* "The controller never fabricates probes against an unknown listener."
THEOREM PortsDeclared == Spec => []TargetsDeclaredPorts
  <1>1. ASSUME IInv, NEW q \in Request, answer[q].created,
               NEW i \in DOMAIN answer[q].pod.containers, NEW kind \in Kinds
        PROVE  LET a == answer[q].pod.annotations
                   c == answer[q].pod.containers[i]
                   p == answer[q].stored.containers[i][kind]
               IN  \/ p = Nil
                   \/ p.handler \in OwnHandlers(c)
                   \/ Has(a, "port")
                   \/ \E j \in DOMAIN c.ports :
                        IF p.handler.port.name # Empty
                        THEN c.ports[j].name = p.handler.port.name
                        ELSE c.ports[j].number = p.handler.port.number
                   \/ c.ports = <<>> /\ FrameworkOf(c, a) # "generic"
    <2>. DEFINE pod == answer[q].pod
                cfg == answer[q].cfg
                a == pod.annotations
                c == pod.containers[i]
                f == FrameworkOf(c, a)
                new == Outcome(c, a, cfg)
                p == answer[q].stored.containers[i][kind]
    <2>1. /\ IsPod(pod) /\ IsJVMConfig(cfg) /\ answer[q].calls \in 1..2
          /\ answer[q] = mutatePod(pod, cfg, answer[q].calls)
      BY <1>1 DEF IInv, TypeOK, AnswerOK, NoAnswer
    <2>2. IsAnnotations(a) /\ ValidContainer(c) /\ c \in Container
      BY <2>1 DEF IsPod, ValidContainer
    <2>. HIDE DEF pod, cfg
    <2>3. /\ ~Refused(pod, buildPodProbePatches(pod, cfg))
          /\ answer[q].stored = Stored(pod, buildPodProbePatches(pod, cfg))
      BY <1>1, <2>1, AnswerTyped
    <2>4. new \in Container /\ answer[q].stored.containers[i] = Defaulted(new)
      <3>1. i \in DOMAIN pod.containers
        BY DEF pod
      <3>2. /\ Stored(pod, buildPodProbePatches(pod, cfg)).containers =
                 [j \in DOMAIN pod.containers |->
                    Defaulted(Outcome(pod.containers[j], pod.annotations, cfg))]
            /\ \A j \in DOMAIN pod.containers :
                 Outcome(pod.containers[j], pod.annotations, cfg) \in Container
        BY <2>1, <2>3, StoredIsPod
      <3>3. /\ Stored(pod, buildPodProbePatches(pod, cfg)).containers[i] =
                 Defaulted(Outcome(pod.containers[i], pod.annotations, cfg))
            /\ Outcome(pod.containers[i], pod.annotations, cfg) \in Container
        BY <3>1, <3>2
      <3>. QED
        BY <2>3, <3>3
    <2>. HIDE DEF a, c, f, new
    <2>5. p = WithDefaults(new[kind]) /\ new[kind] \in {Nil} \cup Probe
      BY <2>4, ContainerDefaults, ContainerProbes
    <2>6. CASE LeftAlone(c, a, cfg)
      <3>1. new = c
        BY <2>6 DEF Outcome, new
      <3>2. Defaulted(c) = c
        BY <2>2 DEF ValidContainer
      <3>3. p = c[kind]
        BY <2>4, <3>1, <3>2
      <3>4. p = Nil \/ p.handler \in OwnHandlers(c)
        BY <3>3 DEF OwnHandlers
      <3>. QED
        BY <3>4 DEF a, c, pod
    <2>7. CASE ~LeftAlone(c, a, cfg)
      <3>1. new = Result(f, c, a, cfg) /\ ~Skips(f, c) /\ new # Nil
        BY <2>4, <2>7, NilAssumption DEF Outcome, LeftAlone, new, f
      <3>2. /\ new["liveness"]  = Final("liveness", f, c, a, cfg)
            /\ new["readiness"] = Final("readiness", f, c, a, cfg)
            /\ new["startup"]   = FinalStartup(f, c, a, cfg)
        BY <2>1, <2>2, <3>1, ResultTyped
      <3>3. Stems(new[kind], c, a)
        <4>1. kind \in {"liveness", "readiness", "startup"}
          BY DEF Kinds
        <4>. QED
          BY <2>1, <2>2, <3>2, <4>1, PiecesStem
      <3>4. Stems(p, c, a)
        BY <2>5, <3>3, ProbeDefaults DEF Stems
      <3>5. ~Has(a, "port") =>
              LET port == TargetPort(c, a)
              IN  \/ \E j \in DOMAIN c.ports :
                       IF port.name # Empty THEN c.ports[j].name = port.name
                       ELSE c.ports[j].number = port.number
                  \/ c.ports = <<>>
        BY <2>2, PortDeclared
      <3>6. c.ports = <<>> => f # "generic"
        BY <3>1 DEF Skips
      <3>7. \/ p = Nil
            \/ p.handler \in OwnHandlers(c)
            \/ Has(a, "port")
            \/ \E j \in DOMAIN c.ports :
                 IF p.handler.port.name # Empty
                 THEN c.ports[j].name = p.handler.port.name
                 ELSE c.ports[j].number = p.handler.port.number
            \/ c.ports = <<>> /\ f # "generic"
        BY <3>4, <3>5, <3>6 DEF Stems
      <3>. QED
        BY <3>7 DEF a, c, f, pod
    <2>. QED
      BY <2>6, <2>7
  <1>2. IInv => TargetsDeclaredPorts
    BY <1>1 DEF TargetsDeclaredPorts, OwnHandlers
  <1>. QED
    BY Invariance, <1>2, PTL

(***************************************************************************)
(* A second call.                                                          *)
(***************************************************************************)
LEMMA NoneOverwritten ==
  ASSUME NEW a, IsAnnotations(a), NoOverwrite(a)
  PROVE  /\ Overwritten(a) = {}
         /\ Effective(a, Overwritten(a)) = a
         /\ \A kind \in Kinds : \A own : Missing(kind, own, Overwritten(a)) <=> own = Nil
  <1>1. Overwritten(a) = {}
    BY DEF NoOverwrite, Overwritten
  <1>2. Effective(a, {}) = [key \in DOMAIN a |-> a[key]]
    BY DEF Effective
  <1>. QED
    BY <1>1, <1>2 DEF IsAnnotations, Missing

\* Without overwrite annotations, what exists keeps its handler and period, and
\* a startup probe stays as it is.
LEMMA ProbesKept ==
  ASSUME NEW c, ValidContainer(c), NEW a, IsAnnotations(a), NoOverwrite(a),
         NEW cfg, IsJVMConfig(cfg), Outcome(c, a, cfg) # Nil,
         NEW kind \in Kinds, c[kind] # Nil
  PROVE  LET p == Defaulted(Outcome(c, a, cfg))[kind]
         IN  /\ p.handler = c[kind].handler
             /\ p.period = c[kind].period
             /\ kind = "startup" => p = c[kind]
  <1>. DEFINE new == Outcome(c, a, cfg)
              f == FrameworkOf(c, a)
  <1>1. /\ c \in Container /\ Defaulted(c) = c
        /\ c[kind] \in Probe /\ c[kind].period > 0 /\ c[kind].period \in Int
    <2>1. c \in Container /\ ValidProbe(kind, c[kind]) /\ Defaulted(c) = c
      BY DEF ValidContainer
    <2>2. c[kind] \in Probe
      BY <2>1, ContainerProbes
    <2>. QED
      BY <2>1, <2>2, Wrapped DEF ValidProbe, Probe
  <1>2. CASE LeftAlone(c, a, cfg)
    <2>1. new = c
      BY <1>2 DEF Outcome
    <2>. QED
      BY <1>1, <2>1
  <1>3. CASE ~LeftAlone(c, a, cfg)
    <2>1. new = Result(f, c, a, cfg) /\ new # Nil
      BY <1>3 DEF Outcome
    <2>. HIDE DEF f, new
    <2>2. /\ new \in Container
          /\ new["liveness"]  = Final("liveness", f, c, a, cfg)
          /\ new["readiness"] = Final("readiness", f, c, a, cfg)
          /\ new["startup"]   = FinalStartup(f, c, a, cfg)
      BY <1>1, <2>1, ResultTyped
    <2>3. Defaulted(new)[kind] = WithDefaults(new[kind]) /\ new[kind] \in {Nil} \cup Probe
      BY <2>2, ContainerDefaults, ContainerProbes
    <2>4. CASE kind = "startup"
      <3>1. ~Injected(f, c, a, cfg)
        <4>1. c.startup = c["startup"] /\ c.startup # Nil /\ "startup" \in Kinds
          BY <2>4 DEF Kinds
        <4>. QED
          BY <4>1, NoneOverwritten DEF Injected
      <3>2. new["startup"] = c["startup"]
        BY <2>2, <3>1 DEF FinalStartup
      <3>3. WithDefaults(c[kind]) = c[kind]
        BY <1>1, ContainerDefaults
      <3>4. Defaulted(new)[kind] = c[kind]
        BY <2>3, <2>4, <3>2, <3>3
      <3>. QED
        BY <3>4 DEF new
    <2>5. CASE kind # "startup"
      <3>1. new[kind] = Final(kind, f, c, a, cfg)
        <4>1. kind \in {"liveness", "readiness"}
          BY <2>5 DEF Kinds
        <4>. QED
          BY <2>2, <4>1
      <3>2. LET p == Placed(kind, f, c, a, cfg)
            IN  p \in Probe /\ p.handler = c[kind].handler /\ p.period = c[kind].period
        <4>1. Placed(kind, f, c, a, cfg) =
                IF Clears(a) THEN [c[kind] EXCEPT !.delay = 0] ELSE c[kind]
          BY NoneOverwritten DEF Placed
        <4>2. 0 \in Int32
          BY Wrapped
        <4>. QED
          BY <1>1, <4>1, <4>2 DEF Probe
      <3>3. \A p \in Probe : \A w :
              /\ Lengthened(p, w, cfg).handler = p.handler
              /\ Lengthened(p, w, cfg).period = p.period
        BY DEF Lengthened, Probe
      <3>4. new[kind].handler = c[kind].handler /\ new[kind].period = c[kind].period
        BY <3>1, <3>2, <3>3 DEF Final
      <3>5. new[kind] # Nil
        <4>1. Placed(kind, f, c, a, cfg) # Nil
          BY <3>2, NilAssumption
        <4>2. Final(kind, f, c, a, cfg) \in Probe
          BY <1>1, <4>1, FinalTyped
        <4>. QED
          BY <3>1, <4>2, NilAssumption
      <3>6. /\ Defaulted(new)[kind].handler = c[kind].handler
            /\ Defaulted(new)[kind].period = c[kind].period
        BY <1>1, <2>3, <3>4, <3>5, ProbeDefaults DEF Or
      <3>. QED
        BY <2>5, <3>6 DEF new
    <2>. QED
      BY <2>4, <2>5
  <1>. QED
    BY <1>2, <1>3

\* Two maps of annotations that differ at most in the managed annotation.
Agree(a, b) ==
  \A key : key # "managed" =>
    /\ Has(a, key) <=> Has(b, key)
    /\ Has(a, key) => a[key] = b[key]

LEMMA AgreeDecides ==
  ASSUME NEW a, NEW b, Agree(a, b), NEW cfg
  PROVE  /\ NoOverwrite(a) <=> NoOverwrite(b)
         /\ IsBypassAnnotation(a) <=> IsBypassAnnotation(b)
         /\ shouldInjectStartup(a, cfg) = shouldInjectStartup(b, cfg)
         /\ GetFrameworkOverride(a) = GetFrameworkOverride(b)
         /\ \A kind \in Kinds : Injects(kind, a, cfg) = Injects(kind, b, cfg)
         /\ \A kind \in Kinds : \A fc : PathOf(kind, fc, a) = PathOf(kind, fc, b)
  <1>1. \A key : key # "managed" => (Flag(a, key) <=> Flag(b, key))
    BY DEF Agree, Flag
  <1>2. \A key, v : key # "managed" => getAnnotation(a, key, v) = getAnnotation(b, key, v)
    BY DEF Agree, getAnnotation
  <1>3. \A key, v : key # "managed" => getAnnotationBool(a, key, v) = getAnnotationBool(b, key, v)
    BY Zenon DEF Agree, getAnnotationBool
  <1>4. \A kind \in Kinds : InjectKey[kind] # "managed" /\ OverwriteKey[kind] # "managed"
    BY DEF Kinds, InjectKey, OverwriteKey
  <1>5. NoOverwrite(a) <=> NoOverwrite(b)
    <2>1. \A kind \in Kinds : ShouldOverwrite(a, kind) <=> ShouldOverwrite(b, kind)
      BY <1>1, <1>4 DEF ShouldOverwrite
    <2>. QED
      BY <2>1, Zenon DEF NoOverwrite
  <1>6. IsBypassAnnotation(a) <=> IsBypassAnnotation(b)
    BY DEF IsBypassAnnotation, Agree
  <1>7. shouldInjectStartup(a, cfg) = shouldInjectStartup(b, cfg)
    <2>1. /\ Has(a, "inject-startup") <=> Has(b, "inject-startup")
          /\ Has(a, "inject-startup") => a["inject-startup"] = b["inject-startup"]
      BY DEF Agree
    <2>. QED
      BY <2>1, Zenon DEF shouldInjectStartup
  <1>8. GetFrameworkOverride(a) = GetFrameworkOverride(b)
    BY <1>2 DEF GetFrameworkOverride
  <1>9. \A kind \in Kinds : Injects(kind, a, cfg) = Injects(kind, b, cfg)
    BY <1>3, <1>4, Zenon DEF Injects
  <1>10. \A kind \in Kinds : \A fc : PathOf(kind, fc, a) = PathOf(kind, fc, b)
    BY <1>2 DEF PathOf, Kinds
  <1>. QED
    BY <1>5, <1>6, <1>7, <1>8, <1>9, <1>10, Zenon

\* Whether a probe is built does not depend on the container.
LEMMA BuildsAlike ==
  ASSUME NEW kind \in Kinds, NEW f, NEW c \in Container, NEW d \in Container,
         NEW a, IsAnnotations(a), NEW b, IsAnnotations(b), Agree(a, b),
         NEW cfg, IsJVMConfig(cfg), BuildProbe(kind, f, c, a, cfg) = Nil
  PROVE  BuildProbe(kind, f, d, b, cfg) = Nil
  <1>1. BuiltProbe(kind, f, c, a, cfg) # Nil
    BY BuiltTyped, NilAssumption
  <1>2. ~Builds(kind, f, a, cfg)
    BY <1>1, Built
  <1>3. ~Builds(kind, f, b, cfg)
    <2>1. Injects(kind, a, cfg) = Injects(kind, b, cfg)
      BY AgreeDecides
    <2>2. \A fc : PathOf(kind, fc, a) = PathOf(kind, fc, b)
      BY AgreeDecides
    <2>. QED
      BY <1>2, <2>1, <2>2, Zenon DEF Builds
  <1>. QED
    BY <1>3, Built

LEMMA LeftAlike ==
  ASSUME NEW c, NEW d, d.ports = c.ports, d.env = c.env, d.image = c.image,
         NEW a, NEW b, Agree(a, b), NEW cfg
  PROVE  /\ FrameworkOf(d, b) = FrameworkOf(c, a)
         /\ LeftAlone(d, b, cfg) <=> LeftAlone(c, a, cfg)
  <1>1. IsJVM(d) <=> IsJVM(c)
    BY DEF IsJVM, envVarsIndicateJVM
  <1>2. DetectedFramework(d) = DetectedFramework(c)
    BY DEF DetectedFramework, EnvFramework, ImageFramework
  <1>3. GetFrameworkOverride(a) = GetFrameworkOverride(b)
    BY AgreeDecides
  <1>4. FrameworkOf(d, b) = FrameworkOf(c, a)
    BY <1>1, <1>2, <1>3, Zenon DEF FrameworkOf
  <1>5. IsBypassAnnotation(a) <=> IsBypassAnnotation(b)
    BY AgreeDecides
  <1>6. \A f : Skips(f, d) <=> Skips(f, c)
    BY DEF Skips
  <1>. QED
    BY <1>4, <1>5, <1>6, Zenon DEF LeftAlone

\* What a call has made of a container, the next one leaves as it is: b is the
\* annotations of the first call with the managed annotation added.
LEMMA SecondOutcome ==
  ASSUME NEW c, ValidContainer(c), NEW a, IsAnnotations(a), NEW b, IsAnnotations(b),
         Agree(a, b), NoOverwrite(b), ~Clears(b), NEW cfg, IsJVMConfig(cfg),
         Outcome(c, a, cfg) # Nil
  PROVE  LET d == Defaulted(Outcome(c, a, cfg))
         IN  Outcome(d, b, cfg) = d
  <1>. DEFINE new == Outcome(c, a, cfg)
              d == Defaulted(new)
              f == FrameworkOf(c, a)
  <1>1. c \in Container /\ Defaulted(c) = c /\ NoOverwrite(a)
    BY AgreeDecides DEF ValidContainer
  <1>2. /\ new \in Container /\ new.ports = c.ports /\ new.env = c.env
        /\ new.image = c.image
    BY <1>1, OutcomeTyped
  <1>3. /\ d \in Container /\ d.ports = c.ports /\ d.env = c.env /\ d.image = c.image
        /\ \A kind \in Kinds : d[kind] = WithDefaults(new[kind])
        /\ \A kind \in Kinds : d[kind] = Nil <=> new[kind] = Nil
    <2>1. /\ d \in Container /\ d.ports = new.ports /\ d.env = new.env
          /\ d.image = new.image
          /\ \A kind \in Kinds : d[kind] = WithDefaults(new[kind])
      BY <1>2, ContainerDefaults
    <2>2. \A kind \in Kinds : WithDefaults(new[kind]) = Nil <=> new[kind] = Nil
      BY <1>2, ContainerProbes, ProbeDefaults
    <2>. QED
      BY <1>2, <2>1, <2>2
  <1>4. FrameworkOf(d, b) = f /\ (LeftAlone(d, b, cfg) <=> LeftAlone(c, a, cfg))
    BY <1>3, LeftAlike
  <1>5. CASE LeftAlone(c, a, cfg)
    BY <1>1, <1>4, <1>5 DEF Outcome
  <1>6. CASE ~LeftAlone(c, a, cfg)
    <2>1. new = Result(f, c, a, cfg) /\ new # Nil
      BY <1>6 DEF Outcome
    <2>2. Outcome(d, b, cfg) = Result(f, d, b, cfg)
      BY <1>4, <1>6 DEF Outcome
    <2>. HIDE DEF f, d, new
    <2>3. /\ new["liveness"]  = Final("liveness", f, c, a, cfg)
          /\ new["readiness"] = Final("readiness", f, c, a, cfg)
          /\ new["startup"]   = FinalStartup(f, c, a, cfg)
      BY <1>1, <2>1, ResultTyped
    <2>4. {"liveness", "readiness", "startup"} = Kinds
      BY DEF Kinds
    <2>5. \A kind \in Kinds : /\ NewProbe(kind, f, c, a, cfg) = BuildProbe(kind, f, c, a, cfg)
                              /\ NewProbe(kind, f, d, b, cfg) = BuildProbe(kind, f, d, b, cfg)
      BY <1>1, NoneOverwritten DEF NewProbe
    <2>6. \A kind \in Kinds : \A own :
            /\ Missing(kind, own, Overwritten(a)) <=> own = Nil
            /\ Missing(kind, own, Overwritten(b)) <=> own = Nil
      BY <1>1, NoneOverwritten
    \* A probe that is missing now was not built, and is not built now.
    <2>7. ASSUME NEW kind \in {"liveness", "readiness"}, d[kind] = Nil
          PROVE  Work(kind, f, c, a, cfg) = Nil /\ Work(kind, f, d, b, cfg) = Nil
      <3>1. Final(kind, f, c, a, cfg) = Nil
        BY <1>3, <2>3, <2>4, <2>7
      <3>2. Placed(kind, f, c, a, cfg) = Nil
        BY <1>1, <2>4, <3>1, FinalTyped, NilAssumption
      <3>3. Work(kind, f, c, a, cfg) = Nil
        BY <1>1, <2>4, <3>2, PlacedTyped, NilAssumption
      <3>4. NewProbe(kind, f, c, a, cfg) = Nil
        BY <2>4, <2>6, <3>3 DEF Work, Working
      <3>5. NewProbe(kind, f, d, b, cfg) = Nil
        BY <1>1, <1>3, <2>4, <2>5, <3>4, BuildsAlike
      <3>. QED
        BY <2>7, <3>3, <3>5 DEF Work, Working
    <2>8. ASSUME NEW kind \in {"liveness", "readiness"}
          PROVE  Placed(kind, f, d, b, cfg) = d[kind]
      <3>1. CASE d[kind] = Nil
        <4>1. Work(kind, f, d, b, cfg) = Nil
          BY <2>7, <3>1
        <4>. QED
          BY <1>3, <2>4, <3>1, <4>1, PlacedTyped
      <3>2. CASE d[kind] # Nil
        BY <2>4, <2>6, <3>2 DEF Placed
      <3>. QED
        BY <3>1, <3>2
    <2>9. ~Injected(f, d, b, cfg)
      <3>1. CASE d["startup"] # Nil
        <4>1. d.startup # Nil
          BY <3>1
        <4>. QED
          BY <2>4, <2>6, <4>1 DEF Injected
      <3>2. CASE d["startup"] = Nil
        <4>1. FinalStartup(f, c, a, cfg) = Nil
          BY <1>3, <2>3, <2>4, <3>2
        <4>2. ~Injected(f, c, a, cfg)
          <5>1. Injected(f, c, a, cfg) => Tuned(f, c, a, cfg) # Nil
            BY <1>1, <2>4, PiecesTyped, NilAssumption
          <5>. QED
            BY <4>1, <5>1 DEF FinalStartup
        <4>3. c.startup = Nil
          BY <4>1, <4>2 DEF FinalStartup
        <4>4. Source(f, c, a, cfg) = Nil
          BY <2>4, <2>6, <4>2, <4>3 DEF Injected
        <4>5. /\ Work("liveness", f, c, a, cfg) = Nil
              /\ Work("readiness", f, c, a, cfg) = Nil
              /\ shouldInjectStartup(a, cfg) => BuildProbe("startup", f, c, a, cfg) = Nil
          BY <4>4 DEF Source, StartupSource
        <4>6. \A kind \in {"liveness", "readiness"} : d[kind] = Nil
          <5>. TAKE kind \in {"liveness", "readiness"}
          <5>1. Placed(kind, f, c, a, cfg) = Nil
            BY <1>1, <2>4, <4>5, PlacedTyped
          <5>2. ~Aligns(kind, f, c, a, cfg)
            BY <4>5 DEF Aligns
          <5>3. new[kind] = Nil
            BY <2>3, <5>1, <5>2 DEF Final
          <5>. QED
            BY <1>3, <2>4, <5>3
        <4>7. /\ Work("liveness", f, d, b, cfg) = Nil
              /\ Work("readiness", f, d, b, cfg) = Nil
          BY <2>7, <4>6
        <4>8. shouldInjectStartup(b, cfg) => BuildProbe("startup", f, d, b, cfg) = Nil
          <5>1. shouldInjectStartup(a, cfg) = shouldInjectStartup(b, cfg)
            BY AgreeDecides
          <5>. QED
            BY <1>1, <1>3, <2>4, <4>5, <5>1, BuildsAlike
        <4>9. Source(f, d, b, cfg) = Nil
          BY <4>7, <4>8 DEF Source, StartupSource
        <4>. QED
          BY <4>9 DEF Injected
      <3>. QED
        BY <3>1, <3>2
    <2>10. Result(f, d, b, cfg) =
             [d EXCEPT !["liveness"]  = d["liveness"],
                       !["readiness"] = d["readiness"],
                       !["startup"]   = d["startup"]]
      <3>1. \A kind : ~Aligns(kind, f, d, b, cfg)
        BY <2>9 DEF Aligns
      <3>2. \A kind : /\ ~Stuck(kind, f, d, b, cfg)
                      /\ Final(kind, f, d, b, cfg) = Placed(kind, f, d, b, cfg)
        BY <3>1 DEF Stuck, Final
      <3>3. FinalStartup(f, d, b, cfg) = d["startup"]
        BY <2>9 DEF FinalStartup
      <3>4. /\ Final("liveness", f, d, b, cfg) = d["liveness"]
            /\ Final("readiness", f, d, b, cfg) = d["readiness"]
            /\ ~Stuck("liveness", f, d, b, cfg) /\ ~Stuck("readiness", f, d, b, cfg)
        BY <2>8, <3>2
      <3>. QED
        BY <3>3, <3>4, Zenon DEF Result
    <2>11. [d EXCEPT !["liveness"]  = d["liveness"],
                     !["readiness"] = d["readiness"],
                     !["startup"]   = d["startup"]] = d
      BY <1>3 DEF Container
    <2>. QED
      BY <2>2, <2>10, <2>11 DEF d, new
  <1>. QED
    BY <1>5, <1>6

\* A call that adds no managed annotation where there is none patched nothing.
LEMMA NothingManaged ==
  ASSUME NEW pod, IsPod(pod), NEW cfg, IsJVMConfig(cfg),
         buildPodProbePatches(pod, cfg).managed = "none",
         getAnnotation(pod.annotations, "managed", Empty) # "true"
  PROVE  \A i \in DOMAIN pod.containers :
           Outcome(pod.containers[i], pod.annotations, cfg) = pod.containers[i]
  <1>. DEFINE patch == buildPodProbePatches(pod, cfg)
  <1>1. \A i \in DOMAIN pod.containers : patch.containers[i] = <<>>
    <2>1. CASE ~cfg.managementEnabled \/ IsBypassAnnotation(pod.annotations)
      BY <2>1 DEF buildPodProbePatches, NoPatch
    <2>2. CASE ~(~cfg.managementEnabled \/ IsBypassAnnotation(pod.annotations))
      <3>. DEFINE ops == [i \in DOMAIN pod.containers |-> ContainerPatches(pod, i, cfg)]
                  none == \/ \A i \in DOMAIN ops : ops[i] = <<>>
                          \/ getAnnotation(pod.annotations, "managed", Empty) = "true"
                  where == IF none THEN "none"
                           ELSE IF DOMAIN pod.annotations = {} THEN "map" ELSE "key"
      <3>1. patch = [containers |-> ops, managed |-> where]
        BY <2>2, Zenon DEF buildPodProbePatches
      <3>2. where = "none"
        BY <3>1
      <3>3. none
        BY <3>2
      <3>4. \A i \in DOMAIN ops : ops[i] = <<>>
        BY <3>3
      <3>5. DOMAIN ops = DOMAIN pod.containers
        OBVIOUS
      <3>6. patch.containers = ops
        BY <3>1
      <3>. HIDE DEF ops, patch
      <3>. QED
        BY <3>4, <3>5, <3>6
    <2>. QED
      BY <2>1, <2>2
  <1>2. Patched(pod, patch) =
          [i \in DOMAIN pod.containers |->
             Outcome(pod.containers[i], pod.annotations, cfg)]
    BY PodPatched
  <1>3. \A i \in DOMAIN pod.containers : Patched(pod, patch)[i] = pod.containers[i]
    BY <1>1, AppliedNone DEF Patched
  <1>. QED
    BY <1>2, <1>3

LEMMA ManagedOnce ==
  ASSUME NEW pod, NEW cfg, getAnnotation(pod.annotations, "managed", Empty) = "true"
  PROVE  buildPodProbePatches(pod, cfg).managed = "none"
  BY DEF buildPodProbePatches, NoPatch

LEMMA ManagedKept ==
  ASSUME NEW a, IsAnnotations(a), NEW where, where # "none"
  PROVE  getAnnotation(Manage(a, where), "managed", Empty) = "true"
  <1>1. "true" # Empty
    BY Zenon DEF Empty
  <1>. QED
    BY <1>1 DEF Manage, getAnnotation, Has

\* A second call under the same configuration creates the Pod and changes
\* nothing.
LEMMA SecondCall ==
  ASSUME NEW pod, IsPod(pod), NEW cfg, IsJVMConfig(cfg),
         ~Refused(pod, buildPodProbePatches(pod, cfg)),
         NEW pod2, pod2 = Stored(pod, buildPodProbePatches(pod, cfg)),
         NoOverwrite(pod2.annotations), ~Clears(pod2.annotations)
  PROVE  /\ ~Refused(pod2, buildPodProbePatches(pod2, cfg))
         /\ Stored(pod2, buildPodProbePatches(pod2, cfg)) = pod2
  <1>. DEFINE patch == buildPodProbePatches(pod, cfg)
              patch2 == buildPodProbePatches(pod2, cfg)
              a == pod.annotations
              b == pod2.annotations
              I == DOMAIN pod.containers
  <1>1. /\ IsPod(pod2) /\ b = Manage(a, patch.managed)
        /\ pod2.containers = [i \in I |-> Defaulted(Outcome(pod.containers[i], a, cfg))]
        /\ \A i \in I : Outcome(pod.containers[i], a, cfg) \in Container
    BY StoredIsPod
  <1>2. /\ IsAnnotations(a) /\ IsAnnotations(b)
        /\ \A i \in I : ValidContainer(pod.containers[i])
        /\ DOMAIN pod2.containers = I
        /\ \A i \in I : ValidContainer(pod2.containers[i])
        /\ pod2 = [annotations |-> b, containers |-> pod2.containers]
    BY <1>1 DEF IsPod
  <1>3. Agree(a, b)
    BY <1>1, <1>2, ManageTyped DEF Agree
  <1>4. \A i \in I : Outcome(pod2.containers[i], b, cfg) = pod2.containers[i]
    <2>. TAKE i \in I
    <2>1. Outcome(pod.containers[i], a, cfg) # Nil
      BY <1>1, NilAssumption
    <2>2. pod2.containers[i] = Defaulted(Outcome(pod.containers[i], a, cfg))
      BY <1>1
    <2>. QED
      BY <1>2, <1>3, <2>1, <2>2, SecondOutcome
  <1>5. Patched(pod2, patch2) = [i \in I |-> Outcome(pod2.containers[i], b, cfg)]
    BY <1>1, <1>2, PodPatched
  <1>6. ~Refused(pod2, patch2)
    <2>1. \A i \in I : /\ Patched(pod2, patch2)[i] = pod2.containers[i]
                       /\ pod2.containers[i] \in Container
                       /\ Defaulted(pod2.containers[i]) = pod2.containers[i]
                       /\ \A kind \in Kinds : ValidProbe(kind, pod2.containers[i][kind])
      BY <1>2, <1>4, <1>5 DEF ValidContainer
    <2>2. DOMAIN Patched(pod2, patch2) = I
      BY <1>5
    <2>3. patch2.managed = "key" => DOMAIN b # {}
      BY ManagedKey
    <2>. HIDE DEF patch2
    <2>. QED
      BY <2>1, <2>2, <2>3, NilAssumption DEF Refused
  <1>7. /\ Stored(pod2, patch2).annotations = Manage(b, patch2.managed)
        /\ Stored(pod2, patch2).containers =
             [i \in I |-> Defaulted(Outcome(pod2.containers[i], b, cfg))]
        /\ IsPod(Stored(pod2, patch2))
    BY <1>1, <1>2, <1>6, StoredIsPod
  <1>8. [i \in I |-> Defaulted(Outcome(pod2.containers[i], b, cfg))] = pod2.containers
    <2>1. \A i \in I : Defaulted(Outcome(pod2.containers[i], b, cfg)) = pod2.containers[i]
      BY <1>2, <1>4 DEF ValidContainer
    <2>2. pod2.containers = [i \in I |-> pod2.containers[i]]
      BY <1>1
    <2>. QED
      BY <2>1, <2>2
  <1>9. Manage(b, patch2.managed) = b
    <2>1. CASE getAnnotation(b, "managed", Empty) = "true"
      BY <2>1, ManagedOnce DEF Manage
    <2>2. CASE getAnnotation(b, "managed", Empty) # "true"
      <3>1. patch.managed = "none"
        BY <1>1, <1>2, <2>2, ManagedKept
      <3>2. b = a
        BY <1>1, <3>1 DEF Manage
      <3>3. \A i \in I : Outcome(pod.containers[i], a, cfg) = pod.containers[i]
        BY <2>2, <3>1, <3>2, NothingManaged
      <3>4. pod2.containers = pod.containers
        <4>1. \A i \in I : Defaulted(Outcome(pod.containers[i], a, cfg)) = pod.containers[i]
          BY <1>2, <3>3 DEF ValidContainer
        <4>2. pod.containers = [i \in I |-> pod.containers[i]]
          BY DEF IsPod
        <4>. QED
          BY <1>1, <4>1, <4>2
      <3>5. pod2 = pod
        <4>1. pod = [annotations |-> a, containers |-> pod.containers]
          BY DEF IsPod
        <4>. QED
          BY <1>2, <3>2, <3>4, <4>1
      <3>. QED
        BY <3>1, <3>5 DEF Manage
    <2>. QED
      BY <2>1, <2>2
  <1>10. Stored(pod2, patch2) = pod2
    <2>1. Stored(pod2, patch2) = [annotations |-> Stored(pod2, patch2).annotations,
                                  containers |-> Stored(pod2, patch2).containers]
      BY <1>7 DEF IsPod
    <2>. QED
      BY <1>2, <1>7, <1>8, <1>9, <2>1
  <1>. QED
    BY <1>6, <1>10

\* "On a second invocation the container logic produces no patches."
THEOREM SecondCallHarmless == Spec => InvokedTwice
  <1>. DEFINE Step(q) ==
         LET a   == answer[q].stored.annotations
             old == answer[q].stored.containers
             new == answer'[q].stored.containers
         IN  /\ answer[q].calls > 0
             /\ answer'[q] # answer[q]
             /\ NoOverwrite(a)
             => /\ answer'[q].created =>
                     \A i \in DOMAIN old, kind \in Kinds :
                       old[i][kind] # Nil =>
                         /\ new[i][kind].handler = old[i][kind].handler
                         /\ new[i][kind].period = old[i][kind].period
                         /\ kind = "startup" => new[i][kind] = old[i][kind]
                /\ answer'[q].cfg = answer[q].cfg /\ ~Flag(a, "clear-delays") =>
                     answer'[q].created /\ answer'[q].stored = answer[q].stored
  <1>1. ASSUME IInv, [Next]_vars, NEW q \in Request, answer[q].calls > 0,
               answer'[q] # answer[q]
        PROVE  \E r \in Replica : Reinvoke(q, r)
    <2>1. DOMAIN answer = Request
      BY <1>1 DEF IInv, TypeOK
    <2>2. ASSUME NEW p \in Request, NEW r \in Replica, NEW pod \in Pods, Admit(p, r, pod)
          PROVE  FALSE
      BY <1>1, <2>1, <2>2 DEF Admit
    <2>3. ASSUME NEW p \in Request, NEW r \in Replica, Reinvoke(p, r)
          PROVE  p = q
      BY <1>1, <2>1, <2>3 DEF Reinvoke
    <2>4. ASSUME NEW r \in Replica, Boot(r) \/ Run(r) \/ handleConfigMapUpdate(r) \/ Crash(r)
          PROVE  answer' = answer
      BY <2>4 DEF Boot, Run, handleConfigMapUpdate, Crash
    <2>5. ASSUME NEW cm \in ConfigMaps, ChangeConfigMap(cm)
          PROVE  answer' = answer
      BY <2>5 DEF ChangeConfigMap
    <2>. QED
      BY <1>1, <2>2, <2>3, <2>4, <2>5 DEF Next, vars
  <1>2. ASSUME IInv, [Next]_vars, NEW q \in Request, answer[q].calls > 0,
               answer'[q] # answer[q], NoOverwrite(answer[q].stored.annotations)
        PROVE  Step(q)
    <2>1. PICK r \in Replica : Reinvoke(q, r)
      BY <1>1, <1>2
    <2>. DEFINE pod == answer[q].pod
                cfg == answer[q].cfg
                pod2 == answer[q].stored
                cfg2 == config[r]
                patch2 == buildPodProbePatches(pod2, cfg2)
    <2>2. /\ IsPod(pod) /\ IsJVMConfig(cfg) /\ answer[q].calls \in 1..2
          /\ answer[q] = mutatePod(pod, cfg, answer[q].calls)
          /\ IsPod(pod2) /\ IsJVMConfig(cfg2) /\ answer[q].created
      BY <1>2, <2>1 DEF IInv, TypeOK, AnswerOK, Reinvoke
    <2>3. answer'[q] = mutatePod(pod2, cfg2, 2)
      BY <1>2, <2>1 DEF Reinvoke, IInv, TypeOK
    <2>. HIDE DEF pod, cfg, pod2, cfg2, patch2
    <2>4. /\ ~Refused(pod, buildPodProbePatches(pod, cfg))
          /\ pod2 = Stored(pod, buildPodProbePatches(pod, cfg))
      BY <2>2, AnswerTyped DEF pod2
    <2>5. /\ answer'[q].cfg = cfg2
          /\ answer'[q].created <=> ~Refused(pod2, patch2)
          /\ answer'[q].created => answer'[q].stored = Stored(pod2, patch2)
      BY <2>2, <2>3, AnswerTyped DEF patch2
    <2>6. NoOverwrite(pod2.annotations)
      BY <1>2 DEF pod2
    <2>7. ASSUME answer'[q].created, NEW i \in DOMAIN pod2.containers, NEW kind \in Kinds,
                 pod2.containers[i][kind] # Nil
          PROVE  LET new == answer'[q].stored.containers
                     old == pod2.containers
                 IN  /\ new[i][kind].handler = old[i][kind].handler
                     /\ new[i][kind].period = old[i][kind].period
                     /\ kind = "startup" => new[i][kind] = old[i][kind]
      <3>. DEFINE c == pod2.containers[i]
                  b == pod2.annotations
      <3>1. IsAnnotations(b) /\ ValidContainer(c)
        BY <2>2 DEF IsPod
      <3>2. /\ Stored(pod2, patch2).containers =
                 [j \in DOMAIN pod2.containers |->
                    Defaulted(Outcome(pod2.containers[j], b, cfg2))]
            /\ Outcome(c, b, cfg2) \in Container
        BY <2>2, <2>5, <2>7, StoredIsPod DEF patch2
      <3>3. answer'[q].stored.containers[i] = Defaulted(Outcome(c, b, cfg2))
        BY <2>5, <2>7, <3>2
      <3>4. Outcome(c, b, cfg2) # Nil
        BY <3>2, NilAssumption
      <3>. HIDE DEF c, b
      <3>5. LET p == Defaulted(Outcome(c, b, cfg2))[kind]
            IN  /\ p.handler = c[kind].handler
                /\ p.period = c[kind].period
                /\ kind = "startup" => p = c[kind]
        BY <2>2, <2>6, <2>7, <3>1, <3>4, ProbesKept DEF c, b
      <3>. QED
        BY <3>3, <3>5 DEF c
    <2>8. ASSUME answer'[q].cfg = answer[q].cfg, ~Flag(pod2.annotations, "clear-delays")
          PROVE  answer'[q].created /\ answer'[q].stored = pod2
      <3>1. cfg2 = cfg
        BY <2>5, <2>8 DEF cfg
      <3>2. ~Refused(pod2, patch2) /\ Stored(pod2, patch2) = pod2
        BY <2>2, <2>4, <2>6, <2>8, <3>1, SecondCall DEF patch2, Clears
      <3>. QED
        BY <2>5, <3>2
    <2>. QED
      BY <2>7, <2>8, Zenon DEF pod2
  <1>3. ASSUME IInv, [Next]_vars, NEW q \in Request
        PROVE  Step(q)
    BY <1>2, <1>3
  <1>. HIDE DEF Step
  <1>4. IInv /\ [Next]_vars => [\A q \in Request : Step(q)]_vars
    BY <1>3
  <1>. QED
    BY Invariance, <1>4, PTL DEF Spec, InvokedTwice, Step

(***************************************************************************)
(* The reference.                                                          *)
(***************************************************************************)
LEMMA Monotonic ==
  ASSUME NEW n \in Nat \ {0}, NEW x \in Int, NEW y \in Int
  PROVE  x <= y <=> n * x <= n * y
  OBVIOUS

LEMMA Enough ==
  ASSUME NEW n \in Nat \ {0}, NEW m \in Int, NEW f \in Int
  PROVE  CeilDiv(m, n) \in Int /\ (n * f >= m <=> f >= CeilDiv(m, n))
  <1>. DEFINE d == (-m) \div n
  <1>1. d \in Int /\ n * d <= -m /\ -m < n * (d + 1)
    OBVIOUS
  <1>2. CeilDiv(m, n) = -d
    BY DEF CeilDiv
  <1>. HIDE DEF d
  <1>3. n * (-d) = -(n * d) /\ n * (-d - 1) = -(n * (d + 1))
    BY <1>1
  <1>4. CASE f >= -d
    <2>1. n * (-d) <= n * f
      BY <1>1, <1>4, Monotonic
    <2>. QED
      BY <1>1, <1>2, <1>3, <1>4, <2>1
  <1>5. CASE ~(f >= -d)
    <2>1. f <= -d - 1
      BY <1>1, <1>5
    <2>2. n * f <= n * (-d - 1)
      BY <1>1, <2>1, Monotonic
    <2>. QED
      BY <1>1, <1>2, <1>3, <1>5, <2>2
  <1>. QED
    BY <1>4, <1>5

\* A threshold that alignment leaves non-negative is the one step 6 describes,
\* or the cap where that does not cover the window.
LEMMA Extended ==
  ASSUME NEW w \in Probe, NEW cfg, IsJVMConfig(cfg), NEW t,
         t = IF TooShort(w, cfg) THEN AlignedFailure(w, cfg) ELSE w.failure,
         t >= 0
  PROVE  /\ Stretched(w, cfg) \in Int32
         /\ \/ t = Stretched(w, cfg)
            \/ /\ TooShort(w, cfg) /\ Stretched(w, cfg) = w.failure
               /\ w.failure > cfg.maxFailure /\ t = cfg.maxFailure
  <1>. DEFINE n == w.period
              low == w.failure
              m == cfg.minWindow
              high == cfg.maxFailure
              product == n * low
              window == ToInt32(product)
              needed == CeilDiv(m, n)
              raised == IF needed > low THEN needed ELSE low
              enough == {f \in low..high : n * f >= m}
              S == Stretched(w, cfg)
  <1>1. /\ n \in Int /\ low \in Int /\ m \in Int /\ high \in Int
        /\ low \in Int32 /\ high \in Int32 /\ t \in Int32
    <2>1. low \in Int32 /\ high \in Int32 /\ n \in Int32 /\ m \in Int32
      BY DEF Probe, IsJVMConfig
    <2>2. t \in Int32
      BY <2>1, AlignedTyped
    <2>. QED
      BY <2>1, <2>2, Wrapped
  <1>2. S = IF n <= 0 \/ product >= m THEN low
            ELSE IF enough # {} THEN CHOOSE f \in enough : \A g \in enough : f <= g
            ELSE IF low > high THEN low ELSE high
    BY DEF Stretched
  <1>3. TooShort(w, cfg) <=> n > 0 /\ window < m
    BY DEF TooShort
  <1>4. TooShort(w, cfg) => t = IF raised > high THEN high ELSE raised
    BY DEF AlignedFailure
  <1>5. ~TooShort(w, cfg) => t = low
    OBVIOUS
  <1>6. product \in Int /\ window \in Int
    <2>1. product \in Int
      BY <1>1
    <2>. QED
      BY <2>1, Wrapped
  <1>7. n > 0 /\ low >= 0 => window <= product
    <2>1. n > 0 /\ low >= 0 => product \in Nat
      BY <1>1
    <2>. QED
      BY <2>1, WrappedDown
  <1>. HIDE DEF S, window
  <1>8. CASE ~(n > 0)
    BY <1>1, <1>2, <1>3, <1>5, <1>8 DEF S
  <1>9. CASE n > 0
    <2>1. /\ needed \in Int
          /\ \A f \in Int : n * f >= m <=> f >= needed
      <3>1. n \in Nat \ {0}
        BY <1>1, <1>9
      <3>. HIDE DEF n, m
      <3>. QED
        BY <1>1, <3>1, Enough
    <2>2. product >= m <=> low >= needed
      BY <1>1, <2>1
    <2>. HIDE DEF needed
    <2>3. \A f : f \in enough <=> f \in low..high /\ f >= needed
      BY <1>1, <2>1
    <2>. HIDE DEF enough, product, n, low, m, high
    <2>4. CASE low >= needed
      <3>1. S = low
        BY <1>2, <2>2, <2>4
      <3>. QED
        BY <1>1, <1>3, <1>4, <1>5, <2>1, <2>4, <3>1 DEF S, low, high
    <2>5. CASE ~(low >= needed)
      <3>1. TooShort(w, cfg)
        <4>. SUFFICES ASSUME ~TooShort(w, cfg)
                      PROVE  FALSE
          OBVIOUS
        <4>1. window >= m /\ product < m /\ low >= 0
          BY <1>1, <1>3, <1>5, <1>6, <1>9, <2>2, <2>5
        <4>. QED
          BY <1>1, <1>6, <1>7, <1>9, <4>1
      <3>2. t = IF needed > high THEN high ELSE needed
        BY <1>1, <1>4, <2>1, <2>5, <3>1
      <3>3. ~(n <= 0 \/ product >= m)
        BY <1>1, <1>9, <2>2, <2>5
      <3>4. CASE needed <= high
        <4>1. needed \in enough /\ \A g \in enough : needed <= g
          BY <1>1, <2>1, <2>3, <2>5, <3>4
        <4>2. \A f \in enough : f \in Int
          BY <1>1, <2>3
        <4>3. \A f \in enough : (\A g \in enough : f <= g) => f = needed
          BY <2>1, <4>1, <4>2
        <4>4. (CHOOSE f \in enough : \A g \in enough : f <= g) = needed
          BY <4>1, <4>3, Zenon
        <4>5. S = needed
          <5>1. enough # {}
            BY <4>1
          <5>. QED
            BY <1>2, <3>3, <4>4, <5>1, Zenon
        <4>6. t = needed
          BY <1>1, <2>1, <3>2, <3>4
        <4>. QED
          BY <1>1, <4>5, <4>6 DEF S
      <3>5. CASE needed > high
        <4>1. enough = {}
          BY <1>1, <2>1, <2>3, <3>5
        <4>2. S = IF low > high THEN low ELSE high
          BY <1>2, <3>3, <4>1
        <4>3. t = high
          BY <3>2, <3>5
        <4>. QED
          BY <1>1, <3>1, <4>2, <4>3 DEF S, low, high
      <3>. QED
        BY <1>1, <2>1, <3>4, <3>5
    <2>. QED
      BY <1>1, <2>1, <2>4, <2>5
  <1>. QED
    BY <1>1, <1>8, <1>9

\* Reference, kind by kind and by the names of this module.
Described(kind, f, c, a, cfg) ==
  LET p == Work(kind, f, c, a, cfg)
      aligned == Injected(f, c, a, cfg) /\ ShouldAlignProbes(a, cfg.align)
  IN  IF p = Nil THEN Nil
      ELSE [p EXCEPT
              !.delay   = IF aligned \/ (Clears(a) /\ c[kind] # Nil) THEN 0 ELSE @,
              !.failure = IF aligned THEN Stretched(p, cfg) ELSE @]

CopiesOwn(f, c, a, cfg) ==
  \/ c.liveness # Nil
  \/ c.readiness # Nil /\ Work("liveness", f, c, a, cfg) = Nil

DescribedStartup(f, c, a, cfg) ==
  [(IF CopiesOwn(f, c, a, cfg) THEN ByName(Source(f, c, a, cfg), c)
    ELSE Source(f, c, a, cfg)) EXCEPT
     !.delay = 0, !.success = 1,
     !.period  = getAnnotationInt(a, "startup-period", 15),
     !.failure = getAnnotationInt(a, "startup-failure-threshold", 40)]

DescribedContainer(f, c, a, cfg) ==
  [c EXCEPT !.liveness  = Described("liveness", f, c, a, cfg),
            !.readiness = Described("readiness", f, c, a, cfg),
            !.startup   = IF Injected(f, c, a, cfg)
                          THEN DescribedStartup(f, c, a, cfg) ELSE @]

\* A probe that is the described one, or has the cap instead.
Near(got, want, cfg) ==
  \/ got = want
  \/ /\ want # Nil /\ TooShort(want, cfg)
     /\ want.failure > cfg.maxFailure /\ cfg.maxFailure >= 0
     /\ got = [want EXCEPT !.failure = cfg.maxFailure]

LEMMA DescribedKind ==
  ASSUME NEW kind \in {"liveness", "readiness"}, NEW f, NEW c \in Container,
         NEW a, IsAnnotations(a), NoOverwrite(a), NEW cfg, IsJVMConfig(cfg),
         Final(kind, f, c, a, cfg) # Nil =>
           Final(kind, f, c, a, cfg).delay >= 0 /\ Final(kind, f, c, a, cfg).failure >= 0
  PROVE  /\ Described(kind, f, c, a, cfg) \in {Nil} \cup Probe
         /\ Near(Final(kind, f, c, a, cfg), Described(kind, f, c, a, cfg), cfg)
  <1>. DEFINE p == Work(kind, f, c, a, cfg)
              placed == Placed(kind, f, c, a, cfg)
              w == Copy(kind, f, c, a, cfg)
              final == Final(kind, f, c, a, cfg)
              aligned == Injected(f, c, a, cfg) /\ ShouldAlignProbes(a, cfg.align)
              clears == Clears(a) /\ c[kind] # Nil
              described == Described(kind, f, c, a, cfg)
  <1>1. kind \in Kinds
    BY DEF Kinds
  <1>2. \A own : Missing(kind, own, Overwritten(a)) <=> own = Nil
    BY <1>1, NoneOverwritten
  <1>3. p \in {Nil} \cup Probe
    BY <1>1, PiecesTyped
  <1>4. Aligns(kind, f, c, a, cfg) <=> aligned /\ p # Nil
    BY DEF Aligns
  <1>5. CASE p = Nil
    <2>1. placed = Nil
      BY <1>1, <1>5, PlacedTyped
    <2>2. final = Nil
      BY <1>4, <1>5, <2>1 DEF Final
    <2>. QED
      BY <1>5, <2>2 DEF Described, Near
  <1>6. CASE p # Nil
    <2>1. p \in Probe
      BY <1>3, <1>6
    <2>2. placed = IF clears THEN [p EXCEPT !.delay = 0] ELSE p
      BY <1>2, <1>6 DEF Placed, Work, Working
    <2>3. w = IF clears THEN [p EXCEPT !.delay = 0] ELSE p
      BY DEF Copy, ForAlignment
    <2>4. 0 \in Int32 /\ \A n \in Int32 : n \in Int
      BY Wrapped
    <2>5. w \in Probe /\ w.failure = p.failure /\ w.period = p.period
      BY <2>1, <2>3, <2>4 DEF Probe
    <2>6. Stretched(w, cfg) = Stretched(p, cfg)
      BY <2>5 DEF Stretched
    <2>7. CASE ~aligned
      <3>1. final = placed
        BY <1>4, <2>7 DEF Final
      <3>2. final = [p EXCEPT !.delay = IF clears THEN 0 ELSE @]
        BY <2>1, <2>2, <3>1 DEF Probe
      <3>3. final = [p EXCEPT !.delay = IF aligned \/ clears THEN 0 ELSE @,
                              !.failure = IF aligned THEN Stretched(p, cfg) ELSE @]
        <4>. HIDE DEF final, aligned, clears, p
        <4>. QED
          BY <2>1, <2>7, <3>2 DEF Probe
      <3>4. final = described
        BY <1>6, <3>3 DEF Described
      <3>5. final \in {Nil} \cup Probe
        BY <1>1, FinalTyped
      <3>. QED
        BY <3>4, <3>5 DEF Near
    <2>8. CASE aligned
      <3>1. final = Lengthened(placed, w, cfg)
        BY <1>4, <1>6, <2>8 DEF Final
      <3>. DEFINE t == IF TooShort(w, cfg) THEN AlignedFailure(w, cfg) ELSE w.failure
                  s == Stretched(p, cfg)
      <3>2. described = [p EXCEPT !.delay = 0, !.failure = s]
        <4>. HIDE DEF aligned, clears, p, s
        <4>1. described = [p EXCEPT !.delay = IF aligned \/ clears THEN 0 ELSE @,
                                    !.failure = IF aligned THEN s ELSE @]
          BY <1>6, Zenon DEF Described, aligned, clears, p, s
        <4>. QED
          BY <2>1, <2>8, <4>1 DEF Probe
      <3>. HIDE DEF final, aligned, clears, p, w, s, described
      <3>3. placed = w
        BY <2>2, <2>3
      <3>4. final = [w EXCEPT !.delay = IF w.delay > 0 THEN 0 ELSE @, !.failure = t]
        <4>1. Lengthened(w, w, cfg) =
                [w EXCEPT !.delay = IF w.delay > 0 THEN 0 ELSE @,
                          !.failure = IF TooShort(w, cfg) THEN AlignedFailure(w, cfg) ELSE @]
          BY DEF Lengthened
        <4>. QED
          BY <3>1, <3>3, <4>1, <2>5 DEF Probe
      <3>. HIDE DEF t
      <3>5. final # Nil
        <4>1. placed # Nil
          BY <2>5, <3>3, NilAssumption
        <4>. QED
          BY <1>1, <4>1, FinalTyped, NilAssumption DEF final
      <3>6. final.delay >= 0 /\ final.failure >= 0
        BY <3>5 DEF final
      <3>7. (IF w.delay > 0 THEN 0 ELSE w.delay) = 0 /\ t >= 0
        BY <2>4, <2>5, <3>4, <3>6 DEF Probe
      <3>8. final = [p EXCEPT !.delay = 0, !.failure = t]
        <4>1. final = [w EXCEPT !.delay = 0, !.failure = t]
          BY <2>5, <3>4, <3>7 DEF Probe
        <4>. QED
          BY <2>1, <2>3, <4>1 DEF Probe
      <3>9. /\ s \in Int32
            /\ \/ t = s
               \/ /\ TooShort(w, cfg) /\ s = w.failure
                  /\ w.failure > cfg.maxFailure /\ t = cfg.maxFailure
        BY <2>5, <2>6, <3>7, Extended DEF t, s
      <3>10. described \in Probe
        BY <2>1, <2>4, <3>2, <3>9 DEF Probe
      <3>11. CASE t = s
        <4>1. final = described
          BY <3>2, <3>8, <3>11
        <4>. QED
          BY <3>10, <4>1 DEF Near, final, described
      <3>12. CASE /\ TooShort(w, cfg) /\ s = w.failure
                  /\ w.failure > cfg.maxFailure /\ t = cfg.maxFailure
        <4>1. final = [described EXCEPT !.failure = cfg.maxFailure]
          BY <2>1, <3>2, <3>8, <3>12 DEF Probe
        <4>2. described.period = w.period /\ described.failure = w.failure
          BY <2>1, <2>5, <3>2, <3>12 DEF Probe
        <4>3. TooShort(described, cfg)
          BY <3>12, <4>2 DEF TooShort
        <4>4. described # Nil
          BY <3>10, NilAssumption
        <4>. QED
          BY <3>7, <3>10, <3>12, <4>1, <4>2, <4>3, <4>4 DEF Near, final, described
      <3>. QED
        BY <3>9, <3>11, <3>12
    <2>. QED
      BY <2>7, <2>8
  <1>. QED
    BY <1>5, <1>6

\* The API server's defaults keep that relation.
LEMMA NearDefaults ==
  ASSUME NEW want \in {Nil} \cup Probe, NEW got, NEW cfg, IsJVMConfig(cfg),
         Near(got, want, cfg)
  PROVE  \/ WithDefaults(got) = WithDefaults(want)
         \/ CutToCap(WithDefaults(got), WithDefaults(want), cfg)
  <1>1. CASE got = want
    BY <1>1
  <1>2. CASE got # want
    <2>. DEFINE high == cfg.maxFailure
                d == WithDefaults(want)
    <2>1. /\ want \in Probe /\ TooShort(want, cfg)
          /\ want.failure > high /\ high >= 0
          /\ got = [want EXCEPT !.failure = high]
      BY <1>2 DEF Near
    <2>2. /\ high \in Int32 /\ high \in Int /\ want.failure \in Int
          /\ want.period \in Int /\ want.period > 0
      BY <2>1, Wrapped DEF Probe, IsJVMConfig, TooShort
    <2>3. got \in Probe /\ got # Nil /\ want # Nil
      BY <2>1, <2>2, FieldsTyped
    <2>4. d = [want EXCEPT !.success = Or(@, 1)]
      <3>1. Or(want.period, 10) = want.period /\ Or(want.failure, 3) = want.failure
        BY <2>1, <2>2 DEF Or
      <3>. QED
        BY <2>1, <2>3, <3>1 DEF WithDefaults, Probe
    <2>5. d \in Probe /\ d # Nil
      BY <2>1, <2>3, ProbeDefaults
    <2>6. d.period = want.period /\ d.failure = want.failure
      BY <2>1, <2>4 DEF Probe
    <2>7. TooShort(d, cfg) /\ d.failure > high
      BY <2>1, <2>6 DEF TooShort
    <2>8. [d EXCEPT !.failure = high] = [got EXCEPT !.success = Or(@, 1)]
      BY <2>1, <2>4 DEF Probe
    <2>9. [d EXCEPT !.failure = high] \in Probe /\ [d EXCEPT !.failure = high] # Nil
      BY <2>2, <2>5, FieldsTyped
    <2>10. WithDefaults([d EXCEPT !.failure = high]) = WithDefaults(got)
      <3>1. \A v : Or(Or(v, 1), 1) = Or(v, 1)
        BY DEF Or
      <3>. HIDE DEF d
      <3>2. WithDefaults([d EXCEPT !.failure = high]) =
              [[got EXCEPT !.success = Or(@, 1)] EXCEPT
                 !.period = Or(@, 10), !.failure = Or(@, 3), !.success = Or(@, 1)]
        BY <2>8, <2>9 DEF WithDefaults
      <3>3. WithDefaults(got) =
              [got EXCEPT !.period = Or(@, 10), !.failure = Or(@, 3), !.success = Or(@, 1)]
        BY <2>3 DEF WithDefaults
      <3>. QED
        BY <2>3, <3>1, <3>2, <3>3 DEF Probe
    <2>. QED
      BY <2>5, <2>7, <2>10 DEF CutToCap
  <1>. QED
    BY <1>1, <1>2

\* The startup probe has the handler of the probe it is a copy of; all else is
\* as described.
LEMMA DescribedCopy ==
  ASSUME NEW f, NEW c \in Container, NEW a, IsAnnotations(a),
         NEW cfg, IsJVMConfig(cfg), Injected(f, c, a, cfg)
  PROVE  LET want == DescribedStartup(f, c, a, cfg)
         IN  /\ WithDefaults(want) # Nil
             /\ WithDefaults(Tuned(f, c, a, cfg)) =
                  [WithDefaults(want) EXCEPT !.handler = Source(f, c, a, cfg).handler]
  <1>. DEFINE s == Source(f, c, a, cfg)
              named == Matched(WellKnownPorts, c)
              period == getAnnotationInt(a, "startup-period", 15)
              failure == getAnnotationInt(a, "startup-failure-threshold", 40)
              r == IF CopiesOwn(f, c, a, cfg) THEN ByName(s, c) ELSE s
              want == [r EXCEPT !.delay = 0, !.success = 1,
                                !.period = period, !.failure = failure]
              got == [s EXCEPT !.delay = 0, !.period = period,
                               !.failure = failure, !.success = 1]
  <1>1. {"startup-period", "startup-failure-threshold"} \subseteq Numbers
    BY DEF Numbers
  <1>2. /\ period \in Int32 /\ failure \in Int32 /\ 0 \in Int32 /\ 1 \in Int32
    BY <1>1, IntTyped, Wrapped
  <1>3. s \in Probe
    <2>1. "startup" \in Kinds
      BY DEF Kinds
    <2>. QED
      BY <2>1, PiecesTyped DEF Injected
  <1>4. ByName(s, c) = s \/ \E n \in STRING : ByName(s, c) = [s EXCEPT !.handler.port =
                                                               [name |-> n, number |-> 0]]
    <2>1. named \in {0} \cup DOMAIN c.ports
      BY PortsFound
    <2>2. \A i \in DOMAIN c.ports : c.ports[i].name \in STRING
      <3>1. \A i \in DOMAIN c.ports : c.ports[i] \in PortRef
        BY DEF Container
      <3>. QED
        BY <3>1 DEF PortRef
    <2>. QED
      BY <2>1, <2>2 DEF ByName
  <1>. HIDE DEF s, period, failure
  <1>5. \A n \in STRING : [s EXCEPT !.handler.port = [name |-> n, number |-> 0]] =
                            [s EXCEPT !.handler = [s.handler EXCEPT !.port =
                                                     [name |-> n, number |-> 0]]]
    OBVIOUS
  <1>6. \A n \in STRING : [s.handler EXCEPT !.port = [name |-> n, number |-> 0]] \in Handler
    BY <1>3 DEF Probe, Handler, PortRef
  <1>7. PICK h \in Handler : r = [s EXCEPT !.handler = h]
    <2>1. s.handler \in Handler /\ [s EXCEPT !.handler = s.handler] = s
      BY <1>3 DEF Probe
    <2>. QED
      BY <1>4, <1>5, <1>6, <2>1
  <1>. HIDE DEF r
  <1>8. want \in Probe /\ got \in Probe /\ got = [want EXCEPT !.handler = s.handler]
    BY <1>2, <1>3, <1>7 DEF Probe
  <1>9. DescribedStartup(f, c, a, cfg) = want /\ Tuned(f, c, a, cfg) = got
    BY Zenon DEF DescribedStartup, Tuned, tuneStartupProbe, s, r, period, failure
  <1>. HIDE DEF want, got
  <1>10. want # Nil /\ got # Nil /\ WithDefaults(want) # Nil
    BY <1>8, ProbeDefaults, NilAssumption
  <1>11. WithDefaults(got) = [WithDefaults(want) EXCEPT !.handler = s.handler]
    BY <1>8, <1>10 DEF WithDefaults, Probe
  <1>. QED
    BY <1>9, <1>10, <1>11 DEF s

LEMMA ReferencePieces ==
  ASSUME NEW c \in Container, NEW a, IsAnnotations(a), NoOverwrite(a),
         NEW cfg, IsJVMConfig(cfg), NEW f, f = FrameworkOf(c, a)
  PROVE  /\ CopiedProbe(c, a, cfg) = Source(f, c, a, cfg)
         /\ ~LeftAlone(c, a, cfg) =>
              Reference(c, a, cfg) = DescribedContainer(f, c, a, cfg)
  <1>. DEFINE K(kind) == Kept(kind, c, a, cfg)
              source == CopiedProbe(c, a, cfg)
              gains == c.startup = Nil /\ source # Nil
              own == c.liveness # Nil \/ (c.readiness # Nil /\ K("liveness") = Nil)
              aligned == gains /\ ShouldAlignProbes(a, cfg.align)
              Ref(kind, p) ==
                IF p = Nil THEN Nil
                ELSE [p EXCEPT
                        !.delay   = IF aligned \/ (Flag(a, "clear-delays") /\ c[kind] # Nil)
                                    THEN 0 ELSE @,
                        !.failure = IF aligned THEN Stretched(p, cfg) ELSE @]
  <1>1. ~LeftAlone(c, a, cfg) =>
          Reference(c, a, cfg) =
          [c EXCEPT !.liveness  = Ref("liveness", K("liveness")),
                    !.readiness = Ref("readiness", K("readiness")),
                    !.startup   =
                      IF gains
                      THEN [(IF own THEN ByName(source, c) ELSE source) EXCEPT
                              !.delay = 0, !.success = 1,
                              !.period  = getAnnotationInt(a, "startup-period", 15),
                              !.failure = getAnnotationInt(a, "startup-failure-threshold", 40)]
                      ELSE @]
    BY Zenon DEF Reference, LeftAlone
  <1>2. \A kind \in Kinds : K(kind) = Work(kind, f, c, a, cfg)
    <2>. TAKE kind \in Kinds
    <2>1. NewProbe(kind, f, c, a, cfg) = BuildProbe(kind, f, c, a, cfg)
      BY NoneOverwritten DEF NewProbe
    <2>2. \A p : Missing(kind, p, Overwritten(a)) <=> p = Nil
      BY NoneOverwritten
    <2>3. K(kind) = First(c[kind], BuildProbe(kind, f, c, a, cfg))
      BY DEF Kept
    <2>. QED
      BY <2>1, <2>2, <2>3 DEF Work, Working, First
  <1>3. {"liveness", "readiness", "startup"} \subseteq Kinds
    BY DEF Kinds
  <1>4. /\ K("liveness") = Work("liveness", f, c, a, cfg)
        /\ K("readiness") = Work("readiness", f, c, a, cfg)
    BY <1>2, <1>3
  <1>5. source = Source(f, c, a, cfg)
    <2>1. source = First(K("liveness"), First(K("readiness"),
                     IF shouldInjectStartup(a, cfg) THEN BuildProbe("startup", f, c, a, cfg)
                                                    ELSE Nil))
      BY Zenon DEF CopiedProbe
    <2>. HIDE DEF K, source
    <2>. QED
      BY <1>4, <2>1 DEF Source, StartupSource, First
  <1>. HIDE DEF K, source
  <1>6. gains <=> Injected(f, c, a, cfg)
    BY <1>3, <1>5, NoneOverwritten DEF Injected
  <1>7. own <=> CopiesOwn(f, c, a, cfg)
    BY <1>4 DEF CopiesOwn
  <1>. HIDE DEF gains, own
  <1>8. /\ Ref("liveness", K("liveness")) = Described("liveness", f, c, a, cfg)
        /\ Ref("readiness", K("readiness")) = Described("readiness", f, c, a, cfg)
    BY <1>4, <1>6, Zenon DEF Described, Clears
  <1>. HIDE DEF Ref
  <1>9. ~LeftAlone(c, a, cfg) => Reference(c, a, cfg) = DescribedContainer(f, c, a, cfg)
    BY <1>1, <1>5, <1>6, <1>7, <1>8 DEF DescribedContainer, DescribedStartup
  <1>. QED
    BY <1>5, <1>9 DEF source

LEMMA ReferenceAgrees ==
  ASSUME NEW c \in Container, NEW a, IsAnnotations(a), NoOverwrite(a),
         NEW cfg, IsJVMConfig(cfg), Outcome(c, a, cfg) # Nil,
         \A kind \in Kinds :
           Outcome(c, a, cfg)[kind] # Nil =>
             Outcome(c, a, cfg)[kind].delay >= 0 /\ Outcome(c, a, cfg)[kind].failure >= 0
  PROVE  AsDescribed(Defaulted(Outcome(c, a, cfg)), c, a, cfg)
  <1>. DEFINE f == FrameworkOf(c, a)
              new == Outcome(c, a, cfg)
              ref == Reference(c, a, cfg)
  <1>1. CASE LeftAlone(c, a, cfg)
    <2>1. new = c /\ ref = c
      BY <1>1, Zenon DEF Outcome, Reference, LeftAlone
    <2>. QED
      BY <2>1 DEF AsDescribed
  <1>2. CASE ~LeftAlone(c, a, cfg)
    <2>1. new = Result(f, c, a, cfg)
      BY <1>2 DEF Outcome
    <2>. DEFINE L  == Final("liveness", f, c, a, cfg)
                R  == Final("readiness", f, c, a, cfg)
                S  == FinalStartup(f, c, a, cfg)
                dL == Described("liveness", f, c, a, cfg)
                dR == Described("readiness", f, c, a, cfg)
                dS == IF Injected(f, c, a, cfg) THEN DescribedStartup(f, c, a, cfg)
                                                ELSE c.startup
    <2>2. new["liveness"] = L /\ new["readiness"] = R
      BY <2>1, ResultTyped
    <2>3. {"liveness", "readiness", "startup"} \subseteq Kinds
      BY DEF Kinds
    <2>4. f = FrameworkOf(c, a)
      OBVIOUS
    <2>. HIDE DEF f, new
    <2>5. new = [c EXCEPT !.liveness = L, !.readiness = R, !.startup = S]
      BY <2>1, Zenon DEF Result, new
    <2>6. ref = [c EXCEPT !.liveness = dL, !.readiness = dR, !.startup = dS]
      <3>1. ref = DescribedContainer(f, c, a, cfg)
        BY <1>2, <2>4, ReferencePieces
      <3>2. DescribedContainer(f, c, a, cfg) =
              [c EXCEPT !.liveness = dL, !.readiness = dR, !.startup = dS]
        BY DEF DescribedContainer
      <3>. QED
        BY <3>1, <3>2
    <2>7. CopiedProbe(c, a, cfg) = Source(f, c, a, cfg)
      BY <2>4, ReferencePieces
    <2>8. \A kind \in {"liveness", "readiness"} :
            Final(kind, f, c, a, cfg) # Nil =>
              Final(kind, f, c, a, cfg).delay >= 0 /\ Final(kind, f, c, a, cfg).failure >= 0
      BY <2>2, <2>3 DEF new
    <2>9. /\ dL \in {Nil} \cup Probe /\ Near(L, dL, cfg)
          /\ dR \in {Nil} \cup Probe /\ Near(R, dR, cfg)
      BY <2>8, DescribedKind
    <2>10. \/ WithDefaults(S) = WithDefaults(dS)
           \/ /\ c.startup = Nil /\ WithDefaults(dS) # Nil
              /\ WithDefaults(S) =
                   [WithDefaults(dS) EXCEPT !.handler = CopiedProbe(c, a, cfg).handler]
      <3>1. CASE Injected(f, c, a, cfg)
        <4>1. c.startup = Nil
          BY <2>3, <3>1, NoneOverwritten DEF Injected
        <4>2. S = Tuned(f, c, a, cfg) /\ dS = DescribedStartup(f, c, a, cfg)
          BY <3>1 DEF FinalStartup
        <4>. QED
          BY <2>7, <3>1, <4>1, <4>2, DescribedCopy
      <3>2. CASE ~Injected(f, c, a, cfg)
        BY <3>2 DEF FinalStartup
      <3>. QED
        BY <3>1, <3>2
    <2>. HIDE DEF L, R, S, dL, dR, dS, ref
    <2>. DEFINE got  == Defaulted(new)
                want == Defaulted(ref)
    <2>11. /\ got = [c EXCEPT !.liveness = WithDefaults(L), !.readiness = WithDefaults(R),
                              !.startup = WithDefaults(S)]
           /\ want = [c EXCEPT !.liveness = WithDefaults(dL), !.readiness = WithDefaults(dR),
                               !.startup = WithDefaults(dS)]
      BY <2>5, <2>6 DEF Defaulted, Container
    <2>. HIDE DEF got, want
    <2>12. /\ got.liveness = WithDefaults(L) /\ got.readiness = WithDefaults(R)
           /\ got.startup = WithDefaults(S)
           /\ want.liveness = WithDefaults(dL) /\ want.readiness = WithDefaults(dR)
           /\ want.startup = WithDefaults(dS)
           /\ got = [want EXCEPT !.liveness = got.liveness, !.readiness = got.readiness,
                                 !.startup = got.startup]
      BY <2>11 DEF Container
    <2>13. /\ WithDefaults(L) = WithDefaults(dL)
              \/ CutToCap(WithDefaults(L), WithDefaults(dL), cfg)
           /\ WithDefaults(R) = WithDefaults(dR)
              \/ CutToCap(WithDefaults(R), WithDefaults(dR), cfg)
      BY <2>9, NearDefaults
    <2>14. \A kind \in {"liveness", "readiness"} :
             got[kind] = want[kind] \/ CutToCap(got[kind], want[kind], cfg)
      BY <2>12, <2>13
    <2>15. \/ got.startup = want.startup
           \/ HandlerPreserved(got.startup, want.startup, c, a, cfg)
      BY <2>10, <2>12 DEF HandlerPreserved
    <2>. QED
      BY <2>12, <2>14, <2>15, Zenon DEF AsDescribed, got, want, ref, new
  <1>. QED
    BY <1>1, <1>2

\* The operations of the patch, applied in their order, give the Pod that the
\* README's steps describe: a copied handler is preserved, and the cap may
\* lower a threshold.
THEOREM AsTheReference == Spec => []MatchesReference
  <1>1. ASSUME IInv, NEW q \in Request, answer[q].created,
               NoOverwrite(answer[q].pod.annotations),
               NEW i \in DOMAIN answer[q].pod.containers
        PROVE  AsDescribed(answer[q].stored.containers[i], answer[q].pod.containers[i],
                           answer[q].pod.annotations, answer[q].cfg)
    <2>. DEFINE pod == answer[q].pod
                cfg == answer[q].cfg
                a == pod.annotations
                c == pod.containers[i]
                new == Outcome(c, a, cfg)
                patch == buildPodProbePatches(pod, cfg)
    <2>1. /\ IsPod(pod) /\ IsJVMConfig(cfg) /\ answer[q].calls \in 1..2
          /\ answer[q] = mutatePod(pod, cfg, answer[q].calls)
      BY <1>1 DEF IInv, TypeOK, AnswerOK, NoAnswer
    <2>2. IsAnnotations(a) /\ c \in Container /\ NoOverwrite(a)
      BY <1>1, <2>1 DEF IsPod, ValidContainer
    <2>. HIDE DEF pod, cfg
    <2>3. ~Refused(pod, patch) /\ answer[q].stored = Stored(pod, patch)
      BY <1>1, <2>1, AnswerTyped
    <2>4. i \in DOMAIN pod.containers
      BY DEF pod
    <2>5. /\ Stored(pod, patch).containers =
               [j \in DOMAIN pod.containers |->
                  Defaulted(Outcome(pod.containers[j], pod.annotations, cfg))]
          /\ IsPod(Stored(pod, patch))
          /\ \A j \in DOMAIN pod.containers :
               Outcome(pod.containers[j], pod.annotations, cfg) \in Container
      BY <2>1, <2>3, StoredIsPod
    <2>. HIDE DEF patch
    <2>6. /\ Stored(pod, patch).containers[i] = Defaulted(new) /\ new \in Container
          /\ ValidContainer(Defaulted(new))
      <3>1. DOMAIN Stored(pod, patch).containers = DOMAIN pod.containers
        BY <2>5
      <3>2. ValidContainer(Stored(pod, patch).containers[i])
        BY <2>4, <2>5, <3>1 DEF IsPod
      <3>. QED
        BY <2>4, <2>5, <3>2
    <2>7. new # Nil
      BY <2>6, NilAssumption
    <2>8. \A kind \in Kinds : new[kind] # Nil =>
                            new[kind].delay >= 0 /\ new[kind].failure >= 0
      <3>. HIDE DEF new
      <3>. SUFFICES ASSUME NEW kind \in Kinds, new[kind] # Nil
                    PROVE  new[kind].delay >= 0 /\ new[kind].failure >= 0
        OBVIOUS
      <3>1. Defaulted(new)[kind] = WithDefaults(new[kind]) /\ new[kind] \in {Nil} \cup Probe
        BY <2>6, ContainerDefaults, ContainerProbes
      <3>2. /\ WithDefaults(new[kind]) # Nil /\ WithDefaults(new[kind]).delay = new[kind].delay
            /\ WithDefaults(new[kind]).failure = Or(new[kind].failure, 3)
        BY <3>1, ProbeDefaults
      <3>3. ValidProbe(kind, WithDefaults(new[kind]))
        BY <2>6, <3>1 DEF ValidContainer
      <3>. QED
        <4>1. new[kind].failure \in Int
          BY <3>1, Wrapped DEF Probe
        <4>. QED
          BY <3>2, <3>3, <4>1 DEF ValidProbe, Or
    <2>9. AsDescribed(Defaulted(new), c, a, cfg)
      BY <2>1, <2>2, <2>7, <2>8, ReferenceAgrees
    <2>. QED
      BY <2>3, <2>6, <2>9 DEF pod, cfg
  <1>2. IInv => MatchesReference
    BY <1>1, Zenon DEF MatchesReference
  <1>. QED
    BY Invariance, <1>2, PTL
=============================================================================
