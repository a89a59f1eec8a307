--------------------------- MODULE MCJVMAdmission ---------------------------
(***************************************************************************)
(* An instance of JVMAdmission for TLC.                                    *)
(***************************************************************************)
EXTENDS JVMAdmission

Number(n) == [text |-> "ok", value |-> n]
BadText   == [text |-> "bad", value |-> 0]
NoText    == [text |-> "empty", value |-> 0]

Port(name, number) == [name |-> name, number |-> number]

Own(kind, delay, period, failure) ==
  [handler |-> [kind |-> kind, path |-> IF kind = "httpGet" THEN "/own" ELSE "",
                port |-> IF kind = "exec" THEN Port("", 0) ELSE Port("", 7000)],
   delay |-> delay, period |-> period, failure |-> failure, success |-> 1]

\* Containers: what they are known by, and their ports.
Bare    == [env |-> <<>>, image |-> {}, ports |-> <<>>, liveness |-> Nil,
            readiness |-> Nil, startup |-> Nil]
Java    == [java |-> TRUE, framework |-> Nil]
Quarkus == [java |-> FALSE, framework |-> "quarkus"]
Unprobed == {[Bare EXCEPT !.image = {"runtime"}],
             [Bare EXCEPT !.image = {"runtime", "nonJVM"}, !.ports = <<Port("x", 7001)>>]}
Known ==
  {[Bare EXCEPT !.image = {"runtime"}, !.ports = <<Port("admin", 7001), Port("web", 7000)>>],
   [Bare EXCEPT !.image = {"runtime", "nonJVM", "spring-boot"}],
   [Bare EXCEPT !.env = <<Java, Quarkus>>, !.ports = <<Port("x", 7001), Port("y", 8080)>>]}

\* The probes they come with.
WithProbes(c) ==
  {c,
   [c EXCEPT !.liveness = Own("httpGet", 5, 7, 3)],
   [c EXCEPT !.readiness = Own("exec", 0, 10, 12)],
   [c EXCEPT !.liveness = Own("tcpSocket", 5, 5, 15), !.startup = Own("exec", 0, 10, 3)],
   [c EXCEPT !.liveness = Own("tcpSocket", 0, 10, 12), !.readiness = Own("httpGet", 0, 3, 19)]}

\* Annotations.
NoAnnotations == [key \in {} |-> ""]
Annotations ==
  {NoAnnotations,
   [bypass |-> "TRUE"],
   [framework |-> "micronaut", align |-> "yes"],
   [framework |-> "other", port |-> BadText],
   [align |-> "true"] @@ ("clear-delays" :> "1"),
   ("overwrite-all" :> "true"),
   ("inject-liveness" :> "true") @@ ("inject-readiness" :> "")
     @@ ("failure-threshold" :> Number(262139)) @@ [align |-> "true"],
   ("inject-readiness" :> "no") @@ ("startup-period" :> Number(5))
     @@ [port |-> Number(7002), managed |-> "true"]}

Sidecar == [Bare EXCEPT !.image = {"nonJVM"}]
SomePods ==
  {[annotations |-> a, containers |-> <<c>>] :
     a \in Annotations, c \in Unprobed \cup UNION {WithProbes(k) : k \in Known}}
  \cup {[annotations |-> a, containers |-> <<Sidecar, c>>] :
           a \in {NoAnnotations, [port |-> Number(70000)]}, c \in Known}

\* ConfigMaps: one that injects and aligns everything, one that is off by the
\* deprecated key, and one without usable frameworks.
NoKeys == [frameworks |-> [text |-> "empty", value |-> Nil],
          injectLiveness |-> Nil, injectReadiness |-> Nil, injectStartup |-> Nil,
          align |-> Nil, minWindow |-> NoText, maxFailure |-> NoText,
          managementEnabled |-> Nil, enableProbeManagement |-> Nil,
          exclusions |-> ""]
All   == [NoKeys EXCEPT !.injectLiveness = "true", !.align = "true",
                       !.minWindow = Number(65), !.maxFailure = Number(20),
                       !.exclusions = "rules"]
Off   == [NoKeys EXCEPT !.enableProbeManagement = "false", !.minWindow = BadText,
                       !.exclusions = "bad"]
NoFrameworks ==
  [NoKeys EXCEPT !.frameworks = [text |-> "ok", value |-> <<>>],
                !.injectStartup = "", !.managementEnabled = "no",
                !.align = "true", !.enableProbeManagement = "false"]
SomeConfigMaps == {Nil, All, NoFrameworks}
=============================================================================
