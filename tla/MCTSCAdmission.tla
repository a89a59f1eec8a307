--------------------------- MODULE MCTSCAdmission ---------------------------
(***************************************************************************)
(* Instances of TSCAdmission for TLC.                                      *)
(***************************************************************************)
EXTENDS TSCAdmission, TLC

DeployA == [kind |-> "Deployment", name |-> "a"]
StsB    == [kind |-> "StatefulSet", name |-> "b"]
Both    == {DeployA, StsB}
OwnedAndBare  == "rs1" :> DeployA @@ "rs2" :> Nil

NoEnv  == [MANAGEMENT_ENABLED |-> Nil, MODE |-> Nil]
Absent(v) == [text |-> "absent", value |-> v]
Bad(v)    == [text |-> "bad", value |-> v]
Ok(v)     == [text |-> "ok", value |-> v]

Spread(n, key, when) ==
  [maxSkew |-> n, topologyKey |-> key, whenUnsatisfiable |-> when,
   fromTemplate |-> FALSE]

\* Pods: of a Deployment, of a bare ReplicaSet, of a StatefulSet that is
\* listed beside a ReplicaSet, without an owner, and those that opt out.
Pod(bypass, own, sts, rs) ==
  [bypass |-> bypass, ownConstraints |-> own, statefulSet |-> sts,
   replicaSet |-> rs]
DeploymentPod == {Pod(FALSE, FALSE, Nil, "rs1")}
Pods == DeploymentPod \cup
  {Pod(FALSE, FALSE, Nil, "rs2"), Pod(FALSE, FALSE, StsB, "rs1"),
   Pod(FALSE, FALSE, Nil, Nil), Pod(TRUE, FALSE, StsB, Nil),
   Pod(FALSE, TRUE, StsB, Nil)}

\* Workloads: two replicas, one or none given, the controller itself, and
\* overrides that are good, bad and too large.  The constraints annotation
\* leaves its policy out, which costs the Pod.
Plain == [replicas |-> 2, self |-> FALSE, constraints |-> Absent(<<>>),
          maxSkew |-> Nil, topologyKey |-> Nil, whenUnsatisfiable |-> Nil]
\* Wide does not fit into four bits.
Wide      == [Plain EXCEPT !.replicas = 1, !.maxSkew = 9]
Resized   == {Nil, Wide}
Varied ==
  {DeployA :> [Plain EXCEPT !.constraints = Bad(<<>>), !.maxSkew = 2,
                            !.whenUnsatisfiable = "other"]
     @@ StsB :> Plain,
   DeployA :> [Plain EXCEPT !.self = TRUE]
     @@ StsB :> [Plain EXCEPT !.replicas = Nil,
                              !.constraints =
                                Ok(<<Spread(3, "rack", "")>>)]}

AnyRule   == [namespaceRegex |-> Nil, nameRegex |-> Nil, labels |-> Nil]
NoA       == [AnyRule EXCEPT !.namespaceRegex = Workload, !.nameRegex = {DeployA}]
BadRegex  == [AnyRule EXCEPT !.nameRegex = {}]

Data(settings, constraints, exclusions) ==
  [settings |-> settings, defaultConstraints |-> constraints,
   exclusions |-> exclusions]
On == [EmptyConfigMap EXCEPT !.managementEnabled = "true"]

\* Excludes a, spreads over racks.
Excluding == Data(On, Ok(<<Spread(1, "rack", "")>>), Ok({NoA, BadRegex}))
\* Recommends, excludes nothing.
Recommend == Data([On EXCEPT !.mode = "recommend"], Absent(<<>>), Absent({}))
\* Unreadable constraints and rules, an unknown mode, single replicas too.
Broken    == Data([On EXCEPT !.mode = "other", !.skipSingleReplica = "false"],
                  Bad(<<>>), Bad({}))
Disabled  == Data([On EXCEPT !.managementEnabled = "false"], Ok(<<>>), Ok({AnyRule}))

Changing   == {Nil, Recommend, Broken, Disabled}
=============================================================================
