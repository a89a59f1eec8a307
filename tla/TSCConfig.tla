------------------------------ MODULE TSCConfig ------------------------------
(***************************************************************************)
(* How the TSC controller reads its ConfigMap: pure operators.             *)
(*                                                                         *)
(* A key of the ConfigMap (or an environment variable) is Nil when it is   *)
(* absent, "" when it is empty, a string otherwise; "other" stands for     *)
(* every string the code does not recognise.  Durations, the version and   *)
(* the operator namespace are left out: the namespace is fixed by the      *)
(* installation.  Constraints and exclusion rules are not part of this     *)
(* module's view.                                                          *)
(***************************************************************************)
CONSTANT Nil

BoolText == {Nil, "", "true", "false", "other"}
ModeText == {Nil, "", "apply", "recommend", "other"}

RawConfig ==
  [managementEnabled : BoolText, rollbackOnDisable : BoolText,
   mode : ModeText, snapshotEnabled : BoolText, skipSingleReplica : BoolText,
   enableTSCManagement : BoolText, dryRun : BoolText]

Environment == [MANAGEMENT_ENABLED : BoolText, MODE : ModeText]

Config ==
  [managementEnabled : BOOLEAN, rollbackOnDisable : BOOLEAN,
   mode : {"apply", "recommend"}, snapshotEnabled : BOOLEAN,
   skipSingleReplica : BOOLEAN]

Set(v) == v \notin {Nil, ""}

parseBool(s, def) == IF s \in {"true", "false"} THEN s = "true" ELSE def

\* A key that is absent, empty or unreadable leaves the default.
BoolKey(v, def) == IF Set(v) THEN parseBool(v, def) ELSE def

\* A mutated form: the value is not checked.
ModeKeyUnchecked(v, def) == IF Set(v) THEN v ELSE def

ModeKey(v, def) == IF v \in {"apply", "recommend"} THEN v ELSE def

\* A ConfigMap without any setting.
EmptyConfigMap ==
  [managementEnabled |-> Nil, rollbackOnDisable |-> Nil, mode |-> Nil,
   snapshotEnabled |-> Nil, skipSingleReplica |-> Nil,
   enableTSCManagement |-> Nil, dryRun |-> Nil]

\* Canonical keys first; a deprecated key counts only when its canonical key
\* is absent (not merely empty); the environment has the last word.
Management(cm, env) ==
  LET canonical  == BoolKey(cm.managementEnabled, TRUE)
      deprecated == IF cm.enableTSCManagement # Nil /\ cm.managementEnabled = Nil
                    THEN cm.enableTSCManagement # "false"
                    ELSE canonical
  IN  BoolKey(env.MANAGEMENT_ENABLED, deprecated)

Mode(cm, env) ==
  LET canonical  == ModeKey(cm.mode, "apply")
      deprecated == IF cm.dryRun \notin {Nil, "false"} /\ cm.mode = Nil
                    THEN "recommend"
                    ELSE canonical
  IN  ModeKey(env.MODE, deprecated)

ParseTSCConfig(cm, env) ==
  [managementEnabled |-> Management(cm, env),
   rollbackOnDisable |-> BoolKey(cm.rollbackOnDisable, FALSE),
   mode              |-> Mode(cm, env),
   snapshotEnabled   |-> BoolKey(cm.snapshotEnabled, TRUE),
   skipSingleReplica |-> BoolKey(cm.skipSingleReplica, TRUE)]
=============================================================================
