-------------------------- MODULE TSCConfigProofs ---------------------------
(***************************************************************************)
(* What the configuration of the TSC controller may be, whatever its       *)
(* ConfigMap and its environment say.                                      *)
(***************************************************************************)
EXTENDS TSCConfig, TLAPS

\* ParseTSCConfig always returns booleans and a mode the code knows.
THEOREM ConfigTyped ==
  ASSUME NEW cm, NEW env
  PROVE  ParseTSCConfig(cm, env) \in Config
  <1>1. \A v, d : d \in BOOLEAN => BoolKey(v, d) \in BOOLEAN
    BY DEF BoolKey, parseBool
  <1>2. \A v, d : d \in {"apply", "recommend"} => ModeKey(v, d) \in {"apply", "recommend"}
    BY DEF ModeKey
  <1>3. Management(cm, env) \in BOOLEAN
    BY <1>1 DEF Management
  <1>4. Mode(cm, env) \in {"apply", "recommend"}
    BY <1>2 DEF Mode
  <1>. QED
    BY <1>1, <1>3, <1>4 DEF ParseTSCConfig, Config
=============================================================================
