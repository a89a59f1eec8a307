\* No ticker runs in this instance: with no workload left the controller waits.
CHECK_DEADLOCK FALSE
SPECIFICATION Spec
CONSTANTS
  Nil = Nil
  IntBits = 8
  Label <- TwoLabels
  Workload <- TwoWorkloads
  WorkloadSel <- TwoSel
  Versions <- TwoVersions
  ForeignPDB = {}
  UserWrites <- BareWrites
  ConfigMaps <- KeyConfigs
  InitWorkloads <- TwoInit
  InitPDBs <- NoPDBs
  InitConfigMap <- MinOne
  Active = {"deploy", "sts", "scanOnce"}
  RecheckAttempts = 2
  MaxChanges = 2
  MaxFaults = 0
INVARIANTS TypeOK CastaiSelectorSound TaskInv
PROPERTIES SelectorNeverRewritten
