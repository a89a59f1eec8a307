SPECIFICATION FairSpec
CONSTANTS
  Nil = Nil
  IntBits = 8
  Label <- OneLabel
  Workload <- OneWorkload
  WorkloadSel <- OneSel
  Versions <- OneVersions
  ForeignPDB = {}
  UserWrites = {}
  ConfigMaps <- SomeConfigs
  InitWorkloads <- AnyInit
  InitPDBs <- LeftPDBs
  InitConfigMap <- FixMinOne
  Active = {"deploy", "reconcile", "gc"}
  RecheckAttempts = 1
  MaxChanges = 1
  MaxFaults = 1
PROPERTIES EligibleCovered NoUnderReplicatedPDB BudgetsFollow ConfigFollowsConfigMap TasksReturn
