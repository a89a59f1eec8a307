SPECIFICATION FairSpec
CONSTANTS
  Nil = Nil
  IntBits = 8
  Label <- OneLabel
  Workload <- OneWorkload
  WorkloadSel <- OneSel
  Versions <- OneVersions
  ForeignPDB = {}
  UserWrites = {}
  ConfigMaps <- OneConfigs
  InitWorkloads <- OneInit
  InitPDBs <- NoPDBs
  InitConfigMap <- MinOne
  Active = {"deploy", "reconcile", "gc"}
  RecheckAttempts = 1
  MaxChanges = 1
  MaxFaults = 0
PROPERTIES BypassedUncovered
