SPECIFICATION FairSpec
CONSTANTS
  Nil = Nil
  IntBits = 8
  Label <- OneLabel
  Workload <- OneWorkload
  WorkloadSel <- OneSel
  Versions <- OneVersions
  ForeignPDB = {}
  UserWrites = {}
  ConfigMaps <- NoConfigs
  InitWorkloads <- OneInit
  InitPDBs <- NoPDBs
  InitConfigMap = Nil
  Active = {"deploy"}
  RecheckAttempts = 1
  MaxChanges = 0
  MaxFaults = 0
PROPERTIES FallbackBudgetKept
