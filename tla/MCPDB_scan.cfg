SPECIFICATION FairSpec
CONSTANTS
  Nil = Nil
  IntBits = 8
  Label <- OneLabel
  Workload <- OneWorkload
  WorkloadSel <- OneSel
  Versions <- Annotated
  ForeignPDB <- Foreigners
  UserWrites <- ForeignWrites
  ConfigMaps <- NoConfigs
  InitWorkloads <- OneInit
  InitPDBs <- AnyPDBs
  InitConfigMap <- FixMinOne
  Active = {"deploy", "scanTick"}
  RecheckAttempts = 1
  MaxChanges = 1
  MaxFaults = 1
INVARIANTS TaskInv
PROPERTIES ForeignOnlyFixedByScan HelmLeftoversRemoved PoorPDBsFixed
