SPECIFICATION FairSpec
CONSTANTS
  Nil = Nil
  Replica = {"r1"}
  Capturers <- NoCapturers
  Workload <- One
  Local <- One
  TSC <- Values
  Injected = "injected"
  Edits <- User1
  InitClusters <- OneLeft
  ConfigMaps <- OffOnly
  InitConfigMap <- On
  Env <- NoEnv
  MaxUid = 2
  RetrySteps = 2
  MaxChanges = 1
  MaxFaults = 0
  MaxCrashes = 1
PROPERTY RollbackSurvivesRestart
