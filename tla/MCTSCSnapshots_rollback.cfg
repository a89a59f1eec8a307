SPECIFICATION FairSpec
CONSTANTS
  Nil = Nil
  Replica = {"r1", "r2"}
  Capturers <- NoCapturers
  Workload <- One
  Local <- One
  TSC <- Values
  Injected = "injected"
  Edits <- User1
  InitClusters <- OneLeft
  ConfigMaps <- OffOrOld
  InitConfigMap <- On
  Env <- NoEnv
  MaxUid = 2
  RetrySteps = 2
  MaxChanges = 2
  MaxFaults = 1
  MaxCrashes = 1
INVARIANTS TypeOK RestoredWhenMarked ThreadsConsistent
PROPERTIES RolledBackIsFinal FinalizerGuards StripsOnlyLost RollbackCompletes KeepsContract
