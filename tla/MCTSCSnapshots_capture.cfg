SPECIFICATION Spec
CONSTANTS
  Nil = Nil
  Replica = {"r1"}
  Capturers <- TwoCapturers
  Workload <- Two
  Local <- One
  TSC <- Values
  Injected = "injected"
  Edits <- User1
  InitClusters <- Uncaptured
  ConfigMaps <- NoSnapshots
  InitConfigMap <- On
  Env <- NoEnv
  MaxUid = 2
  RetrySteps = 2
  MaxChanges = 2
  MaxFaults = 1
  MaxCrashes = 1
INVARIANT ReadyGuarded
PROPERTY KeepsContract
