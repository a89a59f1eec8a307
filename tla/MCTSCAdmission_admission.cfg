SPECIFICATION FairSpec
CONSTANTS
  Nil = Nil
  Replica = {"r1"}
  Workload <- Both
  ReplicaSet = {"rs1", "rs2"}
  DeploymentOf <- OwnedAndBare
  Request = {"q1"}
  PodSpecs <- Pods
  InitWorkloads <- Varied
  Edits <- Resized
  ConfigMaps <- Changing
  InitConfigMap <- Excluding
  Env <- NoEnv
  IntBits = 4
  MaxChanges = 2
  MaxFaults = 1
  MaxCrashes = 1
INVARIANTS TypeOK RulesMatchConfig BlockedOnlyByBadInput
PROPERTIES SteadyDecisions HandlersReturn ConfigSettles
CHECK_DEADLOCK FALSE
