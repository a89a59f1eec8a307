SPECIFICATION FairSpec
CONSTANTS
  Nil = Nil
  IntBits = 18
  Replica = {"r1"}
  Request = {"q1"}
  Pods <- SomePods
  ConfigMaps <- SomeConfigMaps
  InitConfigMap <- Off
  DefaultRules = "default"
  MaxChanges = 2
  MaxFaults = 1
  MaxCrashes = 1
INVARIANTS TypeOK MatchesReference BlockedOnlyByBadNumbers TargetsDeclaredPorts
PROPERTIES InvokedTwice ConfigSettles
CHECK_DEADLOCK FALSE
