SPECIFICATION Spec
CONSTANTS
  Nil = Nil
  v1 = v1
  v2 = v2
  v3 = v3
  v4 = v4
  v5 = v5
  Versions = {v1, v2, v3, v4, v5}
  AppNames = {"app1"}
  DataSpecs = {"data1"}
  ConfigMaps <- QuickConfig
  Bases = {"base1"}
  ManagedModes = {TRUE}
  PauseModes = {FALSE}
  HostCounts = {0}
  Faults = {"setup", "cleanup", "crash"}
  MaxLag = 1
  Ephemeral = FALSE
  MaxFailed = 1
  Disturbances = {"delete"}
  MaxDisturbances = 1
SYMMETRY Symmetry
INVARIANTS CleanRemoval NoLostWakeup
PROPERTIES FollowsLifecycle
CHECK_DEADLOCK FALSE

