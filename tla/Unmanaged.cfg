SPECIFICATION Spec
CONSTANTS
  Nil = Nil
  v1 = v1
  v2 = v2
  v3 = v3
  v4 = v4
  v5 = v5
  Versions = {v1, v2, v3, v4, v5}
  AppNames = {"app1"}
  DataSpecs = {"data1"}
  ConfigMaps <- QuickConfig
  Bases = {"base1"}
  ManagedModes = {TRUE, FALSE}
  PauseModes = {FALSE}
  HostCounts = {0, 1}
  Faults = {}
  MaxLag = 0
  Ephemeral = FALSE
  MaxFailed = 1
  Disturbances = {"edit", "delete"}
  MaxDisturbances = 2
INVARIANTS CleanRemoval DependenciesBounded
PROPERTIES ActiveTableKept UnmanagedTableStable
CHECK_DEADLOCK FALSE

