SPECIFICATION FairSpec
CONSTANTS
  Nil = Nil
  v1 = v1
  v2 = v2
  v3 = v3
  v4 = v4
  Versions = {v1, v2, v3, v4}
  AppNames = {"app1"}
  DataSpecs = {"data1"}
  ConfigMaps <- PatientConfigs
  Bases = {"base1", "base2"}
  ManagedModes = {TRUE}
  PauseModes = {TRUE, FALSE}
  HostCounts = {0}
  Faults = {}
  MaxLag = 0
  Ephemeral = FALSE
  MaxFailed = 1
  Disturbances = {"edit", "delete", "config", "drop table", "drop connector", "fail connector", "edit connector", "drift"}
  MaxDisturbances = 2
PROPERTIES Converges
CHECK_DEADLOCK FALSE

