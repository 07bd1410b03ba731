SPECIFICATION FairSpec
CONSTANTS
  Nil = Nil
  v1 = v1
  v2 = v2
  v3 = v3
  v4 = v4
  Versions = {v1, v2, v3, v4}
  AppNames = {"app1"}
  DataSpecs = {"data1"}
  ConfigMaps <- PatientConfigs
  Bases = {"base1", "base2"}
  ManagedModes = {TRUE, FALSE}
  PauseModes = {FALSE}
  HostCounts = {0}
  Faults = {}
  MaxLag = 0
  Ephemeral = FALSE
  MaxFailed = 1
  Disturbances = {"edit"}
  MaxDisturbances = 1
PROPERTIES Converges

