SPECIFICATION Spec
CONSTANTS
  Nil = Nil
  v1 = v1
  v2 = v2
  v3 = v3
  v4 = v4
  Versions = {v1, v2, v3, v4}
  AppNames = {"app1"}
  DataSpecs = {"data1"}
  ConfigMaps <- OneConfig
  Bases = {"base1"}
  ManagedModes = {TRUE}
  PauseModes = {FALSE}
  HostCounts = {0}
  Faults = {"setup"}
  MaxLag = 0
  Ephemeral = FALSE
  MaxFailed = 2
  Disturbances = {}
  MaxDisturbances = 0
PROPERTIES OldConnectorKept

