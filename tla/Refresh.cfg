SPECIFICATION LiveSpec
CONSTANTS
  Nil = Nil
  v1 = v1
  v2 = v2
  v3 = v3
  v4 = v4
  Versions = {v1, v2, v3, v4}
  AppNames = {"app1"}
  DataSpecs = {"data1"}
  ConfigMaps <- ThreeConfigs
  Bases = {"base1", "base2"}
  ManagedModes = {TRUE}
  PauseModes = {FALSE}
  HostCounts = {0}
  Faults = {}
  MaxLag = 0
  Ephemeral = FALSE
  MaxFailed = 2
  Disturbances = {"config", "drop table", "drop connector", "fail connector", "drift"}
  MaxDisturbances = 1
INVARIANTS TypeOK ViewReadable
PROPERTIES OldConnectorKept LiveTableKept FailedPipelineRefreshed FollowsLifecycle

