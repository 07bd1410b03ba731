SPECIFICATION LiveSpec
CONSTANTS
  Unset = Unset
  Number <- Texts
  Mentions <- Templates
  Scripts <- RunnableScripts
  EnvName <- EnvNames
  DbSecret <- DbSecrets
  Hash <- CollidingHash
  ConfigMaps <- Maps
  InitialMaps <- FirstMaps
  Specs <- AllSpecs
  InitialSpec <- FirstSpec
  SecretNames <- AllSecretNames
  Secrets <- SomeSecrets
  InitialSecret <- FirstSecret
  initialPassword = "havefun"
  Ephemeral = TRUE
  Second = 10
  IntBound = 32768
  MaxFailed = 1
  MaxChanges = 2
INVARIANTS TypeOK NoInitialPassword
PROPERTIES NoNeedlessRefresh RolledOut
CHECK_DEADLOCK FALSE
