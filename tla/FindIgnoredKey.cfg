SPECIFICATION Spec
CONSTANTS
  Unset = Unset
  Number <- Texts
  Mentions <- Templates
  Scripts <- RunnableScripts
  EnvName <- EnvNames
  DbSecret <- DbSecrets
  Hash <- CollidingHash
  ConfigMaps <- IgnoredKeys
  InitialMaps <- FirstIgnoredKeys
  Specs <- OneSpec
  InitialSpec <- FirstSpec
  SecretNames <- AllSecretNames
  Secrets <- OneSecret
  InitialSecret <- FirstSecret
  initialPassword = "havefun"
  Ephemeral = TRUE
  Second = 10
  IntBound = 32768
  MaxFailed = 2
  MaxChanges = 1
PROPERTIES IgnoredKeysDoNotRefresh
CHECK_DEADLOCK FALSE
