SPECIFICATION MCSpec
CONSTANTS
  Instances = {"i", "j"}
  Statements = 2
  Tables = 1
  Found <- MCFound
  Configs <- MCConfigs
INVARIANTS ReadyIsWhole PoolsFollowUse
PROPERTIES SchemasRespected StartsAndStopsEnd
CHECK_DEADLOCK FALSE
