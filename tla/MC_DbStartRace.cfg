SPECIFICATION MCSpec
CONSTANTS
  Instances = {"i", "j"}
  Statements = 2
  Tables = 1
  Found <- MCFound
  Configs <- MCConfigs
PROPERTIES OnlyBrokenRefused
CHECK_DEADLOCK FALSE
