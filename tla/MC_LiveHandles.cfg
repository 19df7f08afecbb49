SPECIFICATION HandlesSpec
CONSTANTS
  Users = {"u1"}
  Tasks = {"g1"}
  Fields <- MCFields
  Values <- MCValues
  MaxVersions = 4
INVARIANTS NothingMissed
PROPERTIES CallbacksChange WaitsEnd
CHECK_DEADLOCK FALSE
