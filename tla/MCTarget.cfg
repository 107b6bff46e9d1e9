SPECIFICATION Spec
CONSTANTS
  Targets = {"t1", "t2"}
  Configs <- MCConfigs
  RouteAPI = TRUE
  GatewayAPI = FALSE
  HandDeleted = {"manager", "Route"}
  MaxEdits = 1
  MaxFaults = 1
INVARIANTS ReadyIsCurrent SharedApiKept
PROPERTIES Converges DeletionEnds
CHECK_DEADLOCK FALSE
