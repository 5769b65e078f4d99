SPECIFICATION Spec
CONSTANTS
  None = none
  Connections = {c1}
  GatewayWorkers = {w1}
  Lifecycle = l
  MaxGateway = 3
  MaxGeneration = 4
  MaxTroubles = 1
  MaxRequests = 0
INVARIANTS GatewayTypeOK RevokedRowHasNoLogin DenialHolds
CHECK_DEADLOCK FALSE
PROPERTY GatewayQueueDrains
