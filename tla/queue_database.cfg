SPECIFICATION FairSpec
CONSTANTS
  d1 = d1
  d2 = d2
  b1 = b1
  r1 = r1
  w1 = w1
  w2 = w2
  w3 = w3
  Ops = {b1, r1}
  Deploys = {}
  Restores = {r1}
  LockOf <- MCLockOf
  ServiceOf <- MCServiceOf
  Priority <- MCPriority
  Workers = {w1, w2}
  DeployWorkers = {}
  DefaultMaxAttempts = 2
  None = None
  MaxBoots = 1
  MaxFaults = 0
  MaxClock = 1
INVARIANTS
  OneRunningPerLockKey
PROPERTY EveryOperationEnds
