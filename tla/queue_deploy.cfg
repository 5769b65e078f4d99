SPECIFICATION Spec
CONSTANTS
  d1 = d1
  d2 = d2
  b1 = b1
  r1 = r1
  w1 = w1
  w2 = w2
  w3 = w3
  Ops = {d1, d2, b1}
  Deploys = {d1, d2}
  Restores = {}
  LockOf <- MCLockOf
  ServiceOf <- MCServiceOf
  Priority <- MCPriority
  Workers = {w1, w2, w3}
  DeployWorkers = {w1, w2}
  DefaultMaxAttempts = 2
  None = None
  MaxBoots = 1
  MaxFaults = 1
  MaxClock = 0
SYMMETRY WorkerSymmetry
INVARIANTS
  QueuedIsClaimable
  DeployStartsOnce
PROPERTY ImplementsContract
