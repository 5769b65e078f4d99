SPECIFICATION Spec
CONSTANTS
  d1 = d1
  d2 = d2
  d3 = d3
  q1 = q1
  Deployments = {d1, d2, d3}
  Priority <- AllManual
  Requests = {}
  None = None
  MaxClock = 2
  MaxBoots = 0
  MaxFaults = 0
SYMMETRY DeploymentSymmetry
INVARIANTS
  SupersededIsRemoved
  CancelledIsNotRouted
