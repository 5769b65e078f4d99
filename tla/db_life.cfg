SPECIFICATION Spec
CONSTANTS
  p = p
  s = s
  t = t
  u = u
  r = r
  Ops = {p, u, r}
  KindOf <- KindOfOps
  None = none
  PromptRestore = TRUE
  MaxCrashes = 1
  MaxFaults = 1
  MaxDeletes = 1
INVARIANTS
  PurgedLeavesNothing
PROPERTIES
  VolumeOutlivesRetention
CHECK_DEADLOCK FALSE
