SPECIFICATION FairSpec
CONSTANTS
  p = p
  s = s
  t = t
  u = u
  r = r
  Ops = {s, t, u}
  KindOf <- KindOfOps
  None = none
  PromptRestore = TRUE
  MaxCrashes = 0
  MaxFaults = 0
  MaxDeletes = 1
PROPERTIES
  StatusConverges
  DueIsPurged
CHECK_DEADLOCK FALSE
