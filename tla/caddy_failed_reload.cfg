SPECIFICATION FairSpec
CONSTANTS
  Domains = {d1}
  Names = {n1, n2}
  Services = {s1}
  Ports = {p1, p2}
  Loop = loop
  Requests = {}
  None = none
  SyncAfterMutate = TRUE
  Periodic = TRUE
  MaxChanges = 3
  MaxStops = 1
  MaxFaults = 1
  MaxRestarts = 1
  MaxBoots = 0
  MaxTroubles = 3
PROPERTY FailedReloadHeals
