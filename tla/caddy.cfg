SPECIFICATION BoundedSpec
CONSTANTS
  Domains = {d1}
  Names = {n1, n2}
  Services = {s1, s2}
  Ports = {p1, p2}
  Loop = loop
  Requests = {q1}
  None = none
  SyncAfterMutate = TRUE
  Periodic = TRUE
  MaxChanges = 3
  MaxStops = 2
  MaxFaults = 2
  MaxRestarts = 1
  MaxBoots = 1
  MaxTroubles = 2
INVARIANTS SettledIsCurrent PublishedIsRouted
PROPERTY RoutesConverge
