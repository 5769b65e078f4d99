CONSTANTS
  None = None
  MaxTroubles = 2
  MaxRequests = 4
  Rotations = {x1, x2}
  MaxRuns = 2
  MaxRestarts = 2
  Snapshots = {s1, s2}
  Keys = {k1, k2}
  Versions = {2, 3}
  CanaryMigration = 2
  Torn = torn
  Retention = 1
  LastDay = 2
  Environments = {e1, e2}
  FirstEnvironment = e1
  Services = {v1, v2}
  Deploys = {d1, d2}
  Clients = {c1, c2}
  Files = {1, 2}
  LogBytes = 3
  HostServices = {a1, a2}
  LastDeploy = 3
  Ports = {1, 2}
  Retain = 1
  Zones = {z1, z2}
  Shares = {w1}
  Operators = {o1, o2}
SPECIFICATION Spec
INVARIANTS PlatformTypeOK EngineAcceptsStored ServesWhatItUnderstands SnapshotIsUsable DeletedRunsNothing LogIsExact PortsAreDistinct ImageIsKept ShareFollowsPlatform SnippetServesPlatform StatusIsOfTheName
PROPERTIES RotationResumes
CHECK_DEADLOCK FALSE
