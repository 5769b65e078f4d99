SPECIFICATION FairSpec
CONSTANTS
  d1 = d1
  d2 = d2
  d3 = d3
  q1 = q1
  Deployments = {d1, d2}
  Priority <- PushThenManual
  Requests = {q1}
  None = None
  MaxClock = 0
  MaxBoots = 2
  MaxFaults = 1
INVARIANTS
  ActiveIsKept
  NoResidue
  RoutedContainerRuns
PROPERTIES
  OutcomeIsFinal
  DeploymentEnds
