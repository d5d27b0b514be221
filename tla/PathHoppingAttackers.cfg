SPECIFICATION AttackSpec
CONSTANTS
  Flows = {0}
  TargetFlow = 0
  N = 3
  K = 2
  PathLength = 2
  Nodes <- DriverNodes
  Paths <- DriverPaths
  SimDuration = 3
  Kinds = {"RandomNode", "RandomPath", "IdealRandomPath", "OneNodePerPath", "Fixed", "Planned", "Total"}
  HopPeriods = {1, 2}
PROPERTIES
  FirstHopOrNever
  PlannedSweepRecoversItsMessage
