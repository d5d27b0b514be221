SPECIFICATION FairSpec
CONSTANTS
  Flows <- MCFlows
  Nodes <- MCNodes
  Paths <- MCPaths
  K = 2
  SimDuration = 4
INVARIANTS
  SharesConserved
  CompleteInTime
PROPERTIES
  Delivery
  EventuallyReceived
