CONSTANTS
  InputTypes <- MCInputTypes
  Graphs <- MCGraphs
  MaxRuns = 2
SPECIFICATION Spec
INVARIANTS
  OrderIsTopological
  RegionsPartitionTheNodes
  IntermediatesStayInside
  RegionsAreWellFormed
  FusionKeepsOutputs
  RightUnlessLate
