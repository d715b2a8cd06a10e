CONSTANTS
  InputTypes <- MCInputTypes
  Graphs <- MCGraphs
  MaxRuns = 1
SPECIFICATION Spec
INVARIANT ExecutesTheGraph
