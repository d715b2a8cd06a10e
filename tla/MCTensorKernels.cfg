CONSTANTS
  Graphs <- MCGraphs
  Targets <- MCTargets
  Ranges <- MCRanges
  AxisAttributes <- MCAxes
  AxisLists <- MCAxisLists
  LogThreads = {1}
  LogDefaultThreads = 2
  MaxViews = 2
SPECIFICATION Spec
CHECK_DEADLOCK FALSE
INVARIANTS
  KernelsMatchReference
  RegionsValidate
