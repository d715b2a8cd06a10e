SPECIFICATION Spec
CONSTANTS
  Capacity = 3
  LayerCount = 2
  MaxFailures = 1
  Configurations <- MCConfigurations
  Compilations <- MCCompilations
INVARIANTS
  ComputesDecoder
  TestsAreDecisive
  AuditMatchesSteps
CHECK_DEADLOCK FALSE
