CONSTANTS
  Sessions = {s1, s2}
  Concurrent = FALSE
  Contracts = {here, elsewhere, bfloat}
  Native = {here, elsewhere}
  Kernels = {k1, k2}
  NCases = 1
  NRounds = 1
  MaxSpeedup = 2
  MinimumSpeedup = 2
  MaxAttempts = 1
SPECIFICATION Spec
PROPERTY FailureKeepsArtifact
