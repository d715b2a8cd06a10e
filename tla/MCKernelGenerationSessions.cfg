CONSTANTS
  Sessions = {s1, s2}
  Concurrent = FALSE
  Contracts = {here, elsewhere, bfloat}
  Native = {here, elsewhere}
  Kernels = {k1, k2}
  NCases = 2
  NRounds = 2
  MaxSpeedup = 3
  MinimumSpeedup = 2
  MaxAttempts = 2
SPECIFICATION FairSpec
VIEW WithoutRecords
INVARIANTS
  ArtifactIsAdmitted
  ReportsTheWorst
  LoadedKernelFits
  FeedbackIsOfThisAttempt
PROPERTIES
  OutcomeIsTrue
  SessionsEnd
