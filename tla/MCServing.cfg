CONSTANTS
  N = 3
  LayerCount = 2
  PageSize = 3
  Capacity = 5
  PoolPages = 3
  ChunkSize = 2
  TickLimit = 15
  LastArrival = 1
  DecodeCounts = {0, 1, 3}
  RequestSpecs <- AllSpecs
SPECIFICATION Spec
INVARIANTS
  OnlyTheDeviceFails
  ProgressBound
  PagesFollowRequests
  SnapshotComplete
PROPERTIES
  ImplementsTokenService
  ResumeBeforePrefill
  ServesEachAsIfAlone
