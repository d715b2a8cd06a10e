CONSTANTS
  Requests = {r1, r2}
  PageSize = 2
  Capacity = 3
  PoolPages = 3
  MaxAllocations = 3
SYMMETRY Symmetry
SPECIFICATION Spec
INVARIANTS
  PagesPartitioned
  LifecycleBalanced
  TableCoversLength
  DeviceSeesHost
  PrefixIntact
  SnapshotIntact
PROPERTIES
  SlotsStable
