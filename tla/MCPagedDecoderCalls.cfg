CONSTANTS
  LayerCount = 2
  PageSize = 2
  Capacity = 3
  PoolPages = 2
  PrefillLength = 2
  ChunkSize = 1
  Token = {a, b}
  Calls = {"prefill", "prefillChunked", "decode", "decode without logits", "reset", "snapshot"}
  MaxFailures = 2
SPECIFICATION Spec
VIEW WithoutCounters
SYMMETRY TokenSymmetry
INVARIANTS
  FrontLayerSpeaksForAll
  DeviceReady
PROPERTY ImplementsSession
