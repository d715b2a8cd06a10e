CONSTANTS
  LayerCount = 2
  Batch = 2
  Capacity = 3
  PrefillLength = 2
  Token = {a, b}
  MaxFailures = 1
SPECIFICATION Spec
VIEW WithoutAnswers
SYMMETRY TokenSymmetry
INVARIANTS
  LayersAgreeOrAreEmpty
PROPERTY ImplementsSession
