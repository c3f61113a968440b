SPECIFICATION Spec
SYMMETRY ImageSymmetry
CONSTANTS
  None = None
  Images = {a, b}
  DepthImage = depth
  Vertices = vertices
  MaxOps = 6
  MaxDraws = 3
INVARIANTS EmittedIsAccepted RegistersAreRequested CachesCoherent
CHECK_DEADLOCK FALSE
