SPECIFICATION FairSpec
CONSTANTS
  j1 = j1  j2 = j2
  Jobs = {j1, j2}
  Chunks <- MCChunks
  MaxSubmissions = 2
  MaxPending = 4
  MaxInFlight = 2
  Arenas = 2
  KernelSlots = 2
  None = None
INVARIANTS
  ArenaIntact
  NoLostWake
PROPERTIES
  InOrder
  IdleIsIdle
  JobsSettle
CHECK_DEADLOCK FALSE
