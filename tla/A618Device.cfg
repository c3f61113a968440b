CONSTANTS
  Capacity = 2
  Async = {a1, a2}
  Sync = {s1}
  Accessors = {c1}
  None = None
SPECIFICATION FairSpec
INVARIANTS SlotsCounted GpuMemoryPinned CpuCopyAlone
PROPERTIES NothingRunsAfterFailure AcceptedSettles ImplementsFifo
CHECK_DEADLOCK FALSE
