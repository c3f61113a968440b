CONSTANTS
  Capacity = 2
  Async = {a1}
  Sync = {}
  Accessors = {}
  None = None
SPECIFICATION Spec
INVARIANT RunsOnlyWhenReady
CHECK_DEADLOCK FALSE
