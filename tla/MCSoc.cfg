SPECIFICATION Spec
CONSTANTS
  Pins = {p1, p2}
  Devices = {d1}
  Edge = {p1}
  NoDevice = NoDevice
  MaxGen = 3
  Calls = {c1, c2, c3}
  CommandsPerTcs = 2
  None = None
  Steady = Steady
  Transient = Transient
  Budget = 2
  MaxEvents = 4
  MaxFaults = 2
  SeqModulus = 2
  Deadline = 2
  MaxSubmissions = 3
INVARIANTS
  ArmedIffRegistered BatchIntact NothingWithheld FreedStaysMasked
  RetiredIsFlushed DeliveredInterruptWakes
PROPERTIES
  EdgeServed EventsDrained ExecutionEnds
CHECK_DEADLOCK FALSE
