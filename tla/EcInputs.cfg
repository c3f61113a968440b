\* Two switches, and an EC that holds up to two events.
SPECIFICATION Spec
CONSTANTS
    Keys = {1, 2}
    MaxEvents = 2
    Nil = Nil
INVARIANT RacingEventSettles
CHECK_DEADLOCK FALSE
