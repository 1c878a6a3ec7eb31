CONSTANTS
    Durations = {3, 15, 20, 40}
    MaxHops = 3
    None = None
SPECIFICATION Spec
INVARIANTS TypeOK PhasesConsistent
CHECK_DEADLOCK FALSE
