CONSTANTS
    Durations = {3, 15, 20, 40}
    MaxHops = 3
    None = None
SPECIFICATION Spec
INVARIANT BreakdownOfSlowRequest
CHECK_DEADLOCK FALSE
