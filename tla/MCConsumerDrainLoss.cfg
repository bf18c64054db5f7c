CONSTANTS
    Messages = {m1, m2}
    Malformed = {}
    Workers = {w1}
    Scenarios = {{"Pause", "Drain"}}
    Prefetch = 2
    MaxAttempts = 0
    MaxGenerations = 1
    MaxDeliveries = 2
SPECIFICATION Spec
INVARIANTS DrainSettlesReceived
SYMMETRY Symmetry
CHECK_DEADLOCK FALSE
