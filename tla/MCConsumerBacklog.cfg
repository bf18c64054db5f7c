CONSTANTS
    Messages = {m1}
    Malformed = {}
    Workers = {w1}
    Scenarios = {{"Pause"}}
    Prefetch = 1
    MaxAttempts = 1
    MaxGenerations = 3
    MaxDeliveries = 1
SPECIFICATION FairSpec
INVARIANTS NoLostWakeup
PROPERTIES BacklogServed
CHECK_DEADLOCK FALSE
