CONSTANTS
    Messages = {m1}
    Malformed = {}
    Workers = {w1}
    Scenarios = {{"Pause", "Drain"}, {"Drain", "Shutdown"}}
    Prefetch = 1
    MaxAttempts = 1
    MaxGenerations = 1
    MaxDeliveries = 1
SPECIFICATION StopSpec
PROPERTIES AdmissionRespected ShutdownCompletes DrainReachesDone
CHECK_DEADLOCK FALSE
