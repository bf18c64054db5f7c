CONSTANTS
    Messages = {m1, m2}
    Malformed = {m2}
    Workers = {w1}
    Scenarios = {{"Drain"}, {"Shutdown"}}
    Prefetch = 1
    MaxAttempts = 1
    MaxGenerations = 2
    MaxDeliveries = 1
SPECIFICATION Spec
INVARIANTS SettledOnce StoppedOwnsNothing NothingStranded DependencyHonest DrainStopsIntake HandlerSettlementReported
CHECK_DEADLOCK FALSE
