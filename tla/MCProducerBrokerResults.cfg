CONSTANTS
    Publications = {p1, p2}
    Mandatory = {}
    NoPublication = NoPublication
    CallsShutdown = TRUE
    MaxOutstanding = 2
    MaxAttempts = 0
    MaxGenerations = 1
SPECIFICATION Spec
INVARIANTS BrokerResultsTrue
CHECK_DEADLOCK FALSE
SYMMETRY Symmetry
