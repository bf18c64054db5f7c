CONSTANTS
    Publications = {p1, p2, p3}
    Mandatory = {p1, p2, p3}
    NoPublication = NoPublication
    CallsShutdown = FALSE
    MaxOutstanding = 2
    MaxAttempts = 0
    MaxGenerations = 1
SPECIFICATION Spec
INVARIANTS NotSentNeverSent
CHECK_DEADLOCK FALSE
SYMMETRY Symmetry
