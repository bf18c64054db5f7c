CONSTANTS
    Publications = {p1, p2}
    Mandatory = {p1, p2}
    NoPublication = NoPublication
    CallsShutdown = FALSE
    MaxOutstanding = 2
    MaxAttempts = 1
    MaxGenerations = 2
SPECIFICATION Spec
INVARIANTS NoWaitInVain UncrossedResultsTrue NoStaleGeneration RejectsWhileRecovering
PROPERTY ImplementsOutcomes
CHECK_DEADLOCK FALSE
SYMMETRY Symmetry
