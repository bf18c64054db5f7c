CONSTANTS
    Publications = {p1}
    Mandatory = {p1}
    NoPublication = NoPublication
    CallsShutdown = TRUE
    MaxOutstanding = 2
    MaxAttempts = 1
    MaxGenerations = 2
SPECIFICATION FairSpec
INVARIANTS GracefulDrain StoppedOwnsNothing CleanupResultRetained
PROPERTIES CallsReturn ShutdownCompletes RecoveryDecides
CHECK_DEADLOCK FALSE
