SPECIFICATION FairSpec
CONSTANTS
    Kinds <- MCKinds
    Declarations = 2
    Endpoints = 3
    MaxAttempts = 3
    InitialDelay = 2
    MaxDelay = 5
    MaxLosses = 2
INVARIANTS
    NoConnectionLeft
    HandOverSafe
    RotationContinues
PROPERTIES
    ImplementsTopologyOutcome
    OpeningEnds
CHECK_DEADLOCK FALSE
