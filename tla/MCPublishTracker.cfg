CONSTANTS
    Attempts = {a1, a2, a3}
    SeqNos = {0, 1, 2}
    Tokens = {t0, t1, t2}
    EmptyToken = t0
    NoAttempt = NoAttempt
    maximum = 2
SPECIFICATION Spec
INVARIANTS IInv
PROPERTY ImplementsOutcomes
CHECK_DEADLOCK FALSE
