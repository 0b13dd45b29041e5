SPECIFICATION Spec
CONSTANTS
    MaxVersion = 2
    MaxRestarts = 0
    Overlap = FALSE
CHECK_DEADLOCK FALSE
INVARIANT OversizedNeverPlain
