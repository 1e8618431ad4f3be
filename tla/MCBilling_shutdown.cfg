\* Two turns; one is enough for drain() to lose a charge.
CONSTANTS
    Charge = {c1, c2}
    Retries = 1
SPECIFICATION Spec
INVARIANT ShutdownLosesNothing
CHECK_DEADLOCK FALSE
