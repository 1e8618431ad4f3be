\* Two turns whose tasks interleave; no symmetry, since some properties are temporal.
CONSTANTS
    Charge = {c1, c2}
    Retries = 2
SPECIFICATION FairSpec
INVARIANTS TypeOK NoDoubleCharge SafeReplay NothingDropped
PROPERTIES EveryTurnSettles ShutdownCompletes ImplementsLedger
\* The process stops when its event loop is closed.
CHECK_DEADLOCK FALSE
