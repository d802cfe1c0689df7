CONSTANTS
    pA = pA
    pB = pB
    x = x
    Procs <- MCProcs
    Names <- MCNames
    Sizes <- MCSizes
    ItemsMax = 3
    ProgLen <- MCProgLen

SPECIFICATION Spec

INVARIANT CaughtUpStoreMatches

\* A process stops for good after close_for() or exit(1).
CHECK_DEADLOCK FALSE
