\* A queue of two slots and a program of three calls.
CONSTANTS
    pA = pA
    pB = pB
    x = x
    Procs <- MCProcs
    Names <- MCNames
    Sizes <- MCSizes
    ItemsMax <- MCItemsMax
    ProgLen <- MCProgLen

SPECIFICATION Spec

PROPERTY NoExitForQueuedDouble

\* A process stops for good after close_for() or exit(1).
CHECK_DEADLOCK FALSE
