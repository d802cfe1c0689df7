\* A queue of two slots and a program of three calls: the queue can fill
\* and two processes can pass the fullness check for its last slot.
CONSTANTS
    pA = pA
    pB = pB
    x = x
    Procs <- MCProcs
    Names <- MCNames
    Sizes <- MCSizes
    ItemsMax <- MCItemsMax
    ProgLen <- MCProgLen

SPECIFICATION Spec

INVARIANT TypeOK
INVARIANT NoWritePastEnd

\* A process stops for good after close_for() or exit(1).
CHECK_DEADLOCK FALSE
