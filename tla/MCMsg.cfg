\* Three Msg objects, so that a buffer can pass through a move and a swap
\* while a third Msg holds a cheap view; three allocations.
CONSTANTS
    m1 = m1
    m2 = m2
    m3 = m3
    NoMsg = NoMsg
    Slots <- MCSlots
    MaxAlloc = 3

SYMMETRY MCSymmetry

SPECIFICATION Spec

INVARIANT TypeOK

INVARIANT ExactlyOneOwner

\* exit(1) and a crash end the process: the system may stop.
CHECK_DEADLOCK FALSE
