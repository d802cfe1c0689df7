CONSTANTS
    NTopics <- MCNTopics
    MaxSliceCalls <- MCMaxSliceCalls
    StopAtStart = FALSE

SPECIFICATION Spec

INVARIANT SetStopTimeNotRacingClear

CHECK_DEADLOCK FALSE
