CONSTANTS
    NTopics <- MCNTopics
    MaxSliceCalls <- MCMaxSliceCalls
    StopAtStart = FALSE

SPECIFICATION Spec

INVARIANT TypeOK
INVARIANT DoneWritingMeansAllFinished
INVARIANT CloseOnlyFinishedOrStopped
PROPERTY EventuallyRemovable
PROPERTY RefinesJobLifecycle

\* The program ends when the command thread has destroyed the StreamMaster.
CHECK_DEADLOCK FALSE
