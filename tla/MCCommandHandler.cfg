CONSTANTS
    j1 = j1
    j2 = j2
    g1 = g1
    g2 = g2
    Jobs <- MCJobs
    Groups <- MCGroups
    NStreams <- MCNStreams

SPECIFICATION Spec

INVARIANT TypeOK
INVARIANT NoSilentAbandon
INVARIANT AbortOnConfigFailure

\* After FileWriter_exit the Master stops and no further command is handled.
CHECK_DEADLOCK FALSE
