\* Both processes in team t1, no start_at_command_offset.
CONSTANTS
    w1 = w1
    w2 = w2
    t1 = t1
    t2 = t2
    j1 = j1
    None = None
    DefaultJobId = DefaultJobId
    Writers <- MCWriters
    Teams <- MCTeams
    TeamOf <- MCOneTeam
    Jobs <- MCJobs
    StartAtOffset <- MCNoStartOffset
    MaxLog = 2
    MaxStarts = 2

SPECIFICATION Spec

INVARIANT TypeOK
PROPERTY LogDrained

\* Processes end after an exit command or a crash, and the number of
\* starts is bounded: the system may stop.
CHECK_DEADLOCK FALSE
