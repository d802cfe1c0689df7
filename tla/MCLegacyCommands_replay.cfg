\* start_at_command_offset = 0 is applied at every assignment.
CONSTANTS
    w1 = w1
    w2 = w2
    t1 = t1
    t2 = t2
    j1 = j1
    None = None
    DefaultJobId = DefaultJobId
    Writers <- MCWriters
    Teams <- MCTeams
    TeamOf <- MCOneTeam
    Jobs <- MCJobs
    StartAtOffset <- MCStartAtZero
    MaxLog = 2
    MaxStarts = 2

SPECIFICATION Spec

INVARIANT NoDuplicateJob

\* Processes end after an exit command or a crash: the system may stop.
CHECK_DEADLOCK FALSE
