-------------------------- MODULE MCCommandHandler --------------------------
(* Model-checking instance of CommandHandler: two job ids, two streams per *)
(* start command, two HDF groups (so two streams can share one).           *)
EXTENDS CommandHandler

CONSTANTS j1, j2, g1, g2

MCJobs == {j1, j2}
MCGroups == {g1, g2}
MCNStreams == 2
=============================================================================
