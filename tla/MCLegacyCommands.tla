-------------------------- MODULE MCLegacyCommands --------------------------
(* Model-checking instance of LegacyCommands: two writer processes, one    *)
(* job id, a command topic of at most three commands.                     *)
EXTENDS LegacyCommands, TLC

CONSTANTS w1, w2, t1, t2, j1

MCWriters == {w1, w2}
MCTeams == {t1, t2}
MCJobs == {j1}

\* start_at_command_offset not configured.
MCNoStartOffset == -1
\* start_at_command_offset = 0: every assignment starts from the first command.
MCStartAtZero == 0

\* Both processes of one team; commands for the other team are filtered.
MCOneTeam == [w \in MCWriters |-> t1]

\* One process in each team.
MCTwoTeams == (w1 :> t1) @@ (w2 :> t2)
=============================================================================
