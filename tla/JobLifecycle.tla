---------------------------- MODULE JobLifecycle ----------------------------
(***************************************************************************)
(* What a job driver promises (spec §4.5 and §8 items 5 and 6), written    *)
(* independently of how src/StreamMaster.cpp does it.                      *)
(*                                                                         *)
(* A job moves through Starting -> Running -> Finishing -> Removable and    *)
(* never back.  It leaves Running only once an external stop was asked for *)
(* or every stream has finished.  In Finishing it releases the consumer of  *)
(* each stream; it becomes Removable only when it holds none.  A stream    *)
(* may finish only while the job runs, and a stream still writing is      *)
(* released only after a stop was asked for.  A stream whose partition    *)
(* could not be set up is errored from the start (§7: the job continues): *)
(* it counts as finished and holds no consumer.                            *)
(***************************************************************************)
EXTENDS FiniteSets

CONSTANT Streams    \* the streams (topics) of the job

VARIABLES
    phase,          \* "Starting" | "Running" | "Finishing" | "Removable"
    stopRequested,  \* an external stop was asked for
    done,           \* streams that have finished writing
    held            \* streams whose consumer the job still holds

vars == <<phase, stopRequested, done, held>>

Init ==
    /\ phase = "Starting"
    /\ stopRequested = FALSE
    /\ done \in SUBSET Streams
    /\ held = Streams \ done

Start ==
    /\ phase = "Starting"
    /\ phase' = "Running"
    /\ UNCHANGED <<stopRequested, done, held>>

RequestStop ==
    /\ ~stopRequested
    /\ stopRequested' = TRUE
    /\ UNCHANGED <<phase, done, held>>

StreamDone(s) ==
    /\ phase = "Running"
    /\ s \notin done
    /\ done' = done \cup {s}
    /\ UNCHANGED <<phase, stopRequested, held>>

Finish ==
    /\ phase = "Running"
    /\ stopRequested \/ done = Streams
    /\ phase' = "Finishing"
    /\ UNCHANGED <<stopRequested, done, held>>

Release(s) ==
    /\ phase = "Finishing"
    /\ s \in held
    /\ s \in done \/ stopRequested
    /\ held' = held \ {s}
    /\ UNCHANGED <<phase, stopRequested, done>>

Remove ==
    /\ phase = "Finishing"
    /\ held = {}
    /\ phase' = "Removable"
    /\ UNCHANGED <<stopRequested, done, held>>

Next ==
    \/ Start \/ RequestStop \/ Finish \/ Remove
    \/ \E s \in Streams : StreamDone(s) \/ Release(s)

\* Start and stop are asked for from outside and get no fairness; once
\* the job may finish, release and be removed, it does (it never blocks
\* on its caller, spec §4.5).
Spec == Init /\ [][Next]_vars
        /\ WF_vars(Finish) /\ WF_vars(\E s \in Streams : Release(s))
        /\ WF_vars(Remove)

=============================================================================
