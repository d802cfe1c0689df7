---------------------------- MODULE StreamMaster ----------------------------
(***************************************************************************)
(* The job driver of src/StreamMaster.cpp: one StreamMaster owns a map     *)
(* topic -> Streamer and one write thread running run().  The command      *)
(* thread (CommandHandler) calls start(), setStopTime() and finally the     *)
(* destructor, concurrently with the write thread.                          *)
(*                                                                         *)
(* A Streamer (not under src/) is abstracted to what run() observes of it: *)
(* its runStatus (writing or HAS_FINISHED), whether it knows a stop time,  *)
(* and the three outcomes of process(): nothing changes, the streamer      *)
(* finishes (only once a stop time is known), or process() throws.         *)
(***************************************************************************)
EXTENDS Naturals, FiniteSets, TLC

CONSTANTS
    NTopics,        \* number of Streamers (topics) the job consumes
    MaxSliceCalls,  \* process() calls that fit in one TopicWriteDuration
    StopAtStart     \* the start command carried a stop time

ASSUME NTopics \in Nat \ {0}
ASSUME MaxSliceCalls \in Nat \ {0}
ASSUME StopAtStart \in BOOLEAN

\* std::map<std::string, Streamer> iterates in key order: topics are 1..N.
Topics == 1..NTopics

VARIABLES
    \* createStreamMaster() outcome
    consumerFails,      \* topics whose createConsumer() threw
    \* StreamMaster members
    Stop,               \* std::atomic<bool> Stop
    RunStatus,          \* StreamMasterError RunStatus
    StreamersRemaining, \* std::atomic<bool> StreamersRemaining
    cleared,            \* Streamers.clear() has run
    \* Streamer state, one entry per topic
    status,             \* "Writing" | "Finished" (HAS_FINISHED)
    stopKnown,          \* the streamer has a finite stop time
    closed,             \* Streamer::close() was called
    \* write thread
    wpc,                \* program location in run()/processStream()/doStop()
    pending,            \* topics not yet visited in this pass (or by doStop)
    StreamsStillWriting,\* local of run()
    cur,                \* the Streamer processStream() works on
    calls,              \* process() calls made in the current slice
    \* command thread
    cpc,                \* "New" | "Idle" | "SetStop" | "Joining" | "Destroyed"
    iter                \* topics setStopTime() still has to visit

smVars == <<consumerFails, Stop, RunStatus, StreamersRemaining, cleared>>
strVars == <<status, stopKnown, closed>>
wVars == <<wpc, pending, StreamsStillWriting, cur, calls>>
cVars == <<cpc, iter>>
vars == <<smVars, strVars, wVars, cVars>>

\* Mutant: the Streamer emplaced even when its consumer could not be made.
StreamersIgnoringFailures == Topics

\* createStreamMaster(): one Streamer per topic of the task's demuxers; a
\* topic whose createConsumer() throws is logged and left out of the map.
Streamers == Topics \ consumerFails

Statuses == {"NotStarted", "Running", "HasFinished", "IsRemovable"}
MinOf(S) == CHOOSE x \in S : \A y \in S : x <= y

Init ==
    /\ consumerFails \in SUBSET Topics
    /\ Stop = FALSE
    /\ RunStatus = "NotStarted"
    /\ StreamersRemaining = TRUE
    /\ cleared = FALSE
    /\ status = [t \in Topics |-> "Writing"]
    /\ stopKnown = [t \in Topics |-> StopAtStart]
    /\ closed = [t \in Topics |-> FALSE]
    /\ wpc = "Unspawned"
    /\ pending = {}
    /\ StreamsStillWriting = FALSE
    /\ cur = 0
    /\ calls = 0
    /\ cpc = "New"
    /\ iter = {}

-----------------------------------------------------------------------------
(* Command thread.                                                         *)

\* start(): Stop = false; spawn the write thread when none is joinable.
start ==
    /\ cpc = "New"
    /\ Stop' = FALSE
    /\ wpc' = "Enter"
    /\ cpc' = "Idle"
    /\ UNCHANGED <<consumerFails, RunStatus, StreamersRemaining, cleared, strVars,
                   pending, StreamsStillWriting, cur, calls, iter>>

\* setStopTime(): a range-for over Streamers, one Streamer per step.  The
\* loop starts from whatever the map holds when it is entered.
setStopTimeBegin ==
    /\ cpc = "Idle"
    /\ iter' = IF cleared THEN {} ELSE Streamers
    /\ cpc' = IF iter' = {} THEN "Idle" ELSE "SetStop"
    /\ UNCHANGED <<smVars, strVars, wVars>>

setStopTimeStep ==
    /\ cpc = "SetStop"
    /\ LET t == MinOf(iter) IN
         /\ stopKnown' = [stopKnown EXCEPT ![t] = TRUE]
         /\ iter' = iter \ {t}
         /\ cpc' = IF iter' = {} THEN "Idle" ELSE "SetStop"
    /\ UNCHANGED <<smVars, status, closed, wVars>>

\* ~StreamMaster(): Stop = true; join the write thread if it is joinable.
destroy ==
    /\ cpc = "Idle"
    /\ Stop' = TRUE
    /\ cpc' = "Joining"
    /\ UNCHANGED <<consumerFails, RunStatus, StreamersRemaining, cleared, strVars, wVars, iter>>

joined ==
    /\ cpc = "Joining"
    /\ wpc = "Done"
    /\ cpc' = "Destroyed"
    /\ UNCHANGED <<smVars, strVars, wVars, iter>>

-----------------------------------------------------------------------------
(* Write thread: run().                                                    *)

runEnter ==
    /\ wpc = "Enter"
    /\ RunStatus' = "Running"
    /\ wpc' = "LoopTop"
    /\ UNCHANGED <<consumerFails, Stop, StreamersRemaining, cleared, strVars,
                   pending, StreamsStillWriting, cur, calls, cVars>>

\* Mutant: the loop condition without !Stop.
loopEnterIgnoringStop ==
    /\ wpc = "LoopTop"
    /\ StreamersRemaining
    /\ pending' = Streamers
    /\ StreamsStillWriting' = FALSE
    /\ wpc' = "ForEach"
    /\ UNCHANGED <<smVars, strVars, cur, calls, cVars>>

\* while (!Stop && StreamersRemaining.load()) { StreamsStillWriting = false; ...
loopEnter ==
    /\ wpc = "LoopTop"
    /\ ~Stop /\ StreamersRemaining
    /\ pending' = Streamers
    /\ StreamsStillWriting' = FALSE
    /\ wpc' = "ForEach"
    /\ UNCHANGED <<smVars, strVars, cur, calls, cVars>>

\* ... } RunStatus = HAS_FINISHED; doStop();
loopExit ==
    /\ wpc = "LoopTop"
    /\ Stop \/ ~StreamersRemaining
    /\ RunStatus' = "HasFinished"
    /\ pending' = Streamers
    /\ wpc' = "Close"
    /\ UNCHANGED <<consumerFails, Stop, StreamersRemaining, cleared, strVars,
                   StreamsStillWriting, cur, calls, cVars>>

\* Mutant: StreamsStillWriting assigned from each streamer in turn, so the
\* last one visited decides.
visitStreamerLastWins ==
    /\ wpc = "ForEach"
    /\ pending # {}
    /\ LET t == MinOf(pending) IN
         /\ StreamsStillWriting' = (status[t] # "Finished")
         /\ IF status[t] # "Finished"
            THEN /\ cur' = t
                 /\ calls' = 0
                 /\ wpc' = "Slice"
                 /\ UNCHANGED pending
            ELSE /\ pending' = pending \ {t}
                 /\ UNCHANGED <<cur, calls, wpc>>
    /\ UNCHANGED <<smVars, strVars, cVars>>

\* for each streamer: skip a finished one, else mark and processStream().
visitStreamer ==
    /\ wpc = "ForEach"
    /\ pending # {}
    /\ LET t == MinOf(pending) IN
         IF status[t] # "Finished"
         THEN /\ StreamsStillWriting' = TRUE
              /\ cur' = t
              /\ calls' = 0
              /\ wpc' = "Slice"
              /\ UNCHANGED pending
         ELSE /\ pending' = pending \ {t}
              /\ UNCHANGED <<StreamsStillWriting, cur, calls, wpc>>
    /\ UNCHANGED <<smVars, strVars, cVars>>

\* StreamersRemaining.store(StreamsStillWriting) after the whole pass.
passEnd ==
    /\ wpc = "ForEach"
    /\ pending = {}
    /\ StreamersRemaining' = StreamsStillWriting
    /\ wpc' = "LoopTop"
    /\ UNCHANGED <<consumerFails, Stop, RunStatus, cleared, strVars,
                   pending, StreamsStillWriting, cur, calls, cVars>>

-----------------------------------------------------------------------------
(* Write thread: processStream(cur).  The slice ends when the write        *)
(* duration has elapsed (after at least one call, at the latest after      *)
(* MaxSliceCalls calls) or when Stop is seen.                              *)

sliceReturn ==
    LET t == cur IN
    /\ pending' = pending \ {t}
    /\ wpc' = "ForEach"

sliceTimeUp ==
    /\ wpc = "Slice"
    /\ calls >= 1
    /\ sliceReturn
    /\ UNCHANGED <<smVars, strVars, StreamsStillWriting, cur, calls, cVars>>

sliceStopped ==
    /\ wpc = "Slice"
    /\ calls < MaxSliceCalls
    /\ Stop
    /\ sliceReturn
    /\ UNCHANGED <<smVars, strVars, StreamsStillWriting, cur, calls, cVars>>

\* Mutant: the slice loop without its write-duration check.
processOkUnbounded ==
    /\ wpc = "Slice"
    /\ ~Stop
    /\ calls' = calls + 1
    /\ \/ UNCHANGED status
       \/ /\ stopKnown[cur]
          /\ status' = [status EXCEPT ![cur] = "Finished"]
    /\ UNCHANGED <<smVars, stopKnown, closed, pending, StreamsStillWriting,
                   cur, wpc, cVars>>

\* Stream.process() returns; it may have finished the streamer, which it can
\* only do once the streamer knows a stop time.
processOk ==
    /\ wpc = "Slice"
    /\ calls < MaxSliceCalls
    /\ ~Stop
    /\ calls' = calls + 1
    /\ \/ UNCHANGED status
       \/ /\ stopKnown[cur]
          /\ status' = [status EXCEPT ![cur] = "Finished"]
    /\ UNCHANGED <<smVars, stopKnown, closed, pending, StreamsStillWriting,
                   cur, wpc, cVars>>

\* Stream.process() throws: Stream.setFinished(); return.
processThrows ==
    /\ wpc = "Slice"
    /\ calls < MaxSliceCalls
    /\ ~Stop
    /\ status' = [status EXCEPT ![cur] = "Finished"]
    /\ sliceReturn
    /\ UNCHANGED <<smVars, stopKnown, closed, StreamsStillWriting, cur, calls,
                   cVars>>

-----------------------------------------------------------------------------
(* Write thread: doStop().                                                 *)

closeStreamer ==
    /\ wpc = "Close"
    /\ pending # {}
    /\ LET t == MinOf(pending) IN
         /\ closed' = [closed EXCEPT ![t] = TRUE]
         /\ pending' = pending \ {t}
    /\ UNCHANGED <<smVars, status, stopKnown, StreamsStillWriting, cur, calls,
                   wpc, cVars>>

\* Mutant: IS_REMOVABLE stored without waiting for the close loop.
clearStreamersEarly ==
    /\ wpc = "Close"
    /\ cleared' = TRUE
    /\ RunStatus' = "IsRemovable"
    /\ wpc' = "Done"
    /\ UNCHANGED <<consumerFails, Stop, StreamersRemaining, strVars, pending,
                   StreamsStillWriting, cur, calls, cVars>>

\* Streamers.clear(); RunStatus = IS_REMOVABLE; the thread function returns.
clearStreamers ==
    /\ wpc = "Close"
    /\ pending = {}
    /\ cleared' = TRUE
    /\ RunStatus' = "IsRemovable"
    /\ wpc' = "Done"
    /\ UNCHANGED <<consumerFails, Stop, StreamersRemaining, strVars, pending,
                   StreamsStillWriting, cur, calls, cVars>>

-----------------------------------------------------------------------------
CommandThread ==
    \/ start \/ setStopTimeBegin \/ setStopTimeStep \/ destroy \/ joined

WriteThread ==
    \/ runEnter \/ loopEnter \/ loopExit \/ visitStreamer \/ passEnd
    \/ sliceTimeUp \/ sliceStopped \/ processOk \/ processThrows
    \/ closeStreamer \/ clearStreamers

Next == CommandThread \/ WriteThread

\* The write thread is an OS thread that keeps getting scheduled; the
\* command thread acts only when commands arrive, so it gets no fairness.
Spec == Init /\ [][Next]_vars /\ WF_vars(WriteThread)

-----------------------------------------------------------------------------
(* Properties.                                                             *)

TypeOK ==
    /\ consumerFails \subseteq Topics
    /\ Stop \in BOOLEAN /\ StreamersRemaining \in BOOLEAN /\ cleared \in BOOLEAN
    /\ RunStatus \in Statuses
    /\ status \in [Topics -> {"Writing", "Finished"}]
    /\ stopKnown \in [Topics -> BOOLEAN]
    /\ closed \in [Topics -> BOOLEAN]
    /\ wpc \in {"Unspawned", "Enter", "LoopTop", "ForEach", "Slice", "Close", "Done"}
    /\ pending \subseteq Topics
    /\ StreamsStillWriting \in BOOLEAN
    /\ cur \in Topics \cup {0}
    /\ calls \in 0..MaxSliceCalls
    /\ cpc \in {"New", "Idle", "SetStop", "Joining", "Destroyed"}
    /\ iter \subseteq Topics

\* isDoneWriting() (= !StreamersRemaining), read by other threads, only
\* reports "done" once every Streamer has really finished: run() publishes
\* StreamersRemaining only after a whole pass over the map.
DoneWritingMeansAllFinished ==
    ~StreamersRemaining => \A t \in Streamers : status[t] = "Finished"

\* doStop() closes a Streamer that is still writing only when the master was
\* told to stop (destructor): run() leaves its loop on its own only when a
\* full pass found every Streamer finished.
CloseOnlyFinishedOrStopped ==
    \A t \in Topics : closed[t] => (Stop \/ status[t] = "Finished")

\* Once start() has spawned the write thread and the destructor has set
\* Stop, or every Streamer has finished (an empty map, when every consumer
\* failed, included), the write thread reaches IS_REMOVABLE, so the
\* destructor's join returns.
EventuallyRemovable ==
    (wpc # "Unspawned" /\ (Stop \/ \A t \in Streamers : status[t] = "Finished"))
        ~> (RunStatus = "IsRemovable")

\* setStopTime() on the command thread never iterates the Streamers map while
\* doStop() on the write thread clears it (std::map is not thread-safe).
SetStopTimeNotRacingClear ==
    cpc = "SetStop" => ~cleared

-----------------------------------------------------------------------------
(* Refinement: StreamMaster implements the job lifecycle of spec §4.5.     *)
(* RunStatus NOT_STARTED, RUNNING, HAS_FINISHED and IS_REMOVABLE are the   *)
(* phases; the destructor's Stop is the external stop; a Streamer with      *)
(* runStatus HAS_FINISHED is done, and so is a topic left out of the map   *)
(* because its consumer failed; a Streamer not yet close()d holds its      *)
(* consumer.                                                               *)

PhaseOf == ("NotStarted" :> "Starting") @@ ("Running" :> "Running")
           @@ ("HasFinished" :> "Finishing") @@ ("IsRemovable" :> "Removable")

Lifecycle == INSTANCE JobLifecycle WITH
    Streams       <- Topics,
    phase         <- PhaseOf[RunStatus],
    stopRequested <- Stop,
    done          <- consumerFails \cup {t \in Streamers : status[t] = "Finished"},
    held          <- {t \in Streamers : ~closed[t]}

\* Every behaviour of the command and write threads is a behaviour of the
\* job lifecycle: the status only moves forward, run() leaves its loop only
\* after a stop or once every Streamer finished, doStop() closes a Streamer
\* still writing only after a stop, IS_REMOVABLE is stored only after every
\* Streamer was closed, and the write thread does get there.
RefinesJobLifecycle == Lifecycle!Spec

=============================================================================
