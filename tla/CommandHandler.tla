--------------------------- MODULE CommandHandler ---------------------------
(***************************************************************************)
(* The command thread of src/CommandHandler.cpp with a Master present:     *)
(* handle() dispatches one command at a time; handleNew() builds a job in  *)
(* three passes over the streams of its nexus_structure:                   *)
(*   1. extractStreamInformationFromJson: per stream, parse the settings   *)
(*      and setUpHdfStructure() -> writer module init_hdf() (creates the   *)
(*      "time" and "value" datasets in the stream's HDF group);            *)
(*   2. the abort_on_uninitialised_stream check on InitialisedOk;          *)
(*   3. addStreamSourceToWriterModule: per stream, a fresh writer module   *)
(*      reopen()s the group and becomes a Source of the job.               *)
(* The writer module is src/WriterModule/f142/SimpleWriter.cpp.            *)
(*                                                                         *)
(* A command's content is drawn with \E when it arrives: the job id, the  *)
(* abort flag, and per stream its HDF group, whether its "stream" object   *)
(* has all keys, whether its writer module is known and accepts the        *)
(* config; per group the datasets the nexus_structure itself puts there.   *)
(***************************************************************************)
EXTENDS Integers, FiniteSets

CONSTANTS
    Jobs,       \* job ids
    NStreams,   \* streams in a start command, handled in document order
    Groups      \* HDF groups a stream can be placed in

ASSUME NStreams \in Nat \ {0}

Streams == 1..NStreams
DatasetNames == {"time", "value"}

\* The per-stream content of a start command.  ok: the "stream" object has
\* all keys and names a writer module that exists and accepts the config.
\* A stream missing keys is not pushed to StreamSettingsList; one whose
\* module is unknown is pushed but skipped in pass 3; both end the same way
\* (not InitialisedOk, no Source), so one flag tells them apart from the rest.
StreamCfgs == [group : Groups, ok : BOOLEAN]

NoCfg == [s \in Streams |-> [group |-> CHOOSE g \in Groups : TRUE,
                              ok |-> FALSE]]

\* A registered StreamMaster: its abort flag, whether every stream of its
\* command was well-formed, and its Sources as <<stream, group>> pairs.
NoJob == [state |-> "None", abort |-> FALSE, cfgOk |-> FALSE, sources |-> {}]

VARIABLES
    jobs,      \* job id -> StreamMaster registered with the Master
    stopReq,   \* job id -> last stop request forwarded ("none"|"time"|"now")
    exiting,   \* handleExit() stopped the Master
    hpc,       \* "Idle" | "Extract" | "AddSources"
    job,       \* job of the start command being handled
    abort,     \* its AbortOnStreamFailure
    cfg,       \* its streams
    ds,        \* group -> datasets existing in the job's file
    initOk,    \* stream -> StreamHDFInfo.InitialisedOk
    settings,  \* streams in StreamSettingsList
    k,         \* stream index of the current loop
    srcs,      \* streams that became a Source of the task
    evStart,   \* the current command emitted a Start status event
    evFail     \* the current command emitted a Fail status event

hVars == <<hpc, job, abort, cfg, ds, initOk, settings, k, srcs>>
vars == <<jobs, stopReq, exiting, hVars, evStart, evFail>>

\* The locals of handleNew() between two start commands.
Locals ==
    /\ cfg = NoCfg /\ ds = [g \in Groups |-> {}]
    /\ initOk = [s \in Streams |-> FALSE]
    /\ settings = {} /\ k = 1 /\ srcs = {}

\* handleNew() returns: its locals go out of scope.
Return ==
    /\ cfg' = NoCfg /\ ds' = [g \in Groups |-> {}]
    /\ initOk' = [s \in Streams |-> FALSE]
    /\ settings' = {} /\ k' = 1 /\ srcs' = {}

Init ==
    /\ jobs = [j \in Jobs |-> NoJob]
    /\ stopReq = [j \in Jobs |-> "none"]
    /\ exiting = FALSE
    /\ hpc = "Idle"
    /\ job = CHOOSE j \in Jobs : TRUE
    /\ abort = FALSE
    /\ Locals
    /\ evStart = FALSE
    /\ evFail = FALSE

-----------------------------------------------------------------------------
(* SimpleWriter (f142) on the datasets d of one group.                     *)

\* init_hdf(): create "time", then "value"; an exception (a dataset of that
\* name exists) is caught and reported as InitResult::ERROR, leaving what
\* was already created.
InitHdf(d) ==
    IF "time" \in d THEN [ds |-> d, ok |-> FALSE]
    ELSE IF "value" \in d THEN [ds |-> d \cup {"time"}, ok |-> FALSE]
    ELSE [ds |-> d \cup DatasetNames, ok |-> TRUE]

\* reopen(): open "time" and "value"; OK iff both exist.
Reopen(d) == DatasetNames \subseteq d

-----------------------------------------------------------------------------
(* Command dispatch: handle() called from tryToHandle().                   *)

Idle == hpc = "Idle" /\ ~exiting


\* A command addressed to another service_id is dropped without a reply.
ignoreOtherService ==
    /\ Idle
    /\ evStart' = FALSE /\ evFail' = FALSE
    /\ UNCHANGED <<jobs, stopReq, exiting, hVars>>

\* Unparsable JSON, no or unknown "cmd", or extractStartInformation throws:
\* tryToHandle() catches and logs a Fail event.
handleBadCommand ==
    /\ Idle
    /\ evStart' = FALSE /\ evFail' = TRUE
    /\ UNCHANGED <<jobs, stopReq, exiting, hVars>>

\* handleNew() up to and including initializeHDF().  A job id that is in
\* progress is ignored; otherwise a Start event is logged and the file is
\* created from the nexus_structure, which may fail (e.g. the file exists).
handleNew ==
    /\ Idle
    /\ \E j \in Jobs, a \in BOOLEAN, c \in [Streams -> StreamCfgs],
          static \in [Groups -> SUBSET DatasetNames], fileOk \in BOOLEAN :
         IF jobs[j].state # "None"
         THEN /\ evStart' = FALSE /\ evFail' = FALSE
              /\ UNCHANGED hVars
         ELSE /\ evStart' = TRUE
              /\ job' = j /\ abort' = a
              /\ IF fileOk
                 THEN /\ hpc' = "Extract" /\ evFail' = FALSE
                      /\ cfg' = c /\ ds' = static
                      /\ initOk' = [s \in Streams |-> FALSE]
                      /\ settings' = {} /\ k' = 1 /\ srcs' = {}
                 ELSE /\ hpc' = "Idle" /\ evFail' = TRUE
                      /\ Return
    /\ UNCHANGED <<jobs, stopReq, exiting>>

\* The stop_time field of a command: present or not, and its value in ms.
StopTimeFields == [present : BOOLEAN, ms : {0, 1}]

\* findTime(): the field's value; a missing field, or one of 0, gives -1.
findTime(f) == IF f.present /\ f.ms # 0 THEN f.ms ELSE -1

\* handleStreamMasterStop(): forward to the job's StreamMaster, if any:
\* setStopTime() for a stop_time > 0, requestStop() otherwise.
handleStop ==
    /\ Idle
    /\ \E j \in Jobs, f \in StopTimeFields :
         IF jobs[j].state = "Running"
         THEN stopReq' = [stopReq EXCEPT ![j] =
                            IF findTime(f) > 0 THEN "time" ELSE "now"]
         ELSE UNCHANGED stopReq
    /\ evStart' = FALSE /\ evFail' = FALSE
    /\ UNCHANGED <<jobs, exiting, hVars>>

\* handleFileWriterTaskClearAll(): MasterPtr->stopStreamMasters().
handleStopAll ==
    /\ Idle
    /\ stopReq' = [j \in Jobs |-> IF jobs[j].state = "Running" THEN "now"
                                  ELSE stopReq[j]]
    /\ evStart' = FALSE /\ evFail' = FALSE
    /\ UNCHANGED <<jobs, exiting, hVars>>

\* handleExit(): MasterPtr->stop(); no further command is handled.
handleExit ==
    /\ Idle
    /\ exiting' = TRUE
    /\ evStart' = FALSE /\ evFail' = FALSE
    /\ UNCHANGED <<jobs, stopReq, hVars>>

-----------------------------------------------------------------------------
(* Pass 1: extractStreamInformationFromJson, one stream per step.          *)

\* Mutant: InitialisedOk set before setUpHdfStructure() is called.
extractStreamEarlyInitOk ==
    /\ hpc = "Extract"
    /\ k <= NStreams
    /\ LET c == cfg[k]
           r == InitHdf(ds[c.group])
       IN
       /\ initOk' = [initOk EXCEPT ![k] = TRUE]
       /\ IF c.ok
          THEN /\ settings' = settings \cup {k}
               /\ ds' = [ds EXCEPT ![c.group] = r.ds]
          ELSE UNCHANGED <<settings, ds>>
    /\ k' = k + 1
    /\ UNCHANGED <<jobs, stopReq, exiting, hpc, job, abort, cfg, srcs,
                   evStart, evFail>>

\* The settings are pushed before setUpHdfStructure() runs; InitialisedOk is
\* set when setUpHdfStructure() returns, whatever init_hdf() returned.
extractStream ==
    /\ hpc = "Extract"
    /\ k <= NStreams
    /\ LET c == cfg[k]
           r == InitHdf(ds[c.group])
       IN
       /\ IF c.ok
          THEN /\ settings' = settings \cup {k}
               /\ ds' = [ds EXCEPT ![c.group] = r.ds]
               /\ initOk' = [initOk EXCEPT ![k] = TRUE]
          ELSE UNCHANGED <<settings, ds, initOk>>
    /\ k' = k + 1
    /\ UNCHANGED <<jobs, stopReq, exiting, hpc, job, abort, cfg, srcs,
                   evStart, evFail>>

\* Mutant: the abort check returns from handleNew() instead of throwing.
abortCheckReturns ==
    /\ hpc = "Extract"
    /\ k > NStreams
    /\ IF abort /\ \E s \in Streams : ~initOk[s]
       THEN hpc' = "Idle" /\ UNCHANGED evFail /\ Return
       ELSE /\ hpc' = "AddSources" /\ UNCHANGED evFail
            /\ k' = 1
            /\ UNCHANGED <<cfg, ds, initOk, settings, srcs>>
    /\ UNCHANGED <<jobs, stopReq, exiting, job, abort, evStart>>

\* Pass 2: with AbortOnStreamFailure, any stream not InitialisedOk throws;
\* tryToHandle() logs a Fail event and the task is dropped.
abortCheck ==
    /\ hpc = "Extract"
    /\ k > NStreams
    /\ IF abort /\ \E s \in Streams : ~initOk[s]
       THEN hpc' = "Idle" /\ evFail' = TRUE /\ Return
       ELSE /\ hpc' = "AddSources" /\ UNCHANGED evFail
            /\ k' = 1
            /\ UNCHANGED <<cfg, ds, initOk, settings, srcs>>
    /\ UNCHANGED <<jobs, stopReq, exiting, job, abort, evStart>>

-----------------------------------------------------------------------------
(* Pass 3: addStreamSourceToWriterModule, one stream of StreamSettingsList *)
(* per step.  A module that cannot be found, created or configured, or     *)
(* whose reopen() fails, is skipped with a log line.                       *)

\* Mutant: the loop over StreamSettingsList runs one index too far.
addSourceOffByOne ==
    /\ hpc = "AddSources"
    /\ k <= NStreams + 1
    /\ IF k \in settings /\ Reopen(ds[cfg[k].group])
       THEN srcs' = srcs \cup {k}
       ELSE UNCHANGED srcs
    /\ k' = k + 1
    /\ UNCHANGED <<jobs, stopReq, exiting, hpc, job, abort, cfg, ds, initOk,
                   settings, evStart, evFail>>

addSource ==
    /\ hpc = "AddSources"
    /\ k <= NStreams
    /\ IF k \in settings /\ Reopen(ds[cfg[k].group])
       THEN srcs' = srcs \cup {k}
       ELSE UNCHANGED srcs
    /\ k' = k + 1
    /\ UNCHANGED <<jobs, stopReq, exiting, hpc, job, abort, cfg, ds, initOk,
                   settings, evStart, evFail>>

\* createStreamMaster(), start() and addStreamMaster().
registerStreamMaster ==
    /\ hpc = "AddSources"
    /\ k > NStreams
    /\ jobs' = [jobs EXCEPT ![job] =
                 [state |-> "Running", abort |-> abort,
                  cfgOk |-> \A s \in Streams : cfg[s].ok,
                  sources |-> {<<s, cfg[s].group>> : s \in srcs}]]
    /\ hpc' = "Idle" /\ Return
    /\ UNCHANGED <<stopReq, exiting, job, abort, evStart, evFail>>

-----------------------------------------------------------------------------
Next ==
    \/ ignoreOtherService \/ handleBadCommand \/ handleNew \/ handleStop
    \/ handleStopAll \/ handleExit
    \/ extractStream \/ abortCheck \/ addSource \/ registerStreamMaster

Spec == Init /\ [][Next]_vars

-----------------------------------------------------------------------------
(* Properties.                                                             *)

TypeOK ==
    /\ jobs \in [Jobs -> [state : {"None", "Running"}, abort : BOOLEAN,
                          cfgOk : BOOLEAN,
                          sources : SUBSET (Streams \X Groups)]]
    /\ stopReq \in [Jobs -> {"none", "time", "now"}]
    /\ exiting \in BOOLEAN
    /\ hpc \in {"Idle", "Extract", "AddSources"}
    /\ job \in Jobs /\ abort \in BOOLEAN /\ cfg \in [Streams -> StreamCfgs]
    /\ ds \in [Groups -> SUBSET DatasetNames]
    /\ initOk \in [Streams -> BOOLEAN]
    /\ settings \subseteq Streams /\ srcs \subseteq Streams
    /\ k \in 1..NStreams + 1
    /\ evStart \in BOOLEAN /\ evFail \in BOOLEAN

\* When handleNew() has logged a Start event for a job, the command ends
\* either with the job's StreamMaster registered or with a Fail event: no
\* early return in the three passes abandons a started job silently.
NoSilentAbandon ==
    (hpc = "Idle" /\ evStart) => (evFail \/ jobs[job].state = "Running")

\* With abort_on_uninitialised_stream, a job only runs when every stream of
\* its command had all keys and a known, configurable writer module.
AbortOnConfigFailure ==
    \A j \in Jobs :
        (jobs[j].state = "Running" /\ jobs[j].abort)
            => jobs[j].cfgOk

\* The spec (4.2): any failure of init_hdf makes the stream fail, and with
\* abort_on_uninitialised_stream the job is rejected; so a job running with
\* the flag writes every stream of its command.
AbortHonoured ==
    \A j \in Jobs :
        (jobs[j].state = "Running" /\ jobs[j].abort)
            => {p[1] : p \in jobs[j].sources} = Streams

=============================================================================
