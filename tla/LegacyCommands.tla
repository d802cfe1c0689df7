--------------------------- MODULE LegacyCommands ---------------------------
(***************************************************************************)
(* The legacy command path of the file writer: the BrightnESS Consumer of  *)
(* src/CommandListener.cxx reading the command topic in a Kafka consumer   *)
(* group, composed with the rapidjson CommandHandler of                    *)
(* src/CommandHandler.cxx that every polled command is handed to.          *)
(*                                                                         *)
(* Several writer processes run, each with a teamid.  Consumer::start()    *)
(* joins the group "some-group-id": fmt::format is given no {} for the     *)
(* pid, so every process joins the same group.  The command topic has one  *)
(* partition (produce uses RD_KAFKA_PARTITION_UA on it), so one member at  *)
(* a time owns it.                                                         *)
(*                                                                         *)
(* The broker and librdkafka form the environment, and they are modelled   *)
(* from their documented behaviour, not from src/:                          *)
(*   - commands are appended to an immutable log by src/send-command.cxx; *)
(*   - a change of membership (a process starts, crashes or closes) makes  *)
(*     the owner revoke; the coordinator then assigns the partition to a  *)
(*     live member;                                                        *)
(*   - offsets of returned messages are auto-committed at any moment while *)
(*     the partition is owned, and rd_kafka_consumer_close() commits them; *)
(*   - an assignment with no offset starts at the committed offset, or at  *)
(*     the end of the log (auto.offset.reset = latest) if none is stored.  *)
(* The loop of the legacy Master that calls poll() and then handle() on a  *)
(* command is not in src/; it is the poll action.                          *)
(***************************************************************************)
EXTENDS Naturals, Sequences, FiniteSets, Functions

CONSTANTS
    Writers,        \* writer processes
    Teams,          \* teamids
    TeamOf,         \* Writers -> Teams: the teamid in each process's config
    Jobs,           \* job ids a FileWriter_new can carry
    DefaultJobId,   \* "xxxx-xxxx-xxxx-xxxx", used when a command has no jobid
    StartAtOffset,  \* config.start_at_command_offset; -1 when not set
    MaxLog,         \* bound on the commands put on the topic
    MaxStarts,      \* bound on the times one process is started
    None            \* no owner: a model value that is not a process

ASSUME TeamOf \in [Writers -> Teams]
ASSUME StartAtOffset \in Int /\ StartAtOffset >= -1
ASSUME MaxLog \in Nat /\ MaxLog > 0 /\ MaxStarts \in Nat /\ MaxStarts > 0

ASSUME None \notin Writers /\ None \notin Jobs /\ DefaultJobId \notin Jobs

\* The commands the handler tells apart.  "invalid" stands for a message
\* that is not JSON and for a document with no known cmd: both only log.
CmdKinds == {"FileWriter_new", "FileWriter_exit", "FileWriter_stop",
             "file_writer_tasks_clear_all", "invalid"}
\* A command also records whether it carries a jobid (None if not) and a
\* nexus_structure.
Cmds == [cmd : CmdKinds, teamid : Teams, jobid : Jobs \cup {None},
         nexus : BOOLEAN]

\* The job ids a StreamMaster can be started under.
JobIds == Jobs \cup {DefaultJobId}

VARIABLES
    log,        \* the command topic's single partition
    alive,      \* Writers -> BOOLEAN: the process runs and is a group member
    starts,     \* Writers -> times the process was started
    owner,      \* the member the partition is assigned to, or None
    pos,        \* the owner's fetch position: offsets 1..pos are returned
    committed,  \* the group's committed offset, or -1
    stored,     \* the owner's stored offset: the one after the last message
                \* poll() returned since the assignment, or -1
    revokeDue,  \* the owner has a pending REVOKE_PARTITIONS
    running,    \* Writers -> Jobs -> StreamMasters started and not stopped
    endedBy,    \* Writers -> the command that ended the process, or "none"
    handled,    \* offset -> the processes whose handle() got that command
    crashes     \* offset -> the times handling that command killed a process

vars == <<log, alive, starts, owner, pos, committed, stored, revokeDue, running,
          endedBy, handled, crashes>>

NoJobs == [j \in JobIds |-> 0]

Init ==
    /\ log = <<>>
    /\ alive = [w \in Writers |-> FALSE]
    /\ starts = [w \in Writers |-> 0]
    /\ owner = None
    /\ pos = 0
    /\ committed = -1
    /\ stored = -1
    /\ revokeDue = FALSE
    /\ running = [w \in Writers |-> NoJobs]
    /\ endedBy = [w \in Writers |-> "none"]
    /\ handled = [i \in 1..MaxLog |-> {}]
    /\ crashes = [i \in 1..MaxLog |-> 0]

\* The group's membership changes: an owner other than the leaving process
\* must revoke before anyone is assigned again.
MembershipChanged(leaving) ==
    IF owner \in {None, leaving}
    THEN /\ owner' = None /\ revokeDue' = FALSE
    ELSE /\ owner' = owner /\ revokeDue' = TRUE

-----------------------------------------------------------------------------
(* The command producer (send-command), process crashes, auto-commit.     *)

\* make_command(): a FileWriter_new with the teamid, broker, filename and
\* streams, but neither a jobid nor a nexus_structure.
make_command(t) ==
    [cmd |-> "FileWriter_new", teamid |-> t, jobid |-> None, nexus |-> FALSE]

\* make_command_exit(): a FileWriter_exit with the teamid.
make_command_exit(t) ==
    [cmd |-> "FileWriter_exit", teamid |-> t, jobid |-> None, nexus |-> FALSE]

\* make_command_from_file(): the file's text, sent as it is: any command an
\* operator writes, with a jobid and a nexus_structure; an unreadable file
\* gives "", which the handler cannot parse ("invalid").
CommandFiles == [cmd : CmdKinds, teamid : Teams, jobid : Jobs, nexus : {TRUE}]

\* send-command's main(): --cmd new, exit or file:<name> produces one
\* message on the command topic; any other --cmd sends nothing.
sendCommand ==
    /\ Len(log) < MaxLog
    /\ \E c \in {make_command(t) : t \in Teams}
               \cup {make_command_exit(t) : t \in Teams} \cup CommandFiles :
         log' = Append(log, c)
    /\ UNCHANGED <<alive, starts, owner, pos, committed, stored, revokeDue, running,
                   endedBy, handled, crashes>>

\* The process dies: its StreamMasters die with it.
processDies(w) ==
    /\ alive' = [alive EXCEPT ![w] = FALSE]
    /\ running' = [running EXCEPT ![w] = NoJobs]
    /\ endedBy' = [endedBy EXCEPT ![w] = "crash"]

\* The process dies without closing its consumer; the group drops it after
\* session.timeout.ms.  Its StreamMasters die with it.
crash(w) ==
    /\ alive[w]
    /\ processDies(w)
    /\ MembershipChanged(w)
    /\ UNCHANGED <<log, starts, pos, committed, stored, handled, crashes>>

\* Consumer::start() leaves enable.auto.commit and enable.auto.offset.store
\* at their defaults: librdkafka periodically commits the offset stored for
\* the last message poll() returned; nothing is committed before one is.
autoCommit ==
    /\ owner # None
    /\ stored >= 0 /\ committed # stored
    /\ committed' = stored
    /\ UNCHANGED <<log, alive, starts, owner, pos, stored, revokeDue, running,
                   endedBy, handled, crashes>>

-----------------------------------------------------------------------------
(* The process.                                                            *)

\* CommandListener::start(): with start_at_command_offset >= 0 the
\* on_rebalance_start hook sets the offset of every assigned partition to
\* it; otherwise the offset stays unset and the group's committed offset,
\* or the end of the log, is used.
OnRebalanceStart ==
    IF StartAtOffset >= 0 THEN StartAtOffset
    ELSE IF committed >= 0 THEN committed
    ELSE Len(log)

\* A process starts: Consumer::start() creates the handle and subscribes
\* to the command topic in group "some-group-id".
start(w) ==
    /\ ~alive[w]
    /\ starts[w] < MaxStarts
    /\ alive' = [alive EXCEPT ![w] = TRUE]
    /\ starts' = [starts EXCEPT ![w] = starts[w] + 1]
    /\ endedBy' = [endedBy EXCEPT ![w] = "none"]
    /\ MembershipChanged(None)
    /\ UNCHANGED <<log, pos, committed, stored, running, handled, crashes>>

\* Consumer::cb_rebalance, RD_KAFKA_RESP_ERR__REVOKE_PARTITIONS, served in
\* the owner's poll(): rd_kafka_assign(NULL).  The commit of the revoked
\* offsets is commented out.
rebalanceRevoke(w) ==
    /\ alive[w] /\ owner = w /\ revokeDue
    /\ owner' = None
    /\ revokeDue' = FALSE
    /\ UNCHANGED <<log, alive, starts, pos, committed, stored, running, endedBy,
                   handled, crashes>>

\* Mutant: the committed offset taken as the last offset read, not the next.
rebalanceAssignSkipsOne(w) ==
    /\ alive[w] /\ owner = None
    /\ owner' = w
    /\ pos' = OnRebalanceStart + 1
    /\ stored' = -1
    /\ UNCHANGED <<log, alive, starts, committed, revokeDue, running,
                   endedBy, handled, crashes>>

\* Consumer::cb_rebalance, RD_KAFKA_RESP_ERR__ASSIGN_PARTITIONS, served in
\* the poll() of the member the coordinator chose: on_rebalance_start, then
\* rd_kafka_assign with the partition list.
rebalanceAssign(w) ==
    /\ alive[w] /\ owner = None
    /\ owner' = w
    /\ pos' = OnRebalanceStart
    /\ stored' = -1
    /\ UNCHANGED <<log, alive, starts, committed, revokeDue, running,
                   endedBy, handled, crashes>>

\* CommandHandler::handle_new.  A missing jobid is read through the end
\* iterator of FindMember (m->name, line 71), and so is a missing
\* nexus_structure (line 78): undefined behaviour, whose outcomes are a
\* crash or going on with what was read (the default jobid; a garbage
\* nexus_structure that hdf_init rejects).  Otherwise hdf_init may fail and
\* cancel the command, or a StreamMaster is created, started and pushed to
\* master->stream_masters.  No running job is compared with the new one.
handle_new(w, c) ==
    \E jobidRead \in IF c.jobid = None THEN {"crash", "default"} ELSE {"ok"},
       nexusRead \in IF c.nexus THEN {"ok"} ELSE {"crash", "garbage"},
       hdfInitOk \in BOOLEAN :
        IF "crash" \in {jobidRead, nexusRead}
        THEN processDies(w)
        ELSE LET j == IF c.jobid = None THEN DefaultJobId ELSE c.jobid IN
             /\ running' = IF hdfInitOk /\ nexusRead = "ok"
                           THEN [running EXCEPT ![w][j] = @ + 1]
                           ELSE running
             /\ UNCHANGED <<alive, endedBy>>

\* CommandHandler::handle_file_writer_task_clear_all: stop() every
\* StreamMaster of the process.
handle_file_writer_task_clear_all(w) ==
    /\ running' = [running EXCEPT ![w] = NoJobs]
    /\ UNCHANGED <<alive, endedBy>>

\* CommandHandler::handle_exit: master->stop().  The process leaves its
\* loop and ends; its StreamMasters are stopped.
handle_exit(w, c) ==
    /\ alive' = [alive EXCEPT ![w] = FALSE]
    /\ running' = [running EXCEPT ![w] = NoJobs]
    /\ endedBy' = [endedBy EXCEPT ![w] = c.cmd]

\* CommandHandler::handle(Msg) and handle(Document): drop a command for
\* another teamid, then dispatch on cmd.  FileWriter_stop is sent to
\* handle_exit, as FileWriter_exit is.
handle(w, c) ==
    CASE c.teamid # TeamOf[w]                   -> UNCHANGED <<alive, running, endedBy>>
      [] c.cmd = "FileWriter_new"               -> handle_new(w, c)
      [] c.cmd \in {"FileWriter_exit", "FileWriter_stop"} -> handle_exit(w, c)
      [] c.cmd = "file_writer_tasks_clear_all"  -> handle_file_writer_task_clear_all(w)
      [] c.cmd = "invalid"                      -> UNCHANGED <<alive, running, endedBy>>

\* Consumer::~Consumer, run as the ended process tears its listener down:
\* rd_kafka_consumer_close() commits the stored offset (enable.auto.commit)
\* when the process owns the partition, and leaves the group; unsubscribe and the final rd_kafka_poll are disabled.
consumerClose(w) ==
    /\ committed' = IF owner = w /\ stored' >= 0 THEN stored' ELSE committed
    /\ MembershipChanged(w)

\* Mutant: the last message of the partition is never returned.
pollStopsShort(w) ==
    /\ alive[w] /\ owner = w /\ pos < Len(log) - 1
    /\ LET c == log[pos + 1] IN
         /\ pos' = pos + 1
         /\ stored' = pos + 1
         /\ handled' = [handled EXCEPT ![pos + 1] = @ \cup {w}]
         /\ handle(w, c)
    /\ crashes' = IF endedBy'[w] = "crash"
                  THEN [crashes EXCEPT ![pos + 1] = @ + 1] ELSE crashes
    /\ CASE alive'[w]              -> UNCHANGED <<owner, revokeDue, committed>>
        [] endedBy'[w] = "crash"   -> MembershipChanged(w) /\ UNCHANGED committed
        [] OTHER                   -> consumerClose(w)
    /\ UNCHANGED <<log, starts>>

\* Consumer::poll() returns the next message of the owned partition as a
\* CmdMsg (errors and PARTITION_EOF return nothing and change nothing), and
\* the Master hands it to handle().  When handle() ends the process, the
\* consumer is closed; when handle() crashes it, nothing is committed and
\* the group drops the member after session.timeout.ms.
poll(w) ==
    /\ alive[w] /\ owner = w /\ pos < Len(log)
    /\ LET c == log[pos + 1] IN
         /\ pos' = pos + 1
         /\ stored' = pos + 1
         /\ handled' = [handled EXCEPT ![pos + 1] = @ \cup {w}]
         /\ handle(w, c)
    /\ crashes' = IF endedBy'[w] = "crash"
                  THEN [crashes EXCEPT ![pos + 1] = @ + 1] ELSE crashes
    /\ CASE alive'[w]              -> UNCHANGED <<owner, revokeDue, committed>>
        [] endedBy'[w] = "crash"   -> MembershipChanged(w) /\ UNCHANGED committed
        [] OTHER                   -> consumerClose(w)
    /\ UNCHANGED <<log, starts>>

WriteLoop(w) == rebalanceRevoke(w) \/ poll(w)

Next ==
    \/ sendCommand
    \/ autoCommit
    \/ \E w \in Writers :
         \/ start(w) \/ crash(w) \/ WriteLoop(w) \/ rebalanceAssign(w)

\* Every live process polls in a loop, so it serves its revoke and reads
\* what it owns; the coordinator assigns the partition to some live member.
Spec == Init /\ [][Next]_vars
        /\ \A w \in Writers : WF_vars(WriteLoop(w))
        /\ WF_vars(\E v \in Writers : rebalanceAssign(v))

-----------------------------------------------------------------------------
(* Properties.                                                             *)

TypeOK ==
    /\ log \in Seq(Cmds) /\ Len(log) <= MaxLog
    /\ alive \in [Writers -> BOOLEAN]
    /\ starts \in [Writers -> 0..MaxStarts]
    /\ owner \in Writers \cup {None}
    /\ pos \in 0..Len(log)
    /\ committed \in -1..Len(log)
    /\ stored \in -1..Len(log)
    /\ revokeDue \in BOOLEAN
    /\ running \in [Writers -> [JobIds -> Nat]]
    /\ endedBy \in [Writers -> {"none", "crash", "FileWriter_exit",
                                "FileWriter_stop"}]
    /\ handled \in [1..MaxLog -> SUBSET Writers]
    /\ crashes \in [1..MaxLog -> Nat]

NoLiveWriter == \A w \in Writers : ~alive[w]

\* Once commands stop arriving and processes stop starting and crashing,
\* the group reads the command topic to its end: the live processes serve
\* their revokes, the partition is assigned again, and its owner polls up
\* to the last command.
LogDrained == <>[](NoLiveWriter \/ (owner # None /\ pos = Len(log)))

\* Offsets of the log that carry a start command for job j.
StartsOf(j) ==
    {i \in 1..Len(log) : log[i].cmd = "FileWriter_new" /\ log[i].jobid = j}

\* A start command put on the topic once starts at most one StreamMaster in
\* the whole system: no rebalance, crash or restart makes a process act on
\* a command that some process already acted on.
NoDuplicateJob ==
    \A j \in Jobs :
        Cardinality(StartsOf(j)) <= 1 =>
            /\ \A w \in Writers : running[w][j] <= 1
            /\ \A w1, w2 \in Writers :
                 (w1 # w2 /\ running[w1][j] > 0) => running[w2][j] = 0

\* A command that kills the process handling it (the spec: a malformed
\* command is rejected) kills at most one process.  The offset of the
\* command being handled is committed only by the periodic auto-commit or
\* by rd_kafka_consumer_close(), and neither runs when the process dies, so
\* the next owner of the partition may be handed the same command.
NoCrashLoop == \A i \in 1..MaxLog : crashes[i] <= 1

=============================================================================
