-------------------------- MODULE CollectiveQueue --------------------------
(***************************************************************************)
(* src/CollectiveQueue.h: a command queue in shared memory through which   *)
(* several writer processes agree on HDF5 collective calls (H5Dopen2,      *)
(* H5Dclose, H5Dset_extent).  A process open()s the queue to get its cqid, *)
(* push()es the collective commands its program makes, and execute_for()   *)
(* copies (all_for) every command past its marker and runs it against its  *)
(* own HDFIDStore.  push() drops a command "equivalent" to one anywhere in *)
(* the queue, so that the same call pushed by every process is queued once.*)
(* wait_for_barrier() spins, executing the queue, until barriers[i] equals *)
(* nclients, the number of open() calls.                                   *)
(*                                                                         *)
(* The callers are not in the repository.  A collective call is one every *)
(* process makes in the same order, so the processes share one program    *)
(* prog of at most ProgLen collective calls, drawn at Init among the legal *)
(* ones (a dataset is opened before it is extended or closed); each       *)
(* process pushes it in order, at its own pace.  The code has two queues  *)
(* selected by an index; they are independent, and one is modelled.       *)
(* Markers are kept per process rather than per cqid: open() hands out    *)
(* cqids 0, 1, ... in the order processes call it, a bijection.         *)
(***************************************************************************)
EXTENDS Naturals, Sequences, SequencesExt

CONSTANTS
    Procs,     \* writer processes sharing the queue
    Names,     \* dataset names
    Sizes,     \* extents a SetExtent can ask for
    ItemsMax,  \* ITEMS_MAX, the capacity of a queue
    ProgLen    \* bound on the collective calls in the program

ASSUME ItemsMax \in Nat \ {0} /\ ProgLen \in Nat \ {0}
ASSUME Sizes \subseteq Nat

Cmds == [type : {"H5Dopen2", "H5Dclose"}, name : Names]
        \cup [type : {"SetExtent"}, name : Names, size : Sizes]

\* CollectiveCommand::equivalent(x), called as item.equivalent(items[i]):
\* same type and name, and for SetExtent a size not above the queued one.
equivalent(item, x) ==
    /\ item.type = x.type
    /\ item.name = x.name
    /\ item.type = "SetExtent" => item.size <= x.size

\* CollectiveCommand::execute_for(store) on the set of open datasets.
\* SetExtent on a dataset with no id (operator[] yields 0) makes
\* H5Dset_extent fail: exit(1).  H5Dclose of an unknown name only logs.
ExecuteCmd(open, c) ==
    CASE c.type = "H5Dopen2"  -> [open |-> open \cup {c.name}, fail |-> FALSE]
      [] c.type = "H5Dclose"  -> [open |-> open \ {c.name}, fail |-> FALSE]
      [] c.type = "SetExtent" -> [open |-> open, fail |-> c.name \notin open]

\* The loop of CollectiveQueue::execute_for over the commands all_for copied;
\* it stops at the first exit(1).
RECURSIVE ExecuteAll(_, _)
ExecuteAll(open, cmds) ==
    IF cmds = <<>> THEN [open |-> open, fail |-> FALSE]
    ELSE LET r == ExecuteCmd(open, Head(cmds)) IN
         IF r.fail THEN r ELSE ExecuteAll(r.open, Tail(cmds))

\* The datasets a program leaves open: the reference the queue should
\* reproduce in every process.
OpenAfter(cmds) == ExecuteAll({}, cmds).open

\* A program its callers can make: never extend or close a closed dataset,
\* never open an open one.
LegalProg(p) ==
    \A i \in 1..Len(p) :
        LET open == OpenAfter(SubSeq(p, 1, i - 1)) IN
        IF p[i].type = "H5Dopen2" THEN p[i].name \notin open
        ELSE p[i].name \in open

VARIABLES
    prog,       \* the collective program every process runs
    items,      \* queues[queue][0 .. n_queued-1]
    n_queued,   \* n_queued[queue]
    markers,    \* markers[queue][cqid]
    mark_open,  \* mark_open[cqid]
    nclients,   \* number of open() calls so far
    overflow,   \* push wrote items[n] with n = ITEMS_MAX (past the array)
    pos,        \* process -> calls of prog it has pushed
    pc,         \* process -> "New" | "Ready" | "Checked" | "Waiting" |
                \*            "Exited" | "TimedOut" | "Closed"
    store,      \* process -> datasets open in its HDFIDStore
    barrier,    \* barriers[i]: processes that arrived at the barrier
    arrived     \* processes that have arrived at the barrier

vars == <<prog, items, n_queued, markers, mark_open, nclients, overflow,
          pos, pc, store, barrier, arrived>>

Init ==
    /\ prog \in UNION {{p \in [1..n -> Cmds] : LegalProg(p)} : n \in 1..ProgLen}
    /\ items = <<>>
    /\ n_queued = 0
    /\ markers = [p \in Procs |-> 0]
    /\ mark_open = [p \in Procs |-> FALSE]
    /\ nclients = 0
    /\ overflow = FALSE
    /\ pos = [p \in Procs |-> 0]
    /\ pc = [p \in Procs |-> "New"]
    /\ store = [p \in Procs |-> {}]
    /\ barrier = 0
    /\ arrived = {}

-----------------------------------------------------------------------------
(* The mutex-protected bodies run as one step each: every access to        *)
(* items, markers and mark_open other than push's first check holds mx.    *)

\* open(): register as client nclients, marker at the queue's start.
open(p) ==
    /\ pc[p] = "New"
    /\ mark_open' = [mark_open EXCEPT ![p] = TRUE]
    /\ markers' = [markers EXCEPT ![p] = 0]
    /\ nclients' = nclients + 1
    /\ pc' = [pc EXCEPT ![p] = "Ready"]
    /\ UNCHANGED <<prog, items, n_queued, overflow, pos, store, barrier, arrived>>

\* push(), before taking mx: exit(1) if the queue looks full.
pushCheck(p) ==
    /\ pc[p] = "Ready"
    /\ pos[p] < Len(prog)
    /\ pc' = [pc EXCEPT ![p] = IF n_queued >= ItemsMax THEN "Exited"
                                                     ELSE "Checked"]
    /\ UNCHANGED <<prog, items, n_queued, markers, mark_open, nclients,
                   overflow, pos, store, barrier, arrived>>

\* Mutant: push() without the check for doubles.
pushLockedNoDedup(p) ==
    /\ pc[p] = "Checked"
    /\ LET item == prog[pos[p] + 1] IN
         /\ items' = Append(items, item)
         /\ n_queued' = n_queued + 1
         /\ overflow' = (overflow \/ n_queued >= ItemsMax)
    /\ pos' = [pos EXCEPT ![p] = pos[p] + 1]
    /\ pc' = [pc EXCEPT ![p] = "Ready"]
    /\ UNCHANGED <<prog, markers, mark_open, nclients, store, barrier, arrived>>

\* Mutant: n_queued advanced even when the item is dropped as a double.
pushLockedCountsDoubles(p) ==
    /\ pc[p] = "Checked"
    /\ LET item == prog[pos[p] + 1] IN
         IF \E i \in 1..n_queued : equivalent(item, items[i])
         THEN /\ n_queued' = n_queued + 1
              /\ UNCHANGED <<items, overflow>>
         ELSE /\ items' = Append(items, item)
              /\ n_queued' = n_queued + 1
              /\ overflow' = (overflow \/ n_queued >= ItemsMax)
    /\ pos' = [pos EXCEPT ![p] = pos[p] + 1]
    /\ pc' = [pc EXCEPT ![p] = "Ready"]
    /\ UNCHANGED <<prog, markers, mark_open, nclients, store, barrier, arrived>>

\* push(), holding mx: re-read n_queued, drop the item if an equivalent one
\* is anywhere in the queue, else store it at items[n1].
pushLocked(p) ==
    /\ pc[p] = "Checked"
    /\ LET item == prog[pos[p] + 1] IN
         IF \E i \in 1..n_queued : equivalent(item, items[i])
         THEN UNCHANGED <<items, n_queued, overflow>>
         ELSE /\ items' = Append(items, item)
              /\ n_queued' = n_queued + 1
              /\ overflow' = (overflow \/ n_queued >= ItemsMax)
    /\ pos' = [pos EXCEPT ![p] = pos[p] + 1]
    /\ pc' = [pc EXCEPT ![p] = "Ready"]
    /\ UNCHANGED <<prog, markers, mark_open, nclients, store, barrier, arrived>>

\* execute_for(store, queue): all_for() under mx copies the commands past
\* the marker and moves the marker to n_queued; the copies then run
\* against the process's own store, which an exit(1) ends.  The process
\* calls it itself, or from the spin loop of wait_for_barrier().
executeFor(p) ==
    /\ pc[p] \in {"Ready", "Waiting"}
    /\ markers[p] < n_queued
    /\ LET r == ExecuteAll(store[p], SubSeq(items, markers[p] + 1, n_queued)) IN
         /\ store' = [store EXCEPT ![p] = r.open]
         /\ pc' = [pc EXCEPT ![p] = IF r.fail THEN "Exited" ELSE pc[p]]
    /\ markers' = [markers EXCEPT ![p] = n_queued]
    /\ UNCHANGED <<prog, items, n_queued, mark_open, nclients, overflow, pos,
                   barrier, arrived>>

\* close_for(): mark_open[cqid] = false (nclients is not decremented).
closeFor(p) ==
    /\ pc[p] = "Ready"
    /\ mark_open' = [mark_open EXCEPT ![p] = FALSE]
    /\ pc' = [pc EXCEPT ![p] = "Closed"]
    /\ UNCHANGED <<prog, items, n_queued, markers, nclients, overflow, pos,
                   store, barrier, arrived>>

\* The barrier.  Its callers are not in the repository: wait_for_barrier()
\* waits for barriers[i] to reach nclients, so each client adds one to it
\* before waiting.  Here a process arrives once it has pushed its program.
arrive(p) ==
    /\ pc[p] = "Ready"
    /\ pos[p] = Len(prog)
    /\ p \notin arrived
    /\ barrier' = barrier + 1
    /\ arrived' = arrived \cup {p}
    /\ pc' = [pc EXCEPT ![p] = "Waiting"]
    /\ UNCHANGED <<prog, items, n_queued, markers, mark_open, nclients,
                   overflow, pos, store>>

\* wait_for_barrier(): leave the spin loop when barriers[i] == nclients.
barrierPass(p) ==
    /\ pc[p] = "Waiting"
    /\ barrier = nclients
    /\ pc' = [pc EXCEPT ![p] = "Ready"]
    /\ UNCHANGED <<prog, items, n_queued, markers, mark_open, nclients,
                   overflow, pos, store, barrier, arrived>>

\* wait_for_barrier(): after 1000 sleeps of 100 ms, exit(1).  The time-out
\* is taken to fire only when the wait is hopeless, every client that has
\* not arrived having closed or exited: 100 s is ample for a live peer.
barrierTimeout(p) ==
    /\ pc[p] = "Waiting"
    /\ barrier # nclients
    /\ \A q \in Procs \ arrived : pc[q] \in {"Exited", "TimedOut", "Closed"}
    /\ pc' = [pc EXCEPT ![p] = "TimedOut"]
    /\ UNCHANGED <<prog, items, n_queued, markers, mark_open, nclients,
                   overflow, pos, store, barrier, arrived>>

Next ==
    \E p \in Procs :
        \/ open(p) \/ pushCheck(p) \/ pushLocked(p) \/ executeFor(p)
        \/ closeFor(p) \/ arrive(p) \/ barrierPass(p) \/ barrierTimeout(p)

Spec == Init /\ [][Next]_vars

-----------------------------------------------------------------------------
(* Properties.                                                             *)

TypeOK ==
    /\ prog \in Seq(Cmds) /\ Len(prog) \in 1..ProgLen
    /\ items \in Seq(Cmds) /\ n_queued = Len(items)
    /\ markers \in [Procs -> 0..n_queued]
    /\ mark_open \in [Procs -> BOOLEAN]
    /\ nclients \in 0..Cardinality(Procs)
    /\ overflow \in BOOLEAN
    /\ pos \in [Procs -> 0..ProgLen]
    /\ pc \in [Procs -> {"New", "Ready", "Checked", "Waiting", "Exited",
                         "TimedOut", "Closed"}]
    /\ store \in [Procs -> SUBSET Names]
    /\ barrier \in 0..Cardinality(Procs) /\ arrived \subseteq Procs

\* push() tests for a full queue before it takes the mutex, so two processes
\* can both pass the test with one free slot.  The second one never writes
\* past ITEMS_MAX: all processes push the same calls in the same order, so
\* the racing second push is equivalent to the first and is dropped.
NoWritePastEnd == ~overflow

\* A process that has pushed its whole program and executed everything
\* queued has the datasets open that the program leaves open: the queue
\* carries every collective call to every process.
CaughtUpStoreMatches ==
    \A p \in Procs :
        (pc[p] = "Ready" /\ pos[p] = Len(prog) /\ markers[p] = n_queued)
            => store[p] = OpenAfter(prog)

\* push() kills a process for a full queue only when its command needs a
\* slot: one equivalent to a queued command is dropped as a double anyway,
\* but the fullness test runs before the mutex and the double check.
NoExitForQueuedDouble ==
    [][\A p \in Procs :
         (pc[p] = "Ready" /\ pc'[p] = "Exited" /\ markers' = markers)
             => ~\E i \in 1..n_queued : equivalent(prog[pos[p] + 1], items[i])
      ]_vars

=============================================================================
