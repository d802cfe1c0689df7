-------------------------------- MODULE Msg --------------------------------
(***************************************************************************)
(* FileWriter::Msg of src/Msg.h: a message buffer held in a tagged union.  *)
(* The tag `type` says who owns the bytes:                                 *)
(*   -1  nothing (default-constructed, or moved from);                     *)
(*    0  owned: a copy made with new char[len];                            *)
(*    1  rdkafka: the RdKafka::Message released from its unique_ptr;       *)
(*    2  shared: a copy in the jemalloc shared-memory arena;               *)
(*   22  cheap: a second, non-owning view of a shared Msg's bytes.         *)
(* The destructor deletes what types 0, 1 and 2 own.  There is no copy     *)
(* constructor; the move constructor swaps with a fresh Msg.               *)
(*                                                                         *)
(* The model follows one thread's Msg objects, held in a few Slots, over   *)
(* any sequence of calls.  Buffers are numbered allocations; their bytes   *)
(* and lengths are abstracted away.                                        *)
(***************************************************************************)
EXTENDS Integers, FiniteSets

CONSTANTS
    Slots,      \* the Msg objects (variables, container elements)
    MaxAlloc,   \* bound on the buffers allocated in one behaviour
    NoMsg       \* a slot that holds no constructed Msg

ASSUME MaxAlloc \in Nat /\ MaxAlloc > 0 /\ NoMsg \notin Slots

Buffers == 1..MaxAlloc

\* Msg::type and the union var: the buffer a Msg points to (0 for none).
Types == {-1, 0, 1, 2, 22}
Msgs == [type : Types, buf : Buffers \cup {0}]
EmptyMsg == [type |-> -1, buf |-> 0]

\* The types whose destructor deletes var.
OwningTypes == {0, 1, 2}

VARIABLES
    msg,        \* Slots -> Msgs \cup {NoMsg}
    bufState,   \* Buffers -> "unused" | "live" | "leaked" | "freed"
    nalloc,     \* buffers allocated so far
    inShared,   \* the slot whose Msg::shared() is in its retry loop, or NoMsg
    readFreed,  \* data() or size() has read a freed buffer
    exited      \* "no", or how the process ended: "exit" (exit(1)), "crash"

vars == <<msg, bufState, nalloc, inShared, readFreed, exited>>

Init ==
    /\ msg = [s \in Slots |-> NoMsg]
    /\ bufState = [b \in Buffers |-> "unused"]
    /\ nalloc = 0
    /\ inShared = NoMsg
    /\ readFreed = FALSE
    /\ exited = "no"

\* The thread can call into Msg: the process runs and is not spinning in
\* Msg::shared().
Ready == exited = "no" /\ inShared = NoMsg

NewBuffer == nalloc + 1

\* Allocate the next buffer in state st.
Allocate(st) ==
    /\ nalloc < MaxAlloc
    /\ nalloc' = NewBuffer
    /\ bufState' = [bufState EXCEPT ![NewBuffer] = st]

\* delete var: the buffer is freed, once or again.
Delete(b) == bufState' = [bufState EXCEPT ![b] = "freed"]

-----------------------------------------------------------------------------
(* One action per constructor, factory and member function.                *)

\* Msg(): type = -1.
construct(s) ==
    /\ Ready /\ msg[s] = NoMsg
    /\ msg' = [msg EXCEPT ![s] = EmptyMsg]
    /\ UNCHANGED <<bufState, nalloc, inShared, readFreed, exited>>

\* Msg::owned(data, len): a new char[len] copy of the bytes.
owned(s) ==
    /\ Ready /\ msg[s] = NoMsg
    /\ Allocate("live")
    /\ msg' = [msg EXCEPT ![s] = [type |-> 0, buf |-> NewBuffer]]
    /\ UNCHANGED <<inShared, readFreed, exited>>

\* Msg::shared(data, len, jm): one pass of the while (true) loop.  jm->alloc
\* returns a block; if it is outside the shared arena the block is dropped
\* unfreed ("try again...", the exit(1) is commented out) and the loop goes
\* on; otherwise the bytes are copied there and the Msg has type 2.
shared(s) ==
    /\ \/ inShared = s /\ exited = "no"
       \/ Ready /\ msg[s] = NoMsg
    /\ nalloc < MaxAlloc
    /\ \E inRange \in BOOLEAN :
         IF inRange
         THEN /\ Allocate("live")
              /\ msg' = [msg EXCEPT ![s] = [type |-> 2, buf |-> NewBuffer]]
              /\ inShared' = NoMsg
         ELSE /\ Allocate("leaked")
              /\ inShared' = s
              /\ UNCHANGED msg
    /\ UNCHANGED <<readFreed, exited>>

\* Msg::cheap(src, jm): a type 22 view of a shared Msg's bytes; any other
\* type throws 1 and nothing is constructed.
cheap(s, src) ==
    /\ Ready /\ msg[s] = NoMsg /\ msg[src] # NoMsg
    /\ msg' = IF msg[src].type = 2
              THEN [msg EXCEPT ![s] = [type |-> 22, buf |-> msg[src].buf]]
              ELSE msg
    /\ UNCHANGED <<bufState, nalloc, inShared, readFreed, exited>>

\* Msg::rdkafka(m): takes the RdKafka::Message out of its unique_ptr.
rdkafka(s) ==
    /\ Ready /\ msg[s] = NoMsg
    /\ Allocate("live")
    /\ msg' = [msg EXCEPT ![s] = [type |-> 1, buf |-> NewBuffer]]
    /\ UNCHANGED <<inShared, readFreed, exited>>

\* Mutant: a move constructor run on a Msg whose type has no member
\* initialiser: x is left with the new Msg's indeterminate type.
moveFromUninitialised(src, dst) ==
    /\ Ready /\ msg[dst] = NoMsg /\ msg[src] # NoMsg /\ src # dst
    /\ msg' = [msg EXCEPT ![dst] = msg[src], ![src] = [type |-> 3, buf |-> 0]]
    /\ UNCHANGED <<bufState, nalloc, inShared, readFreed, exited>>

\* Msg(Msg &&x): the new Msg starts with type -1 (its member initialiser)
\* and swaps type, var and _size with x, so x is left with type -1.
move(src, dst) ==
    /\ Ready /\ msg[dst] = NoMsg /\ msg[src] # NoMsg /\ src # dst
    /\ msg' = [msg EXCEPT ![dst] = msg[src], ![src] = EmptyMsg]
    /\ UNCHANGED <<bufState, nalloc, inShared, readFreed, exited>>

\* x.swap(y): exit(1) ("sorry, can not swap that") unless x is empty or
\* both have the same type; otherwise the two are exchanged.
swap(x, y) ==
    /\ Ready /\ msg[x] # NoMsg /\ msg[y] # NoMsg /\ x # y
    /\ IF msg[x].type # -1 /\ msg[x].type # msg[y].type
       THEN exited' = "exit" /\ UNCHANGED msg
       ELSE msg' = [msg EXCEPT ![x] = msg[y], ![y] = msg[x]]
            /\ UNCHANGED exited
    /\ UNCHANGED <<bufState, nalloc, inShared, readFreed>>

\* data() and size(): exit(1) on type -1; otherwise the buffer is read
\* (payload()/len() of an RdKafka::Message).  Reading a freed buffer is
\* undefined behaviour: the process crashes or reads garbage.
data(s) ==
    /\ Ready /\ msg[s] # NoMsg
    /\ IF msg[s].type = -1
       THEN exited' = "exit" /\ UNCHANGED readFreed
       ELSE IF bufState[msg[s].buf] = "freed"
       THEN /\ readFreed' = TRUE
            /\ exited' \in {"no", "crash"}
       ELSE UNCHANGED <<readFreed, exited>>
    /\ UNCHANGED <<msg, bufState, nalloc, inShared>>

\* Mutant: the destructor forgets the owned case.
destroyLeaks(s) ==
    /\ Ready /\ msg[s] # NoMsg
    /\ msg' = [msg EXCEPT ![s] = NoMsg]
    /\ IF msg[s].type \in {1, 2} THEN Delete(msg[s].buf)
       ELSE UNCHANGED bufState
    /\ UNCHANGED <<nalloc, inShared, readFreed, exited>>

\* ~Msg(): delete var for types 1 and 0; types 22 and -1 own nothing.  For
\* type 2, `delete var.shared` hands a block of the jemalloc arena to the
\* global operator delete (the TODO at the case): undefined behaviour, whose
\* outcomes are a crash or the block being taken as freed.
destroy(s) ==
    /\ Ready /\ msg[s] # NoMsg
    /\ msg' = [msg EXCEPT ![s] = NoMsg]
    /\ CASE msg[s].type \in {0, 1} ->
              Delete(msg[s].buf) /\ UNCHANGED exited
         [] msg[s].type = 2 ->
              \/ Delete(msg[s].buf) /\ UNCHANGED exited
              \/ exited' = "crash" /\ UNCHANGED bufState
         [] OTHER -> UNCHANGED <<bufState, exited>>
    /\ UNCHANGED <<nalloc, inShared, readFreed>>

Next ==
    \E s \in Slots :
        \/ construct(s) \/ owned(s) \/ shared(s) \/ rdkafka(s)
        \/ data(s) \/ destroy(s)
        \/ \E t \in Slots : cheap(s, t) \/ move(t, s) \/ swap(s, t)

Spec == Init /\ [][Next]_vars

-----------------------------------------------------------------------------
(* Properties.                                                             *)

TypeOK ==
    /\ msg \in [Slots -> Msgs \cup {NoMsg}]
    /\ bufState \in [Buffers -> {"unused", "live", "leaked", "freed"}]
    /\ nalloc \in 0..MaxAlloc
    /\ inShared \in Slots \cup {NoMsg}
    /\ readFreed \in BOOLEAN
    /\ exited \in {"no", "exit", "crash"}

\* The Msg objects that own buffer b.
OwnersOf(b) ==
    {s \in Slots : msg[s] # NoMsg /\ msg[s].type \in OwningTypes
                                  /\ msg[s].buf = b}

\* While the process runs, every live buffer a factory handed to a Msg is
\* owned by exactly one Msg (the destructor frees it when that Msg goes),
\* and no freed buffer is still owned, so no destructor deletes a buffer
\* twice: the move constructor and swap() must hand ownership on, never
\* copy it.
ExactlyOneOwner ==
    exited = "no" =>
        \A b \in Buffers :
            /\ bufState[b] = "live" => Cardinality(OwnersOf(b)) = 1
            /\ bufState[b] = "freed" => OwnersOf(b) = {}
=============================================================================
