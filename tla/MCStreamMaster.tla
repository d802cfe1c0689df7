--------------------------- MODULE MCStreamMaster ---------------------------
(* Model-checking instance of StreamMaster: two topics, either of whose   *)
(* consumers may fail to be created, and a write slice of at most two     *)
(* process() calls.                                                       *)
EXTENDS StreamMaster

MCNTopics == 2
MCMaxSliceCalls == 2
=============================================================================
