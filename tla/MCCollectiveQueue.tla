------------------------- MODULE MCCollectiveQueue -------------------------
(* Two writer processes, one dataset, two extents, a queue of two slots   *)
(* and programs of up to three calls: a three-call program fills the      *)
(* queue while a push of a peer can be between its fullness check and its  *)
(* lock, and the shorter programs reach the barrier.                       *)
EXTENDS CollectiveQueue

CONSTANTS pA, pB, x

MCProcs == {pA, pB}
MCNames == {x}
MCSizes == {1, 2}
MCItemsMax == 2
MCProgLen == 3
=============================================================================
