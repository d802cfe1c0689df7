-------------------------------- MODULE MCMsg --------------------------------
(* Model-checking instance of Msg: three Msg objects, three allocations.   *)
EXTENDS Msg, TLC

CONSTANTS m1, m2, m3

MCSlots == {m1, m2, m3}

\* The slots are interchangeable: no action or property names one.
MCSymmetry == Permutations(MCSlots)
=============================================================================
