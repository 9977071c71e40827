-------------------------------- MODULE MCGate --------------------------------
(* A scheduled and a dispatched nightly job; they do the same. *)
EXTENDS Gate, TLC

CONSTANTS scheduled, dispatched

JobSymmetry == Permutations(Jobs)
=============================================================================
