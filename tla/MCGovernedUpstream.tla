------------------------- MODULE MCGovernedUpstream -------------------------
(* Model values for TLC.  The calls are interchangeable in every action.     *)
EXTENDS GovernedUpstream, TLC

CallSymmetry == Permutations(Calls)
=============================================================================
