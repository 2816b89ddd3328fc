------------------------------- MODULE MCMoaRun ------------------------------
(* The usage objects an upstream may report, for TLC: none, a full one, and   *)
(* one that lacks the completion tokens.                                      *)
EXTENDS MoaRun

MCUsages == {NoUsage, [prompt |-> 3, completion |-> 1], [prompt |-> 2, completion |-> Null]}
=============================================================================
