---------------------------- MODULE MCMoaUpstream ----------------------------
(* Two proposers, the aggregator and one call of another request, for TLC.    *)
(* Usage objects are the business of MoaRun: upstreams report none here.      *)
EXTENDS MoaUpstream

CONSTANT other

MCCalls == Own \cup {other}
MCUsages == {[prompt |-> Null, completion |-> Null]}
=============================================================================
