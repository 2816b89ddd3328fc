------------------------------ MODULE Ordering ------------------------------
(***************************************************************************)
(* What is listed by number: the arms of a MoA run, sorted by their index  *)
(* in the recipe; the lines of an event stream, in the order in which they *)
(* arrive.                                                                 *)
(***************************************************************************)
EXTENDS Naturals, FiniteSets

\* The numbers of a finite set, in increasing order.
InOrder(S) == CHOOSE t \in [1..Cardinality(S) -> S] :
                \A m, n \in 1..Cardinality(S) : m < n => t[m] < t[n]
=============================================================================
