----------------------------- MODULE UsageLedger -----------------------------
(***************************************************************************)
(* What the usage store promises about the rows it has accepted: they      *)
(* reach the table in the order in which they were accepted, each at most  *)
(* once, and what has reached the table stays there.  Rows on their way    *)
(* may be lost, the oldest first when a batch fails, all of them when the  *)
(* process ends.                                                           *)
(***************************************************************************)
EXTENDS Naturals, Sequences

CONSTANT Rows

VARIABLES
  durable,  \* the rows of the table
  pending   \* the rows accepted and on their way

LedgerInit == durable = <<>> /\ pending = <<>>

Known == {durable[i] : i \in 1..Len(durable)} \cup {pending[i] : i \in 1..Len(pending)}

Accept(r) ==
  /\ r \notin Known
  /\ pending' = Append(pending, r)
  /\ UNCHANGED durable

\* One transaction takes the oldest rows to the table, all or none of them.
Persist ==
  /\ \E n \in 1..Len(pending) :
       /\ durable' = durable \o SubSeq(pending, 1, n)
       /\ pending' = SubSeq(pending, n + 1, Len(pending))

Fail ==
  /\ \E n \in 1..Len(pending) : pending' = SubSeq(pending, n + 1, Len(pending))
  /\ UNCHANGED durable

EndProcess == pending' = <<>> /\ UNCHANGED durable

LedgerNext == (\E r \in Rows : Accept(r)) \/ Persist \/ Fail \/ EndProcess

LedgerSpec == LedgerInit /\ [][LedgerNext]_<<durable, pending>>
=============================================================================
