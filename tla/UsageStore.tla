----------------------------- MODULE UsageStore ------------------------------
(***************************************************************************)
(* The usage accounting of crates/moaray-store/src/lib.rs: request handlers*)
(* put rows on a bounded channel without ever blocking, a writer thread    *)
(* drains it into SQLite in batched transactions, and main() shuts the     *)
(* writer down under a deadline.  A transaction may fail or stall for ever,*)
(* and the process may end at any time and start again on the same file.   *)
(***************************************************************************)
EXTENDS Naturals, Sequences, FiniteSets, SequencesExt

CONSTANTS
  Capacity,    \* size of the channel, clamped to at least 1 by new()
  Batch,       \* rows per transaction, clamped to at least 1 by new()
  MaxRows,     \* bound: calls of record() in a behaviour
  MaxRestarts  \* bound: restarts of the process

ASSUME StoreAssumption ==
  /\ Capacity \in Nat \ {0} /\ Batch \in Nat \ {0}
  /\ MaxRows \in Nat /\ MaxRestarts \in Nat

VARIABLES
  channel,   \* the bounded channel of WriterMsg
  writer,    \* where the writer thread is
  buf,       \* its batch
  ack_due,   \* pending_ack: it owes an answer to a Flush
  stop,      \* it has read Stop
  db,        \* the rows of usage_events, in insertion order
  main,      \* where main() is: serving, or inside flush_and_join
  expired,   \* the deadline of flush_and_join has passed
  acked,     \* the Flush was answered
  recorded,  \* calls of record() so far; rows are numbered in call order
  flushed,   \* history: rows recorded when the Flush was sent
  dropped,   \* rows counted in moaray_usage_dropped_total
  failed,    \* rows of a transaction that failed, logged as such
  lost,      \* history: rows in memory when the process ended
  restarts

memory == <<channel, writer, buf, ack_due, stop, main, expired, acked>>
history == <<recorded, flushed, dropped, failed, lost, restarts>>
vars == <<memory, db, history>>

RowMsg(n) == [type |-> "Row", row |-> n]
FlushMsg  == [type |-> "Flush", row |-> 0]
StopMsg   == [type |-> "Stop", row |-> 0]

\* The rows of a channel, oldest first.  They stand before a Flush and a Stop,
\* which are sent when no more rows come (TypeOK).
RowsIn(msgs) ==
  [i \in 1..Cardinality({j \in 1..Len(msgs) : msgs[j].type = "Row"}) |-> msgs[i].row]

\* Accepted rows that are not in the table yet, oldest first.
InMemory == buf \o RowsIn(channel)

\* new(): an empty channel and a writer thread blocked in its first recv().
Init ==
  /\ channel = <<>> /\ writer = "recv" /\ buf = <<>>
  /\ ack_due = FALSE /\ stop = FALSE
  /\ main = "serving" /\ expired = FALSE /\ acked = FALSE
  /\ db = <<>>
  /\ recorded = 0 /\ flushed = 0 /\ restarts = 0
  /\ dropped = {} /\ failed = {} /\ lost = {}

-----------------------------------------------------------------------------
(* Request handlers: SqliteSink::record, a try_send *)

Accepts == Len(channel) < Capacity /\ writer # "exited"

\* A handler books a row.  The server has drained its requests before
\* flush_and_join is called, so rows come only while main() is serving.
Record ==
  /\ main = "serving"
  /\ recorded < MaxRows
  /\ recorded' = recorded + 1
  /\ IF Accepts
     THEN channel' = Append(channel, RowMsg(recorded + 1)) /\ UNCHANGED dropped
     ELSE dropped' = dropped \cup {recorded + 1} /\ UNCHANGED channel
  /\ UNCHANGED <<writer, buf, ack_due, stop, main, expired, acked, db,
                 flushed, failed, lost, restarts>>

-----------------------------------------------------------------------------
(* The writer thread: writer_loop and flush_batch *)

\* Mutant of Take: a Flush is answered as soon as it is read.
TakeAnsweringFlush ==
  LET msg == Head(channel) IN
  /\ channel' = Tail(channel)
  /\ buf' = IF msg.type = "Row" THEN Append(buf, msg.row) ELSE buf
  /\ acked' = (acked \/ msg.type = "Flush")
  /\ stop' = (stop \/ msg.type = "Stop")
  /\ UNCHANGED <<ack_due, main, expired, db, history>>

\* One message leaves the channel.
Take ==
  LET msg == Head(channel) IN
  /\ channel' = Tail(channel)
  /\ buf' = IF msg.type = "Row" THEN Append(buf, msg.row) ELSE buf
  /\ ack_due' = (ack_due \/ msg.type = "Flush")
  /\ stop' = (stop \/ msg.type = "Stop")
  /\ UNCHANGED <<main, expired, acked, db, history>>

\* The blocking recv(); whatever it brings, more is taken greedily after it.
Recv ==
  /\ writer = "recv"
  /\ channel # <<>>
  /\ Take
  /\ writer' = "drain"

\* Mutants of Drain: one row more than a batch; and a Stop that ends the loop
\* before the batch is written.
DrainOneMore ==
  /\ writer = "drain"
  /\ Len(buf) <= Batch /\ channel # <<>>
  /\ Take
  /\ writer' = IF Head(channel).type = "Row" THEN "drain" ELSE "write"

DrainStopping ==
  /\ writer = "drain"
  /\ Len(buf) < Batch /\ channel # <<>>
  /\ Take
  /\ writer' = CASE Head(channel).type = "Row"   -> "drain"
                 [] Head(channel).type = "Flush" -> "write"
                 [] Head(channel).type = "Stop"  -> "ack"

\* try_recv(): a Flush or a Stop ends the batch, and so does a full batch or an
\* empty channel.
Drain ==
  /\ writer = "drain"
  /\ Len(buf) < Batch /\ channel # <<>>
  /\ Take
  /\ writer' = IF Head(channel).type = "Row" THEN "drain" ELSE "write"

\* Mutant of EndDrain: a batch that is not full waits for more rows.
EndDrainWhenFull ==
  /\ writer = "drain"
  /\ Len(buf) = Batch \/ channel = <<>>
  /\ writer' = IF Len(buf) = Batch THEN "write" ELSE "recv"
  /\ UNCHANGED <<channel, buf, ack_due, stop, main, expired, acked, db, history>>

EndDrain ==
  /\ writer = "drain"
  /\ Len(buf) = Batch \/ channel = <<>>
  /\ writer' = "write"
  /\ UNCHANGED <<channel, buf, ack_due, stop, main, expired, acked, db, history>>

\* Mutant of Commit: the batch is not cleared.
CommitKeepingBatch ==
  /\ writer = "write"
  /\ db' = db \o buf
  /\ writer' = "ack"
  /\ UNCHANGED <<channel, buf, ack_due, stop, main, expired, acked, history>>

\* flush_batch: one transaction, so all rows of the batch or none.
Commit ==
  /\ writer = "write"
  /\ db' = db \o buf
  /\ buf' = <<>>
  /\ writer' = "ack"
  /\ UNCHANGED <<channel, ack_due, stop, main, expired, acked, history>>

\* Mutant of FailBatch: the rows go back to the end of the channel.
FailBatchRequeued ==
  /\ writer = "write"
  /\ buf # <<>>
  /\ channel' = channel \o [i \in 1..Len(buf) |-> RowMsg(buf[i])]
  /\ buf' = <<>>
  /\ writer' = "ack"
  /\ UNCHANGED <<ack_due, stop, main, expired, acked, db, history>>

\* The error is logged and the batch cleared all the same.
FailBatch ==
  /\ writer = "write"
  /\ buf # <<>>
  /\ failed' = failed \cup ToSet(buf)
  /\ buf' = <<>>
  /\ writer' = "ack"
  /\ UNCHANGED <<channel, ack_due, stop, main, expired, acked, db,
                 recorded, flushed, dropped, lost, restarts>>

\* A pending Flush is answered; after Stop the loop ends, its buffer empty.
Ack ==
  /\ writer = "ack"
  /\ acked' = (acked \/ ack_due)
  /\ ack_due' = FALSE
  /\ writer' = IF stop THEN "exited" ELSE "recv"
  /\ UNCHANGED <<channel, buf, stop, main, expired, db, history>>

-----------------------------------------------------------------------------
(* main(): flush_and_join, every wait of it bounded by the deadline *)

MainGoes(from, to) ==
  /\ main = from
  /\ main' = to
  /\ UNCHANGED <<writer, buf, ack_due, stop, expired, acked, db,
                 recorded, dropped, failed, lost, restarts>>

\* The server has drained.
Shutdown == MainGoes("serving", "flush") /\ UNCHANGED <<channel, flushed>>

SendFlush ==
  /\ MainGoes("flush", "await")
  /\ Len(channel) < Capacity
  /\ channel' = Append(channel, FlushMsg)
  /\ flushed' = recorded

SkipFlush == expired /\ MainGoes("flush", "stop") /\ UNCHANGED <<channel, flushed>>

EndAwait == (acked \/ expired) /\ MainGoes("await", "stop") /\ UNCHANGED <<channel, flushed>>

SendStop ==
  /\ MainGoes("stop", "join")
  /\ Len(channel) < Capacity
  /\ channel' = Append(channel, StopMsg)
  /\ UNCHANGED flushed

\* Mutant of SkipStop: the Stop is sent without a deadline.
SkipStopNever == FALSE

SkipStop == expired /\ MainGoes("stop", "join") /\ UNCHANGED <<channel, flushed>>

\* The thread has finished and is joined, or it is detached.
Join   == writer = "exited" /\ MainGoes("join", "joined") /\ UNCHANGED <<channel, flushed>>
Detach == expired /\ MainGoes("join", "detached") /\ UNCHANGED <<channel, flushed>>

Expire ==
  /\ main \notin {"serving", "joined", "detached"}
  /\ expired = FALSE
  /\ expired' = TRUE
  /\ UNCHANGED <<channel, writer, buf, ack_due, stop, main, acked, db, history>>

-----------------------------------------------------------------------------
\* The process ends - main() has returned, or it was killed - and starts again.
\* The table survives; an open transaction is rolled back.
Restart ==
  /\ restarts < MaxRestarts
  /\ restarts' = restarts + 1
  /\ lost' = lost \cup ToSet(InMemory)
  /\ channel' = <<>> /\ writer' = "recv" /\ buf' = <<>>
  /\ ack_due' = FALSE /\ stop' = FALSE
  /\ main' = "serving" /\ expired' = FALSE /\ acked' = FALSE
  /\ flushed' = 0
  /\ UNCHANGED <<db, recorded, dropped, failed>>

WriterStep == Recv \/ Drain \/ EndDrain \/ Commit \/ FailBatch \/ Ack

MainStep ==
  \/ SendFlush \/ SkipFlush
  \/ EndAwait
  \/ SendStop \/ SkipStop
  \/ Join \/ Detach

Next == Record \/ WriterStep \/ Shutdown \/ MainStep \/ Expire \/ Restart

Spec == Init /\ [][Next]_vars

\* main() runs and its clock advances; of the writer, which may be stuck for
\* ever in a transaction, nothing is assumed.
MainRuns == WF_vars(MainStep) /\ WF_vars(Expire)

\* The writer thread runs and SQLite answers, with or without an error.
WriterRuns == WF_vars(WriterStep)

-----------------------------------------------------------------------------
(* Properties *)

AllRows == 1..MaxRows
Messages == {RowMsg(n) : n \in AllRows} \cup {FlushMsg, StopMsg}

\* The rows of a channel stand before what else is in it.
RowsFirst(msgs) ==
  \E k \in 0..Len(msgs) : \A i \in 1..Len(msgs) : msgs[i].type = "Row" <=> i <= k

\* Types, and the order that RowsIn relies on.
TypeOK ==
  /\ channel \in Seq(Messages) /\ Len(channel) <= Capacity
  /\ RowsFirst(channel)
  /\ writer \in {"recv", "drain", "write", "ack", "exited"}
  /\ buf \in Seq(AllRows) /\ Len(buf) <= Batch
  /\ ack_due \in BOOLEAN /\ stop \in BOOLEAN
  /\ db \in Seq(AllRows)
  /\ main \in {"serving", "flush", "await", "stop", "join", "joined", "detached"}
  /\ expired \in BOOLEAN /\ acked \in BOOLEAN
  /\ recorded \in 0..MaxRows /\ flushed \in 0..MaxRows
  /\ dropped \subseteq AllRows /\ failed \subseteq AllRows /\ lost \subseteq AllRows
  /\ restarts \in 0..MaxRestarts

\* The rows whose fate is known.
Settled == ToSet(db) \cup dropped \cup failed \cup lost

\* No row disappears silently and none is counted twice: a recorded row is
\* persisted, in memory, counted as dropped, logged with its batch, or went down
\* with the process - exactly one of these.
RowsAccountedFor ==
  LET fates == <<ToSet(db), ToSet(InMemory), dropped, failed, lost>> IN
  /\ UNION ToSet(fates) = 1..recorded
  /\ \A i, j \in 1..5 : i # j => fates[i] \cap fates[j] = {}

\* When flush_and_join has its answer, every row recorded before the Flush has
\* met its fate: the writer had nothing of them left in its buffer, in whatever
\* batches it cut the channel (lib.rs:64).
FlushCovers == acked => 1..flushed \subseteq Settled

\* When the writer was joined, nothing is left in memory: a clean exit loses no
\* row but those of a failed transaction, also when the Flush was given up and
\* only the Stop got through.
CleanExitDrains == main = "joined" => InMemory = <<>>

\* The table grows in the order of acceptance, each row at most once, over
\* failed batches and restarts.
Ledger == INSTANCE UsageLedger WITH
  Rows <- AllRows, durable <- db, pending <- InMemory

ImplementsLedger == Ledger!LedgerSpec

\* A stuck writer never hangs the exit, even behind a full channel (lib.rs:132).
ShutdownBounded ==
  MainRuns => (main = "flush" ~> main \in {"joined", "detached", "serving"})

\* With a writer that gets answers from SQLite, a row does not stay in memory.
RowsSettle ==
  WriterRuns => \A n \in AllRows : n \in ToSet(InMemory) ~> n \in Settled
=============================================================================
