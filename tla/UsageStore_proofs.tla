-------------------------- MODULE UsageStore_proofs --------------------------
(***************************************************************************)
(* Proofs about UsageStore, for every capacity, batch size and number of   *)
(* rows and restarts: every row has exactly one fate, an answered flush    *)
(* and a joined writer leave nothing in memory, and the table grows as     *)
(* UsageLedger says.                                                       *)
(***************************************************************************)
EXTENDS UsageStore, SequenceTheorems, FiniteSetTheorems, TLAPS

-----------------------------------------------------------------------------
(* Sequences *)

\* What a sequence holds when it grows at its end, or by another one.
LEMMA ToSetFacts ==
  ASSUME NEW S, NEW s \in Seq(S), NEW t \in Seq(S), NEW e \in S
  PROVE  /\ ToSet(<<>>) = {}
         /\ ToSet(s) \subseteq S
         /\ ToSet(Append(s, e)) = ToSet(s) \cup {e}
         /\ ToSet(s \o t) = ToSet(s) \cup ToSet(t)
  <1>1. ToSet(<<>>) = {}
    BY EmptySeq DEF ToSet
  <1>2. /\ \A x : x \in ToSet(s) <=> \E i \in 1..Len(s) : x = s[i]
        /\ \A x : x \in ToSet(t) <=> \E i \in 1..Len(t) : x = t[i]
        /\ Len(s) \in Nat /\ Len(t) \in Nat
    BY LenProperties DEF ToSet
  <1>3. ToSet(s) \subseteq S
    BY <1>2, ElementOfSeq
  <1>4. ToSet(Append(s, e)) = ToSet(s) \cup {e}
    <2>1. /\ Append(s, e) \in Seq(S) /\ Len(Append(s, e)) = Len(s) + 1
          /\ \A i \in 1..Len(s) : Append(s, e)[i] = s[i]
          /\ Append(s, e)[Len(s) + 1] = e
      BY AppendProperties
    <2>2. \A x : x \in ToSet(Append(s, e)) <=> \E i \in 1..(Len(s) + 1) : x = Append(s, e)[i]
      BY <2>1, LenProperties DEF ToSet
    <2>3. 1..(Len(s) + 1) = (1..Len(s)) \cup {Len(s) + 1}
      BY <1>2
    <2>4. QED
      BY <1>2, <2>1, <2>2, <2>3
  <1>5. ToSet(s \o t) = ToSet(s) \cup ToSet(t)
    <2> DEFINE c == s \o t
    <2>1. /\ c \in Seq(S) /\ Len(c) = Len(s) + Len(t)
          /\ \A i \in 1..Len(s) + Len(t) : c[i] = IF i <= Len(s) THEN s[i] ELSE t[i - Len(s)]
      BY ConcatProperties
    <2>2. \A x : x \in ToSet(c) <=> \E i \in 1..(Len(s) + Len(t)) : x = c[i]
      BY <2>1, LenProperties DEF ToSet
    <2> HIDE DEF c
    <2>3. \A i \in 1..Len(s) : i \in 1..(Len(s) + Len(t)) /\ c[i] = s[i]
      BY <1>2, <2>1
    <2>4. \A i \in 1..Len(t) : Len(s) + i \in 1..(Len(s) + Len(t)) /\ c[Len(s) + i] = t[i]
      BY <1>2, <2>1
    <2>5. \A i \in 1..(Len(s) + Len(t)) :
            (\E j \in 1..Len(s) : c[i] = s[j]) \/ (\E j \in 1..Len(t) : c[i] = t[j])
      <3> TAKE i \in 1..(Len(s) + Len(t))
      <3>1. CASE i <= Len(s)
        BY <1>2, <2>1, <3>1
      <3>2. CASE ~(i <= Len(s))
        <4>1. i - Len(s) \in 1..Len(t) /\ c[i] = t[i - Len(s)]
          BY <1>2, <2>1, <3>2
        <4>2. QED
          BY <4>1
      <3>3. QED
        BY <3>1, <3>2
    <2>6. \A x : x \in ToSet(c) => x \in ToSet(s) \cup ToSet(t)
      BY <1>2, <2>2, <2>5
    <2>7. \A x : x \in ToSet(s) => x \in ToSet(c)
      BY <1>2, <2>2, <2>3
    <2>8. \A x : x \in ToSet(t) => x \in ToSet(c)
      BY <1>2, <2>2, <2>4
    <2>9. QED
      BY <2>6, <2>7, <2>8 DEF c
  <1>6. QED
    BY <1>1, <1>3, <1>4, <1>5

\* Moving the head of the second sequence to the end of the first keeps their
\* concatenation.
LEMMA MoveHead ==
  ASSUME NEW S, NEW b \in Seq(S), NEW r \in Seq(S), r # <<>>
  PROVE  Append(b, Head(r)) \o Tail(r) = b \o r
  <1>1. Head(r) \in S /\ Tail(r) \in Seq(S)
    BY HeadTailProperties
  <1>2. r = <<Head(r)>> \o Tail(r)
    <2>1. Len(r) \in Nat \ {0}
      BY EmptySeq
    <2>2. /\ Len(Tail(r)) = Len(r) - 1
          /\ \A i \in 1..Len(Tail(r)) : Tail(r)[i] = r[i + 1]
      BY HeadTailProperties
    <2>3. <<Head(r)>> \in Seq(S) /\ Len(<<Head(r)>>) = 1 /\ <<Head(r)>>[1] = r[1]
      BY <1>1
    <2> DEFINE c == <<Head(r)>> \o Tail(r)
    <2>4. /\ c \in Seq(S) /\ Len(c) = Len(r)
          /\ \A i \in 1..Len(r) : c[i] = IF i <= 1 THEN <<Head(r)>>[i] ELSE Tail(r)[i - 1]
      BY <1>1, <2>1, <2>2, <2>3, ConcatProperties
    <2>5. \A i \in 1..Len(r) : c[i] = r[i]
      <3> HIDE DEF c
      <3> TAKE i \in 1..Len(r)
      <3>1. CASE i = 1
        BY <2>3, <2>4, <3>1
      <3>2. CASE i # 1
        <4>1. ~(i <= 1) /\ i - 1 \in 1..Len(Tail(r)) /\ (i - 1) + 1 = i
          BY <2>1, <2>2, <3>2
        <4>2. QED
          BY <2>2, <2>4, <4>1
      <3>3. QED
        BY <3>1, <3>2
    <2>6. QED
      BY <2>4, <2>5, SeqEqual
  <1>3. Append(b, Head(r)) = b \o <<Head(r)>>
    BY <1>1, AppendIsConcat
  <1>4. (b \o <<Head(r)>>) \o Tail(r) = b \o (<<Head(r)>> \o Tail(r))
    <2>1. <<Head(r)>> \in Seq(S)
      BY <1>1
    <2>2. QED
      BY <1>1, <2>1, ConcatAssociative
  <1>5. QED
    BY <1>2, <1>3, <1>4

-----------------------------------------------------------------------------
(* The rows of a channel *)

\* The first k messages, and no others, are rows.
HasRows(msgs, k) ==
  k \in 0..Len(msgs) /\ \A i \in 1..Len(msgs) : msgs[i].type = "Row" <=> i <= k

\* Then its rows are those of its first k messages.
LEMMA RowsAreFirst ==
  ASSUME NEW msgs \in Seq(Messages), NEW k, HasRows(msgs, k)
  PROVE  /\ RowsIn(msgs) = [i \in 1..k |-> msgs[i].row]
         /\ RowsIn(msgs) \in Seq(AllRows)
         /\ Len(RowsIn(msgs)) = k
         /\ k \in Nat /\ k <= Len(msgs)
  <1>1. k \in Nat /\ k <= Len(msgs) /\ Len(msgs) \in Nat
    BY LenProperties DEF HasRows
  <1>2. {j \in 1..Len(msgs) : msgs[j].type = "Row"} = 1..k
    BY <1>1 DEF HasRows
  <1>3. Cardinality(1..k) = k
    BY <1>1, FS_Interval
  <1>4. RowsIn(msgs) = [i \in 1..k |-> msgs[i].row]
    BY <1>2, <1>3 DEF RowsIn
  <1>5. \A i \in 1..k : msgs[i].row \in AllRows
    <2> SUFFICES ASSUME NEW i \in 1..k PROVE msgs[i].row \in AllRows
      OBVIOUS
    <2>1. i \in 1..Len(msgs) /\ msgs[i].type = "Row"
      BY <1>1 DEF HasRows
    <2>2. msgs[i] \in Messages
      BY <2>1, ElementOfSeq
    <2>3. QED
      BY <2>1, <2>2 DEF Messages, RowMsg, FlushMsg, StopMsg
  <1>6. [i \in 1..k |-> msgs[i].row] \in Seq(AllRows)
    BY <1>1, <1>5, SeqDef
  <1>7. Len([i \in 1..k |-> msgs[i].row]) = k
    BY <1>1
  <1>8. QED
    BY <1>1, <1>4, <1>6, <1>7

\* A row at the end of a channel of rows.
LEMMA RowsGrow ==
  ASSUME NEW msgs \in Seq(Messages), HasRows(msgs, Len(msgs)), NEW n \in AllRows
  PROVE  /\ Append(msgs, RowMsg(n)) \in Seq(Messages)
         /\ HasRows(Append(msgs, RowMsg(n)), Len(msgs) + 1)
         /\ RowsIn(Append(msgs, RowMsg(n))) = Append(RowsIn(msgs), n)
  <1> DEFINE new == Append(msgs, RowMsg(n))
  <1>0. RowMsg(n) \in Messages /\ RowMsg(n).type = "Row" /\ RowMsg(n).row = n
    BY DEF Messages, RowMsg
  <1>1. /\ new \in Seq(Messages) /\ Len(new) = Len(msgs) + 1
        /\ \A i \in 1..Len(msgs) : new[i] = msgs[i]
        /\ new[Len(msgs) + 1] = RowMsg(n)
        /\ Len(msgs) \in Nat
    BY <1>0, AppendProperties, LenProperties
  <1> HIDE DEF new
  <1>2. HasRows(new, Len(msgs) + 1)
    <2>1. \A i \in 1..Len(new) : new[i].type = "Row"
      <3> TAKE i \in 1..Len(new)
      <3>1. CASE i \in 1..Len(msgs)
        BY <1>1, <3>1 DEF HasRows
      <3>2. CASE i = Len(msgs) + 1
        BY <1>0, <1>1, <3>2
      <3>3. QED
        BY <1>1, <3>1, <3>2
    <2>2. QED
      BY <1>1, <2>1 DEF HasRows
  <1>3. /\ RowsIn(new) = [i \in 1..Len(msgs) + 1 |-> new[i].row]
        /\ RowsIn(new) \in Seq(AllRows)
        /\ Len(RowsIn(new)) = Len(msgs) + 1
    BY <1>1, <1>2, RowsAreFirst
  <1>4. /\ RowsIn(msgs) = [i \in 1..Len(msgs) |-> msgs[i].row]
        /\ RowsIn(msgs) \in Seq(AllRows)
        /\ Len(RowsIn(msgs)) = Len(msgs)
    BY RowsAreFirst
  <1>5. /\ Append(RowsIn(msgs), n) \in Seq(AllRows)
        /\ Len(Append(RowsIn(msgs), n)) = Len(msgs) + 1
        /\ \A i \in 1..Len(msgs) : Append(RowsIn(msgs), n)[i] = RowsIn(msgs)[i]
        /\ Append(RowsIn(msgs), n)[Len(msgs) + 1] = n
    BY <1>4, AppendProperties
  <1>6. \A i \in 1..Len(msgs) + 1 : RowsIn(new)[i] = Append(RowsIn(msgs), n)[i]
    <2> TAKE i \in 1..Len(msgs) + 1
    <2>1. CASE i \in 1..Len(msgs)
      BY <1>1, <1>3, <1>4, <1>5, <2>1
    <2>2. CASE i = Len(msgs) + 1
      BY <1>0, <1>1, <1>3, <1>5, <2>2
    <2>3. i \in 1..Len(msgs) \/ i = Len(msgs) + 1
      BY <1>1
    <2>4. QED
      BY <2>1, <2>2, <2>3
  <1>7. RowsIn(new) = Append(RowsIn(msgs), n)
    BY <1>3, <1>5, <1>6, SeqEqual
  <1>8. QED
    BY <1>1, <1>2, <1>7 DEF new

\* A Flush or a Stop at the end.
LEMMA RowsStay ==
  ASSUME NEW msgs \in Seq(Messages), NEW k, HasRows(msgs, k),
         NEW m \in {FlushMsg, StopMsg}
  PROVE  /\ Append(msgs, m) \in Seq(Messages)
         /\ HasRows(Append(msgs, m), k)
         /\ RowsIn(Append(msgs, m)) = RowsIn(msgs)
  <1> DEFINE new == Append(msgs, m)
  <1>0. m \in Messages /\ m.type # "Row"
    BY DEF Messages, FlushMsg, StopMsg
  <1>1. /\ new \in Seq(Messages) /\ Len(new) = Len(msgs) + 1
        /\ \A i \in 1..Len(msgs) : new[i] = msgs[i]
        /\ new[Len(msgs) + 1] = m
        /\ Len(msgs) \in Nat
    BY <1>0, AppendProperties, LenProperties
  <1> HIDE DEF new
  <1>k. k \in Nat /\ k <= Len(msgs)
    BY RowsAreFirst
  <1>2. HasRows(new, k)
    <2>1. \A i \in 1..Len(new) : new[i].type = "Row" <=> i <= k
      <3> TAKE i \in 1..Len(new)
      <3>1. CASE i \in 1..Len(msgs)
        BY <1>1, <3>1 DEF HasRows
      <3>2. CASE i = Len(msgs) + 1
        <4>1. ~(i <= k)
          BY <1>1, <1>k, <3>2
        <4>2. QED
          BY <1>0, <1>1, <3>2, <4>1
      <3>3. QED
        BY <1>1, <3>1, <3>2
    <2>2. k \in 0..Len(new)
      BY <1>1, <1>k
    <2>3. QED
      BY <2>1, <2>2 DEF HasRows
  <1>3. /\ RowsIn(new) = [i \in 1..k |-> new[i].row]
        /\ RowsIn(msgs) = [i \in 1..k |-> msgs[i].row]
    BY <1>1, <1>2, RowsAreFirst
  <1>4. \A i \in 1..k : new[i] = msgs[i]
    BY <1>1, <1>k
  <1>5. QED
    BY <1>1, <1>2, <1>3, <1>4 DEF new

\* The first message leaves.
LEMMA RowsShrink ==
  ASSUME NEW msgs \in Seq(Messages), NEW k, HasRows(msgs, k), msgs # <<>>
  PROVE  /\ Head(msgs) \in Messages /\ Tail(msgs) \in Seq(Messages)
         /\ Head(msgs).type = "Row" =>
              /\ HasRows(Tail(msgs), k - 1)
              /\ RowsIn(msgs) # <<>>
              /\ Head(msgs).row = Head(RowsIn(msgs))
              /\ RowsIn(Tail(msgs)) = Tail(RowsIn(msgs))
         /\ Head(msgs).type # "Row" =>
              /\ HasRows(Tail(msgs), 0)
              /\ RowsIn(msgs) = <<>>
              /\ RowsIn(Tail(msgs)) = <<>>
  <1> DEFINE rest == Tail(msgs)
  <1>1. /\ Head(msgs) \in Messages /\ rest \in Seq(Messages)
        /\ Len(rest) = Len(msgs) - 1
        /\ \A i \in 1..Len(rest) : rest[i] = msgs[i + 1]
        /\ Len(msgs) \in Nat \ {0}
        /\ Head(msgs) = msgs[1]
    BY HeadTailProperties, EmptySeq
  <1> HIDE DEF rest
  <1>2. /\ k \in Nat /\ k <= Len(msgs)
        /\ RowsIn(msgs) = [i \in 1..k |-> msgs[i].row]
        /\ RowsIn(msgs) \in Seq(AllRows) /\ Len(RowsIn(msgs)) = k
    BY RowsAreFirst
  <1>3. msgs[1].type = "Row" <=> k # 0
    BY <1>1, <1>2 DEF HasRows
  <1>4. ASSUME NEW j \in Nat, j = IF k = 0 THEN 0 ELSE k - 1
        PROVE  HasRows(rest, j)
    <2>1. \A i \in 1..Len(rest) : rest[i].type = "Row" <=> i <= j
      <3> TAKE i \in 1..Len(rest)
      <3>1. i + 1 \in 1..Len(msgs) /\ (i + 1 <= k <=> i <= j)
        BY <1>1, <1>2, <1>4
      <3>2. QED
        BY <1>1, <3>1 DEF HasRows
    <2>2. j \in 0..Len(rest)
      BY <1>1, <1>2, <1>4
    <2>3. QED
      BY <2>1, <2>2 DEF HasRows
  <1>5. CASE k = 0
    <2>1. HasRows(rest, 0)
      BY <1>4, <1>5
    <2>2. RowsIn(rest) \in Seq(AllRows) /\ Len(RowsIn(rest)) = 0
      BY <1>1, <2>1, RowsAreFirst
    <2>3. RowsIn(rest) = <<>> /\ RowsIn(msgs) = <<>>
      BY <1>2, <1>5, <2>2, EmptySeq
    <2>4. QED
      BY <1>1, <1>3, <1>5, <2>1, <2>3 DEF rest
  <1>6. CASE k # 0
    <2>0. k - 1 \in Nat
      BY <1>2, <1>6
    <2>1. HasRows(rest, k - 1)
      BY <1>4, <1>6, <2>0
    <2>2. /\ RowsIn(rest) = [i \in 1..(k - 1) |-> rest[i].row]
          /\ RowsIn(rest) \in Seq(AllRows) /\ Len(RowsIn(rest)) = k - 1
      BY <1>1, <2>1, RowsAreFirst
    <2>3. RowsIn(msgs) # <<>> /\ Head(RowsIn(msgs)) = msgs[1].row
      BY <1>2, <1>6
    <2>4. /\ Tail(RowsIn(msgs)) \in Seq(AllRows)
          /\ Len(Tail(RowsIn(msgs))) = k - 1
          /\ \A i \in 1..(k - 1) : Tail(RowsIn(msgs))[i] = RowsIn(msgs)[i + 1]
      BY <1>2, <2>3, HeadTailProperties
    <2>5. \A i \in 1..(k - 1) : RowsIn(rest)[i] = Tail(RowsIn(msgs))[i]
      <3> TAKE i \in 1..(k - 1)
      <3>1. i \in 1..Len(rest) /\ i + 1 \in 1..k
        BY <1>1, <1>2, <2>0
      <3>2. RowsIn(rest)[i] = msgs[i + 1].row
        BY <1>1, <2>2, <3>1
      <3>3. RowsIn(msgs)[i + 1] = msgs[i + 1].row
        BY <1>2, <3>1
      <3>4. QED
        BY <2>4, <3>2, <3>3
    <2>6. RowsIn(rest) = Tail(RowsIn(msgs))
      BY <2>2, <2>4, <2>5, SeqEqual
    <2>7. QED
      BY <1>1, <1>3, <1>6, <2>1, <2>3, <2>6 DEF rest
  <1>7. QED
    BY <1>5, <1>6

-----------------------------------------------------------------------------
(* What main() and the writer know of each other *)

NoneInChannel(type) == \A i \in 1..Len(channel) : channel[i].type # type

\* main() sends one Flush and then one Stop, nothing comes after a Stop, and
\* the writer has an empty batch whenever it waits, answers or has ended.
Protocol ==
  /\ main \in {"serving", "flush"} => ~ack_due /\ ~acked /\ NoneInChannel("Flush")
  /\ main \in {"serving", "flush", "await", "stop"} => ~stop /\ NoneInChannel("Stop")
  /\ \A i \in 1..Len(channel) : channel[i].type = "Stop" => i = Len(channel)
  /\ stop => channel = <<>>
  /\ ack_due \/ acked => RowsIn(channel) = <<>>
  /\ acked => buf = <<>>
  /\ writer \in {"recv", "ack", "exited"} => buf = <<>>
  /\ writer = "recv" => ~stop
  /\ writer = "exited" => stop
  /\ main = "joined" => writer = "exited"
  /\ flushed <= recorded

\* How a step changes what is in memory and what has met its fate: nothing; a
\* row is accepted or dropped; a batch is written or fails; the process ends.
Unsettling ==
  \/ InMemory' = InMemory /\ UNCHANGED <<db, dropped, failed, lost, recorded>>
  \/ /\ recorded' = recorded + 1 /\ recorded + 1 \in AllRows
     /\ InMemory' = Append(InMemory, recorded + 1)
     /\ UNCHANGED <<db, dropped, failed, lost>>
  \/ /\ recorded' = recorded + 1 /\ recorded + 1 \in AllRows
     /\ InMemory' = InMemory
     /\ dropped' = dropped \cup {recorded + 1}
     /\ UNCHANGED <<db, failed, lost>>
  \/ /\ InMemory = buf \o InMemory'
     /\ db' = db \o buf
     /\ UNCHANGED <<dropped, failed, lost, recorded>>
  \/ /\ InMemory = buf \o InMemory'
     /\ failed' = failed \cup ToSet(buf)
     /\ UNCHANGED <<db, dropped, lost, recorded>>
  \/ /\ InMemory' = <<>>
     /\ lost' = lost \cup ToSet(InMemory)
     /\ UNCHANGED <<db, dropped, failed, recorded>>

\* Messages by their kind.
LEMMA MessageKinds ==
  \A m \in Messages :
    \/ m.type = "Row" /\ m.row \in AllRows
    \/ m.type = "Flush"
    \/ m.type = "Stop"
  BY DEF Messages, RowMsg, FlushMsg, StopMsg

\* The rows in memory are a sequence of rows.
LEMMA MemoryType ==
  ASSUME TypeOK
  PROVE  /\ RowsIn(channel) \in Seq(AllRows)
         /\ buf \in Seq(AllRows)
         /\ InMemory \in Seq(AllRows)
         /\ \E k : HasRows(channel, k)
         /\ channel \in Seq(Messages) /\ Len(channel) \in Nat
  <1>1. channel \in Seq(Messages) /\ buf \in Seq(AllRows)
    BY DEF TypeOK
  <1>2. PICK k : HasRows(channel, k)
    BY DEF TypeOK, RowsFirst, HasRows
  <1>3. RowsIn(channel) \in Seq(AllRows)
    BY <1>1, <1>2, RowsAreFirst
  <1>4. InMemory \in Seq(AllRows)
    BY <1>1, <1>3, ConcatProperties DEF InMemory
  <1>5. QED
    BY <1>1, <1>2, <1>3, <1>4, LenProperties

\* The same as a formula, to be primed.
LEMMA MemoryIsRows == TypeOK => InMemory \in Seq(AllRows)
  BY MemoryType

\* Nothing is known to be wrong at the start.
LEMMA StoreInit == Init => TypeOK /\ Protocol
  <1> SUFFICES ASSUME Init PROVE TypeOK /\ Protocol
    OBVIOUS
  <1>1. <<>> \in Seq(Messages) /\ <<>> \in Seq(AllRows) /\ Len(<<>>) = 0
    BY EmptySeq
  <1>2. RowsFirst(channel)
    BY <1>1, 0 \in 0..0 DEF Init, RowsFirst
  <1>3. TypeOK
    <2>1. 0 <= Capacity /\ 0 <= Batch /\ 0 \in 0..MaxRows /\ 0 \in 0..MaxRestarts
      BY StoreAssumption
    <2>2. /\ channel \in Seq(Messages) /\ Len(channel) <= Capacity
          /\ buf \in Seq(AllRows) /\ Len(buf) <= Batch
          /\ db \in Seq(AllRows)
      BY <1>1, <2>1 DEF Init
    <2>3. QED
      BY <1>2, <2>1, <2>2 DEF Init, TypeOK
  <1>4. Protocol
    BY <1>1 DEF Init, Protocol, NoneInChannel
  <1>5. QED
    BY <1>3, <1>4

\* A handler records a row.
LEMMA RecordStep ==
  ASSUME TypeOK, Protocol, Record
  PROVE  TypeOK' /\ Protocol' /\ Unsettling
  <1>1. /\ main = "serving" /\ recorded' = recorded + 1
        /\ recorded \in Nat /\ recorded + 1 \in AllRows
        /\ main' = main /\ writer' = writer /\ buf' = buf /\ ack_due' = ack_due
        /\ stop' = stop /\ expired' = expired /\ acked' = acked /\ db' = db
        /\ flushed' = flushed /\ failed' = failed /\ lost' = lost /\ restarts' = restarts
        /\ recorded + 1 \in 0..MaxRows
        /\ flushed <= recorded + 1
    BY StoreAssumption DEF Record, TypeOK, AllRows, Protocol
  <1>m. /\ RowsIn(channel) \in Seq(AllRows) /\ buf \in Seq(AllRows)
        /\ channel \in Seq(Messages) /\ Len(channel) \in Nat
    BY MemoryType
  <1>2. HasRows(channel, Len(channel))
    <2>1. \A i \in 1..Len(channel) : channel[i].type = "Row"
      <3> TAKE i \in 1..Len(channel)
      <3>1. channel[i] \in Messages
        BY <1>m, ElementOfSeq
      <3>2. channel[i].type # "Flush" /\ channel[i].type # "Stop"
        BY <1>1 DEF Protocol, NoneInChannel
      <3>3. QED
        BY <3>1, <3>2, MessageKinds
    <2>2. QED
      BY <1>m, <2>1 DEF HasRows
  <1>3. CASE Accepts
    <2> DEFINE new == Append(channel, RowMsg(recorded + 1))
    <2>1. channel' = new /\ dropped' = dropped /\ Len(channel) < Capacity
      BY <1>3 DEF Record, Accepts
    <2>2. /\ new \in Seq(Messages) /\ HasRows(new, Len(channel) + 1)
          /\ RowsIn(new) = Append(RowsIn(channel), recorded + 1)
      BY <1>1, <1>2, <1>m, RowsGrow
    <2>3. /\ Len(new) = Len(channel) + 1
          /\ \A i \in 1..Len(channel) + 1 : new[i].type = "Row"
      <3>1. Len(new) = Len(channel) + 1
        <4>1. RowMsg(recorded + 1) \in Messages
          BY <1>1 DEF Messages
        <4>2. QED
          BY <1>m, <4>1, AppendProperties
      <3>2. QED
        BY <1>m, <2>2, <3>1 DEF HasRows
    <2>4. InMemory' = Append(InMemory, recorded + 1)
      <3>1. InMemory' = buf \o Append(RowsIn(channel), recorded + 1)
        BY <1>1, <2>1, <2>2 DEF InMemory
      <3>2. /\ Append(RowsIn(channel), recorded + 1) = RowsIn(channel) \o <<recorded + 1>>
            /\ <<recorded + 1>> \in Seq(AllRows)
        BY <1>1, <1>m, AppendIsConcat
      <3>3. buf \o (RowsIn(channel) \o <<recorded + 1>>) = (buf \o RowsIn(channel)) \o <<recorded + 1>>
        BY <1>m, <3>2, ConcatAssociative
      <3>4. InMemory \in Seq(AllRows)
        BY MemoryType
      <3>5. Append(InMemory, recorded + 1) = InMemory \o <<recorded + 1>>
        BY <1>1, <3>4, AppendIsConcat
      <3>6. QED
        BY <3>1, <3>2, <3>3, <3>5 DEF InMemory
    <2>5. Unsettling
      BY <1>1, <2>1, <2>4 DEF Unsettling
    <2>6. RowsFirst(channel')
      BY <2>1, <2>2 DEF RowsFirst, HasRows
    <2>7. Len(channel') <= Capacity
      BY <1>m, <2>1, <2>3, StoreAssumption
    <2> HIDE DEF new
    <2>8. TypeOK'
      BY <1>1, <2>1, <2>2, <2>6, <2>7 DEF TypeOK, AllRows
    <2>9. /\ NoneInChannel("Flush")' /\ NoneInChannel("Stop")'
          /\ \A i \in 1..Len(channel') : channel'[i].type # "Stop"
      BY <2>1, <2>3 DEF NoneInChannel
    <2>10. Protocol'
      BY <1>1, <2>9 DEF Protocol
    <2>11. QED
      BY <2>5, <2>8, <2>10
  <1>4. CASE ~Accepts
    <2>1. channel' = channel /\ dropped' = dropped \cup {recorded + 1}
      BY <1>4 DEF Record
    <2>2. InMemory' = InMemory /\ RowsIn(channel)' = RowsIn(channel)
      BY <1>1, <2>1 DEF InMemory
    <2>3. Unsettling
      BY <1>1, <2>1, <2>2 DEF Unsettling
    <2>4. TypeOK'
      BY <1>1, <2>1 DEF TypeOK
    <2>5. Protocol'
      BY <1>1, <2>1, <2>2 DEF Protocol, NoneInChannel
    <2>6. QED
      BY <2>3, <2>4, <2>5
  <1>5. QED
    BY <1>3, <1>4

\* The writer takes a message off the channel: the rows in memory stay what
\* they are, the oldest of the channel is now the youngest of the batch.
LEMMA TakeStep ==
  ASSUME TypeOK, Protocol, channel # <<>>, Len(buf) < Batch, Take,
         writer \in {"recv", "drain"}, writer' \in {"drain", "write"}
  PROVE  TypeOK' /\ Protocol' /\ Unsettling
  <1> DEFINE msg == Head(channel)
             rest == Tail(channel)
             rows == RowsIn(channel)
  <1>1. /\ main' = main /\ expired' = expired /\ acked' = acked /\ db' = db
        /\ UNCHANGED <<recorded, flushed, dropped, failed, lost, restarts>>
        /\ channel' = rest
        /\ buf' = IF msg.type = "Row" THEN Append(buf, msg.row) ELSE buf
        /\ ack_due' = (ack_due \/ msg.type = "Flush")
        /\ stop' = (stop \/ msg.type = "Stop")
    BY DEF Take, history
  <1>m. /\ rows \in Seq(AllRows) /\ buf \in Seq(AllRows)
        /\ channel \in Seq(Messages) /\ Len(channel) \in Nat
        /\ Len(channel) <= Capacity /\ Len(buf) \in Nat
    BY MemoryType, LenProperties DEF TypeOK
  <1>k. PICK k : HasRows(channel, k)
    BY MemoryType
  <1>2. /\ msg \in Messages /\ rest \in Seq(Messages)
        /\ Len(rest) = Len(channel) - 1
        /\ \A i \in 1..Len(rest) : rest[i] = channel[i + 1]
        /\ Len(channel) \in Nat \ {0} /\ msg = channel[1]
    BY <1>m, HeadTailProperties, EmptySeq
  <1>3. /\ msg.type = "Row" =>
             HasRows(rest, k - 1) /\ rows # <<>> /\ msg.row = Head(rows) /\ RowsIn(rest) = Tail(rows)
        /\ msg.type # "Row" => HasRows(rest, 0) /\ rows = <<>> /\ RowsIn(rest) = <<>>
    BY <1>k, <1>m, RowsShrink
  <1>4. msg.type = "Row" => msg.row \in AllRows
    BY <1>2, MessageKinds
  <1> HIDE DEF msg, rest, rows
  <1>5. InMemory' = InMemory
    <2>1. InMemory = buf \o rows /\ InMemory' = buf' \o RowsIn(rest)
      BY <1>1 DEF InMemory, rows
    <2>2. CASE msg.type = "Row"
      BY <1>1, <1>3, <1>m, <2>1, <2>2, MoveHead
    <2>3. CASE msg.type # "Row"
      BY <1>1, <1>3, <2>1, <2>3
    <2>4. QED
      BY <2>2, <2>3
  <1>6. Unsettling
    BY <1>1, <1>5 DEF Unsettling
  <1>7. RowsFirst(rest)
    BY <1>3 DEF RowsFirst, HasRows
  <1>8. buf' \in Seq(AllRows) /\ Len(buf') <= Batch
    <2>1. CASE msg.type = "Row"
      <3>1. Append(buf, msg.row) \in Seq(AllRows) /\ Len(Append(buf, msg.row)) = Len(buf) + 1
        BY <1>4, <1>m, <2>1, AppendProperties
      <3>2. QED
        BY <1>1, <1>m, <2>1, <3>1, StoreAssumption
    <2>2. CASE msg.type # "Row"
      BY <1>1, <1>m, <2>2, StoreAssumption
    <2>3. QED
      BY <2>1, <2>2
  <1>9. Len(channel') <= Capacity
    BY <1>1, <1>2, <1>m, StoreAssumption
  <1>10. ack_due' \in BOOLEAN /\ stop' \in BOOLEAN
    BY <1>1 DEF TypeOK
  <1>11. TypeOK'
    BY <1>1, <1>2, <1>7, <1>8, <1>9, <1>10 DEF TypeOK
  <1>12. \A type : NoneInChannel(type) => NoneInChannel(type)' /\ msg.type # type
    <2> TAKE type
    <2> SUFFICES ASSUME NoneInChannel(type)
                 PROVE  NoneInChannel(type)' /\ msg.type # type
      OBVIOUS
    <2>1. \A i \in 1..Len(channel) : channel[i].type # type
      BY DEF NoneInChannel
    <2>2. \A i \in 1..Len(rest) : i + 1 \in 1..Len(channel)
      BY <1>2
    <2>3. 1 \in 1..Len(channel)
      BY <1>2
    <2>4. QED
      BY <1>1, <1>2, <2>1, <2>2, <2>3 DEF NoneInChannel
  <1>13. \A i \in 1..Len(channel') : channel'[i].type = "Stop" => i = Len(channel')
    <2> SUFFICES ASSUME NEW i \in 1..Len(rest), rest[i].type = "Stop" PROVE i = Len(rest)
      BY <1>1
    <2>1. i + 1 \in 1..Len(channel) /\ channel[i + 1].type = "Stop"
      BY <1>2
    <2>2. i + 1 = Len(channel)
      BY <2>1 DEF Protocol
    <2>3. QED
      BY <1>2, <2>2
  <1>14. ~stop
    BY DEF Protocol
  <1>15. msg.type = "Stop" => rest = <<>>
    <2> SUFFICES ASSUME msg.type = "Stop" PROVE rest = <<>>
      OBVIOUS
    <2>1. 1 \in 1..Len(channel) /\ channel[1].type = "Stop"
      BY <1>2
    <2>2. Len(rest) = 0
      BY <1>2, <2>1 DEF Protocol
    <2>3. QED
      BY <1>2, <2>2, EmptySeq
  <1>16. ack_due \/ acked => msg.type # "Row" /\ RowsIn(rest) = <<>>
    BY <1>3 DEF Protocol, rows
  <1>17. Protocol'
    <2>1. main' \in {"serving", "flush"} => ~ack_due' /\ ~acked' /\ NoneInChannel("Flush")'
      BY <1>1, <1>12 DEF Protocol
    <2>2. main' \in {"serving", "flush", "await", "stop"} => ~stop' /\ NoneInChannel("Stop")'
      BY <1>1, <1>12 DEF Protocol
    <2>3. stop' => channel' = <<>>
      BY <1>1, <1>14, <1>15
    <2>4. ack_due' \/ acked' => RowsIn(channel)' = <<>>
      <3>1. ack_due' \/ acked' => RowsIn(rest) = <<>>
        <4>1. CASE msg.type = "Flush"
          BY <1>3, <4>1
        <4>2. CASE msg.type # "Flush"
          BY <1>1, <1>16, <4>2
        <4>3. QED
          BY <4>1, <4>2
      <3>2. QED
        BY <1>1, <3>1
    <2>5. acked' => buf' = <<>>
      BY <1>1, <1>16 DEF Protocol
    <2>6. /\ writer' \notin {"recv", "ack", "exited"}
          /\ main' = "joined" => FALSE
          /\ flushed' <= recorded'
      BY <1>1 DEF Protocol
    <2>7. QED
      BY <1>13, <2>1, <2>2, <2>3, <2>4, <2>5, <2>6 DEF Protocol
  <1>18. QED
    BY <1>6, <1>11, <1>17

\* What a step that leaves the channel alone need not say again.
LEMMA ChannelStays ==
  ASSUME channel' = channel
  PROVE  /\ RowsIn(channel)' = RowsIn(channel)
         /\ \A type : NoneInChannel(type)' <=> NoneInChannel(type)
         /\ buf' = buf => InMemory' = InMemory
  BY DEF NoneInChannel, InMemory

\* The writer's other steps.
LEMMA WriterStepKeeps ==
  ASSUME TypeOK, Protocol, WriterStep
  PROVE  TypeOK' /\ Protocol' /\ Unsettling
  <1>e. <<>> \in Seq(AllRows) /\ Len(<<>>) = 0 /\ 0 <= Batch /\ 0 < Batch
    BY EmptySeq, StoreAssumption
  <1>m. /\ RowsIn(channel) \in Seq(AllRows) /\ buf \in Seq(AllRows) /\ db \in Seq(AllRows)
        /\ InMemory \in Seq(AllRows)
    BY MemoryType DEF TypeOK
  <1>1. CASE Recv
    <2>1. buf = <<>>
      BY <1>1 DEF Recv, Protocol
    <2>2. QED
      BY <1>1, <1>e, <2>1, TakeStep DEF Recv
  <1>2. CASE Drain
    <2>1. writer' \in {"drain", "write"}
      BY <1>2 DEF Drain
    <2>2. QED
      BY <1>2, <2>1, TakeStep DEF Drain
  <1>3. CASE EndDrain
    <2>1. /\ writer' = "write"
          /\ UNCHANGED <<channel, buf, ack_due, stop, main, expired, acked, db>>
          /\ UNCHANGED <<recorded, flushed, dropped, failed, lost, restarts>>
          /\ writer = "drain"
      BY <1>3 DEF EndDrain, history
    <2>2. TypeOK'
      BY <2>1 DEF TypeOK
    <2>3. Protocol'
      BY <2>1, ChannelStays DEF Protocol
    <2>4. QED
      BY <2>1, <2>2, <2>3, ChannelStays DEF Unsettling
  <1>4. CASE Commit
    <2>1. /\ writer' = "ack" /\ db' = db \o buf /\ buf' = <<>> /\ writer = "write"
          /\ UNCHANGED <<channel, ack_due, stop, main, expired, acked>>
          /\ UNCHANGED <<recorded, flushed, dropped, failed, lost, restarts>>
      BY <1>4 DEF Commit, history
    <2>2. db' \in Seq(AllRows)
      BY <1>m, <2>1, ConcatProperties
    <2>3. TypeOK'
      BY <1>e, <2>1, <2>2 DEF TypeOK
    <2>4. Protocol'
      BY <2>1, ChannelStays DEF Protocol
    <2>5. InMemory' = RowsIn(channel)
      BY <1>m, <2>1, ConcatEmptySeq DEF InMemory
    <2>6. InMemory = buf \o InMemory'
      BY <2>5 DEF InMemory
    <2>7. QED
      BY <2>1, <2>3, <2>4, <2>6 DEF Unsettling
  <1>5. CASE FailBatch
    <2>1. /\ writer' = "ack" /\ failed' = failed \cup ToSet(buf) /\ buf' = <<>> /\ writer = "write"
          /\ UNCHANGED <<channel, ack_due, stop, main, expired, acked, db>>
          /\ UNCHANGED <<recorded, flushed, dropped, lost, restarts>>
      BY <1>5 DEF FailBatch
    <2>2. failed' \subseteq AllRows
      BY <1>m, <2>1 DEF TypeOK, ToSet
    <2>3. TypeOK'
      BY <1>e, <2>1, <2>2 DEF TypeOK
    <2>4. Protocol'
      BY <2>1, ChannelStays DEF Protocol
    <2>5. InMemory' = RowsIn(channel)
      BY <1>m, <2>1, ConcatEmptySeq DEF InMemory
    <2>6. InMemory = buf \o InMemory'
      BY <2>5 DEF InMemory
    <2>7. QED
      BY <2>1, <2>3, <2>4, <2>6 DEF Unsettling
  <1>6. CASE Ack
    <2>1. /\ acked' = (acked \/ ack_due) /\ ack_due' = FALSE /\ writer = "ack"
          /\ writer' = IF stop THEN "exited" ELSE "recv"
          /\ UNCHANGED <<channel, buf, stop, main, expired, db>>
          /\ UNCHANGED <<recorded, flushed, dropped, failed, lost, restarts>>
      BY <1>6 DEF Ack, history
    <2>2. acked' \in BOOLEAN
      BY <2>1 DEF TypeOK
    <2>3. writer' \in {"recv", "exited"} /\ (writer' = "exited" => stop) /\ (writer' = "recv" => ~stop)
      BY <2>1
    <2>4. TypeOK'
      BY <2>1, <2>2, <2>3 DEF TypeOK
    <2>5. Protocol'
      BY <2>1, <2>3, ChannelStays DEF Protocol
    <2>6. QED
      BY <2>1, <2>4, <2>5, ChannelStays DEF Unsettling
  <1>7. QED
    BY <1>1, <1>2, <1>3, <1>4, <1>5, <1>6 DEF WriterStep

\* A step of main() inside flush_and_join that sends nothing.
LEMMA QuietMainStep ==
  ASSUME TypeOK, Protocol, UNCHANGED <<channel, flushed>>,
         \/ MainGoes("serving", "flush")
         \/ MainGoes("flush", "stop")
         \/ MainGoes("await", "stop")
         \/ MainGoes("stop", "join")
         \/ MainGoes("join", "joined") /\ writer = "exited"
         \/ MainGoes("join", "detached")
  PROVE  TypeOK' /\ Protocol' /\ Unsettling
  <1>1. /\ UNCHANGED <<channel, flushed>>
        /\ UNCHANGED <<writer, buf, ack_due, stop, expired, acked, db>>
        /\ UNCHANGED <<recorded, dropped, failed, lost, restarts>>
        /\ main' \in {"flush", "stop", "join", "joined", "detached"}
        /\ main' = "flush" => main = "serving"
        /\ main' = "stop" => main \in {"flush", "await"}
        /\ main' = "joined" => writer = "exited"
    BY DEF MainGoes
  <1>2. TypeOK'
    BY <1>1 DEF TypeOK
  <1>3. Protocol'
    BY <1>1, ChannelStays DEF Protocol
  <1>4. Unsettling
    BY <1>1, ChannelStays DEF Unsettling
  <1>5. QED
    BY <1>2, <1>3, <1>4

\* A step that sends a Flush or a Stop.
LEMMA SendStep ==
  ASSUME TypeOK, Protocol, SendFlush \/ SendStop
  PROVE  TypeOK' /\ Protocol' /\ Unsettling
  <1>1. PICK m \in {FlushMsg, StopMsg} :
          /\ channel' = Append(channel, m) /\ Len(channel) < Capacity
          /\ \/ m = FlushMsg /\ main = "flush" /\ main' = "await" /\ flushed' = recorded
             \/ m = StopMsg /\ main = "stop" /\ main' = "join" /\ flushed' = flushed
    BY DEF SendFlush, SendStop, MainGoes
  <1>2. /\ UNCHANGED <<writer, buf, ack_due, stop, expired, acked, db>>
        /\ UNCHANGED <<recorded, dropped, failed, lost, restarts>>
    BY DEF SendFlush, SendStop, MainGoes
  <1>m. channel \in Seq(Messages) /\ Len(channel) \in Nat
    BY MemoryType
  <1>k. PICK k : HasRows(channel, k)
    BY MemoryType
  <1> DEFINE new == Append(channel, m)
  <1>3. new \in Seq(Messages) /\ HasRows(new, k) /\ RowsIn(new) = RowsIn(channel)
    BY <1>k, <1>m, RowsStay
  <1>4. /\ Len(new) = Len(channel) + 1
        /\ \A i \in 1..Len(channel) : new[i] = channel[i]
        /\ new[Len(channel) + 1] = m
    <2>1. m \in Messages
      BY DEF Messages
    <2>2. QED
      BY <1>m, <2>1, AppendProperties
  <1>5. /\ RowsFirst(new) /\ Len(new) <= Capacity
        /\ RowsIn(channel') = RowsIn(channel)
    BY <1>1, <1>3, <1>4, <1>m, StoreAssumption DEF RowsFirst, HasRows
  <1> HIDE DEF new
  <1>6. channel' = new
    BY <1>1 DEF new
  <1>7. recorded \in 0..MaxRows /\ flushed' \in 0..MaxRows /\ flushed' <= recorded
    BY <1>1 DEF TypeOK, Protocol
  <1>8. TypeOK'
    BY <1>1, <1>2, <1>3, <1>5, <1>6, <1>7 DEF TypeOK
  <1>9. InMemory' = InMemory
    BY <1>2, <1>5 DEF InMemory
  <1>10. Unsettling
    BY <1>2, <1>9 DEF Unsettling
  <1>11. ~stop /\ NoneInChannel("Stop")
    BY <1>1 DEF Protocol
  <1>12. \A i \in 1..Len(new) : i \in 1..Len(channel) \/ i = Len(channel) + 1
    BY <1>4, <1>m
  <1>13. m = FlushMsg => NoneInChannel("Stop")'
    BY <1>4, <1>6, <1>11, <1>12 DEF NoneInChannel, FlushMsg
  <1>14. \A i \in 1..Len(channel') : channel'[i].type = "Stop" => i = Len(channel')
    BY <1>4, <1>6, <1>11, <1>12 DEF NoneInChannel
  <1>15. Protocol'
    <2>1. /\ main' \in {"await", "join"}
          /\ main' = "await" => m = FlushMsg
      BY <1>1
    <2>2. RowsIn(channel)' = RowsIn(channel)
      BY <1>5
    <2>3. main' \in {"serving", "flush", "await", "stop"} => ~stop' /\ NoneInChannel("Stop")'
      BY <1>2, <1>11, <1>13, <2>1
    <2>4. /\ stop' => channel' = <<>>
          /\ ack_due' \/ acked' => RowsIn(channel)' = <<>>
          /\ acked' => buf' = <<>>
          /\ writer' \in {"recv", "ack", "exited"} => buf' = <<>>
          /\ writer' = "recv" => ~stop'
          /\ writer' = "exited" => stop'
          /\ flushed' <= recorded'
      BY <1>2, <1>7, <1>11, <2>2 DEF Protocol
    <2>5. QED
      BY <1>14, <2>1, <2>3, <2>4 DEF Protocol
  <1>16. QED
    BY <1>8, <1>10, <1>15

\* The end of the process leaves nothing in memory.
LEMMA RestartStep ==
  ASSUME TypeOK, Protocol, Restart
  PROVE  TypeOK' /\ Protocol' /\ Unsettling
  <1>e. /\ <<>> \in Seq(Messages) /\ <<>> \in Seq(AllRows) /\ Len(<<>>) = 0
        /\ 0 <= Capacity /\ 0 <= Batch /\ 0 \in 0..MaxRows
    BY EmptySeq, StoreAssumption
  <1>1. /\ restarts < MaxRestarts /\ restarts' = restarts + 1
        /\ lost' = lost \cup ToSet(InMemory)
        /\ channel' = <<>> /\ writer' = "recv" /\ buf' = <<>>
        /\ ack_due' = FALSE /\ stop' = FALSE
        /\ main' = "serving" /\ expired' = FALSE /\ acked' = FALSE
        /\ flushed' = 0
        /\ UNCHANGED <<db, recorded, dropped, failed>>
    BY DEF Restart
  <1>2. restarts' \in 0..MaxRestarts /\ 0 <= recorded
    BY <1>1, StoreAssumption DEF TypeOK
  <1>3. lost' \subseteq AllRows
    <2>1. ToSet(InMemory) \subseteq AllRows
      BY MemoryType, LenProperties, ElementOfSeq DEF ToSet
    <2>2. QED
      BY <1>1, <2>1 DEF TypeOK
  <1>4. HasRows(<<>>, 0) /\ RowsFirst(<<>>)
    BY <1>e DEF HasRows, RowsFirst
  <1>5. channel' \in Seq(Messages) /\ Len(channel') <= Capacity
        /\ RowsFirst(channel') /\ buf' \in Seq(AllRows) /\ Len(buf') <= Batch
    BY <1>1, <1>e, <1>4
  <1>6. TypeOK'
    BY <1>1, <1>2, <1>3, <1>5, <1>e DEF TypeOK
  <1>7. RowsIn(<<>>) = <<>>
    <2>1. RowsIn(<<>>) \in Seq(AllRows) /\ Len(RowsIn(<<>>)) = 0
      BY <1>e, <1>4, RowsAreFirst
    <2>2. QED
      BY <2>1, EmptySeq
  <1>8. InMemory' = <<>>
    BY <1>1, <1>7, <1>e, ConcatEmptySeq DEF InMemory
  <1>9. Unsettling
    BY <1>1, <1>8 DEF Unsettling
  <1>10. \A type : NoneInChannel(type)'
    BY <1>1, <1>e DEF NoneInChannel
  <1>11. \A i \in 1..Len(channel') : channel'[i].type = "Stop" => i = Len(channel')
    BY <1>1, <1>e
  <1>12. Protocol'
    BY <1>1, <1>2, <1>10, <1>11 DEF Protocol
  <1>13. QED
    BY <1>6, <1>9, <1>12

\* Every step keeps the types and the protocol, and does one thing to the rows.
LEMMA StoreStep ==
  TypeOK /\ Protocol /\ [Next]_vars => TypeOK' /\ Protocol' /\ Unsettling
  <1> SUFFICES ASSUME TypeOK, Protocol, [Next]_vars
               PROVE  TypeOK' /\ Protocol' /\ Unsettling
    OBVIOUS
  <1>1. CASE Record
    BY <1>1, RecordStep
  <1>2. CASE WriterStep
    BY <1>2, WriterStepKeeps
  <1>3. CASE SendFlush \/ SendStop
    BY <1>3, SendStep
  <1>4. CASE Shutdown \/ SkipFlush \/ EndAwait \/ SkipStop \/ Join \/ Detach
    <2>1. /\ UNCHANGED <<channel, flushed>>
          /\ \/ MainGoes("serving", "flush")
             \/ MainGoes("flush", "stop")
             \/ MainGoes("await", "stop")
             \/ MainGoes("stop", "join")
             \/ MainGoes("join", "joined") /\ writer = "exited"
             \/ MainGoes("join", "detached")
      BY <1>4 DEF Shutdown, SkipFlush, EndAwait, SkipStop, Join, Detach
    <2>2. QED
      BY <2>1, QuietMainStep
  <1>5. CASE Restart
    BY <1>5, RestartStep
  <1>6. CASE Expire \/ UNCHANGED vars
    <2>1. /\ UNCHANGED <<channel, writer, buf, ack_due, stop, main, acked, db>>
          /\ UNCHANGED <<recorded, flushed, dropped, failed, lost, restarts>>
          /\ expired' = TRUE \/ expired' = expired
      BY <1>6 DEF Expire, vars, memory, history
    <2>2. TypeOK'
      BY <2>1 DEF TypeOK
    <2>3. Protocol'
      BY <2>1, ChannelStays DEF Protocol
    <2>4. QED
      BY <2>1, <2>2, <2>3, ChannelStays DEF Unsettling
  <1>7. QED
    BY <1>1, <1>2, <1>3, <1>4, <1>5, <1>6 DEF Next, MainStep

\* Types, for every capacity and batch size: neither the channel nor a batch
\* grows beyond its limit, and rows stand first in the channel.
THEOREM StoreTypeCorrect == Spec => []TypeOK
  <1>1. TypeOK /\ Protocol /\ [Next]_vars => (TypeOK /\ Protocol)'
    BY StoreStep
  <1>2. QED
    BY StoreInit, <1>1, PTL DEF Spec

-----------------------------------------------------------------------------
(* The fates of the rows *)

Distinct(s) == \A i, j \in 1..Len(s) : s[i] = s[j] => i = j

\* A sequence without repetition falls into parts that share nothing.
LEMMA DistinctParts ==
  ASSUME NEW S, NEW s \in Seq(S), NEW t \in Seq(S), Distinct(s \o t)
  PROVE  Distinct(t) /\ ToSet(s) \cap ToSet(t) = {}
  <1> DEFINE c == s \o t
  <1>1. /\ Len(s) \in Nat /\ Len(t) \in Nat /\ Len(c) = Len(s) + Len(t)
        /\ \A i \in 1..Len(s) + Len(t) : c[i] = IF i <= Len(s) THEN s[i] ELSE t[i - Len(s)]
    BY ConcatProperties, LenProperties
  <1>2. Distinct(c)
    OBVIOUS
  <1> HIDE DEF c
  <1>3. \A i \in 1..Len(s) : i \in 1..Len(c) /\ c[i] = s[i]
    BY <1>1
  <1>4. \A i \in 1..Len(t) : Len(s) + i \in 1..Len(c) /\ c[Len(s) + i] = t[i]
    <2> TAKE i \in 1..Len(t)
    <2>1. /\ Len(s) + i \in 1..Len(s) + Len(t)
          /\ ~(Len(s) + i <= Len(s)) /\ (Len(s) + i) - Len(s) = i
      BY <1>1
    <2>2. QED
      BY <1>1, <2>1
  <1>5. Distinct(t)
    <2> SUFFICES ASSUME NEW i \in 1..Len(t), NEW j \in 1..Len(t), t[i] = t[j] PROVE i = j
      BY DEF Distinct
    <2>1. Len(s) + i = Len(s) + j
      BY <1>2, <1>4 DEF Distinct
    <2>2. QED
      BY <1>1, <2>1
  <1>6. ASSUME NEW i \in 1..Len(s), NEW j \in 1..Len(t), s[i] = t[j] PROVE FALSE
    <2>1. i = Len(s) + j
      BY <1>2, <1>3, <1>4, <1>6 DEF Distinct
    <2>2. QED
      BY <1>1, <2>1
  <1>7. ToSet(s) = {s[i] : i \in 1..Len(s)} /\ ToSet(t) = {t[i] : i \in 1..Len(t)}
    BY LenProperties DEF ToSet
  <1>8. QED
    BY <1>5, <1>6, <1>7

\* And it may grow by what it does not hold.
LEMMA DistinctGrows ==
  ASSUME NEW S, NEW s \in Seq(S), Distinct(s), NEW e \in S, e \notin ToSet(s)
  PROVE  Distinct(Append(s, e))
  <1> DEFINE c == Append(s, e)
  <1>1. /\ Len(s) \in Nat /\ Len(c) = Len(s) + 1
        /\ \A i \in 1..Len(s) : c[i] = s[i]
        /\ c[Len(s) + 1] = e
    BY AppendProperties, LenProperties
  <1> HIDE DEF c
  <1>2. \A i \in 1..Len(s) : s[i] # e
    BY LenProperties DEF ToSet
  <1>3. \A i \in 1..Len(c) : i \in 1..Len(s) \/ i = Len(s) + 1
    BY <1>1
  <1>4. Distinct(c)
    BY <1>1, <1>2, <1>3 DEF Distinct
  <1>5. QED
    BY <1>4 DEF c

\* The five fates, as sets: together the rows up to n, and no two alike.
Fates(table, waiting, refused, wrong, gone, n) ==
  /\ table \cup waiting \cup refused \cup wrong \cup gone = 1..n
  /\ table \cap waiting = {} /\ table \cap refused = {} /\ table \cap wrong = {}
  /\ table \cap gone = {} /\ waiting \cap refused = {} /\ waiting \cap wrong = {}
  /\ waiting \cap gone = {} /\ refused \cap wrong = {} /\ refused \cap gone = {}
  /\ wrong \cap gone = {}

\* The property, in these terms.
LEMMA FatesAreAccounts ==
  RowsAccountedFor <=> Fates(ToSet(db), ToSet(InMemory), dropped, failed, lost, recorded)
  <1> DEFINE fates == <<ToSet(db), ToSet(InMemory), dropped, failed, lost>>
  <1>1. /\ fates[1] = ToSet(db) /\ fates[2] = ToSet(InMemory) /\ fates[3] = dropped
        /\ fates[4] = failed /\ fates[5] = lost /\ DOMAIN fates = 1..5
    OBVIOUS
  <1>2. RowsAccountedFor <=>
          /\ UNION ToSet(fates) = 1..recorded
          /\ \A i, j \in 1..5 : i # j => fates[i] \cap fates[j] = {}
    BY DEF RowsAccountedFor
  <1> HIDE DEF fates
  <1>3. \A i : i \in 1..5 <=> i = 1 \/ i = 2 \/ i = 3 \/ i = 4 \/ i = 5
    OBVIOUS
  <1>4. UNION ToSet(fates) = ToSet(db) \cup ToSet(InMemory) \cup dropped \cup failed \cup lost
    <2>1. ToSet(fates) = {fates[1], fates[2], fates[3], fates[4], fates[5]}
      BY <1>1, <1>3 DEF ToSet
    <2>2. QED
      BY <1>1, <2>1
  <1>5. (\A i, j \in 1..5 : i # j => fates[i] \cap fates[j] = {}) <=>
          /\ fates[1] \cap fates[2] = {} /\ fates[1] \cap fates[3] = {} /\ fates[1] \cap fates[4] = {}
          /\ fates[1] \cap fates[5] = {} /\ fates[2] \cap fates[3] = {} /\ fates[2] \cap fates[4] = {}
          /\ fates[2] \cap fates[5] = {} /\ fates[3] \cap fates[4] = {} /\ fates[3] \cap fates[5] = {}
          /\ fates[4] \cap fates[5] = {}
    BY <1>3
  <1>6. QED
    BY <1>1, <1>2, <1>4, <1>5 DEF Fates

\* The invariant: rows in memory are distinct, and each row has one fate.
Accounts ==
  /\ Fates(ToSet(db), ToSet(InMemory), dropped, failed, lost, recorded)
  /\ Distinct(InMemory)

\* At the start there are no rows.
LEMMA AccountsInit == Init => Accounts
  <1> SUFFICES ASSUME Init PROVE Accounts
    OBVIOUS
  <1>1. TypeOK
    BY StoreInit
  <1>2. HasRows(channel, 0)
    BY EmptySeq DEF Init, HasRows
  <1>3. RowsIn(channel) \in Seq(AllRows) /\ Len(RowsIn(channel)) = 0
    BY <1>1, <1>2, MemoryType, RowsAreFirst
  <1>4. RowsIn(channel) = <<>> /\ Len(<<>>) = 0
    BY <1>3, EmptySeq
  <1>5. InMemory = <<>>
    BY <1>1, <1>4, MemoryType, ConcatEmptySeq DEF InMemory, Init
  <1>6. ToSet(<<>>) = {}
    BY <1>4 DEF ToSet
  <1>7. 1..0 = {}
    OBVIOUS
  <1>8. QED
    BY <1>4, <1>5, <1>6, <1>7 DEF Init, Accounts, Fates, Distinct

\* Each thing that may be done to the rows keeps the accounts.
LEMMA AccountsStep ==
  ASSUME TypeOK, TypeOK', Unsettling, Accounts
  PROVE  Accounts'
  <1> DEFINE table == ToSet(db)
             waiting == ToSet(InMemory)
  <1>m. /\ InMemory \in Seq(AllRows) /\ InMemory' \in Seq(AllRows)
        /\ buf \in Seq(AllRows) /\ db \in Seq(AllRows)
        /\ recorded \in Nat
    <2>1. InMemory' \in Seq(AllRows)
      <3>1. (TypeOK => InMemory \in Seq(AllRows))'
        BY MemoryIsRows, PTL
      <3>2. QED
        BY <3>1
    <2>2. QED
      BY <2>1, MemoryType, StoreAssumption DEF TypeOK
  <1>a. Fates(table, waiting, dropped, failed, lost, recorded) /\ Distinct(InMemory)
    BY DEF Accounts
  <1>1. CASE InMemory' = InMemory /\ UNCHANGED <<db, dropped, failed, lost, recorded>>
    BY <1>1 DEF Accounts, Fates, Distinct
  <1>2. ASSUME recorded' = recorded + 1, recorded + 1 \in AllRows
        PROVE  1..recorded' = (1..recorded) \cup {recorded + 1} /\ recorded + 1 \notin 1..recorded
    BY <1>2, <1>m
  <1>3. CASE /\ recorded' = recorded + 1 /\ recorded + 1 \in AllRows
             /\ InMemory' = Append(InMemory, recorded + 1)
             /\ UNCHANGED <<db, dropped, failed, lost>>
    <2>1. ToSet(InMemory)' = waiting \cup {recorded + 1} /\ ToSet(db)' = table
      BY <1>3, <1>m, ToSetFacts
    <2>2. waiting \subseteq 1..recorded
      BY <1>a DEF Fates
    <2>3. recorded + 1 \notin waiting
      BY <1>2, <1>3, <2>2
    <2>4. Distinct(InMemory')
      BY <1>3, <1>a, <1>m, <2>3, DistinctGrows
    <2> HIDE DEF table, waiting
    <2>5. Fates(table, waiting \cup {recorded + 1}, dropped, failed, lost, recorded + 1)
      BY <1>2, <1>3, <1>a DEF Fates
    <2>6. QED
      BY <1>3, <2>1, <2>4, <2>5 DEF Accounts, Fates, Distinct
  <1>4. CASE /\ recorded' = recorded + 1 /\ recorded + 1 \in AllRows
             /\ InMemory' = InMemory
             /\ dropped' = dropped \cup {recorded + 1}
             /\ UNCHANGED <<db, failed, lost>>
    <2>1. ToSet(InMemory)' = waiting /\ ToSet(db)' = table /\ Distinct(InMemory)'
      BY <1>4, <1>a DEF Distinct
    <2> HIDE DEF table, waiting
    <2>2. Fates(table, waiting, dropped \cup {recorded + 1}, failed, lost, recorded + 1)
      BY <1>2, <1>4, <1>a DEF Fates
    <2>3. QED
      BY <1>4, <2>1, <2>2 DEF Accounts, Fates
  <1>5. ASSUME InMemory = buf \o InMemory'
        PROVE  /\ Distinct(InMemory')
               /\ waiting = ToSet(buf) \cup ToSet(InMemory')
               /\ ToSet(buf) \cap ToSet(InMemory') = {}
    <2>1. Distinct(buf \o InMemory')
      BY <1>5, <1>a DEF Distinct
    <2>2. Distinct(InMemory') /\ ToSet(buf) \cap ToSet(InMemory') = {}
      BY <1>m, <2>1, DistinctParts
    <2>3. ToSet(buf \o InMemory') = ToSet(buf) \cup ToSet(InMemory')
      <3>1. CASE AllRows = {}
        <4>1. buf = <<>> /\ InMemory' = <<>>
          <5>1. \A s \in Seq(AllRows) : Len(s) \in Nat \ {0} => s[1] \in AllRows
            BY ElementOfSeq
          <5>2. QED
            BY <1>m, <3>1, <5>1, EmptySeq
        <4>2. ToSet(<<>>) = {} /\ <<>> \o <<>> = <<>>
          BY <1>m, EmptySeq, ConcatEmptySeq DEF ToSet
        <4>3. QED
          BY <4>1, <4>2
      <3>2. CASE \E e : e \in AllRows
        BY <1>m, <3>2, ToSetFacts
      <3>3. QED
        BY <3>1, <3>2
    <2>4. QED
      BY <1>5, <2>2, <2>3
  <1>6. CASE /\ InMemory = buf \o InMemory'
             /\ db' = db \o buf
             /\ UNCHANGED <<dropped, failed, lost, recorded>>
    <2>1. ToSet(db)' = table \cup ToSet(buf)
      <3>1. CASE \E e : e \in AllRows
        BY <1>6, <1>m, <3>1, ToSetFacts
      <3>2. CASE AllRows = {}
        <4>1. \A s \in Seq(AllRows) : Len(s) \in Nat \ {0} => s[1] \in AllRows
          BY ElementOfSeq
        <4>2. buf = <<>>
          BY <1>m, <3>2, <4>1, EmptySeq
        <4>3. ToSet(<<>>) = {} /\ db \o <<>> = db
          BY <1>m, EmptySeq, ConcatEmptySeq DEF ToSet
        <4>4. QED
          BY <1>6, <4>2, <4>3
      <3>3. QED
        BY <3>1, <3>2
    <2> DEFINE batch == ToSet(buf)
               rest == ToSet(InMemory')
    <2>2. Distinct(InMemory') /\ waiting = batch \cup rest /\ batch \cap rest = {}
      BY <1>5, <1>6
    <2> HIDE DEF table, waiting, batch, rest
    <2>3. Fates(table \cup batch, rest, dropped, failed, lost, recorded)
      BY <1>a, <2>2 DEF Fates
    <2>4. QED
      BY <1>6, <2>1, <2>2, <2>3 DEF Accounts, Fates, Distinct, batch, rest
  <1>7. CASE /\ InMemory = buf \o InMemory'
             /\ failed' = failed \cup ToSet(buf)
             /\ UNCHANGED <<db, dropped, lost, recorded>>
    <2> DEFINE batch == ToSet(buf)
               rest == ToSet(InMemory')
    <2>1. ToSet(db)' = table
      BY <1>7
    <2>2. Distinct(InMemory') /\ waiting = batch \cup rest /\ batch \cap rest = {}
      BY <1>5, <1>7
    <2> HIDE DEF table, waiting, batch, rest
    <2>3. Fates(table, rest, dropped, failed \cup batch, lost, recorded)
      BY <1>a, <2>2 DEF Fates
    <2>4. QED
      BY <1>7, <2>1, <2>2, <2>3 DEF Accounts, Fates, Distinct, batch, rest
  <1>8. CASE /\ InMemory' = <<>>
             /\ lost' = lost \cup ToSet(InMemory)
             /\ UNCHANGED <<db, dropped, failed, recorded>>
    <2>1. Len(<<>>) = 0 /\ ToSet(<<>>) = {}
      BY EmptySeq DEF ToSet
    <2>2. ToSet(db)' = table /\ ToSet(InMemory)' = {} /\ Distinct(InMemory)'
      BY <1>8, <2>1 DEF Distinct
    <2>3. lost' = lost \cup waiting
      BY <1>8
    <2> HIDE DEF table, waiting
    <2>4. Fates(table, {}, dropped, failed, lost \cup waiting, recorded)
      BY <1>a DEF Fates
    <2>5. QED
      BY <1>8, <2>2, <2>3, <2>4 DEF Accounts, Fates
  <1>9. QED
    BY <1>1, <1>3, <1>4, <1>6, <1>7, <1>8 DEF Unsettling

\* All that is known of the store.
StoreInv == TypeOK /\ Protocol /\ Accounts

\* It holds in every reachable state.
LEMMA StoreInvariant == Spec => []StoreInv
  <1>1. Init => StoreInv
    BY StoreInit, AccountsInit DEF StoreInv
  <1>2. StoreInv /\ [Next]_vars => StoreInv'
    <2>1. ASSUME StoreInv, [Next]_vars PROVE StoreInv'
      <3>1. TypeOK' /\ Protocol' /\ Unsettling
        BY <2>1, StoreStep DEF StoreInv
      <3>2. QED
        BY <2>1, <3>1, AccountsStep DEF StoreInv
    <2>2. QED
      BY <2>1
  <1>3. QED
    BY <1>1, <1>2, PTL DEF Spec

\* Whatever fails, overflows or restarts, each recorded row is in exactly one
\* place.
THEOREM EveryRowHasOneFate == Spec => []RowsAccountedFor
  <1>1. StoreInv => RowsAccountedFor
    BY FatesAreAccounts DEF StoreInv, Accounts
  <1>2. QED
    BY StoreInvariant, <1>1, PTL

\* An answered flush covers every row recorded before it.
THEOREM FlushIsComplete == Spec => []FlushCovers
  <1>1. StoreInv => FlushCovers
    <2> SUFFICES ASSUME StoreInv, acked PROVE 1..flushed \subseteq Settled
      BY DEF FlushCovers
    <2>1. RowsIn(channel) = <<>> /\ buf = <<>> /\ flushed <= recorded
      BY DEF StoreInv, Protocol
    <2>2. InMemory = <<>>
      BY <2>1, MemoryType, ConcatEmptySeq DEF StoreInv, InMemory
    <2>3. ToSet(InMemory) = {}
      BY <2>2, EmptySeq DEF ToSet
    <2>4. 1..recorded \subseteq Settled
      BY <2>3 DEF StoreInv, Accounts, Fates, Settled
    <2>5. 1..flushed \subseteq 1..recorded
      BY <2>1, StoreAssumption DEF StoreInv, TypeOK
    <2>6. QED
      BY <2>4, <2>5
  <1>2. QED
    BY StoreInvariant, <1>1, PTL

\* A joined writer leaves no row behind.
THEOREM CleanExitIsComplete == Spec => []CleanExitDrains
  <1>1. StoreInv => CleanExitDrains
    <2> SUFFICES ASSUME StoreInv, main = "joined" PROVE InMemory = <<>>
      BY DEF CleanExitDrains
    <2>1. channel = <<>> /\ buf = <<>>
      BY DEF StoreInv, Protocol
    <2>2. HasRows(channel, 0)
      BY <2>1, EmptySeq DEF HasRows
    <2>3. RowsIn(channel) \in Seq(AllRows) /\ Len(RowsIn(channel)) = 0
      BY <2>2, MemoryType, RowsAreFirst DEF StoreInv
    <2>4. RowsIn(channel) = <<>>
      BY <2>3, EmptySeq
    <2>5. QED
      BY <2>1, <2>4, MemoryType, ConcatEmptySeq DEF StoreInv, InMemory
  <1>2. QED
    BY StoreInvariant, <1>1, PTL

-----------------------------------------------------------------------------
(* The ledger *)

\* A store starts with an empty ledger.
LEMMA LedgerInits == Init => Ledger!LedgerInit
  <1> SUFFICES ASSUME Init PROVE db = <<>> /\ InMemory = <<>>
    BY DEF Ledger!LedgerInit
  <1>1. TypeOK
    BY StoreInit
  <1>2. HasRows(channel, 0)
    BY EmptySeq DEF Init, HasRows
  <1>3. RowsIn(channel) \in Seq(AllRows) /\ Len(RowsIn(channel)) = 0
    BY <1>1, <1>2, MemoryType, RowsAreFirst
  <1>4. RowsIn(channel) = <<>>
    BY <1>3, EmptySeq
  <1>5. QED
    BY <1>1, <1>4, MemoryType, ConcatEmptySeq DEF InMemory, Init

\* Every step of the store is one of the ledger, or leaves it alone.
LEMMA LedgerSteps ==
  StoreInv /\ [Next]_vars => [Ledger!LedgerNext]_<<db, InMemory>>
  <1> SUFFICES ASSUME StoreInv, [Next]_vars
               PROVE  Ledger!LedgerNext \/ (db' = db /\ InMemory' = InMemory)
    OBVIOUS
  <1>1. TypeOK' /\ Unsettling
    BY StoreStep DEF StoreInv
  <1>m. /\ InMemory \in Seq(AllRows) /\ InMemory' \in Seq(AllRows)
        /\ buf \in Seq(AllRows) /\ db \in Seq(AllRows)
        /\ recorded \in Nat
    <2>1. (TypeOK => InMemory \in Seq(AllRows))'
      BY MemoryIsRows, PTL
    <2>2. QED
      BY <1>1, <2>1, MemoryType, StoreAssumption DEF StoreInv, TypeOK
  <1>2. CASE InMemory' = InMemory /\ db' = db
    BY <1>2
  <1>3. CASE /\ recorded + 1 \in AllRows /\ db' = db
             /\ InMemory' = Append(InMemory, recorded + 1)
    <2>1. recorded + 1 \notin Ledger!Known
      <3>1. ToSet(db) \subseteq 1..recorded /\ ToSet(InMemory) \subseteq 1..recorded
        BY DEF StoreInv, Accounts, Fates
      <3>2. Ledger!Known = ToSet(db) \cup ToSet(InMemory)
        BY <1>m, LenProperties DEF Ledger!Known, ToSet
      <3>3. recorded + 1 \notin 1..recorded
        BY <1>m
      <3>4. QED
        BY <3>1, <3>2, <3>3
    <2>2. Ledger!Accept(recorded + 1)
      BY <1>3, <2>1 DEF Ledger!Accept
    <2>3. QED
      BY <1>3, <2>2 DEF Ledger!LedgerNext
  <1>4. ASSUME InMemory = buf \o InMemory', buf # <<>>
        PROVE  /\ Len(buf) \in 1..Len(InMemory)
               /\ SubSeq(InMemory, 1, Len(buf)) = buf
               /\ SubSeq(InMemory, Len(buf) + 1, Len(InMemory)) = InMemory'
    <2> DEFINE b == buf
               t == InMemory'
               s == InMemory
    <2>1. /\ b \in Seq(AllRows) /\ t \in Seq(AllRows) /\ s \in Seq(AllRows)
          /\ s = b \o t /\ b # <<>>
      BY <1>m, <1>4
    <2> HIDE DEF b, t, s
    <2>2. /\ Len(b) \in Nat \ {0} /\ Len(t) \in Nat /\ Len(s) = Len(b) + Len(t)
          /\ \A i \in 1..Len(b) + Len(t) : s[i] = IF i <= Len(b) THEN b[i] ELSE t[i - Len(b)]
      BY <2>1, EmptySeq, LenProperties, ConcatProperties
    <2>3. \A i \in 1..Len(s) : s[i] \in AllRows
      BY <2>1, ElementOfSeq
    <2>4. SubSeq(s, 1, Len(b)) = b
      <3>1. /\ SubSeq(s, 1, Len(b)) \in Seq(AllRows)
            /\ Len(SubSeq(s, 1, Len(b))) = Len(b)
            /\ \A i \in 1..Len(b) : SubSeq(s, 1, Len(b))[i] = s[i]
        <4>1. 1 \in Int /\ Len(b) \in Int /\ \A i \in 1..Len(b) : s[i] \in AllRows
          BY <2>2, <2>3
        <4>2. /\ SubSeq(s, 1, Len(b)) \in Seq(AllRows)
              /\ Len(SubSeq(s, 1, Len(b))) = IF 1 <= Len(b) THEN Len(b) - 1 + 1 ELSE 0
              /\ \A i \in 1..Len(b) - 1 + 1 : SubSeq(s, 1, Len(b))[i] = s[1 + i - 1]
          BY <4>1, SubSeqProperties
        <4>3. QED
          BY <2>2, <4>2
      <3>2. \A i \in 1..Len(b) : s[i] = b[i]
        BY <2>2
      <3>3. \A i \in 1..Len(b) : SubSeq(s, 1, Len(b))[i] = b[i]
        BY <3>1, <3>2
      <3>4. QED
        BY <2>1, <3>1, <3>3, SeqEqual
    <2>5. SubSeq(s, Len(b) + 1, Len(s)) = t
      <3> DEFINE r == SubSeq(s, Len(b) + 1, Len(s))
      <3>1. /\ r \in Seq(AllRows) /\ Len(r) = Len(t)
            /\ \A i \in 1..Len(t) : r[i] = s[Len(b) + i]
        <4>1. /\ Len(b) + 1 \in Int /\ Len(s) \in Int
              /\ \A i \in (Len(b) + 1)..Len(s) : s[i] \in AllRows
          BY <2>2, <2>3
        <4>2. /\ r \in Seq(AllRows)
              /\ Len(r) = IF Len(b) + 1 <= Len(s) THEN Len(s) - (Len(b) + 1) + 1 ELSE 0
              /\ \A i \in 1..Len(s) - (Len(b) + 1) + 1 : r[i] = s[(Len(b) + 1) + i - 1]
          BY <4>1, SubSeqProperties
        <4> HIDE DEF r
        <4>3. \A i \in 1..Len(t) : (Len(b) + 1) + i - 1 = Len(b) + i
          BY <2>2
        <4>4. Len(s) - (Len(b) + 1) + 1 = Len(t)
          BY <2>2
        <4>5. QED
          BY <2>2, <4>2, <4>3, <4>4
      <3> HIDE DEF r
      <3>2. \A i \in 1..Len(t) : s[Len(b) + i] = t[i]
        BY <2>2
      <3>3. \A i \in 1..Len(t) : r[i] = t[i]
        BY <3>1, <3>2
      <3>4. r = t
        BY <2>1, <3>1, <3>3, SeqEqual
      <3>5. QED
        BY <3>4 DEF r
    <2>6. Len(b) \in 1..Len(s)
      BY <2>2
    <2>7. QED
      BY <2>4, <2>5, <2>6 DEF b, t, s
  <1>5. CASE InMemory = buf \o InMemory' /\ db' = db \o buf
    <2>1. CASE buf = <<>>
      BY <1>5, <1>m, <2>1, ConcatEmptySeq
    <2>2. CASE buf # <<>>
      BY <1>4, <1>5, <2>2 DEF Ledger!Persist, Ledger!LedgerNext
    <2>3. QED
      BY <2>1, <2>2
  <1>6. CASE InMemory = buf \o InMemory' /\ db' = db
    <2>1. CASE buf = <<>>
      BY <1>6, <1>m, <2>1, ConcatEmptySeq
    <2>2. CASE buf # <<>>
      BY <1>4, <1>6, <2>2 DEF Ledger!Fail, Ledger!LedgerNext
    <2>3. QED
      BY <2>1, <2>2
  <1>7. CASE InMemory' = <<>> /\ db' = db
    BY <1>7 DEF Ledger!EndProcess, Ledger!LedgerNext
  <1>8. QED
    BY <1>1, <1>2, <1>3, <1>5, <1>6, <1>7 DEF Unsettling

\* The store implements the ledger: rows reach the table in the order in which
\* they were accepted and none of them twice, over failed batches and restarts.
THEOREM LedgerImplemented == Spec => ImplementsLedger
  <1>1. Spec => Ledger!LedgerInit /\ [][Ledger!LedgerNext]_<<db, InMemory>>
    BY LedgerInits, LedgerSteps, StoreInvariant, PTL DEF Spec
  <1>2. QED
    BY <1>1 DEF ImplementsLedger, Ledger!LedgerSpec
=============================================================================
