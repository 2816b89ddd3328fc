---------------------------- MODULE MoaRun_proofs ----------------------------
(***************************************************************************)
(* Proofs about MoaRun, for every recipe, timeout and usage object: a run  *)
(* stays within the deadline of its request, it fails closed, it shows the *)
(* aggregator every answer in recipe order, it books every arm it called,  *)
(* and the usage it reports is the usage it books.                         *)
(***************************************************************************)
EXTENDS MoaRun, DataLemmas, SequenceTheorems

-----------------------------------------------------------------------------
(* The deadline *)

\* In each phase the clock is held back by a timer that is due in time.
ClockInv ==
  /\ elapsed \in Nat
  /\ agg_due \in Nat
  /\ elapsed <= RequestTimeout
  /\ phase = "fanout" => elapsed <= ArmDue
  /\ phase = "aggregate" => elapsed <= agg_due
  /\ agg_due <= RequestTimeout

\* A timer started in time is due in time.
LEMMA TimeoutBound ==
  ASSUME NEW now \in Nat, now <= RequestTimeout
  PROVE  /\ EffectiveTimeout(now) \in Nat
         /\ now + EffectiveTimeout(now) <= RequestTimeout
  BY RecipeAssumption DEF EffectiveTimeout, Min2

\* The deadline holds at the start.
LEMMA ClockInit == Init => ClockInv
  <1>1. ArmDue \in Nat /\ 0 + EffectiveTimeout(0) <= RequestTimeout
    BY TimeoutBound, RecipeAssumption, 0 \in Nat, 0 <= RequestTimeout DEF ArmDue
  <1>2. QED
    BY <1>1, RecipeAssumption DEF Init, ClockInv, ArmDue

\* Every step keeps the deadline: only a tick and the call of the aggregator
\* touch the clock or a timer.
LEMMA ClockStep == ClockInv /\ [Next]_vars => ClockInv'
  <1> SUFFICES ASSUME ClockInv, [Next]_vars PROVE ClockInv'
    OBVIOUS
  <1>a. ArmDue \in Nat /\ ArmDue <= RequestTimeout
    BY TimeoutBound, RecipeAssumption, 0 \in Nat, 0 <= RequestTimeout DEF ArmDue
  <1> HIDE DEF ArmDue
  <1>b. ArmDue' = ArmDue
    BY DEF ArmDue, EffectiveTimeout, Min2
  <1>1. CASE Tick
    BY <1>1, <1>a, <1>b, RecipeAssumption DEF Tick, ClockInv
  <1>2. CASE CallAggregator
    <2>1. /\ EffectiveTimeout(elapsed) \in Nat
          /\ elapsed + EffectiveTimeout(elapsed) <= RequestTimeout
      BY TimeoutBound DEF ClockInv
    <2> HIDE DEF EffectiveTimeout
    <2>2. QED
      BY <1>2, <2>1 DEF CallAggregator, ClockInv
  <1>3. CASE \E i \in Arms : (\E u \in Usages : ArmAnswers(i, u)) \/ ArmFails(i) \/ ArmTimesOut(i)
    BY <1>3, <1>b DEF ArmAnswers, ArmFails, ArmTimesOut, ArmEnds, ClockInv
  <1>4. CASE (\E u \in Usages : AggregatorAnswers(u)) \/ AggregatorFails \/ AggregatorTimesOut
    BY <1>4 DEF AggregatorAnswers, AggregatorFails, AggregatorTimesOut, AggregatorEnds,
                Respond, ClockInv
  <1>5. CASE QuorumFails \/ AggregatorUnresolved \/ Disconnect
    BY <1>5 DEF QuorumFails, AggregatorUnresolved, Disconnect, Respond, ClockInv
  <1>6. CASE UNCHANGED vars
    BY <1>6, <1>b DEF vars, ClockInv
  <1>7. QED
    BY <1>1, <1>2, <1>3, <1>4, <1>5, <1>6 DEF Next, TimerFires

\* Whatever the arm timeout, the recipe and the upstreams, a run never outlives
\* the deadline of its request.
THEOREM DeadlineKept == Spec => []WithinDeadline
  <1>1. ClockInv => WithinDeadline
    BY DEF ClockInv, WithinDeadline
  <1>2. QED
    BY ClockInit, ClockStep, <1>1, PTL DEF Spec

-----------------------------------------------------------------------------
(* Failing closed *)

\* What each phase knows of the aggregator and of the outcome; the set of
\* successful arms no longer changes once the fan-out is over.
PhaseInv ==
  /\ phase \in {"fanout", "aggregate", "done", "gone"}
  /\ phase = "fanout" => aggregator.status = "none"
  /\ phase = "aggregate" => HasQuorum
  /\ phase # "done" => outcome = "none"
  /\ FailsClosed

\* The successful arms can be counted.
LEMMA SucceededCount == Cardinality(Succeeded) \in Nat
  <1>1. IsFiniteSet(Arms)
    BY RecipeAssumption, FS_Interval DEF Arms
  <1>2. Succeeded \subseteq Arms
    BY DEF Succeeded
  <1>3. QED
    BY <1>1, <1>2, FS_Subset, FS_CardinalityType

\* A run starts with nothing to say.
LEMMA PhaseInit == Init => PhaseInv
  BY DEF Init, PhaseInv, FailsClosed, Arm

\* Every step keeps the quorum rule.
LEMMA PhaseStep == PhaseInv /\ [Next]_vars => PhaseInv'
  <1> SUFFICES ASSUME PhaseInv, [Next]_vars PROVE PhaseInv'
    OBVIOUS
  <1>q. Quorum \in Nat /\ Cardinality(Succeeded) \in Nat
    BY RecipeAssumption, SucceededCount
  <1>1. CASE \E i \in Arms : (\E u \in Usages : ArmAnswers(i, u)) \/ ArmFails(i) \/ ArmTimesOut(i)
    BY <1>1 DEF ArmAnswers, ArmFails, ArmTimesOut, ArmEnds, PhaseInv, FailsClosed
  <1>2. ASSUME arm' = arm
        PROVE  Succeeded' = Succeeded
    BY <1>2 DEF Succeeded
  <1> HIDE DEF Succeeded
  <1>3. CASE QuorumFails
    BY <1>3, <1>2, <1>q DEF QuorumFails, Respond, HasQuorum, PhaseInv, FailsClosed
  <1>4. CASE CallAggregator
    BY <1>4, <1>2, <1>q DEF CallAggregator, HasQuorum, PhaseInv, FailsClosed
  <1>5. CASE AggregatorUnresolved
    BY <1>5, <1>2, <1>q DEF AggregatorUnresolved, Respond, HasQuorum, PhaseInv, FailsClosed
  <1>6. CASE (\E u \in Usages : AggregatorAnswers(u)) \/ AggregatorFails \/ AggregatorTimesOut
    <2>1. /\ phase = "aggregate" /\ phase' = "done"
          /\ arm' = arm
          /\ outcome' \in {"ok", "upstream_error", "upstream_timeout"}
          /\ outcome' = "ok" => aggregator'.status = "ok"
      <3>1. \A u : Arm("ok", u).status = "ok"
        BY DEF Arm
      <3>2. CASE \E u \in Usages : AggregatorAnswers(u)
        BY <3>1, <3>2 DEF AggregatorAnswers, AggregatorEnds, Respond
      <3>3. CASE AggregatorFails
        BY <3>3 DEF AggregatorFails, AggregatorEnds, Respond
      <3>4. CASE AggregatorTimesOut
        BY <3>4 DEF AggregatorTimesOut, AggregatorEnds, Respond
      <3>5. QED
        BY <1>6, <3>2, <3>3, <3>4
    <2>2. QED
      BY <2>1, <1>2, <1>q DEF HasQuorum, PhaseInv, FailsClosed
  <1>7. CASE Disconnect \/ Tick \/ UNCHANGED vars
    BY <1>7, <1>2, <1>q DEF Disconnect, Tick, vars, HasQuorum, PhaseInv, FailsClosed
  <1>8. QED
    BY <1>1, <1>3, <1>4, <1>5, <1>6, <1>7 DEF Next, TimerFires

\* For every recipe: no aggregator call and no completion without a quorum of
\* proposers, and a quorum failure is reported exactly when there is none.
THEOREM QuorumKept == Spec => []FailsClosed
  <1>1. PhaseInv => FailsClosed
    BY DEF PhaseInv
  <1>2. QED
    BY PhaseInit, PhaseStep, <1>1, PTL DEF Spec

-----------------------------------------------------------------------------
(* Booking *)

\* An arm that has not answered, or never will, reports no tokens.
Silent(a) == a.status # "ok" => a.prompt = Null /\ a.completion = Null

\* What a run knows of its arms, and that it books them all when it returns.
BookInv ==
  /\ phase = "fanout" => aggregator.status = "none"
  /\ phase \in {"fanout", "aggregate", "done", "gone"}
  /\ DOMAIN arm = Arms
  /\ \A i \in Arms : Silent(arm[i])
  /\ Silent(aggregator)
  /\ rows = IF phase = "done" THEN RowsOf(aggregator) ELSE <<>>

\* An arm that ends does so with tokens only if it answers.
LEMMA ArmsAreSilent ==
  /\ \A u : Silent(Arm("ok", u))
  /\ \A status : Silent(Arm(status, NoUsage))
  BY DEF Silent, Arm, NoUsage

\* Nothing is booked at the start.
LEMMA BookInit == Init => BookInv
  <1> SUFFICES ASSUME Init PROVE BookInv
    OBVIOUS
  <1>1. aggregator.status = "none"
    BY DEF Init, Arm
  <1>2. \A i \in Arms : Silent(arm[i])
    BY ArmsAreSilent DEF Init
  <1>3. QED
    BY <1>1, <1>2, ArmsAreSilent DEF Init, BookInv

\* An arm ends before anything is booked; a return books all of them.
LEMMA BookStep == BookInv /\ [Next]_vars => BookInv'
  <1> SUFFICES ASSUME BookInv, [Next]_vars PROVE BookInv'
    OBVIOUS
  <1> USE DEF BookInv
  <1>1. ASSUME NEW i \in Arms, NEW result, ArmEnds(i, result), Silent(result)
        PROVE  BookInv'
    <2>1. /\ phase = "fanout" /\ phase' = phase
          /\ aggregator' = aggregator /\ rows' = rows
          /\ arm' = [arm EXCEPT ![i] = result]
      BY <1>1 DEF ArmEnds
    <2>2. DOMAIN arm' = Arms /\ \A j \in Arms : Silent(arm'[j])
      BY <1>1, <2>1
    <2>3. QED
      BY <2>1, <2>2 DEF Silent
  <1>2. ASSUME NEW o, NEW agg, Respond(o, agg), Silent(agg), arm' = arm
        PROVE  BookInv'
    <2>1. phase' = "done" /\ aggregator' = agg /\ rows' = RowsOf(agg)
      BY <1>2 DEF Respond
    <2>2. rows' = RowsOf(aggregator)'
      BY <2>1, <1>2 DEF RowsOf, Row, UsageStatus, HasCost
    <2>3. QED
      BY <2>1, <2>2, <1>2 DEF Silent
  <1>3. CASE \E i \in Arms : (\E u \in Usages : ArmAnswers(i, u)) \/ ArmFails(i) \/ ArmTimesOut(i)
    BY <1>3, <1>1, ArmsAreSilent DEF ArmAnswers, ArmFails, ArmTimesOut
  <1>4. CASE (\E u \in Usages : AggregatorAnswers(u)) \/ AggregatorFails \/ AggregatorTimesOut
    BY <1>4, <1>2, ArmsAreSilent
       DEF AggregatorAnswers, AggregatorFails, AggregatorTimesOut, AggregatorEnds
  <1>5. CASE QuorumFails \/ AggregatorUnresolved
    BY <1>5, <1>2 DEF QuorumFails, AggregatorUnresolved
  <1>6. CASE CallAggregator
    <2>1. /\ phase = "fanout" /\ phase' = "aggregate"
          /\ arm' = arm /\ rows' = rows
          /\ aggregator' = Arm("running", NoUsage)
      BY <1>6 DEF CallAggregator
    <2>2. QED
      BY <2>1, ArmsAreSilent DEF Silent
  <1>7. CASE Disconnect
    BY <1>7 DEF Disconnect, Silent
  <1>8. CASE Tick \/ UNCHANGED vars
    <2>1. /\ phase' = phase /\ arm' = arm /\ rows' = rows
          /\ aggregator' = aggregator
      BY <1>8 DEF Tick, vars
    <2>2. RowsOf(aggregator)' = RowsOf(aggregator)
      BY <2>1 DEF RowsOf, Row, UsageStatus, HasCost
    <2>3. QED
      BY <2>1, <2>2 DEF Silent
  <1>9. QED
    BY <1>3, <1>4, <1>5, <1>6, <1>7, <1>8 DEF Next, TimerFires

\* The arms a run has called: the proposers and, if it came to that, the
\* aggregator.
Called == Arms \cup (IF aggregator.status = "none" THEN {} ELSE {0})

\* The rows of a run, one by one: row i is that of arm i, the last one that of
\* the aggregator.
LEMMA RowsOneByOne ==
  LET booked == RowsOf(aggregator) IN
  /\ \A i \in Arms : i \in 1..Len(booked) /\ booked[i] = Row(i, arm[i])
  /\ aggregator.status # "none" =>
       N + 1 \in 1..Len(booked) /\ booked[N + 1] = Row(0, aggregator)
  /\ Len(booked) = IF aggregator.status = "none" THEN N ELSE N + 1
  <1> DEFINE first == [i \in Arms |-> Row(i, arm[i])]
             last == IF aggregator.status = "none" THEN <<>> ELSE <<Row(0, aggregator)>>
             All == {first[i] : i \in Arms} \cup {Row(0, aggregator)}
  <1>n. N \in Nat
    BY RecipeAssumption
  <1>1. first \in Seq(All) /\ Len(first) = N /\ \A i \in Arms : first[i] = Row(i, arm[i])
    BY <1>n, SeqDef, LenProperties DEF Arms
  <1>2. /\ last \in Seq(All)
        /\ Len(last) = IF aggregator.status = "none" THEN 0 ELSE 1
        /\ aggregator.status # "none" => last[1] = Row(0, aggregator)
    OBVIOUS
  <1>3. RowsOf(aggregator) = first \o last
    BY DEF RowsOf
  <1> HIDE DEF first, last, All
  <1>4. /\ Len(first \o last) = Len(first) + Len(last)
        /\ \A i \in 1..Len(first) : (first \o last)[i] = first[i]
        /\ aggregator.status # "none" => (first \o last)[N + 1] = last[1]
    <2>1. /\ Len(first \o last) = Len(first) + Len(last)
          /\ \A i \in 1..(Len(first) + Len(last)) :
               (first \o last)[i] = IF i <= Len(first) THEN first[i] ELSE last[i - Len(first)]
      BY <1>1, <1>2, ConcatProperties
    <2>2. aggregator.status # "none" =>
            N + 1 \in 1..(Len(first) + Len(last)) /\ ~(N + 1 <= Len(first)) /\ N + 1 - Len(first) = 1
      BY <1>1, <1>2, <1>n
    <2>3. \A i \in 1..Len(first) : i \in 1..(Len(first) + Len(last)) /\ i <= Len(first)
      BY <1>1, <1>2, <1>n
    <2>4. \A i \in 1..Len(first) : (first \o last)[i] = first[i]
      BY ONLY <2>1, <2>3
    <2>5. ASSUME NEW k \in 1..(Len(first) + Len(last)), k = N + 1, aggregator.status # "none"
          PROVE  (first \o last)[k] = last[1]
      <3>1. ~(k <= Len(first)) /\ k - Len(first) = 1
        BY <1>1, <1>n, <2>5
      <3>2. QED
        BY <2>1, <3>1
    <2>6. QED
      BY <2>1, <2>2, <2>4, <2>5, <1>n
  <1>5. QED
    BY <1>1, <1>2, <1>3, <1>4, <1>n DEF Arms

\* How many arms a run has called.
LEMMA CalledCount ==
  Cardinality(Called) = IF aggregator.status = "none" THEN N ELSE N + 1
  <1>n. N \in Nat
    BY RecipeAssumption
  <1>1. IsFiniteSet(Arms) /\ Cardinality(Arms) = N
    BY <1>n, FS_Interval DEF Arms
  <1>2. 0 \notin Arms
    BY <1>n DEF Arms
  <1>3. Cardinality(Arms \cup {0}) = N + 1
    BY <1>1, <1>2, <1>n, FS_AddElement
  <1>4. QED
    BY <1>1, <1>3 DEF Called

\* Whichever way a run returns, and however many proposers it has, each arm it
\* called has exactly one row, with its tokens.
THEOREM ArmsBooked == Spec => []EveryArmBooked
  <1>1. BookInv => EveryArmBooked
    <2> SUFFICES ASSUME BookInv, phase = "done"
                 PROVE  /\ \A id \in Called : \E n \in 1..Len(rows) :
                             /\ rows[n].arm = id
                             /\ rows[n].prompt = Contribution(id).prompt
                             /\ rows[n].completion = Contribution(id).completion
                        /\ Len(rows) = Cardinality(Called)
      BY DEF EveryArmBooked, Called
    <2>1. rows = RowsOf(aggregator)
      BY DEF BookInv
    <2>2. \A id, a : /\ Row(id, a).arm = id
                     /\ Row(id, a).prompt = a.prompt
                     /\ Row(id, a).completion = a.completion
      BY DEF Row
    <2>3. ASSUME NEW id \in Arms
          PROVE  \E n \in 1..Len(rows) :
                   /\ rows[n].arm = id
                   /\ rows[n].prompt = Contribution(id).prompt
                   /\ rows[n].completion = Contribution(id).completion
      <3>1. id \in 1..Len(rows) /\ rows[id] = Row(id, arm[id])
        BY <2>1, <2>3, RowsOneByOne
      <3>2. Contribution(id) = arm[id]
        BY <2>3, RecipeAssumption DEF Contribution, Arms
      <3>3. QED
        BY <3>1, <3>2, <2>2
    <2>4. ASSUME aggregator.status # "none"
          PROVE  \E n \in 1..Len(rows) :
                   /\ rows[n].arm = 0
                   /\ rows[n].prompt = Contribution(0).prompt
                   /\ rows[n].completion = Contribution(0).completion
      <3>1. N + 1 \in 1..Len(rows) /\ rows[N + 1] = Row(0, aggregator)
        BY <2>1, <2>4, RowsOneByOne
      <3>2. Contribution(0) = aggregator
        BY DEF Contribution
      <3>3. QED
        BY <3>1, <3>2, <2>2
    <2>5. Len(rows) = Cardinality(Called)
      BY <2>1, RowsOneByOne, CalledCount
    <2>6. QED
      BY <2>3, <2>4, <2>5 DEF Called
  <1>2. QED
    BY BookInit, BookStep, <1>1, PTL DEF Spec

\* A row costs something exactly when it is priced and measured: what the
\* status says and what the cost says never part, for any prices and usage.
THEOREM CostsAgree == Spec => []CostOnlyIfOk
  <1>1. ASSUME NEW id, NEW a, Silent(a)
        PROVE  Row(id, a).cost <=> Row(id, a).status = "ok"
    <2>1. Row(id, a).cost = HasCost(id, a) /\ Row(id, a).status = UsageStatus(id, a)
      BY DEF Row
    <2>2. HasCost(id, a) <=> UsageStatus(id, a) = "ok"
      BY <1>1 DEF HasCost, UsageStatus, Silent
    <2>3. QED
      BY <2>1, <2>2
  <1>2. BookInv => CostOnlyIfOk
    <2> SUFFICES ASSUME BookInv, phase = "done", NEW n \in 1..Len(rows)
                 PROVE  rows[n].cost <=> rows[n].status = "ok"
      BY DEF BookInv, CostOnlyIfOk
    <2>1. rows = RowsOf(aggregator)
      BY DEF BookInv
    <2>2. n \in Arms \/ (aggregator.status # "none" /\ n = N + 1)
      BY <2>1, RowsOneByOne, RecipeAssumption DEF Arms
    <2>3. CASE n \in Arms
      BY <2>1, <2>3, <1>1, RowsOneByOne DEF BookInv
    <2>4. CASE aggregator.status # "none" /\ n = N + 1
      BY <2>1, <2>4, <1>1, RowsOneByOne DEF BookInv
    <2>5. QED
      BY <2>2, <2>3, <2>4
  <1>3. QED
    BY BookInit, BookStep, <1>2, PTL DEF Spec

-----------------------------------------------------------------------------
(* Types *)

\* The types of what the arms write, and that the completion order lists every
\* arm that has ended, once.
ArmTypes ==
  /\ phase \in {"fanout", "aggregate", "done", "gone"}
  /\ arm \in [Arms -> ArmStates]
  /\ aggregator \in ArmStates
  /\ outcome \in {"none", "ok", "quorum_failed", "internal", "upstream_error", "upstream_timeout"}
  /\ completed \in Seq(Arms)
  /\ IsInjective(completed)
  /\ ToSet(completed) = {i \in Arms : arm[i].status # "running"}

\* What an arm may become is one of its states.
LEMMA ArmIsTyped ==
  ASSUME NEW status \in {"none", "running", "ok", "timeout", "error"}
  PROVE  /\ Arm(status, NoUsage) \in ArmStates
         /\ \A u \in Usages : Arm(status, u) \in ArmStates
         /\ \A u : Arm(status, u).status = status
  <1>1. \A u \in Usages \cup {NoUsage} : u.prompt \in Tokens /\ u.completion \in Tokens
    BY DEF Tokens, NoUsage
  <1>2. \A u : Arm(status, u) = [status |-> status, prompt |-> u.prompt, completion |-> u.completion]
    BY DEF Arm
  <1> HIDE DEF Tokens, Arm
  <1>3. QED
    BY <1>1, <1>2 DEF ArmStates

\* A run starts with every arm running.
LEMMA TypesInit == Init => ArmTypes
  <1> SUFFICES ASSUME Init PROVE ArmTypes
    OBVIOUS
  <1>1. arm = [i \in Arms |-> Arm("running", NoUsage)] /\ aggregator = Arm("none", NoUsage)
    BY DEF Init
  <1>2. \A i \in Arms : arm[i] \in ArmStates /\ arm[i].status = "running"
    BY <1>1, ArmIsTyped
  <1>3. completed = <<>>
    BY DEF Init
  <1>4. completed \in Seq(Arms) /\ IsInjective(completed) /\ ToSet(completed) = {}
    BY <1>3 DEF IsInjective, ToSet
  <1> HIDE DEF ArmStates, Arm
  <1>5. QED
    BY <1>1, <1>2, <1>4, ArmIsTyped DEF Init, ArmTypes

\* What appending an element that is not there yet does to a sequence.
LEMMA AppendNew ==
  ASSUME NEW S, NEW s \in Seq(S), IsInjective(s), NEW x \in S, x \notin ToSet(s)
  PROVE  /\ Append(s, x) \in Seq(S)
         /\ IsInjective(Append(s, x))
         /\ ToSet(Append(s, x)) = ToSet(s) \cup {x}
  <1> DEFINE t == Append(s, x)
             l == Len(s)
  <1>1. l \in Nat /\ DOMAIN s = 1..l /\ \A i \in 1..l : s[i] \in ToSet(s)
    BY DEF ToSet
  <1>2. t \in Seq(S) /\ DOMAIN t = 1..(l + 1) /\ t[l + 1] = x /\ \A i \in 1..l : t[i] = s[i]
    BY AppendProperties
  <1>3. DOMAIN t = (DOMAIN s) \cup {l + 1}
    BY <1>1, <1>2
  <1> HIDE DEF t, l
  <1>4. IsInjective(t)
    BY <1>1, <1>2, <1>3 DEF IsInjective
  <1>5. ToSet(t) = ToSet(s) \cup {x}
    BY <1>1, <1>2, <1>3 DEF ToSet
  <1>6. QED
    BY <1>2, <1>4, <1>5 DEF t

\* An arm that ends is one that was running: it is listed once.
LEMMA TypesStep == ArmTypes /\ [Next]_vars => ArmTypes'
  <1> SUFFICES ASSUME ArmTypes, [Next]_vars PROVE ArmTypes'
    OBVIOUS
  <1> HIDE DEF Arms, ArmStates, Arm
  <1>1. ASSUME NEW i \in Arms, NEW status \in {"ok", "timeout", "error"}, NEW result \in ArmStates,
               result.status = status, ArmEnds(i, result)
        PROVE  ArmTypes'
    <2>1. /\ phase' = phase /\ outcome' = outcome /\ aggregator' = aggregator
          /\ arm' = [arm EXCEPT ![i] = result]
          /\ completed' = Append(completed, i)
          /\ arm[i].status = "running"
      BY <1>1 DEF ArmEnds
    <2>2. Arms' = Arms /\ ArmStates' = ArmStates
      BY DEF Arms, ArmStates, Tokens
    <2>3. arm' \in [Arms -> ArmStates]
      BY <1>1, <2>1 DEF ArmTypes
    <2>4. i \notin ToSet(completed)
      BY <2>1 DEF ArmTypes
    <2>5. /\ completed' \in Seq(Arms)
          /\ IsInjective(completed')
          /\ ToSet(completed') = ToSet(completed) \cup {i}
      BY <1>1, <2>1, <2>4, AppendNew DEF ArmTypes
    <2>6. {j \in Arms : arm'[j].status # "running"} = {j \in Arms : arm[j].status # "running"} \cup {i}
      BY <1>1, <2>1 DEF ArmTypes
    <2>7. QED
      BY <2>1, <2>2, <2>3, <2>5, <2>6 DEF ArmTypes
  <1>2. CASE \E i \in Arms : (\E u \in Usages : ArmAnswers(i, u)) \/ ArmFails(i) \/ ArmTimesOut(i)
    <2>1. ASSUME NEW i \in Arms, NEW u \in Usages, ArmAnswers(i, u)
          PROVE  ArmTypes'
      BY <1>1, <2>1, ArmIsTyped DEF ArmAnswers
    <2>2. ASSUME NEW i \in Arms, ArmFails(i)
          PROVE  ArmTypes'
      BY <1>1, <2>2, ArmIsTyped DEF ArmFails
    <2>3. ASSUME NEW i \in Arms, ArmTimesOut(i)
          PROVE  ArmTypes'
      BY <1>1, <2>3, ArmIsTyped DEF ArmTimesOut
    <2>4. QED
      BY <1>2, <2>1, <2>2, <2>3
  <1>3. ASSUME arm' = arm, completed' = completed, aggregator' \in ArmStates,
               phase' \in {"fanout", "aggregate", "done", "gone"},
               outcome' \in {"none", "ok", "quorum_failed", "internal", "upstream_error", "upstream_timeout"}
        PROVE  ArmTypes'
    <2>1. Arms' = Arms /\ ArmStates' = ArmStates
      BY DEF Arms, ArmStates, Tokens
    <2>2. QED
      BY <1>3, <2>1 DEF ArmTypes
  <1>4. CASE (\E u \in Usages : AggregatorAnswers(u)) \/ AggregatorFails \/ AggregatorTimesOut
    <2>1. ASSUME NEW o \in {"ok", "upstream_error", "upstream_timeout"}, NEW agg \in ArmStates,
                 AggregatorEnds(o, agg)
          PROVE  ArmTypes'
      BY <1>3, <2>1 DEF AggregatorEnds, Respond
    <2>2. CASE \E u \in Usages : AggregatorAnswers(u)
      BY <2>1, <2>2, ArmIsTyped DEF AggregatorAnswers
    <2>3. CASE AggregatorFails
      BY <2>1, <2>3, ArmIsTyped DEF AggregatorFails
    <2>4. CASE AggregatorTimesOut
      BY <2>1, <2>4, ArmIsTyped DEF AggregatorTimesOut
    <2>5. QED
      BY <1>4, <2>2, <2>3, <2>4
  <1>5. CASE QuorumFails \/ AggregatorUnresolved
    BY <1>3, <1>5 DEF QuorumFails, AggregatorUnresolved, Respond, ArmTypes
  <1>6. CASE CallAggregator
    BY <1>3, <1>6, ArmIsTyped DEF CallAggregator, ArmTypes
  <1>7. CASE Disconnect \/ Tick \/ UNCHANGED vars
    BY <1>3, <1>7 DEF Disconnect, Tick, vars, ArmTypes
  <1>8. QED
    BY <1>2, <1>4, <1>5, <1>6, <1>7 DEF Next, TimerFires

-----------------------------------------------------------------------------
(* Candidates *)

\* The aggregator is shown the arms that succeeded, in order.
LEMMA CandidatesAreSucceeded ==
  ASSUME ArmTypes
  PROVE  /\ Candidates \in Seq(Arms)
         /\ ToSet(Candidates) = Succeeded
         /\ \A i, j \in 1..Len(Candidates) : i < j => Candidates[i] < Candidates[j]
  <1> DEFINE P == {n \in DOMAIN completed : arm[completed[n]].status = "ok"}
             places == InOrder(P)
  <1>1. Len(completed) \in Nat /\ DOMAIN completed = 1..Len(completed)
    BY DEF ArmTypes
  <1>2. ToSet(places) = P
    BY <1>1, InOrderProperties
  <1>3. Successes = [k \in DOMAIN places |-> completed[places[k]]]
    BY DEF Successes
  <1> HIDE DEF places
  <1>4. ToSet(Successes) = {completed[n] : n \in P}
    BY <1>2, <1>3 DEF ToSet
  <1>5. ToSet(Successes) = Succeeded
    <2>1. ToSet(completed) = {i \in Arms : arm[i].status # "running"}
      BY DEF ArmTypes
    <2>2. QED
      BY <1>4, <2>1 DEF ToSet, Succeeded
  <1>6. N \in Nat /\ Succeeded \in SUBSET (1..N)
    BY RecipeAssumption DEF Succeeded, Arms
  <1>7. Candidates = InOrder(Succeeded)
    BY <1>5 DEF Candidates, Ordered
  <1>8. Candidates \in Seq(Succeeded) /\ Succeeded \subseteq Arms
    BY <1>6, <1>7, InOrderProperties DEF Arms
  <1>9. Candidates \in Seq(Arms)
    BY <1>8
  <1>10. QED
    <2> HIDE DEF P
    <2> QED BY <1>6, <1>7, <1>9, InOrderProperties

\* Once the aggregator is called, it has been shown the arms that succeeded.
CandidatesInv ==
  /\ phase = "fanout" => aggregator.status = "none"
  /\ phase = "aggregate" => aggregator.status = "running"
  /\ candidates \in Seq(Arms)
  /\ CandidatesInRecipeOrder

\* Nobody is shown anything at the start.
LEMMA CandidatesInit == Init => CandidatesInv
  BY DEF Init, CandidatesInv, CandidatesInRecipeOrder, Arm

\* Only the end of the fan-out sets the candidates, and no arm succeeds later.
LEMMA CandidatesStep == ArmTypes /\ CandidatesInv /\ [Next]_vars => CandidatesInv'
  <1> SUFFICES ASSUME ArmTypes, CandidatesInv, [Next]_vars PROVE CandidatesInv'
    OBVIOUS
  <1>1. CASE \E i \in Arms : (\E u \in Usages : ArmAnswers(i, u)) \/ ArmFails(i) \/ ArmTimesOut(i)
    <2>1. phase = "fanout" /\ phase' = phase /\ aggregator' = aggregator /\ candidates' = candidates
      BY <1>1 DEF ArmAnswers, ArmFails, ArmTimesOut, ArmEnds
    <2>2. QED
      BY <2>1 DEF CandidatesInv, CandidatesInRecipeOrder, Arms
  <1>2. ASSUME arm' = arm
        PROVE  Succeeded' = Succeeded /\ Arms' = Arms
    BY <1>2 DEF Succeeded, Arms
  <1> HIDE DEF Succeeded, Arms
  <1>3. CASE CallAggregator \/ AggregatorUnresolved
    <2>1. /\ phase' # "fanout"
          /\ phase' = "aggregate" => aggregator'.status = "running"
          /\ arm' = arm /\ candidates' = Candidates
      BY <1>3 DEF CallAggregator, AggregatorUnresolved, Respond, Arm
    <2>2. QED
      BY <2>1, <1>2, CandidatesAreSucceeded DEF CandidatesInv, CandidatesInRecipeOrder
  <1>4. CASE (\E u \in Usages : AggregatorAnswers(u)) \/ AggregatorFails \/ AggregatorTimesOut
    <2>1. phase = "aggregate" /\ phase' = "done" /\ arm' = arm /\ candidates' = candidates
      BY <1>4 DEF AggregatorAnswers, AggregatorFails, AggregatorTimesOut, AggregatorEnds, Respond
    <2>2. QED
      BY <2>1, <1>2 DEF CandidatesInv, CandidatesInRecipeOrder
  <1>5. CASE QuorumFails \/ Disconnect \/ Tick \/ UNCHANGED vars
    BY <1>5, <1>2 DEF QuorumFails, Respond, Disconnect, Tick, vars, CandidatesInv,
                      CandidatesInRecipeOrder
  <1>6. QED
    BY <1>1, <1>3, <1>4, <1>5 DEF Next, TimerFires

\* In whatever order the arms end, the aggregator is shown the answers of exactly
\* those that succeeded, in recipe order.
THEOREM CandidatesOrdered == Spec => []CandidatesInRecipeOrder
  <1>1. CandidatesInv => CandidatesInRecipeOrder
    BY DEF CandidatesInv
  <1>2. QED
    BY TypesInit, TypesStep, CandidatesInit, CandidatesStep, <1>1, PTL DEF Spec

-----------------------------------------------------------------------------
(* The books *)

\* The row of an arm is typed like the arm.
LEMMA RowIsTyped ==
  ASSUME NEW id \in 0..N, NEW a \in ArmStates
  PROVE  Row(id, a) \in RowStates
  <1>1. a.prompt \in Tokens /\ a.completion \in Tokens
    BY DEF ArmStates
  <1>2. UsageStatus(id, a) \in {"ok", "ok_no_usage", "unpriced", "failed", "timeout"}
    BY DEF UsageStatus
  <1>3. HasCost(id, a) \in BOOLEAN
    BY DEF HasCost
  <1> HIDE DEF Tokens, UsageStatus, HasCost
  <1>4. QED
    BY <1>1, <1>2, <1>3 DEF Row, RowStates

\* The rows of a run are typed, and there is at most one per arm.
LEMMA RowsAreTyped ==
  ASSUME ArmTypes
  PROVE  RowsOf(aggregator) \in Seq(RowStates) /\ Len(RowsOf(aggregator)) <= N + 1
  <1> DEFINE first == [i \in Arms |-> Row(i, arm[i])]
             last == IF aggregator.status = "none" THEN <<>> ELSE <<Row(0, aggregator)>>
  <1>1. N \in Nat /\ 0 \in 0..N /\ \A i \in Arms : i \in 0..N
    BY RecipeAssumption DEF Arms
  <1> HIDE DEF RowStates, ArmStates
  <1>2. first \in [Arms -> RowStates]
    BY <1>1, RowIsTyped DEF ArmTypes
  <1>3. first \in Seq(RowStates)
    BY <1>1, <1>2, SeqDef DEF Arms
  <1>4. last \in Seq(RowStates)
    BY <1>1, RowIsTyped DEF ArmTypes
  <1>5. RowsOf(aggregator) = first \o last
    BY DEF RowsOf
  <1> HIDE DEF first, last
  <1>6. RowsOf(aggregator) \in Seq(RowStates)
    BY <1>3, <1>4, <1>5, ConcatProperties
  <1>7. QED
    BY <1>1, <1>6, RowsOneByOne

\* Whatever a run does, its state stays within the types of its data, no arm is
\* collected twice and no more rows are handed over than arms were called.
THEOREM RunTyped == Spec => []TypeOK
  <1>1. ASSUME ClockInv, ArmTypes, BookInv, CandidatesInv
        PROVE  TypeOK
    <2>1. rows = <<>> \/ rows = RowsOf(aggregator)
      BY <1>1 DEF BookInv
    <2>2. rows \in Seq(RowStates) /\ Len(rows) <= N + 1
      <3>1. N \in Nat
        BY RecipeAssumption
      <3>2. CASE rows = <<>>
        <4> HIDE DEF RowStates
        <4>1. QED
          BY <3>1, <3>2
      <3>3. CASE rows = RowsOf(aggregator)
        <4> HIDE DEF RowStates
        <4>1. QED
          BY <1>1, <3>3, RowsAreTyped
      <3>4. QED
        BY <2>1, <3>2, <3>3
    <2>3. QED
      BY <1>1, <2>2 DEF TypeOK, ClockInv, ArmTypes, CandidatesInv
  <1>2. QED
    BY ClockInit, ClockStep, TypesInit, TypesStep, BookInit, BookStep, CandidatesInit,
       CandidatesStep, <1>1, PTL DEF Spec

\* A report that has a field has a number in it.
LEMMA TokensAreNumbers == \A t \in Tokens : t # Null => t \in Nat
  BY RecipeAssumption DEF Tokens

\* The total of the reports of a run is that of its rows: they have the same
\* arms in them, the aggregator first in the one and last in the other.
LEMMA TotalsAgree ==
  ASSUME ArmTypes, BookInv, phase = "done", aggregator.status = "ok",
         NEW field \in {"prompt", "completion"}
  PROVE  SumUsage(field) = Total(rows, field)
  <1> DEFINE f == [i \in Succeeded \cup {0} |-> Contribution(i)[field]]
             g == [n \in DOMAIN rows |-> rows[n][field]]
             A == {i \in Succeeded \cup {0} : Contribution(i)[field] # Null}
             B == {n \in DOMAIN rows : rows[n][field] # Null}
             C == {i \in Arms : arm[i][field] # Null}
             a == aggregator[field]
  <1>n. N \in Nat /\ 0 \notin Arms /\ N + 1 \notin Arms /\ 1..(N + 1) = Arms \cup {N + 1}
    BY RecipeAssumption DEF Arms
  <1>1. SumUsage(field) = SumFunctionOnSet(f, A) /\ Total(rows, field) = SumFunctionOnSet(g, B)
    <2>1. \A reports, fld : Total(reports, fld) =
            SumFunctionOnSet([i \in DOMAIN reports |-> reports[i][fld]],
                             {i \in DOMAIN reports : reports[i][fld] # Null})
      BY DEF Total
    <2> DEFINE r == [i \in Succeeded \cup {0} |-> Contribution(i)]
    <2>2. DOMAIN r = Succeeded \cup {0} /\ \A i \in Succeeded \cup {0} : r[i] = Contribution(i)
      OBVIOUS
    <2>3. SumUsage(field) = Total(r, field)
      BY DEF SumUsage
    <2> HIDE DEF r
    <2>4. /\ [i \in DOMAIN r |-> r[i][field]] = f
          /\ {i \in DOMAIN r : r[i][field] # Null} = A
      BY <2>2
    <2>5. SumUsage(field) = SumFunctionOnSet(f, A)
      BY <2>1, <2>3, <2>4
    <2>6. QED
      BY <2>1, <2>5
  <1>2. /\ DOMAIN rows = 1..(N + 1)
        /\ \A i \in Arms : rows[i] = Row(i, arm[i])
        /\ rows[N + 1] = Row(0, aggregator)
    <2>1. rows = RowsOf(aggregator) /\ rows \in Seq(RowStates)
      BY RowsAreTyped DEF BookInv
    <2>2. Len(rows) = N + 1
      BY <2>1, RowsOneByOne
    <2>3. QED
      BY <2>1, <2>2, RowsOneByOne
  <1>3. \A id, x : Row(id, x)[field] = x[field]
    BY DEF Row
  <1>4. /\ \A i \in Arms : Contribution(i) = arm[i]
        /\ Contribution(0) = aggregator
    BY <1>n DEF Contribution
  <1>5. \A i \in Arms : arm[i][field] # Null => i \in Succeeded
    BY DEF BookInv, Silent, Succeeded
  <1>6. Succeeded \subseteq Arms
    BY DEF Succeeded
  <1>7. A = C \cup (IF a = Null THEN {} ELSE {0})
    BY <1>4, <1>5, <1>6
  <1>8. B = C \cup (IF a = Null THEN {} ELSE {N + 1})
    BY <1>n, <1>2, <1>3
  <1>9. /\ \A i \in C : f[i] = arm[i][field] /\ g[i] = arm[i][field] /\ f[i] \in Nat
        /\ f[0] = a /\ g[N + 1] = a
        /\ a # Null => a \in Nat
    <2>1. a \in Tokens /\ \A i \in Arms : arm[i][field] \in Tokens
      BY DEF ArmTypes, ArmStates
    <2>2. \A i \in C : i \in Succeeded /\ i \in DOMAIN rows /\ rows[i][field] = arm[i][field]
      BY <1>n, <1>2, <1>3, <1>5
    <2>3. \A i \in C : f[i] = arm[i][field] /\ g[i] = arm[i][field]
      BY <1>4, <2>2
    <2>4. f[0] = a /\ g[N + 1] = a
      BY <1>n, <1>2, <1>3, <1>4
    <2>5. QED
      BY <2>1, <2>3, <2>4, TokensAreNumbers
  <1>10. IsFiniteSet(C) /\ IsFiniteSet(A) /\ IsFiniteSet(B)
    <2>1. IsFiniteSet(Arms)
      BY <1>n, FS_Interval DEF Arms
    <2>2. IsFiniteSet(C)
      BY <2>1, FS_Subset
    <2>3. IsFiniteSet(C \cup {0}) /\ IsFiniteSet(C \cup {N + 1})
      <3> HIDE DEF C
      <3>1. QED
        BY <2>2, FS_AddElement
    <2> HIDE DEF A, B, C, a
    <2>4. A \in {C, C \cup {0}} /\ B \in {C, C \cup {N + 1}}
      BY <1>7, <1>8
    <2>5. QED
      BY <2>2, <2>3, <2>4
  <1> HIDE DEF f, g, A, B, C, a
  <1>11. SumFunctionOnSet(f, C) = SumFunctionOnSet(g, C)
    BY <1>9, <1>10, SumOfNumbers
  <1>12. CASE a = Null
    BY <1>1, <1>7, <1>8, <1>11, <1>12
  <1>13. CASE a # Null
    <2>1. 0 \in A /\ N + 1 \in B /\ A \ {0} = C /\ B \ {N + 1} = C
      BY <1>n, <1>7, <1>8, <1>13 DEF C
    <2>2. (\A i \in A : f[i] \in Nat) /\ (\A n \in B : g[n] \in Nat)
      BY <1>7, <1>8, <1>9, <1>13
    <2>3. SumFunctionOnSet(f, A) = a + SumFunctionOnSet(f, C)
      BY <1>9, <1>10, <2>1, <2>2, SumRemove
    <2>4. SumFunctionOnSet(g, B) = a + SumFunctionOnSet(g, C)
      BY <1>9, <1>10, <2>1, <2>2, SumRemove
    <2>5. QED
      BY <1>1, <1>11, <2>3, <2>4
  <1>14. QED
    BY <1>12, <1>13

\* What the client is told it used is what the ledger says it used, for every
\* number of proposers and every usage object.
THEOREM LedgerMatched == Spec => []ReplyMatchesLedger
  <1>1. ASSUME ArmTypes, BookInv, PhaseInv
        PROVE  ReplyMatchesLedger
    <2> SUFFICES ASSUME outcome = "ok", NEW field \in {"prompt", "completion"}
                 PROVE  ReplyUsage[field] = Total(rows, field)
      BY DEF ReplyMatchesLedger
    <2>1. phase = "done" /\ aggregator.status = "ok"
      BY <1>1 DEF PhaseInv, FailsClosed
    <2>2. ReplyUsage[field] = SumUsage(field)
      BY DEF ReplyUsage
    <2>3. QED
      BY <1>1, <2>1, <2>2, TotalsAgree
  <1>2. QED
    BY TypesInit, TypesStep, BookInit, BookStep, PhaseInit, PhaseStep, <1>1, PTL DEF Spec
=============================================================================
