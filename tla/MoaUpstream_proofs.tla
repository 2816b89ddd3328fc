------------------------- MODULE MoaUpstream_proofs -------------------------
(***************************************************************************)
(* Proofs about MoaUpstream, for any number of proposers, any quorum, any  *)
(* timers, any limits of the upstream and any other calls on it: a run is  *)
(* never in its own way, and the composition implements both components,   *)
(* so that what is proved of each by itself holds of them together.        *)
(***************************************************************************)
EXTENDS MoaUpstream, GovernedUpstream_proofs

RunProofs == INSTANCE MoaRun_proofs WITH outcome <- reply

\* A call of the run that has begun and not ended is one that the run waits for.
AwaitedInv ==
  /\ pc \in [Calls -> Places]
  /\ DOMAIN arm = Run!Arms
  /\ phase \in {"fanout", "aggregate", "done", "gone"}
  /\ \A i \in Run!Arms :
       phase # "gone" /\ pc[i] # "idle" => phase = "fanout" /\ arm[i].status = "running"
  /\ phase # "gone" /\ pc[0] # "idle" => phase = "aggregate"

\* Proposers and aggregator are calls of the run.
LEMMA OwnCalls == 0 \in Own /\ Run!Arms \subseteq Own /\ 0 \notin Run!Arms /\ Own \subseteq Calls
BY CompositionAssumption DEF Own, Run!Arms

\* No call has begun when the run starts.
LEMMA AwaitedInit == MoaInit => AwaitedInv
BY OwnCalls DEF MoaInit, Init, Run!Init, AwaitedInv, Places

\* Progress of a call that has begun, with the run left alone, begins no call.
LEMMA CallMoves ==
  ASSUME AwaitedInv, UNCHANGED runVars, NEW c \in Calls, NEW place \in Places,
         pc[c] # "idle" \/ Called(c) \/ c \notin Own,
         pc' = [pc EXCEPT ![c] = place]
  PROVE  AwaitedInv'
BY OwnCalls DEF AwaitedInv, Called, runVars, Run!Arms

\* A call that is over: the run knows of its end, or has been left.
LEMMA CallEnds ==
  ASSUME AwaitedInv, NEW c \in Own, NEW r, Ends(c, r),
         pc' \in [Calls -> Places], pc'[c] = "idle",
         \A d \in Own \ {c} : pc'[d] = pc[d]
  PROVE  AwaitedInv'
<1>1. CASE c = 0
  <2>1. phase = "aggregate" /\ phase' = "done" /\ arm' = arm
    BY <1>1 DEF Ends, Run!AggregatorAnswers, Run!AggregatorFails, Run!AggregatorTimesOut,
                Run!AggregatorEnds, Run!Respond
  <2> QED BY <1>1, <2>1, OwnCalls DEF AwaitedInv
<1>2. CASE c # 0
  <2>1. PICK a : Run!ArmEnds(c, a)
    BY <1>2 DEF Ends, Run!ArmAnswers, Run!ArmFails, Run!ArmTimesOut
  <2>2. phase = "fanout" /\ phase' = "fanout" /\ arm' = [arm EXCEPT ![c] = a]
    BY <2>1 DEF Run!ArmEnds
  <2> QED BY <1>2, <2>2, OwnCalls DEF AwaitedInv
<1> QED BY <1>1, <1>2

\* The calls of others are not those of the run.
LEMMA OthersMove == AwaitedInv /\ OthersGoOn => AwaitedInv'
<1> SUFFICES ASSUME AwaitedInv, OthersGoOn
             PROVE  AwaitedInv'
  OBVIOUS
<1>1. UNCHANGED runVars
  BY DEF OthersGoOn
<1>2. CASE UNCHANGED pc
  BY <1>1, <1>2 DEF AwaitedInv, runVars, Run!Arms
<1>3. ASSUME NEW c \in Others, NEW place \in Places, Goto(c, place)
      PROVE  AwaitedInv'
  BY <1>1, <1>3, CallMoves DEF Others, Goto
<1>4. \/ \E c \in Others : \E place \in Places : Goto(c, place)
      \/ UNCHANGED pc
  <2>1. CASE Refill \/ Tick
    BY <2>1 DEF Refill, Tick, callVars
  <2>2. ASSUME NEW c \in Others,
               \/ \E k \in Kinds : Admit(c, k)
               \/ TakeToken(c) \/ RateLimited(c) \/ Acquire(c) \/ Enqueue(c) \/ Granted(c)
               \/ Timeout(c) \/ Disconnect(c) \/ Unadmit(c)
               \/ Answer(c) \/ RetryLater(c) \/ BackoffElapsed(c)
               \/ Finalize(c) \/ DropPermit(c) \/ EndStream(c)
        PROVE  \E place \in Places : Goto(c, place)
    BY <2>2 DEF Admit, TakeToken, RateLimited, Acquire, Enqueue, Granted, Timeout, Disconnect,
                CancelWaiting, Cancel, Finish, Unadmit, Answer, RetryLater, BackoffElapsed,
                Finalize, DropPermit, EndStream, ReleasePermit, Goto, Places
  <2> QED BY <2>1, <2>2 DEF OthersGoOn
<1> QED BY <1>2, <1>3, <1>4

\* Every step keeps it.
LEMMA AwaitedStep == AwaitedInv /\ [MoaNext]_moaVars => AwaitedInv'
<1> SUFFICES ASSUME AwaitedInv, [MoaNext]_moaVars
             PROVE  AwaitedInv'
  OBVIOUS
<1>1. ASSUME NEW c \in Own, Begin(c)
      PROVE  AwaitedInv'
  <2>1. CASE Admit(c, "unary") /\ UNCHANGED runVars
    <3>1. pc' = [pc EXCEPT ![c] = "limit"] /\ Called(c)
      BY <1>1, <2>1 DEF Begin, Admit, Goto
    <3> QED BY <2>1, <3>1, CallMoves, OwnCalls DEF Places
  <2>2. CASE Ends(c, "error") /\ UNCHANGED vars
    <3>1. pc' = pc /\ pc[c] = "idle"
      BY <1>1, <2>2 DEF Begin, vars
    <3> QED BY <2>2, <3>1, CallEnds DEF AwaitedInv
  <2> QED BY <1>1, <2>1, <2>2 DEF Begin
<1>2. ASSUME NEW c \in Own, Gates(c) \/ GoesOn(c) \/ GivesUp(c) \/ Dropped(c) \/ Reports(c)
      PROVE  AwaitedInv'
  <2>1. UNCHANGED runVars
    BY <1>2 DEF Gates, GoesOn, GivesUp, Dropped, Reports
  <2>2. pc[c] # "idle" /\ \E place \in Places : Goto(c, place)
    BY <1>2 DEF Gates, GoesOn, GivesUp, Dropped, Reports, TakeToken, RateLimited, Acquire,
                Enqueue, Granted, Timeout, Disconnect, CancelWaiting, Cancel, Finish, Answer,
                RetryLater, BackoffElapsed, Finalize, Goto, Places
  <2> QED BY <2>1, <2>2, CallMoves, OwnCalls DEF Goto, Places
<1>3. ASSUME NEW c \in Own, Returns(c)
      PROVE  AwaitedInv'
  <2>1. pc[c] # "idle" /\ pc' = [pc EXCEPT ![c] = "idle"]
    BY <1>3 DEF Returns, Unadmit, DropPermit, ReleasePermit, Goto
  <2>2. CASE UNCHANGED runVars
    BY <2>1, <2>2, CallMoves, OwnCalls DEF Places
  <2>3. CASE Ends(c, result[c])
    <3>1. pc' \in [Calls -> Places] /\ pc'[c] = "idle" /\ \A d \in Own \ {c} : pc'[d] = pc[d]
      BY <2>1, OwnCalls DEF AwaitedInv, Places
    <3> QED BY <2>3, <3>1, CallEnds
  <2> QED BY <1>3, <2>2, <2>3 DEF Returns
<1>4. CASE RunGoesOn
  <2>1. UNCHANGED pc /\ UNCHANGED arm
    BY <1>4 DEF RunGoesOn, vars, Run!Collect, Run!QuorumFails, Run!CallAggregator,
                Run!AggregatorUnresolved, Run!Disconnect
  <2>2. CASE Run!Disconnect
    BY <2>1, <2>2 DEF AwaitedInv, Run!Disconnect, Run!Arms
  <2>3. CASE Run!Collect
    <3>1. /\ phase = "fanout" /\ phase' \in {"aggregate", "done"}
          /\ \A i \in Run!Arms : arm[i].status # "running"
      BY <2>3 DEF Run!Collect, Run!QuorumFails, Run!CallAggregator, Run!AggregatorUnresolved,
                  Run!Respond, Run!AllEnded
    <3> QED BY <2>1, <3>1 DEF AwaitedInv, Run!Arms
  <2> QED BY <1>4, <2>2, <2>3 DEF RunGoesOn
<1>5. CASE TimePasses
  BY <1>5 DEF TimePasses, Run!Tick, vars, AwaitedInv, Run!Arms
<1>6. CASE UNCHANGED moaVars
  BY <1>6 DEF moaVars, vars, runVars, AwaitedInv, Run!Arms
<1>7. CASE OthersGoOn
  BY <1>7, OthersMove
<1> QED BY <1>1, <1>2, <1>3, <1>4, <1>5, <1>6, <1>7 DEF MoaNext

\* No run is ever in its own way: when the aggregator is called no proposer has
\* a permit, a place in the queue or a guard left, and none of its calls has when
\* the run has replied.
THEOREM NeverBehindItself == MoaSpec => []NothingHeldBehind
<1>1. AwaitedInv => NothingHeldBehind
  BY OwnCalls, CompositionAssumption DEF AwaitedInv, NothingHeldBehind, Own, Run!Arms
<1> QED BY AwaitedInit, AwaitedStep, <1>1, PTL DEF MoaSpec

-----------------------------------------------------------------------------
(* The composition implements its components *)

\* The end of a call of the run is a step of the run: of the arm of a proposer,
\* or of the aggregator.
LEMMA EndsIsRunStep ==
  ASSUME NEW c \in Own, NEW r, Ends(c, r)
  PROVE  Run!Next
<1>1. CASE c = 0
  <2>1. (\E u \in Usages : Run!AggregatorAnswers(u)) \/ Run!AggregatorFails
          \/ Run!AggregatorTimesOut
    BY <1>1 DEF Ends
  <2> QED BY <2>1 DEF Run!Next, Run!TimerFires
<1>2. CASE c # 0
  <2>1. c \in Run!Arms
    BY <1>2, CompositionAssumption DEF Own, Run!Arms
  <2>2. (\E u \in Usages : Run!ArmAnswers(c, u)) \/ Run!ArmFails(c) \/ Run!ArmTimesOut(c)
    BY <1>2 DEF Ends
  <2> QED BY <2>1, <2>2 DEF Run!Next, Run!TimerFires
<1> QED BY <1>1, <1>2

\* What a call of the run does to the upstream is a step of the upstream.
LEMMA OwnStepIsCallStep ==
  ASSUME NEW c \in Own,
         \/ Begin(c) \/ Gates(c) \/ GoesOn(c) \/ GivesUp(c) \/ Dropped(c)
         \/ Reports(c) \/ Returns(c)
  PROVE  Next \/ UNCHANGED vars
<1>1. c \in Calls /\ "unary" \in Kinds
  BY OwnCalls DEF Kinds
<1>2. \/ UNCHANGED vars
      \/ Admit(c, "unary")
      \/ TakeToken(c) \/ RateLimited(c)
      \/ Acquire(c) \/ Enqueue(c) \/ Granted(c)
      \/ Timeout(c) \/ Disconnect(c) \/ Unadmit(c)
      \/ Answer(c) \/ RetryLater(c) \/ BackoffElapsed(c)
      \/ Finalize(c) \/ DropPermit(c)
  BY DEF Begin, Gates, GoesOn, GivesUp, Dropped, Reports, Returns
<1> QED BY <1>1, <1>2 DEF Next

\* Every step of the composition is one of the upstream, or leaves it alone.
LEMMA StepIsCallStep == [MoaNext]_moaVars => [Next]_vars
<1> SUFFICES ASSUME [MoaNext]_moaVars
             PROVE  Next \/ UNCHANGED vars
  OBVIOUS
<1>1. ASSUME NEW c \in Own,
             \/ Begin(c) \/ Gates(c) \/ GoesOn(c) \/ GivesUp(c) \/ Dropped(c)
             \/ Reports(c) \/ Returns(c)
      PROVE  Next \/ UNCHANGED vars
  BY <1>1, OwnStepIsCallStep
<1>2. CASE OthersGoOn
  <2>1. Others \subseteq Calls
    BY DEF Others
  <2> QED BY <1>2, <2>1 DEF OthersGoOn, Next
<1>3. CASE RunGoesOn \/ TimePasses \/ UNCHANGED moaVars
  BY <1>3 DEF RunGoesOn, TimePasses, moaVars
<1> QED BY <1>1, <1>2, <1>3 DEF MoaNext

\* Every step of the composition is one of the run, or leaves it alone.
LEMMA StepIsRunStep == [MoaNext]_moaVars => [Run!Next]_(Run!vars)
<1> SUFFICES ASSUME [MoaNext]_moaVars
             PROVE  Run!Next \/ UNCHANGED runVars
  BY DEF Run!vars, runVars
<1>1. ASSUME NEW c \in Own,
             \/ Begin(c) \/ Gates(c) \/ GoesOn(c) \/ GivesUp(c) \/ Dropped(c)
             \/ Reports(c) \/ Returns(c)
      PROVE  Run!Next \/ UNCHANGED runVars
  <2>1. UNCHANGED runVars \/ \E r : Ends(c, r)
    BY <1>1 DEF Begin, Gates, GoesOn, GivesUp, Dropped, Reports, Returns
  <2> QED BY <2>1, EndsIsRunStep
<1>2. CASE OthersGoOn \/ UNCHANGED moaVars
  BY <1>2 DEF OthersGoOn, moaVars
<1>3. CASE RunGoesOn \/ TimePasses
  BY <1>3 DEF RunGoesOn, TimePasses, Run!Collect, Run!Next
<1> QED BY <1>1, <1>2, <1>3 DEF MoaNext

\* The arms of a run are calls like any other: a run and its upstream together
\* do nothing that the upstream alone does not do (run_arm calls chat()).
THEOREM CallsImplementUpstream == MoaSpec => Spec
<1>1. MoaInit => Init
  BY DEF MoaInit
<1> QED BY <1>1, StepIsCallStep, PTL DEF MoaSpec, Spec

\* Whatever the calls of a run meet on their way - gates, queues, retries,
\* timers - the run sees what MoaRun lets it see: each arm ends once, in one of
\* three ways, and run() goes on from there.
THEOREM ArmsImplementRun == MoaSpec => Run!Spec
<1>1. MoaInit => Run!Init
  BY DEF MoaInit
<1> QED BY <1>1, StepIsRunStep, PTL DEF MoaSpec, Run!Spec

\* What is proved of the calls of an upstream holds while runs use it: one call
\* owns the probe slot of the breaker, and no permit is lost or lent twice.
COROLLARY UpstreamSafeUnderRuns == MoaSpec => [](ProbeSlotOwned /\ PermitsConserved)
BY CallsImplementUpstream, ProbeSlotSafe, PermitsSafe, PTL

\* Run, whose definitions the composition uses, and RunProofs, whose theorems are
\* cited, are two instances of one module with the same parameters.
LEMMA SameRun ==
  /\ Run!Init <=> RunProofs!Init
  /\ [Run!Next]_(Run!vars) <=> [RunProofs!Next]_(RunProofs!vars)
  /\ Run!WithinDeadline <=> RunProofs!WithinDeadline
  /\ Run!FailsClosed <=> RunProofs!FailsClosed
  /\ Run!EveryArmBooked <=> RunProofs!EveryArmBooked
  /\ Run!CostOnlyIfOk <=> RunProofs!CostOnlyIfOk
  /\ Run!TypeOK <=> RunProofs!TypeOK
  /\ Run!CandidatesInRecipeOrder <=> RunProofs!CandidatesInRecipeOrder
  /\ Run!ReplyMatchesLedger <=> RunProofs!ReplyMatchesLedger
<1>1. /\ Run!Init <=> RunProofs!Init
      /\ UNCHANGED Run!vars <=> UNCHANGED RunProofs!vars
  BY Zenon
     DEF Run!Init, RunProofs!Init, Run!vars, RunProofs!vars, Run!Arms, RunProofs!Arms,
         Run!Arm, RunProofs!Arm, Run!NoUsage, RunProofs!NoUsage
<1>2. ASSUME NEW i, NEW r
      PROVE  Run!ArmEnds(i, r) <=> RunProofs!ArmEnds(i, r)
  BY Zenon DEF Run!ArmEnds, RunProofs!ArmEnds
<1>3. ASSUME NEW i
      PROVE  /\ Run!ArmFails(i) <=> RunProofs!ArmFails(i)
             /\ Run!ArmTimesOut(i) <=> RunProofs!ArmTimesOut(i)
             /\ \A u : Run!ArmAnswers(i, u) <=> RunProofs!ArmAnswers(i, u)
  BY <1>2, Zenon
     DEF Run!ArmAnswers, RunProofs!ArmAnswers, Run!ArmFails, RunProofs!ArmFails,
         Run!ArmTimesOut, RunProofs!ArmTimesOut, Run!Arm, RunProofs!Arm, Run!NoUsage,
         RunProofs!NoUsage, Run!ArmDue, RunProofs!ArmDue, Run!EffectiveTimeout,
         RunProofs!EffectiveTimeout, Run!Min2, RunProofs!Min2
<1>4. ASSUME NEW o, NEW agg
      PROVE  Run!Respond(o, agg) <=> RunProofs!Respond(o, agg)
  BY Zenon
     DEF Run!Respond, RunProofs!Respond, Run!RowsOf, RunProofs!RowsOf, Run!Row,
         RunProofs!Row, Run!UsageStatus, RunProofs!UsageStatus, Run!HasCost,
         RunProofs!HasCost, Run!Arms, RunProofs!Arms
<1>5. /\ Run!AggregatorFails <=> RunProofs!AggregatorFails
      /\ Run!AggregatorTimesOut <=> RunProofs!AggregatorTimesOut
      /\ \A u : Run!AggregatorAnswers(u) <=> RunProofs!AggregatorAnswers(u)
  BY <1>4, Zenon
     DEF Run!AggregatorAnswers, RunProofs!AggregatorAnswers, Run!AggregatorFails,
         RunProofs!AggregatorFails, Run!AggregatorTimesOut, RunProofs!AggregatorTimesOut,
         Run!AggregatorEnds, RunProofs!AggregatorEnds, Run!Arm, RunProofs!Arm, Run!NoUsage,
         RunProofs!NoUsage
<1>6. /\ Run!AllEnded <=> RunProofs!AllEnded
      /\ Run!HasQuorum <=> RunProofs!HasQuorum
      /\ Run!Candidates = RunProofs!Candidates
      /\ Run!Succeeded = RunProofs!Succeeded
  BY Zenon
     DEF Run!AllEnded, RunProofs!AllEnded, Run!HasQuorum, RunProofs!HasQuorum,
         Run!Candidates, RunProofs!Candidates, Run!Ordered, RunProofs!Ordered,
         Run!Successes, RunProofs!Successes, Run!InOrder, RunProofs!InOrder,
         Run!ToSet, RunProofs!ToSet, Run!Succeeded, RunProofs!Succeeded, Run!Arms, RunProofs!Arms, Run!Cardinality,
         RunProofs!Cardinality
<1>7. /\ Run!QuorumFails <=> RunProofs!QuorumFails
      /\ Run!CallAggregator <=> RunProofs!CallAggregator
      /\ Run!AggregatorUnresolved <=> RunProofs!AggregatorUnresolved
  BY <1>4, <1>6, Zenon
     DEF Run!QuorumFails, RunProofs!QuorumFails, Run!CallAggregator,
         RunProofs!CallAggregator, Run!AggregatorUnresolved, RunProofs!AggregatorUnresolved,
         Run!Arm, RunProofs!Arm, Run!NoUsage, RunProofs!NoUsage, Run!EffectiveTimeout,
         RunProofs!EffectiveTimeout, Run!Min2, RunProofs!Min2
<1>8. (Run!Disconnect <=> RunProofs!Disconnect) /\ (Run!Tick <=> RunProofs!Tick)
  BY <1>6, Zenon
     DEF Run!Disconnect, RunProofs!Disconnect, Run!Tick, RunProofs!Tick, Run!ArmDue,
         RunProofs!ArmDue, Run!EffectiveTimeout, RunProofs!EffectiveTimeout, Run!Min2,
         RunProofs!Min2
<1>9. Run!Next <=> RunProofs!Next
  BY <1>3, <1>5, <1>7, <1>8, Zenon
     DEF Run!Next, RunProofs!Next, Run!TimerFires, RunProofs!TimerFires, Run!Arms,
         RunProofs!Arms
<1>10. /\ Run!WithinDeadline <=> RunProofs!WithinDeadline
       /\ Run!FailsClosed <=> RunProofs!FailsClosed
       /\ Run!EveryArmBooked <=> RunProofs!EveryArmBooked
       /\ Run!CostOnlyIfOk <=> RunProofs!CostOnlyIfOk
  BY Zenon
     DEF Run!WithinDeadline, RunProofs!WithinDeadline, Run!FailsClosed,
         RunProofs!FailsClosed, Run!EveryArmBooked, RunProofs!EveryArmBooked,
         Run!CostOnlyIfOk, RunProofs!CostOnlyIfOk, Run!Contribution, RunProofs!Contribution,
         Run!Succeeded, RunProofs!Succeeded, Run!Arms, RunProofs!Arms, Run!Cardinality,
         RunProofs!Cardinality
<1>11. Run!CandidatesInRecipeOrder <=> RunProofs!CandidatesInRecipeOrder
  BY <1>6, Zenon
     DEF Run!CandidatesInRecipeOrder, RunProofs!CandidatesInRecipeOrder, Run!ToSet,
         RunProofs!ToSet
<1>12. Run!TypeOK <=> RunProofs!TypeOK
  BY Zenon
     DEF Run!TypeOK, RunProofs!TypeOK, Run!ArmStates, RunProofs!ArmStates, Run!RowStates,
         RunProofs!RowStates, Run!Tokens, RunProofs!Tokens, Run!Arms, RunProofs!Arms,
         Run!IsInjective, RunProofs!IsInjective
<1>13. \A reports, field : Run!Total(reports, field) = RunProofs!Total(reports, field)
  BY Zenon
     DEF Run!Total, RunProofs!Total, Run!SumFunctionOnSet, RunProofs!SumFunctionOnSet,
         Run!FoldFunctionOnSet, RunProofs!FoldFunctionOnSet, Run!MapThenFoldSet,
         RunProofs!MapThenFoldSet
<1>14. Run!ReplyMatchesLedger <=> RunProofs!ReplyMatchesLedger
  BY <1>6, <1>13, Zenon
     DEF Run!ReplyMatchesLedger, RunProofs!ReplyMatchesLedger, Run!ReplyUsage,
         RunProofs!ReplyUsage, Run!SumUsage, RunProofs!SumUsage, Run!Contribution,
         RunProofs!Contribution
<1> QED BY <1>1, <1>9, <1>10, <1>11, <1>12, <1>14

\* What is proved of a run holds over a shared upstream: its deadline, its
\* quorum, what its aggregator is shown and its books do not depend on what its
\* arms wait for.
COROLLARY RunSafeOverUpstream ==
  MoaSpec => [](/\ Run!WithinDeadline /\ Run!FailsClosed /\ Run!CandidatesInRecipeOrder
                /\ Run!EveryArmBooked /\ Run!CostOnlyIfOk /\ Run!ReplyMatchesLedger
                /\ Run!TypeOK)
<1>1. RunProofs!Spec => []RunProofs!WithinDeadline
  BY CompositionAssumption, RunProofs!DeadlineKept
<1>2. RunProofs!Spec => []RunProofs!FailsClosed
  BY CompositionAssumption, RunProofs!QuorumKept
<1>3. RunProofs!Spec => []RunProofs!CandidatesInRecipeOrder
  BY CompositionAssumption, RunProofs!CandidatesOrdered
<1>4. RunProofs!Spec => []RunProofs!EveryArmBooked
  BY CompositionAssumption, RunProofs!ArmsBooked
<1>5. RunProofs!Spec => []RunProofs!CostOnlyIfOk
  BY CompositionAssumption, RunProofs!CostsAgree
<1>6. RunProofs!Spec => []RunProofs!ReplyMatchesLedger
  BY CompositionAssumption, RunProofs!LedgerMatched
<1>7. RunProofs!Spec => []RunProofs!TypeOK
  BY CompositionAssumption, RunProofs!RunTyped
<1>8. Run!Spec => RunProofs!Spec
  BY SameRun, PTL DEF Run!Spec, RunProofs!Spec
<1> QED BY ArmsImplementRun, SameRun, <1>1, <1>2, <1>3, <1>4, <1>5, <1>6, <1>7, <1>8, PTL
=============================================================================
