------------------------------- MODULE MoaRun --------------------------------
(***************************************************************************)
(* One MoA request: Orchestrator::run in crates/moaray-moa/src/            *)
(* orchestrator.rs, driven by run_moa in crates/moaray/src/app.rs.  The    *)
(* proposer arms run concurrently inside the request's own future, each    *)
(* under a timer; when all have ended, and enough of them well, an         *)
(* aggregator call follows; then every arm is booked and the reply goes    *)
(* out.  The future is dropped, with all its arms, when the client leaves. *)
(*                                                                         *)
(* Code between two awaits cannot be interrupted: it is one step.          *)
(***************************************************************************)
EXTENDS Naturals, Sequences, FiniteSets, SequencesExt, Ordering

CONSTANTS
  N,               \* proposers of the recipe; arm i is the i-th
  Quorum,          \* Recipe.quorum
  ArmTimeout,      \* Recipe.arm_timeout_ms, in ticks
  RequestTimeout,  \* server.request_timeout_ms, in ticks
  Priced,          \* the arms whose model has both prices; 0 is the aggregator
  Usages,          \* the usage objects an upstream may report
  MayBeUnresolved, \* whether the resolver may lack the aggregator's provider:
                   \* never in the gateway, whose registry builds them all, but
                   \* the orchestrator does not rely on it
  Null             \* an absent value

Arms == 1..N

\* A usage object, as far as it is read: prompt and completion tokens, each of
\* which may be missing.  NoUsage is a response without one.
NoUsage == [prompt |-> Null, completion |-> Null]

\* validate.rs: at least one proposer, 1 <= quorum <= proposers.  Neither the
\* timeouts nor the prices are constrained.
ASSUME RecipeAssumption ==
  /\ N \in Nat \ {0}
  /\ Quorum \in 1..N
  /\ ArmTimeout \in Nat /\ RequestTimeout \in Nat
  /\ Priced \subseteq 0..N
  /\ Null \notin Nat
  /\ MayBeUnresolved \in BOOLEAN
  /\ Usages \subseteq [prompt : Nat \cup {Null}, completion : Nat \cup {Null}]

VARIABLES
  phase,      \* "fanout", "aggregate", "done", or "gone" with the client
  elapsed,    \* time since run_moa computed the deadline
  arm,        \* status and tokens of each proposer arm
  completed,  \* the arms in completion order, as FuturesUnordered yields them
  candidates, \* the arms whose answers the aggregator is shown, in that order
  aggregator, \* status and tokens of the aggregator arm
  agg_due,    \* when the aggregator's timer fires
  outcome,    \* MoaRun.outcome
  rows        \* the usage rows handed to the sink, in order

vars == <<phase, elapsed, arm, completed, candidates, aggregator, agg_due, outcome, rows>>

Arm(status, usage) ==
  [status |-> status, prompt |-> usage.prompt, completion |-> usage.completion]

Min2(a, b) == IF a <= b THEN a ELSE b

\* Mutant of EffectiveTimeout: the time left for the request is not looked at.
FullArmTimeout(now) == ArmTimeout

\* effective_timeout: the recipe's budget or what is left of the request's.
EffectiveTimeout(now) ==
  Min2(ArmTimeout, IF now < RequestTimeout THEN RequestTimeout - now ELSE 0)

ArmDue == EffectiveTimeout(0)

Init ==
  /\ phase = "fanout"
  /\ elapsed = 0
  /\ arm = [i \in Arms |-> Arm("running", NoUsage)]
  /\ completed = <<>>
  /\ candidates = <<>>
  /\ aggregator = Arm("none", NoUsage)
  /\ agg_due = 0
  /\ outcome = "none"
  /\ rows = <<>>

-----------------------------------------------------------------------------
(* Proposer arms: run_arm *)

\* Mutant of ArmEnds: an arm may end twice.
ArmEndsAgain(i, result) ==
  /\ phase = "fanout"
  /\ arm' = [arm EXCEPT ![i] = result]
  /\ completed' = Append(completed, i)
  /\ UNCHANGED <<phase, elapsed, candidates, aggregator, agg_due, outcome, rows>>

ArmEnds(i, result) ==
  /\ phase = "fanout"
  /\ arm[i].status = "running"
  /\ arm' = [arm EXCEPT ![i] = result]
  /\ completed' = Append(completed, i)
  /\ UNCHANGED <<phase, elapsed, candidates, aggregator, agg_due, outcome, rows>>

ArmAnswers(i, u) == ArmEnds(i, Arm("ok", u))
ArmFails(i)      == ArmEnds(i, Arm("error", NoUsage))
ArmTimesOut(i)   == elapsed >= ArmDue /\ ArmEnds(i, Arm("timeout", NoUsage))

Succeeded == {i \in Arms : arm[i].status = "ok"}

\* Mutant of AllEnded: the run goes on as soon as the quorum stands.
EnoughEnded ==
  Cardinality(Succeeded) >= Quorum \/ \A i \in Arms : arm[i].status # "running"

\* fan_out returns when FuturesUnordered has yielded every arm.
AllEnded == \A i \in Arms : arm[i].status # "running"

-----------------------------------------------------------------------------
(* Booking: book_moa_arm, in run_moa *)

\* Mutant of UsageStatus: one token count is enough.
UsageStatusOfEither(id, a) ==
  CASE a.status = "timeout" -> "timeout"
    [] a.status = "error"   -> "failed"
    [] a.prompt = Null /\ a.completion = Null -> "ok_no_usage"
    [] OTHER -> IF id \in Priced THEN "ok" ELSE "unpriced"

\* The persisted status of an arm: usage_status for an answer, else its class.
UsageStatus(id, a) ==
  CASE a.status = "timeout" -> "timeout"
    [] a.status = "error"   -> "failed"
    [] a.prompt = Null \/ a.completion = Null -> "ok_no_usage"
    [] OTHER -> IF id \in Priced THEN "ok" ELSE "unpriced"

\* compute_cost: defined if both token counts and both prices are.
HasCost(id, a) == a.prompt # Null /\ a.completion # Null /\ id \in Priced

\* The row of arm id (0: the aggregator).
Row(id, a) ==
  [arm |-> id, status |-> UsageStatus(id, a),
   prompt |-> a.prompt, completion |-> a.completion, cost |-> HasCost(id, a)]

\* Mutant of RowsOf: proposers whose answer is unusable are left out.
RowsOfAnswers(agg) ==
  LET answered == SetToSortSeq(Succeeded, <) IN
  [i \in 1..Len(answered) |-> Row(answered[i], arm[answered[i]])]
    \o (IF agg.status = "none" THEN <<>> ELSE <<Row(0, agg)>>)

\* Every proposer in recipe order, then the aggregator if it was called.
RowsOf(agg) ==
  [i \in Arms |-> Row(i, arm[i])]
    \o (IF agg.status = "none" THEN <<>> ELSE <<Row(0, agg)>>)

\* run() returns; run_moa books its arms whatever the outcome and replies.
Respond(o, agg) ==
  /\ phase' = "done"
  /\ outcome' = o
  /\ aggregator' = agg
  /\ rows' = RowsOf(agg)

-----------------------------------------------------------------------------
(* The rest of Orchestrator::run *)

\* Mutant of Ordered: the completion order is kept.
AsCompleted(s) == s

\* Outcomes and successes are sorted by recipe index; no arm is in them twice.
Ordered(s) == InOrder(ToSet(s))

\* The arms that answered, as they are collected: in completion order.
Successes ==
  LET places == InOrder({n \in DOMAIN completed : arm[completed[n]].status = "ok"})
  IN  [k \in DOMAIN places |-> completed[places[k]]]

Candidates == Ordered(Successes)

\* Mutant of HasQuorum: a run that misses its quorum by one goes on.
HasQuorumButOne == Cardinality(Succeeded) + 1 >= Quorum

HasQuorum == Cardinality(Succeeded) >= Quorum

\* The last arm has ended.  Without quorum the run fails closed.
QuorumFails ==
  /\ phase = "fanout" /\ AllEnded /\ ~HasQuorum
  /\ Respond("quorum_failed", aggregator)
  /\ UNCHANGED <<elapsed, arm, completed, candidates, agg_due>>

\* With it, the prompt is built from the candidates and the aggregator called
\* under what is left of the deadline ...
CallAggregator ==
  /\ phase = "fanout" /\ AllEnded /\ HasQuorum
  /\ candidates' = Candidates
  /\ phase' = "aggregate"
  /\ aggregator' = Arm("running", NoUsage)
  /\ agg_due' = elapsed + EffectiveTimeout(elapsed)
  /\ UNCHANGED <<elapsed, arm, completed, outcome, rows>>

\* ... unless the resolver has no provider for it.
AggregatorUnresolved ==
  /\ phase = "fanout" /\ AllEnded /\ HasQuorum
  /\ MayBeUnresolved
  /\ candidates' = Candidates
  /\ Respond("internal", aggregator)
  /\ UNCHANGED <<elapsed, arm, completed, agg_due>>

Collect == QuorumFails \/ CallAggregator \/ AggregatorUnresolved

AggregatorEnds(o, agg) ==
  /\ phase = "aggregate"
  /\ Respond(o, agg)
  /\ UNCHANGED <<elapsed, arm, completed, candidates, agg_due>>

AggregatorAnswers(u) == AggregatorEnds("ok", Arm("ok", u))
AggregatorFails      == AggregatorEnds("upstream_error", Arm("error", NoUsage))
AggregatorTimesOut   ==
  elapsed >= agg_due /\ AggregatorEnds("upstream_timeout", Arm("timeout", NoUsage))

Contribution(i) == IF i = 0 THEN aggregator ELSE arm[i]

\* One field of some reports, added up; what is missing contributes nothing.
Total(reports, field) ==
  SumFunctionOnSet([i \in DOMAIN reports |-> reports[i][field]],
                   {i \in DOMAIN reports : reports[i][field] # Null})

\* Mutant of SumUsage: the aggregator's own usage is forgotten.
SumUsageOfProposers(field) == Total([i \in Succeeded |-> arm[i]], field)

\* sum_usage: one field over the successful proposers and the aggregator.
SumUsage(field) == Total([i \in Succeeded \cup {0} |-> Contribution(i)], field)

\* The usage of the reply, when there is one.
ReplyUsage == [prompt |-> SumUsage("prompt"), completion |-> SumUsage("completion")]

-----------------------------------------------------------------------------
\* The client leaves while the future waits: it is dropped and nothing is booked.
Disconnect ==
  /\ (phase = "fanout" /\ ~AllEnded) \/ phase = "aggregate"
  /\ phase' = "gone"
  /\ UNCHANGED <<elapsed, arm, completed, candidates, aggregator, agg_due, outcome, rows>>

\* Time passes up to the next timer, which fires when it is due.
Tick ==
  /\ \/ phase = "fanout" /\ ~AllEnded /\ elapsed < ArmDue
     \/ phase = "aggregate" /\ elapsed < agg_due
  /\ elapsed' = elapsed + 1
  /\ UNCHANGED <<phase, arm, completed, candidates, aggregator, agg_due, outcome, rows>>

TimerFires == (\E i \in Arms : ArmTimesOut(i)) \/ AggregatorTimesOut

Next ==
  \/ \E i \in Arms : (\E u \in Usages : ArmAnswers(i, u)) \/ ArmFails(i)
  \/ \E u \in Usages : AggregatorAnswers(u)
  \/ AggregatorFails
  \/ TimerFires
  \/ QuorumFails \/ CallAggregator \/ AggregatorUnresolved
  \/ Disconnect
  \/ Tick

Spec == Init /\ [][Next]_vars

-----------------------------------------------------------------------------
(* Properties *)

Tokens == {u.prompt : u \in Usages} \cup {u.completion : u \in Usages} \cup {Null}
ArmStates == [status : {"none", "running", "ok", "timeout", "error"},
              prompt : Tokens, completion : Tokens]
RowStates == [arm : 0..N, status : {"ok", "ok_no_usage", "unpriced", "failed", "timeout"},
              prompt : Tokens, completion : Tokens, cost : BOOLEAN]

TypeOK ==
  /\ phase \in {"fanout", "aggregate", "done", "gone"}
  /\ elapsed \in Nat
  /\ arm \in [Arms -> ArmStates]
  /\ completed \in Seq(Arms) /\ IsInjective(completed)
  /\ candidates \in Seq(Arms)
  /\ aggregator \in ArmStates
  /\ agg_due \in Nat
  /\ outcome \in {"none", "ok", "quorum_failed", "internal", "upstream_error", "upstream_timeout"}
  /\ rows \in Seq(RowStates) /\ Len(rows) <= N + 1

\* Fail closed: the aggregator is called, and a completion returned, only on a
\* quorum of proposers, and a run that lacks one says so instead of returning a
\* partial result.
FailsClosed ==
  /\ aggregator.status # "none" => Cardinality(Succeeded) >= Quorum
  /\ outcome = "ok" => aggregator.status = "ok"
  /\ outcome = "quorum_failed" <=> phase = "done" /\ Cardinality(Succeeded) < Quorum

\* The aggregator is shown the answers of exactly the arms that succeeded,
\* numbered in recipe order whatever the order in which they came
\* (FuturesUnordered yields them as they finish).
CandidatesInRecipeOrder ==
  aggregator.status # "none" =>
    /\ ToSet(candidates) = Succeeded
    /\ \A m, n \in 1..Len(candidates) : m < n => candidates[m] < candidates[n]

\* A run that returns has booked every arm that ran, once, under its own arm
\* and with its own tokens: no early return of run() loses a row that cost
\* money (orchestrator.rs, "always carry outcomes").
EveryArmBooked ==
  phase = "done" =>
    LET called == Arms \cup (IF aggregator.status = "none" THEN {} ELSE {0}) IN
    /\ \A id \in called : \E n \in 1..Len(rows) :
         /\ rows[n].arm = id
         /\ rows[n].prompt = Contribution(id).prompt
         /\ rows[n].completion = Contribution(id).completion
    /\ Len(rows) = Cardinality(called)

\* Status and cost of a row agree, though two functions decide them: there is a
\* cost exactly when the status is ok; unmeasured is never recorded as free.
CostOnlyIfOk == \A n \in 1..Len(rows) : rows[n].cost <=> rows[n].status = "ok"

\* What the client is told it used is what the ledger says it used.
ReplyMatchesLedger ==
  outcome = "ok" =>
    \A field \in {"prompt", "completion"} : ReplyUsage[field] = Total(rows, field)

\* run_moa has no timeout of its own: the timers of the arms, one after the
\* other, keep the run within the deadline of the request.
WithinDeadline == elapsed <= RequestTimeout
=============================================================================
