----------------------------- MODULE MoaUpstream -----------------------------
(***************************************************************************)
(* A MoA run whose proposers and aggregator are models of one upstream:    *)
(* each arm of MoaRun is a call of GovernedUpstream, next to the calls of  *)
(* other requests.  The arms queue behind each other and behind others for *)
(* the permits of the upstream while the timers of the run go on.  (run    *)
(* and run_arm of crates/moaray-moa/src/orchestrator.rs, over chat of      *)
(* crates/moaray/src/governed.rs.)                                         *)
(***************************************************************************)
EXTENDS GovernedUpstream

CONSTANTS N, Quorum, ArmTimeout, RequestTimeout, Priced, Usages, MayBeUnresolved, Null

VARIABLES
  phase, elapsed, arm, completed, candidates, aggregator, agg_due, reply, rows,
  result  \* what chat(), or the timer around it, has come to for each call

Run == INSTANCE MoaRun WITH outcome <- reply

\* The calls of the run: its proposers, and 0 for the aggregator.
Own == 0..N
Others == Calls \ Own

\* RecipeAssumption of MoaRun, and its calls are among those of the upstream.
ASSUME CompositionAssumption ==
  /\ N \in Nat \ {0} /\ Own \subseteq Calls
  /\ Quorum \in 1..N
  /\ ArmTimeout \in Nat /\ RequestTimeout \in Nat
  /\ Priced \subseteq 0..N
  /\ Null \notin Nat
  /\ MayBeUnresolved \in BOOLEAN
  /\ Usages \subseteq [prompt : Nat \cup {Null}, completion : Nat \cup {Null}]

runVars == <<phase, elapsed, arm, completed, candidates, aggregator, agg_due, reply, rows>>
moaVars == <<vars, runVars, result>>

Results == {"none", "ok", "error", "timeout"}

MoaInit ==
  /\ Init /\ Run!Init
  /\ result = [c \in Own |-> "none"]

-----------------------------------------------------------------------------
(* One call of the run.  All of them are polled by the one task of the        *)
(* request: while one is between two awaits the others stand still.           *)

MidPoll(c) == pc[c] \in {"limit", "acquire", "unadmit", "finalize", "release"}
Polls(c) == \A d \in Own \ {c} : ~MidPoll(d)
AtAwaits == \A c \in Own : ~MidPoll(c)

Called(c) == IF c = 0 THEN phase = "aggregate" ELSE phase = "fanout" /\ arm[c].status = "running"
Due(c) == IF c = 0 THEN agg_due ELSE Run!ArmDue

Comes(c, r) == result' = [result EXCEPT ![c] = r]

\* run_arm returns the outcome of an arm, or run() goes on with the aggregator's.
Ends(c, r) ==
  \/ r = "ok"      /\ \E u \in Usages : IF c = 0 THEN Run!AggregatorAnswers(u)
                                                 ELSE Run!ArmAnswers(c, u)
  \/ r = "error"   /\ IF c = 0 THEN Run!AggregatorFails ELSE Run!ArmFails(c)
  \/ r = "timeout" /\ IF c = 0 THEN Run!AggregatorTimesOut ELSE Run!ArmTimesOut(c)

\* First poll of chat(): breaker.check() lets the call in, or fails it at once.
Begin(c) ==
  /\ Polls(c) /\ Called(c) /\ pc[c] = "idle"
  /\ \/ Admit(c, "unary") /\ UNCHANGED runVars
     \/ CheckAnswer(breaker) \notin Admissions /\ Ends(c, "error") /\ UNCHANGED vars
  /\ UNCHANGED result

Gates(c) ==
  /\ Polls(c)
  /\ \/ (TakeToken(c) \/ Acquire(c) \/ Enqueue(c)) /\ UNCHANGED result
     \/ RateLimited(c) /\ Comes(c, "error")
  /\ UNCHANGED runVars

\* The semaphore, the upstream and the backoff timer let the call go on.
GoesOn(c) ==
  /\ Polls(c) /\ Called(c)
  /\ \/ (Granted(c) \/ RetryLater(c) \/ BackoffElapsed(c)) /\ UNCHANGED result
     \/ Answer(c) /\ Comes(c, IF outcome'[c] = "ok" THEN "ok" ELSE "error")
  /\ UNCHANGED runVars

\* tokio::time::timeout gives up on the call, in the queue or on the upstream.
GivesUp(c) ==
  /\ Polls(c) /\ Called(c) /\ elapsed >= Due(c)
  /\ Timeout(c)
  /\ Comes(c, "timeout")
  /\ UNCHANGED runVars

\* The client has left: the futures are dropped one after the other.
Dropped(c) ==
  /\ Polls(c) /\ phase = "gone"
  /\ Disconnect(c)
  /\ UNCHANGED <<runVars, result>>

\* The guards of a call run before its outcome is looked at: the future is a
\* temporary of the statement that awaits it.
Reports(c) == Finalize(c) /\ UNCHANGED <<runVars, result>>

Returns(c) ==
  /\ Unadmit(c) \/ DropPermit(c)
  /\ IF phase = "gone" THEN UNCHANGED runVars ELSE Ends(c, result[c])
  /\ Comes(c, "none")

-----------------------------------------------------------------------------
(* The run, and everybody else *)

RunGoesOn ==
  /\ AtAwaits
  /\ Run!Collect \/ Run!Disconnect
  /\ UNCHANGED <<vars, result>>

TimePasses == Run!Tick /\ UNCHANGED <<vars, result>>

OthersGoOn ==
  /\ \/ \E c \in Others :
          \/ \E k \in Kinds : Admit(c, k)
          \/ TakeToken(c) \/ RateLimited(c)
          \/ Acquire(c) \/ Enqueue(c) \/ Granted(c)
          \/ Timeout(c) \/ Disconnect(c) \/ Unadmit(c)
          \/ Answer(c) \/ RetryLater(c) \/ BackoffElapsed(c)
          \/ Finalize(c) \/ DropPermit(c) \/ EndStream(c)
     \/ Refill
     \/ Tick
  /\ UNCHANGED <<runVars, result>>

MoaNext ==
  \/ \E c \in Own :
       \/ Begin(c) \/ Gates(c) \/ GoesOn(c) \/ GivesUp(c) \/ Dropped(c)
       \/ Reports(c) \/ Returns(c)
  \/ RunGoesOn
  \/ TimePasses
  \/ OthersGoOn

\* The request's task is polled and its timers fire.  Nothing is assumed of the
\* upstream or of the other calls: a stream may keep its permit for ever.
MoaFairness ==
  /\ WF_moaVars(RunGoesOn /\ phase' # "gone")
  /\ WF_moaVars(TimePasses)
  /\ \A c \in Own :
       /\ WF_moaVars(Begin(c))
       /\ WF_moaVars(Gates(c))
       /\ WF_moaVars(GivesUp(c))
       /\ WF_moaVars(Dropped(c))
       /\ WF_moaVars(Reports(c))
       /\ WF_moaVars(Returns(c))

MoaSpec == MoaInit /\ [][MoaNext]_moaVars /\ MoaFairness

-----------------------------------------------------------------------------
(* Properties *)

\* The aggregator never queues behind proposers of its own run, and a run that
\* has replied keeps nothing of the upstream: run() goes on only when every arm
\* has ended and its guards have run (orchestrator.rs fan_out, run_arm).  With
\* one permit, a run that went on at the quorum would wait for itself.
NothingHeldBehind ==
  /\ phase = "aggregate" => \A i \in Run!Arms : pc[i] = "idle"
  /\ phase = "done" => \A c \in Own : pc[c] = "idle"

\* Whatever else the upstream is busy with, and though it never answers, a run
\* replies or has been left by its client, and in the end none of its calls holds
\* a permit, a place in the queue or the probe slot of the breaker.
RunSettles ==
  phase = "fanout" ~>
    /\ phase \in {"done", "gone"}
    /\ \A c \in Own : pc[c] = "idle" /\ admission[c] = "none"
=============================================================================
