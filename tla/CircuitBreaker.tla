--------------------------- MODULE CircuitBreaker ---------------------------
(***************************************************************************)
(* The per-upstream circuit breaker of crates/moaray/src/breaker.rs: the   *)
(* value behind its mutex and, for each method, the value it leaves there. *)
(* Every method runs under the mutex, so each is one atomic step of        *)
(* whatever module uses it.                                                *)
(*                                                                         *)
(* opened_at is an Instant that is only ever compared with the clock; it   *)
(* is kept as open_for, the time elapsed since, and saturates at OpenMs    *)
(* because nothing tells longer times apart.                               *)
(***************************************************************************)
EXTENDS Naturals

CONSTANTS
  FailureThreshold,   \* BreakerConfig.failure_threshold; not validated, may be 0
  HalfOpenSuccesses,  \* BreakerConfig.half_open_successes; not validated, may be 0
  OpenMs              \* BreakerConfig.open_ms, in ticks

ASSUME BreakerAssumption ==
  /\ FailureThreshold \in Nat
  /\ HalfOpenSuccesses \in Nat
  /\ OpenMs \in Nat

BreakerStates == {"Closed", "Open", "HalfOpen"}

\* The tokens check_at grants; the outcome is reported with the same token.
Admissions == {"Normal", "Probe"}

Breakers == [state                 : BreakerStates,
             consecutive_failures  : Nat,
             consecutive_successes : Nat,
             open_for              : 0..OpenMs,
             probe_in_flight       : BOOLEAN]

NewBreaker == [state                 |-> "Closed",
               consecutive_failures  |-> 0,
               consecutive_successes |-> 0,
               open_for              |-> 0,
               probe_in_flight       |-> FALSE]

-----------------------------------------------------------------------------
CooledDown(b) == b.state = "Open" /\ b.open_for >= OpenMs

\* The answer of check_at: an admission token, or the CircuitOpen error.
CheckAnswer(b) ==
  CASE b.state = "Closed"                             -> "Normal"
    [] b.state = "HalfOpen" /\ ~b.probe_in_flight     -> "Probe"
    [] CooledDown(b)                                  -> "Probe"
    [] OTHER                                          -> "CircuitOpen"

\* Mutant of AfterCheck: every probe restarts the count of successes.
AfterCheckRecounting(b) ==
  IF CheckAnswer(b) # "Probe" THEN b
  ELSE [b EXCEPT !.state = "HalfOpen",
                 !.probe_in_flight = TRUE,
                 !.consecutive_successes = 0]

\* What check_at leaves behind: a probe reserves the slot, and the first one
\* after a cooldown also starts a new half-open period.
AfterCheck(b) ==
  IF CheckAnswer(b) # "Probe" THEN b
  ELSE [b EXCEPT !.state = "HalfOpen",
                 !.probe_in_flight = TRUE,
                 !.consecutive_successes = IF b.state = "Open" THEN 0 ELSE @]

\* Mutant of OnSuccess: the token is ignored, so that a late Normal success
\* counts for the probe.
OnSuccessIgnoringToken(b, admission) ==
  CASE b.state = "Closed" -> [b EXCEPT !.consecutive_failures = 0]
    [] b.state = "HalfOpen" ->
         IF b.consecutive_successes + 1 >= HalfOpenSuccesses
         THEN NewBreaker
         ELSE [b EXCEPT !.probe_in_flight = FALSE,
                        !.consecutive_successes = @ + 1]
    [] OTHER -> b

OnSuccess(b, admission) ==
  CASE b.state = "Closed" -> [b EXCEPT !.consecutive_failures = 0]
    [] b.state = "HalfOpen" /\ admission = "Probe" ->
         IF b.consecutive_successes + 1 >= HalfOpenSuccesses
         THEN NewBreaker
         ELSE [b EXCEPT !.probe_in_flight = FALSE,
                        !.consecutive_successes = @ + 1]
    [] OTHER -> b

OnFailure(b, admission) ==
  CASE b.state = "Closed" ->
         LET failures == b.consecutive_failures + 1 IN
         IF failures >= FailureThreshold
         THEN [b EXCEPT !.consecutive_failures = failures,
                        !.state = "Open", !.open_for = 0]
         ELSE [b EXCEPT !.consecutive_failures = failures]
    [] b.state = "HalfOpen" /\ admission = "Probe" ->
         [b EXCEPT !.state = "Open", !.open_for = 0,
                   !.consecutive_successes = 0, !.probe_in_flight = FALSE]
    [] b.state = "Open" -> [b EXCEPT !.open_for = 0]
    [] OTHER -> b

ReleaseProbe(b) ==
  IF b.state = "HalfOpen" THEN [b EXCEPT !.probe_in_flight = FALSE] ELSE b

\* The passage of one tick, as far as opened_at can tell.
Elapse(b) == [b EXCEPT !.open_for = @ + 1]
=============================================================================
