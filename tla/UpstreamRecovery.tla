-------------------------- MODULE UpstreamRecovery --------------------------
(***************************************************************************)
(* GovernedUpstream in an environment that may heal: from some moment on   *)
(* the upstream answers every attempt without a fault and in time, streams *)
(* end, and callers keep coming; a caller may still leave, or time out,    *)
(* while it queues for a permit.  healthy is a fact about the environment, *)
(* not a variable of the program.                                          *)
(***************************************************************************)
EXTENDS GovernedUpstream

VARIABLE healthy

recoveryVars == <<vars, healthy>>

\* Once healthy, no attempt ends badly and none has to be repeated.
NoNewFault ==
  \A c \in Calls :
    /\ outcome'[c] # outcome[c] => outcome'[c] \in {"none", "ok", "neutral"}
    /\ attempt'[c] <= attempt[c]

Step(A) == A /\ (healthy => NoNewFault) /\ UNCHANGED healthy

Heal == ~healthy /\ healthy' = TRUE /\ UNCHANGED vars

RecoveryInit == Init /\ healthy = FALSE
RecoveryNext == Step(Next) \/ Heal

Demand == \E c \in Calls, k \in Kinds : Admit(c, k)

\* The steps of the executor, of a clock and of a bucket that run, and of an
\* upstream and clients that behave.
RecoveryFairness ==
  /\ WF_recoveryVars(Step(Demand))
  /\ WF_recoveryVars(Step(Tick))
  /\ WF_recoveryVars(Step(Refill))
  /\ \A c \in Calls :
       /\ WF_recoveryVars(Step(TakeToken(c) \/ RateLimited(c)))
       /\ WF_recoveryVars(Step(Acquire(c) \/ Enqueue(c)))
       /\ WF_recoveryVars(Step(Granted(c)))
       /\ WF_recoveryVars(Step(Unadmit(c)))
       /\ WF_recoveryVars(Step(Answer(c)))
       /\ WF_recoveryVars(Step(BackoffElapsed(c)))
       /\ WF_recoveryVars(Step(Finalize(c)))
       /\ WF_recoveryVars(Step(DropPermit(c) \/ EndStream(c)))

RecoverySpec == RecoveryInit /\ [][RecoveryNext]_recoveryVars /\ RecoveryFairness

\* A breaker opened by an outage closes for good some time after the outage,
\* whatever was in flight when the upstream healed: late failures of old calls,
\* probes refused by the bucket or cancelled in the queue only delay it.
RecoversAfterOutage == <>healthy => <>[](breaker.state = "Closed")
=============================================================================
