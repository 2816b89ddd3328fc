----------------------- MODULE GovernedUpstream_proofs -----------------------
(* Proofs about one governed upstream, for any number of calls, any cap, any *)
(* bucket and any thresholds of the breaker.                                 *)
EXTENDS GovernedUpstream, SequenceTheorems, FiniteSetTheorems, TLAPS

\* Removing one entry of a queue of calls leaves a queue of calls.
LEMMA RemoveAtType ==
  ASSUME NEW S, NEW s \in Seq(S), NEW i \in 1..Len(s)
  PROVE  RemoveAt(s, i) \in Seq(S)
<1>1. SubSeq(s, 1, i-1) \in Seq(S) /\ SubSeq(s, i+1, Len(s)) \in Seq(S)
  BY SubSeqProperties, LenProperties
<1>2. QED
  BY <1>1, ConcatProperties DEF RemoveAt

\* Every method of the breaker keeps its value well-formed.
LEMMA BreakerTypes ==
  ASSUME NEW b \in Breakers, NEW a
  PROVE  /\ NewBreaker \in Breakers
         /\ AfterCheck(b) \in Breakers
         /\ OnSuccess(b, a) \in Breakers
         /\ OnFailure(b, a) \in Breakers
         /\ ReleaseProbe(b) \in Breakers
         /\ b.open_for < OpenMs => Elapse(b) \in Breakers
<1> USE DEF Breakers, BreakerStates
<1>a. /\ 0 \in 0..OpenMs /\ 0 \in Nat
      /\ b.consecutive_failures + 1 \in Nat
      /\ b.consecutive_successes + 1 \in Nat
      /\ b.open_for < OpenMs => b.open_for + 1 \in 0..OpenMs
  BY BreakerAssumption
<1>1. NewBreaker \in Breakers
  BY <1>a DEF NewBreaker
<1>2. AfterCheck(b) \in Breakers
  BY <1>a DEF AfterCheck
<1>3. OnSuccess(b, a) \in Breakers
  <2>1. CASE b.state = "Closed"
    BY <1>a, <2>1 DEF OnSuccess
  <2>2. CASE b.state = "HalfOpen" /\ a = "Probe"
    <3>1. CASE b.consecutive_successes + 1 >= HalfOpenSuccesses
      BY <1>1, <2>2, <3>1 DEF OnSuccess
    <3>2. CASE ~(b.consecutive_successes + 1 >= HalfOpenSuccesses)
      BY <1>a, <2>2, <3>2 DEF OnSuccess
    <3>3. QED
      BY <3>1, <3>2
  <2>3. CASE b.state = "Open" \/ (b.state = "HalfOpen" /\ a # "Probe")
    BY <2>3 DEF OnSuccess
  <2>4. QED
    BY <2>1, <2>2, <2>3
<1>4. OnFailure(b, a) \in Breakers
  BY <1>a DEF OnFailure
<1>5. ReleaseProbe(b) \in Breakers
  BY <1>a DEF ReleaseProbe
<1>6. b.open_for < OpenMs => Elapse(b) \in Breakers
  BY <1>a DEF Elapse
<1>7. QED
  BY <1>1, <1>2, <1>3, <1>4, <1>5, <1>6

-----------------------------------------------------------------------------
(* Type correctness *)

\* The initial values are of their types.
LEMMA TypeInit == Init => TypeOK
<1>1. NewBreaker \in Breakers
  BY BreakerAssumption DEF NewBreaker, Breakers, BreakerStates
<1>2. QED
  BY <1>1, GovernanceAssumption
     DEF Init, TypeOK, Places, Admissions, Kinds, Outcomes

\* Every variable keeps its type in every step.
LEMMA TypeStep == TypeOK /\ [Next]_vars => TypeOK'
<1> SUFFICES ASSUME TypeOK, [Next]_vars
             PROVE  TypeOK'
  OBVIOUS
<1> USE GovernanceAssumption
<1>a. \A c \in Calls, place \in Places : Goto(c, place) => pc' \in [Calls -> Places]
  BY DEF TypeOK, Goto
<1>1. ASSUME NEW c \in Calls, NEW k \in Kinds, Admit(c, k)
      PROVE  TypeOK'
  <2>1. AfterCheck(breaker) \in Breakers
    BY BreakerTypes DEF TypeOK
  <2>2. QED
    BY <1>1, <1>a, <2>1 DEF TypeOK, Admit, Places
<1>2. ASSUME NEW c \in Calls, TakeToken(c) \/ RateLimited(c)
      PROVE  TypeOK'
  BY <1>2, <1>a DEF TypeOK, TakeToken, RateLimited, Limited, Places
<1>3. ASSUME NEW c \in Calls, Acquire(c)
      PROVE  TypeOK'
  BY <1>3, <1>a DEF TypeOK, Acquire, Capped, Places
<1>4. ASSUME NEW c \in Calls, Enqueue(c)
      PROVE  TypeOK'
  BY <1>4, <1>a DEF TypeOK, Enqueue, Places
<1>5. ASSUME NEW c \in Calls, Granted(c)
      PROVE  TypeOK'
  BY <1>5, <1>a DEF TypeOK, Granted, Places
<1>6. ASSUME NEW c \in Calls, CancelWaiting(c)
      PROVE  TypeOK'
  BY <1>6, <1>a, RemoveAtType DEF TypeOK, CancelWaiting, Places
<1>7. ASSUME NEW c \in Calls, NEW why \in {"timeout", "disconnect"}, Cancel(c, why)
      PROVE  TypeOK'
  BY <1>7, <1>a DEF TypeOK, Cancel, Finish, Places, Outcomes
<1>8. ASSUME NEW c \in Calls, Unadmit(c)
      PROVE  TypeOK'
  <2>1. ReleaseProbe(breaker) \in Breakers
    BY BreakerTypes DEF TypeOK
  <2>2. QED
    BY <1>8, <1>a, <2>1 DEF TypeOK, Unadmit, Places, Kinds
<1>9. ASSUME NEW c \in Calls, Answer(c)
      PROVE  TypeOK'
  BY <1>9, <1>a DEF TypeOK, Answer, Finish, Places, Outcomes
<1>10. ASSUME NEW c \in Calls, RetryLater(c)
       PROVE  TypeOK'
  BY <1>10, <1>a DEF TypeOK, RetryLater, MayRetry, Places
<1>11. ASSUME NEW c \in Calls, BackoffElapsed(c)
       PROVE  TypeOK'
  BY <1>11, <1>a DEF TypeOK, BackoffElapsed, Places
<1>12. ASSUME NEW c \in Calls, Finalize(c)
       PROVE  TypeOK'
  <2>1. /\ OnSuccess(breaker, admission[c]) \in Breakers
        /\ OnFailure(breaker, admission[c]) \in Breakers
    BY BreakerTypes DEF TypeOK
  <2>2. pc' \in [Calls -> Places]
    BY <1>12, <1>a DEF Finalize, Places
  <2>3. breaker' \in Breakers
    BY <1>12, <2>1 DEF Finalize
  <2>4. /\ admission' \in [Calls -> Admissions \cup {"none"}]
        /\ kind' \in [Calls -> Kinds]
        /\ attempt' \in [Calls -> 0..MaxRetries]
        /\ outcome' \in [Calls -> Outcomes]
    BY <1>12 DEF TypeOK, Finalize, Kinds, Outcomes
  <2>5. QED
    BY <1>12, <2>2, <2>3, <2>4 DEF TypeOK, Finalize
<1>13. ASSUME NEW c \in Calls, DropPermit(c) \/ EndStream(c)
       PROVE  TypeOK'
  BY <1>13, <1>a DEF TypeOK, DropPermit, EndStream, ReleasePermit, Places
<1>14. CASE Refill
  BY <1>14 DEF TypeOK, Refill, callVars
<1>15. CASE Tick
  <2>1. Elapse(breaker) \in Breakers
    BY <1>15, BreakerTypes DEF TypeOK, Tick
  <2>2. QED
    BY <1>15, <2>1 DEF TypeOK, Tick, callVars
<1>16. CASE UNCHANGED vars
  BY <1>16 DEF TypeOK, vars
<1>17. QED
  BY <1>1, <1>2, <1>3, <1>4, <1>5, <1>6, <1>7, <1>8, <1>9, <1>10, <1>11,
     <1>12, <1>13, <1>14, <1>15, <1>16
     DEF Next, Timeout, Disconnect

\* Every variable of the governed upstream keeps its type: in particular the
\* bucket never holds more than its burst and a call never retries more often
\* than max_retries allows.
THEOREM TypeCorrect == Spec => []TypeOK
BY TypeInit, TypeStep, PTL DEF Spec

-----------------------------------------------------------------------------
(* The probe slot *)

\* Where some guard of the call is responsible for its token: between the
\* breaker's check and the Drop that reports or releases it.
GuardedPlaces ==
  {"limit", "acquire", "waiting", "unadmit", "upstream", "backoff", "finalize"}

\* ProbeSlotOwned is not inductive alone: a reused call slot must not start
\* with a token left over from its previous call.
TokensGuarded == \A c \in Calls : admission[c] = "none" <=> pc[c] \notin GuardedPlaces

ProbeInv == TokensGuarded /\ ProbeSlotOwned

\* Most steps move one call between guarded places and touch no token.
LEMMA MoveKeepsProbeInv ==
  ASSUME TypeOK, ProbeInv, NEW c \in Calls, NEW place,
         pc[c] \in GuardedPlaces, place \in GuardedPlaces,
         pc' = [pc EXCEPT ![c] = place],
         UNCHANGED <<breaker, admission>>
  PROVE  ProbeInv'
BY DEF TypeOK, ProbeInv, TokensGuarded, ProbeSlotOwned, Probers

\* The token check_at grants is a probe only when no probe is in flight, and it
\* is then in HalfOpen with the slot taken; a Normal admission changes nothing.
LEMMA CheckFacts ==
  ASSUME NEW b \in Breakers, b.probe_in_flight => b.state = "HalfOpen"
  PROVE  /\ CheckAnswer(b) = "Probe" =>
              /\ ~b.probe_in_flight
              /\ b.state \in {"Open", "HalfOpen"}
              /\ AfterCheck(b).state = "HalfOpen"
              /\ AfterCheck(b).probe_in_flight
              /\ AfterCheck(b).consecutive_successes =
                   IF b.state = "Open" THEN 0 ELSE b.consecutive_successes
         /\ CheckAnswer(b) = "Normal" => b.state = "Closed" /\ AfterCheck(b) = b
         /\ CheckAnswer(b) \in Admissions => CheckAnswer(b) # "none"
<1>1. CheckAnswer(b) = "Probe" => ~b.probe_in_flight /\ b.state \in {"Open", "HalfOpen"}
  BY DEF CheckAnswer, CooledDown, Breakers, BreakerStates
<1>2. CheckAnswer(b) = "Normal" => b.state = "Closed" /\ AfterCheck(b) = b
  BY DEF CheckAnswer, CooledDown, Breakers, BreakerStates, AfterCheck
<1>3. CheckAnswer(b) = "Probe" =>
        /\ AfterCheck(b).state = "HalfOpen"
        /\ AfterCheck(b).probe_in_flight
        /\ AfterCheck(b).consecutive_successes =
             IF b.state = "Open" THEN 0 ELSE b.consecutive_successes
  BY DEF AfterCheck, Breakers
<1>4. QED
  BY <1>1, <1>2, <1>3 DEF Admissions

\* What reporting an outcome does, by token.  A Normal outcome leaves a
\* half-open breaker alone; a probe's outcome frees the slot.
LEMMA OutcomeFacts ==
  ASSUME NEW b \in Breakers, NEW a \in Admissions, NEW after,
         after \in {OnSuccess(b, a), OnFailure(b, a)},
         b.probe_in_flight => b.state = "HalfOpen",
         a = "Probe" => b.state = "HalfOpen"
  PROVE  /\ b.state = "HalfOpen" /\ a = "Normal" => after = b
         /\ b.state = "Open" =>
              /\ after.state = "Open" /\ ~after.probe_in_flight
              /\ after.consecutive_successes = b.consecutive_successes
         /\ b.state = "Closed" =>
              /\ after.state \in {"Closed", "Open"} /\ ~after.probe_in_flight
              /\ after.consecutive_successes = b.consecutive_successes
         /\ a = "Probe" =>
              /\ ~after.probe_in_flight
              /\ \/ /\ after.state = "HalfOpen"
                    /\ b.consecutive_successes + 1 < HalfOpenSuccesses
                    /\ after.consecutive_successes = b.consecutive_successes + 1
                 \/ /\ after.state = "Closed"
                    /\ b.consecutive_successes + 1 >= HalfOpenSuccesses
                    /\ after.consecutive_successes = 0
                 \/ after.state = "Open" /\ after.consecutive_successes = 0
<1> USE BreakerAssumption DEF Breakers, BreakerStates, Admissions
<1>1. CASE after = OnSuccess(b, a)
  <2>1. CASE b.state = "Closed"
    BY <1>1, <2>1 DEF OnSuccess
  <2>2. CASE b.state = "Open"
    BY <1>1, <2>2 DEF OnSuccess
  <2>3. CASE b.state = "HalfOpen" /\ a = "Normal"
    BY <1>1, <2>3 DEF OnSuccess
  <2>4. CASE b.state = "HalfOpen" /\ a = "Probe"
    <3>1. CASE b.consecutive_successes + 1 >= HalfOpenSuccesses
      BY <1>1, <2>4, <3>1 DEF OnSuccess, NewBreaker
    <3>2. CASE b.consecutive_successes + 1 < HalfOpenSuccesses
      BY <1>1, <2>4, <3>2 DEF OnSuccess
    <3>3. QED
      BY <3>1, <3>2
  <2>5. QED
    BY <2>1, <2>2, <2>3, <2>4
<1>2. CASE after = OnFailure(b, a)
  <2>1. CASE b.state = "Closed"
    BY <1>2, <2>1 DEF OnFailure
  <2>2. CASE b.state = "Open"
    BY <1>2, <2>2 DEF OnFailure
  <2>3. CASE b.state = "HalfOpen" /\ a = "Normal"
    BY <1>2, <2>3 DEF OnFailure
  <2>4. CASE b.state = "HalfOpen" /\ a = "Probe"
    BY <1>2, <2>4 DEF OnFailure
  <2>5. QED
    BY <2>1, <2>2, <2>3, <2>4
<1>3. QED
  BY <1>1, <1>2

\* A gateway starts Closed, with no call and no probe.
LEMMA ProbeInit == Init => ProbeInv
BY DEF Init, ProbeInv, TokensGuarded, ProbeSlotOwned, Probers, GuardedPlaces, NewBreaker

\* Every step keeps the slot and the one token that owns it together: a check
\* that elects, a completion that reports, and a refused or dropped admission
\* that releases.
LEMMA ProbeStep == TypeOK /\ ProbeInv /\ [Next]_vars => ProbeInv'
<1> SUFFICES ASSUME TypeOK, ProbeInv, [Next]_vars
             PROVE  ProbeInv'
  OBVIOUS
<1>1. ASSUME NEW c \in Calls, NEW k \in Kinds, Admit(c, k)
      PROVE  ProbeInv'
  <2> DEFINE token == CheckAnswer(breaker)
  <2>1. /\ pc[c] = "idle" /\ admission[c] = "none"
        /\ token \in {"Normal", "Probe"}
        /\ breaker' = AfterCheck(breaker)
        /\ admission' = [admission EXCEPT ![c] = token]
        /\ pc' = [pc EXCEPT ![c] = "limit"]
    BY <1>1 DEF Admit, Goto, Admissions, ProbeInv, TokensGuarded, GuardedPlaces
  <2>2. breaker.probe_in_flight => breaker.state = "HalfOpen"
    BY DEF ProbeInv, ProbeSlotOwned
  <2>3. TokensGuarded'
    BY <2>1 DEF TypeOK, ProbeInv, TokensGuarded, GuardedPlaces
  <2>4. CASE token = "Normal"
    <3>1. breaker' = breaker
      BY <2>1, <2>2, <2>4, CheckFacts DEF TypeOK
    <3>2. Probers' = Probers
      BY <2>1, <2>4 DEF Probers, TypeOK
    <3>3. QED
      BY <2>3, <3>1, <3>2 DEF ProbeInv, ProbeSlotOwned
  <2>5. CASE token = "Probe"
    <3>1. ~breaker.probe_in_flight /\ breaker'.probe_in_flight /\ breaker'.state = "HalfOpen"
      BY <2>1, <2>2, <2>5, CheckFacts DEF TypeOK
    <3>2. Probers = {}
      BY <3>1 DEF ProbeInv, ProbeSlotOwned
    <3>3. Probers' = {c}
      BY <2>1, <2>5, <3>2 DEF Probers, TypeOK
    <3>4. QED
      BY <2>3, <3>1, <3>3 DEF ProbeInv, ProbeSlotOwned
  <2>6. QED
    BY <2>1, <2>4, <2>5
<1>2. ASSUME NEW c \in Calls,
             \/ TakeToken(c) \/ RateLimited(c) \/ Acquire(c) \/ Enqueue(c) \/ Granted(c)
             \/ CancelWaiting(c) \/ Answer(c) \/ RetryLater(c) \/ BackoffElapsed(c)
             \/ \E why \in {"timeout", "disconnect"} : Cancel(c, why)
      PROVE  ProbeInv'
  <2>1. PICK place \in GuardedPlaces :
          /\ pc[c] \in GuardedPlaces
          /\ pc' = [pc EXCEPT ![c] = place]
          /\ UNCHANGED <<breaker, admission>>
    BY <1>2 DEF GuardedPlaces, Goto, TakeToken, RateLimited, Acquire, Enqueue, Granted,
                CancelWaiting, Answer, RetryLater, BackoffElapsed, Cancel, Finish
  <2>2. QED
    BY <2>1, MoveKeepsProbeInv
<1>3. ASSUME NEW c \in Calls, Unadmit(c)
      PROVE  ProbeInv'
  <2>1. /\ admission[c] \in Admissions
        /\ admission' = [admission EXCEPT ![c] = "none"]
        /\ pc' = [pc EXCEPT ![c] = "idle"]
    BY <1>3 DEF Unadmit, Goto, TypeOK, ProbeInv, TokensGuarded, GuardedPlaces
  <2>2. TokensGuarded'
    BY <2>1 DEF TypeOK, ProbeInv, TokensGuarded, GuardedPlaces
  <2>3. CASE admission[c] = "Probe"
    <3>1. breaker' = [breaker EXCEPT !.probe_in_flight = FALSE]
      BY <1>3, <2>3 DEF Unadmit, ReleaseProbe, ProbeInv, ProbeSlotOwned, Probers
    <3>2. ~breaker'.probe_in_flight
      BY <3>1 DEF TypeOK, Breakers
    <3>3. Probers' = {}
      BY <2>1, <2>3 DEF ProbeInv, ProbeSlotOwned, Probers, TypeOK
    <3>4. QED
      BY <2>2, <3>2, <3>3 DEF ProbeInv, ProbeSlotOwned
  <2>4. CASE admission[c] = "Normal"
    <3>1. breaker' = breaker
      BY <1>3, <2>4 DEF Unadmit
    <3>2. Probers' = Probers
      BY <2>1, <2>4 DEF Probers, TypeOK
    <3>3. QED
      BY <2>2, <3>1, <3>2 DEF ProbeInv, ProbeSlotOwned
  <2>5. QED
    BY <2>1, <2>3, <2>4 DEF Admissions
<1>4. ASSUME NEW c \in Calls, Finalize(c)
      PROVE  ProbeInv'
  <2>1. /\ admission[c] \in Admissions
        /\ admission' = [admission EXCEPT ![c] = "none"]
        /\ \E place \in {"streaming", "release"} : pc' = [pc EXCEPT ![c] = place]
        /\ breaker' \in {OnSuccess(breaker, admission[c]), OnFailure(breaker, admission[c])}
    BY <1>4 DEF Finalize, Goto, TypeOK, ProbeInv, TokensGuarded, GuardedPlaces
  <2>2. TokensGuarded'
    BY <2>1 DEF TypeOK, ProbeInv, TokensGuarded, GuardedPlaces
  <2>3. /\ breaker.probe_in_flight => breaker.state = "HalfOpen"
        /\ admission[c] = "Probe" => breaker.state = "HalfOpen"
    BY DEF ProbeInv, ProbeSlotOwned, Probers
  <2>4. CASE admission[c] = "Probe"
    <3>1. ~breaker'.probe_in_flight
      BY <2>1, <2>3, <2>4, OutcomeFacts DEF TypeOK
    <3>2. Probers' = {}
      BY <2>1, <2>4 DEF ProbeInv, ProbeSlotOwned, Probers, TypeOK
    <3>3. QED
      BY <2>2, <3>1, <3>2 DEF ProbeInv, ProbeSlotOwned
  <2>5. CASE admission[c] = "Normal"
    <3>1. Probers' = Probers
      BY <2>1, <2>5 DEF Probers, TypeOK
    <3>2. CASE breaker.state = "HalfOpen"
      <4>1. breaker' = breaker
        BY <2>1, <2>3, <2>5, <3>2, OutcomeFacts DEF TypeOK
      <4>2. QED
        BY <2>2, <3>1, <4>1 DEF ProbeInv, ProbeSlotOwned
    <3>3. CASE breaker.state # "HalfOpen"
      <4>a. breaker.state \in {"Closed", "Open"}
        BY <3>3 DEF TypeOK, Breakers, BreakerStates
      <4>1. ~breaker'.probe_in_flight
        BY <2>1, <2>3, <4>a, OutcomeFacts DEF TypeOK
      <4>2. Probers = {}
        BY <3>3 DEF ProbeInv, ProbeSlotOwned
      <4>3. QED
        BY <2>2, <3>1, <4>1, <4>2 DEF ProbeInv, ProbeSlotOwned
    <3>4. QED
      BY <3>2, <3>3
  <2>6. QED
    BY <2>1, <2>4, <2>5 DEF Admissions
<1>5. ASSUME NEW c \in Calls, DropPermit(c) \/ EndStream(c)
      PROVE  ProbeInv'
  <2>1. /\ pc[c] \notin GuardedPlaces
        /\ pc' = [pc EXCEPT ![c] = "idle"]
        /\ UNCHANGED <<breaker, admission>>
    BY <1>5 DEF DropPermit, EndStream, ReleasePermit, Goto, GuardedPlaces
  <2>2. QED
    BY <2>1 DEF TypeOK, ProbeInv, TokensGuarded, ProbeSlotOwned, Probers, GuardedPlaces
<1>6. CASE Refill \/ UNCHANGED vars
  BY <1>6 DEF Refill, callVars, vars, ProbeInv, TokensGuarded, ProbeSlotOwned, Probers
<1>7. CASE Tick
  <2>1. /\ breaker'.state = breaker.state
        /\ breaker'.probe_in_flight = breaker.probe_in_flight
        /\ UNCHANGED <<pc, admission>>
    BY <1>7 DEF Tick, Elapse, callVars, TypeOK, Breakers
  <2>2. QED
    BY <2>1 DEF ProbeInv, TokensGuarded, ProbeSlotOwned, Probers
<1>8. QED
  BY <1>1, <1>2, <1>3, <1>4, <1>5, <1>6, <1>7
     DEF Next, Timeout, Disconnect

\* At every moment of every run, the half-open probe slot is reserved exactly
\* when one single call is responsible for giving it back.
THEOREM ProbeSlotSafe == Spec => []ProbeSlotOwned
<1>1. ProbeInv => ProbeSlotOwned
  BY DEF ProbeInv
<1>2. QED
  BY <1>1, TypeInit, TypeStep, ProbeInit, ProbeStep, PTL DEF Spec

-----------------------------------------------------------------------------
(* The contract of the breaker *)

\* A new breaker is a contract at its start.
LEMMA ContractInitially == Init => Contract!ContractInit
BY DEF Init, Contract!ContractInit, Probers, NewBreaker

\* A step is a step of the contract or changes nothing it can see.  It takes the
\* probe invariant: only a token that owns the slot may report or release.
LEMMA ContractStep ==
  TypeOK /\ ProbeInv /\ [Next]_vars => [Contract!ContractNext]_(Contract!contractVars)
<1> SUFFICES ASSUME TypeOK, ProbeInv, [Next]_vars
             PROVE  [Contract!ContractNext]_(Contract!contractVars)
  OBVIOUS
<1> USE DEF Contract!ContractNext, Contract!contractVars
<1>a. /\ breaker.probe_in_flight => breaker.state = "HalfOpen"
      /\ \A c \in Calls : admission[c] = "Probe" => breaker.state = "HalfOpen"
  BY DEF ProbeInv, ProbeSlotOwned, Probers
<1>1. ASSUME NEW c \in Calls, NEW k \in Kinds, Admit(c, k)
      PROVE  [Contract!ContractNext]_(Contract!contractVars)
  <2> DEFINE token == CheckAnswer(breaker)
  <2>1. /\ admission[c] = "none"
        /\ token \in {"Normal", "Probe"}
        /\ breaker' = AfterCheck(breaker)
        /\ admission' = [admission EXCEPT ![c] = token]
    BY <1>1 DEF Admit, Admissions, ProbeInv, TokensGuarded, GuardedPlaces
  <2>2. CASE token = "Normal"
    <3>1. breaker' = breaker
      BY <1>a, <2>1, <2>2, CheckFacts DEF TypeOK
    <3>2. Probers' = Probers
      BY <2>1, <2>2 DEF Probers, TypeOK
    <3>3. QED
      BY <3>1, <3>2
  <2>3. CASE token = "Probe"
    <3>1. /\ ~breaker.probe_in_flight
          /\ breaker.state \in {"Open", "HalfOpen"}
          /\ breaker'.state = "HalfOpen"
          /\ breaker'.consecutive_successes =
               IF breaker.state = "Open" THEN 0 ELSE breaker.consecutive_successes
      BY <1>a, <2>1, <2>3, CheckFacts DEF TypeOK
    <3>2. Probers = {}
      BY <3>1 DEF ProbeInv, ProbeSlotOwned
    <3>3. Probers' = {c}
      BY <2>1, <2>3, <3>2 DEF Probers, TypeOK
    <3>4. Contract!Elect(c)
      BY <3>1, <3>2, <3>3 DEF Contract!Elect
    <3>5. QED
      BY <3>4
  <2>4. QED
    BY <2>1, <2>2, <2>3
<1>2. ASSUME NEW c \in Calls, Unadmit(c)
      PROVE  [Contract!ContractNext]_(Contract!contractVars)
  <2>1. /\ admission[c] \in Admissions
        /\ admission' = [admission EXCEPT ![c] = "none"]
    BY <1>2 DEF Unadmit, TypeOK, ProbeInv, TokensGuarded, GuardedPlaces
  <2>2. CASE admission[c] = "Probe"
    <3>1. Probers # {} /\ Probers' = {}
      BY <2>1, <2>2 DEF ProbeInv, ProbeSlotOwned, Probers, TypeOK
    <3>2. breaker' = [breaker EXCEPT !.probe_in_flight = FALSE]
      BY <1>2, <1>a, <2>2 DEF Unadmit, ReleaseProbe
    <3>3. /\ breaker.state = "HalfOpen" /\ breaker'.state = breaker.state
          /\ breaker'.consecutive_successes = breaker.consecutive_successes
      BY <1>a, <2>2, <3>2 DEF TypeOK, Breakers
    <3>4. Contract!Abandon
      BY <3>1, <3>3 DEF Contract!Abandon
    <3>5. QED
      BY <3>4
  <2>3. CASE admission[c] = "Normal"
    <3>1. breaker' = breaker /\ Probers' = Probers
      BY <1>2, <2>1, <2>3 DEF Unadmit, Probers, TypeOK
    <3>2. QED
      BY <3>1
  <2>4. QED
    BY <2>1, <2>2, <2>3 DEF Admissions
<1>3. ASSUME NEW c \in Calls, Finalize(c)
      PROVE  [Contract!ContractNext]_(Contract!contractVars)
  <2>1. /\ admission[c] \in Admissions
        /\ admission' = [admission EXCEPT ![c] = "none"]
        /\ breaker' \in {OnSuccess(breaker, admission[c]), OnFailure(breaker, admission[c])}
    BY <1>3 DEF Finalize, TypeOK, ProbeInv, TokensGuarded, GuardedPlaces
  <2>2. CASE admission[c] = "Probe"
    <3>1. Probers # {} /\ Probers' = {}
      BY <2>1, <2>2 DEF ProbeInv, ProbeSlotOwned, Probers, TypeOK
    <3>2. /\ breaker.state = "HalfOpen"
          /\ \/ /\ breaker'.state = "HalfOpen"
                /\ breaker.consecutive_successes + 1 < HalfOpenSuccesses
                /\ breaker'.consecutive_successes = breaker.consecutive_successes + 1
             \/ /\ breaker'.state = "Closed"
                /\ breaker.consecutive_successes + 1 >= HalfOpenSuccesses
                /\ breaker'.consecutive_successes = 0
             \/ breaker'.state = "Open" /\ breaker'.consecutive_successes = 0
      BY <1>a, <2>1, <2>2, OutcomeFacts DEF TypeOK
    <3>3. Contract!Confirm \/ Contract!Recover \/ Contract!Relapse
      BY <3>1, <3>2 DEF Contract!Confirm, Contract!Recover, Contract!Relapse
    <3>4. QED
      BY <3>3
  <2>3. CASE admission[c] = "Normal"
    <3>1. Probers' = Probers
      BY <2>1, <2>3 DEF Probers, TypeOK
    <3>2. CASE breaker.state = "HalfOpen"
      BY <1>a, <2>1, <2>3, <3>1, <3>2, OutcomeFacts DEF TypeOK
    <3>3. CASE breaker.state = "Open"
      BY <1>a, <2>1, <3>1, <3>3, OutcomeFacts DEF TypeOK
    <3>4. CASE breaker.state = "Closed"
      <4>1. /\ breaker'.state \in {"Closed", "Open"}
            /\ breaker'.consecutive_successes = breaker.consecutive_successes
        BY <1>a, <2>1, <3>4, OutcomeFacts DEF TypeOK
      <4>2. CASE breaker'.state = "Open"
        <5>1. Contract!Trip
          BY <3>1, <3>4, <4>1, <4>2 DEF Contract!Trip
        <5>2. QED
          BY <5>1
      <4>3. CASE breaker'.state = "Closed"
        BY <3>1, <3>4, <4>1, <4>3
      <4>4. QED
        BY <4>1, <4>2, <4>3
    <3>5. QED
      BY <3>2, <3>3, <3>4 DEF TypeOK, Breakers, BreakerStates
  <2>4. QED
    BY <2>1, <2>2, <2>3 DEF Admissions
<1>4. CASE Tick
  <2>1. /\ breaker'.state = breaker.state
        /\ breaker'.consecutive_successes = breaker.consecutive_successes
        /\ UNCHANGED admission
    BY <1>4 DEF Tick, Elapse, callVars, TypeOK, Breakers
  <2>2. QED
    BY <2>1 DEF Probers
<1>5. CASE UNCHANGED <<breaker, admission>>
  BY <1>5 DEF Probers
<1>6. QED
  <2>1. ASSUME NEW c \in Calls,
               \/ TakeToken(c) \/ RateLimited(c) \/ Acquire(c) \/ Enqueue(c) \/ Granted(c)
               \/ Timeout(c) \/ Disconnect(c) \/ Answer(c) \/ RetryLater(c)
               \/ BackoffElapsed(c) \/ DropPermit(c) \/ EndStream(c)
        PROVE  UNCHANGED <<breaker, admission>>
    BY <2>1 DEF TakeToken, RateLimited, Acquire, Enqueue, Granted, Timeout, Disconnect,
                CancelWaiting, Cancel, Answer, RetryLater, Finish, BackoffElapsed,
                DropPermit, EndStream, ReleasePermit
  <2>2. Refill \/ UNCHANGED vars => UNCHANGED <<breaker, admission>>
    BY DEF Refill, callVars, vars
  <2>3. QED
    BY <1>1, <1>2, <1>3, <1>4, <1>5, <2>1, <2>2 DEF Next

\* The calls governed by one breaker implement its contract: it leaves Open only
\* by electing a probe, there is never a second probe, and only
\* half_open_successes consecutive probe successes close it.
THEOREM ContractImplemented == Spec => ImplementsContract
<1>1. TypeOK /\ ProbeInv /\ [Next]_vars =>
        /\ TypeOK' /\ ProbeInv'
        /\ [Contract!ContractNext]_(Contract!contractVars)
  BY TypeStep, ProbeStep, ContractStep
<1>2. QED
  BY <1>1, TypeInit, ProbeInit, ContractInitially, PTL
     DEF Spec, ImplementsContract, Contract!ContractSpec

-----------------------------------------------------------------------------
(* The permits *)

\* At the start every permit is free.
LEMMA PermitsInit == Init => PermitsConserved
<1> SUFFICES ASSUME Init PROVE PermitsConserved
  OBVIOUS
<1>1. Holders = {}
  BY DEF Init, Holders, HoldingPlaces
<1>2. QED
  BY <1>1, FS_EmptySet, GovernanceAssumption DEF Init, PermitsConserved

\* Finitely many calls hold a permit, so that they can be counted.
LEMMA HoldersFinite == IsFiniteSet(Holders)
BY FS_Subset, GovernanceAssumption DEF Holders

\* A call that enters the places that hold a permit takes one.
LEMMA TakePermit ==
  ASSUME TypeOK, PermitsConserved, Capped, NEW c \in Calls,
         pc[c] \notin HoldingPlaces, pc' = [pc EXCEPT ![c] = "upstream"],
         available > 0, available' = available - 1
  PROVE  PermitsConserved'
<1>1. c \notin Holders /\ Holders' = Holders \cup {c}
  BY DEF Holders, HoldingPlaces, TypeOK
<1>2. Cardinality(Holders') = Cardinality(Holders) + 1
  BY <1>1, HoldersFinite, FS_AddElement
<1>3. QED
  BY <1>2, HoldersFinite, FS_CardinalityType, GovernanceAssumption
     DEF PermitsConserved, TypeOK

\* A call that leaves the places that hold a permit gives one back.
LEMMA GivePermit ==
  ASSUME TypeOK, PermitsConserved, Capped, NEW c \in Calls,
         pc[c] \in HoldingPlaces, pc' = [pc EXCEPT ![c] = "idle"],
         available' = available + 1
  PROVE  PermitsConserved'
<1>1. c \in Holders /\ Holders' = Holders \ {c}
  BY DEF Holders, HoldingPlaces, TypeOK
<1>2. Cardinality(Holders') = Cardinality(Holders) - 1
  BY <1>1, HoldersFinite, FS_RemoveElement
<1>3. Cardinality(Holders) \in Nat /\ available \in Nat
  BY HoldersFinite, FS_CardinalityType DEF TypeOK
<1>4. available' + Cardinality(Holders') = MaxConcurrent
  BY <1>2, <1>3, GovernanceAssumption DEF PermitsConserved
<1>5. QED
  BY <1>4 DEF PermitsConserved

\* Other steps move a call among the places that hold a permit, or among those
\* that do not.
LEMMA MoveKeepsPermits ==
  ASSUME TypeOK, PermitsConserved, NEW c \in Calls, NEW place,
         pc[c] \in HoldingPlaces <=> place \in HoldingPlaces,
         pc' = [pc EXCEPT ![c] = place],
         UNCHANGED available
  PROVE  PermitsConserved'
<1>1. Holders' = Holders
  BY DEF Holders, TypeOK
<1>2. QED
  BY <1>1 DEF PermitsConserved, Capped

\* Permits are conserved by every step.
LEMMA PermitsStep == TypeOK /\ PermitsConserved /\ [Next]_vars => PermitsConserved'
<1> SUFFICES ASSUME TypeOK, PermitsConserved, [Next]_vars, Capped
             PROVE  PermitsConserved'
  BY DEF PermitsConserved, Capped
<1>1. ASSUME NEW c \in Calls, Acquire(c) \/ Granted(c)
      PROVE  PermitsConserved'
  <2>1. /\ pc[c] \notin HoldingPlaces /\ pc' = [pc EXCEPT ![c] = "upstream"]
        /\ available > 0 /\ available' = available - 1
    BY <1>1 DEF Acquire, Granted, Goto, HoldingPlaces
  <2>2. QED
    BY <2>1, TakePermit
<1>2. ASSUME NEW c \in Calls, DropPermit(c) \/ EndStream(c)
      PROVE  PermitsConserved'
  <2>1. /\ pc[c] \in HoldingPlaces /\ pc' = [pc EXCEPT ![c] = "idle"]
        /\ available' = available + 1
    BY <1>2 DEF DropPermit, EndStream, ReleasePermit, Goto, HoldingPlaces
  <2>2. QED
    BY <2>1, GivePermit
<1>3. ASSUME NEW c \in Calls,
             \/ \E k \in Kinds : Admit(c, k)
             \/ TakeToken(c) \/ RateLimited(c) \/ Enqueue(c) \/ CancelWaiting(c) \/ Unadmit(c)
      PROVE  PermitsConserved'
  <2>1. PICK place : /\ pc[c] \notin HoldingPlaces /\ place \notin HoldingPlaces
                     /\ pc' = [pc EXCEPT ![c] = place]
                     /\ UNCHANGED available
    BY <1>3 DEF Admit, TakeToken, RateLimited, Enqueue, CancelWaiting, Unadmit, Goto,
                HoldingPlaces
  <2>2. QED
    BY <2>1, MoveKeepsPermits
<1>4. ASSUME NEW c \in Calls,
             \/ Answer(c) \/ RetryLater(c) \/ BackoffElapsed(c) \/ Finalize(c)
             \/ \E why \in {"timeout", "disconnect"} : Cancel(c, why)
      PROVE  PermitsConserved'
  <2>1. PICK place : /\ pc[c] \in HoldingPlaces /\ place \in HoldingPlaces
                     /\ pc' = [pc EXCEPT ![c] = place]
                     /\ UNCHANGED available
    BY <1>4 DEF Answer, RetryLater, BackoffElapsed, Finalize, Cancel, Finish, Goto,
                HoldingPlaces
  <2>2. QED
    BY <2>1, MoveKeepsPermits
<1>5. CASE Refill \/ Tick \/ UNCHANGED vars
  BY <1>5 DEF Refill, Tick, callVars, vars, PermitsConserved, Holders, Capped
<1>6. QED
  BY <1>1, <1>2, <1>3, <1>4, <1>5 DEF Next, Timeout, Disconnect

\* With a cap configured, free permits and calls in flight always add up to it,
\* so no more than max_concurrent calls are ever on the upstream at once.
THEOREM PermitsSafe == Spec => []PermitsConserved
BY TypeInit, TypeStep, PermitsInit, PermitsStep, PTL DEF Spec
=============================================================================
