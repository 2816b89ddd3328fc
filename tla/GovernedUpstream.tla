-------------------------- MODULE GovernedUpstream --------------------------
(***************************************************************************)
(* One upstream identity behind crates/moaray/src/governed.rs: concurrent  *)
(* calls that share a circuit breaker, a token bucket and a concurrency    *)
(* semaphore (UpstreamState in runtime.rs).  A call is a future polled by  *)
(* some worker thread; it can be dropped at any await - because the        *)
(* request timeout fires or because the client goes away - and its guards  *)
(* then run their Drop code.  Every access to a shared object is a step of *)
(* its own, so the steps of two calls interleave between any two accesses. *)
(***************************************************************************)
EXTENDS CircuitBreaker, SequencesExt

CONSTANTS
  Calls,          \* call slots; a finished slot is reused by a later call
  Burst,          \* size of the token bucket; 0: no rate_limit configured
  MaxConcurrent,  \* permits of the semaphore; 0: max_concurrent absent or 0
  MaxRetries      \* max_retries() : 0 when retry is disabled

ASSUME GovernanceAssumption ==
  /\ IsFiniteSet(Calls)
  /\ Burst \in Nat
  /\ MaxConcurrent \in Nat
  /\ MaxRetries \in Nat

VARIABLES
  breaker,    \* the breaker value behind its mutex
  tokens,     \* tokens left in the bucket
  available,  \* free permits of the semaphore
  waiters,    \* FIFO queue of calls waiting for a permit
  pc,         \* where each call is
  admission,  \* the token a guard of the call is still responsible for
  kind,       \* passthrough / chat ("unary") or passthrough_stream ("stream")
  attempt,    \* retries made so far
  outcome     \* how the call ended, until its guards have run

vars == <<breaker, tokens, available, waiters, pc, admission, kind, attempt, outcome>>
callVars == <<pc, admission, kind, attempt, outcome>>

Kinds == {"unary", "stream"}

\* "idle": no call; "limit", "acquire", "waiting": inside admit; "unadmit":
\* leaving admit without a permit; "upstream", "backoff": the attempt loop;
\* "finalize": the BreakerGuard is about to drop; "release": the permit is;
\* "streaming": the handler has returned and the body owns the permit.
Places == {"idle", "limit", "acquire", "waiting", "unadmit",
           "upstream", "backoff", "finalize", "release", "streaming"}

\* "fault": UpstreamError, UpstreamTimeout or UpstreamUnavailable from the
\* provider; "neutral": any other error; "timeout" and "disconnect": the future
\* was dropped by the request timeout, or by the client going away.
Outcomes == {"none", "ok", "neutral", "fault", "timeout", "disconnect"}

\* What the BreakerGuard reports: an unfinished call counts as a failure.
CountsAsFailure(o) == o \in {"fault", "timeout", "disconnect"}

Limited == Burst > 0
Capped  == MaxConcurrent > 0

HoldingPlaces == {"upstream", "backoff", "finalize", "release", "streaming"}
Holders == {c \in Calls : pc[c] \in HoldingPlaces}

Goto(c, place) == pc' = [pc EXCEPT ![c] = place]

Init ==
  /\ breaker = NewBreaker
  /\ tokens = Burst
  /\ available = MaxConcurrent
  /\ waiters = <<>>
  /\ pc = [c \in Calls |-> "idle"]
  /\ admission = [c \in Calls |-> "none"]
  /\ kind = [c \in Calls |-> "unary"]
  /\ attempt = [c \in Calls |-> 0]
  /\ outcome = [c \in Calls |-> "none"]

-----------------------------------------------------------------------------
(* admit *)

\* A call arrives and breaker.check() lets it in.  A call that is answered
\* CircuitOpen changes nothing and is not a step.
Admit(c, k) ==
  /\ pc[c] = "idle"
  /\ CheckAnswer(breaker) \in Admissions
  /\ breaker' = AfterCheck(breaker)
  /\ admission' = [admission EXCEPT ![c] = CheckAnswer(breaker)]
  /\ kind' = [kind EXCEPT ![c] = k]
  /\ Goto(c, "limit")
  /\ UNCHANGED <<tokens, available, waiters, attempt, outcome>>

\* check_limit() takes a token, or fails with RateLimited.
TakeToken(c) ==
  /\ pc[c] = "limit"
  /\ Limited => tokens > 0
  /\ tokens' = IF Limited THEN tokens - 1 ELSE tokens
  /\ Goto(c, "acquire")
  /\ UNCHANGED <<breaker, available, waiters, admission, kind, attempt, outcome>>

RateLimited(c) ==
  /\ pc[c] = "limit"
  /\ Limited /\ tokens = 0
  /\ Goto(c, "unadmit")
  /\ UNCHANGED <<breaker, tokens, available, waiters, admission, kind, attempt, outcome>>

\* First poll of acquire_owned(): a free permit is taken unless others queue.
Acquire(c) ==
  /\ pc[c] = "acquire"
  /\ Capped => available > 0 /\ waiters = <<>>
  /\ available' = IF Capped THEN available - 1 ELSE available
  /\ Goto(c, "upstream")
  /\ UNCHANGED <<breaker, tokens, waiters, admission, kind, attempt, outcome>>

Enqueue(c) ==
  /\ pc[c] = "acquire"
  /\ Capped /\ (available = 0 \/ waiters # <<>>)
  /\ waiters' = Append(waiters, c)
  /\ Goto(c, "waiting")
  /\ UNCHANGED <<breaker, tokens, available, admission, kind, attempt, outcome>>

\* The semaphore serves its queue in order.
Granted(c) ==
  /\ pc[c] = "waiting"
  /\ available > 0
  /\ waiters # <<>> /\ Head(waiters) = c
  /\ waiters' = Tail(waiters)
  /\ available' = available - 1
  /\ Goto(c, "upstream")
  /\ UNCHANGED <<breaker, tokens, admission, kind, attempt, outcome>>

\* The future is dropped while it waits: it leaves the queue ...
CancelWaiting(c) ==
  /\ pc[c] = "waiting"
  /\ \E i \in 1..Len(waiters) : waiters[i] = c /\ waiters' = RemoveAt(waiters, i)
  /\ Goto(c, "unadmit")
  /\ UNCHANGED <<breaker, tokens, available, admission, kind, attempt, outcome>>

\* Mutant of Unadmit: no ProbeReleaseGuard, so a refused probe keeps its slot.
UnadmitKeepingSlot(c) ==
  /\ pc[c] = "unadmit"
  /\ admission' = [admission EXCEPT ![c] = "none"]
  /\ kind' = [kind EXCEPT ![c] = "unary"]
  /\ Goto(c, "idle")
  /\ UNCHANGED <<breaker, tokens, available, waiters, attempt, outcome>>

\* ... and then, as after a RateLimited, the ProbeReleaseGuard drops.  It is
\* armed for a probe admission only.
Unadmit(c) ==
  /\ pc[c] = "unadmit"
  /\ breaker' = IF admission[c] = "Probe" THEN ReleaseProbe(breaker) ELSE breaker
  /\ admission' = [admission EXCEPT ![c] = "none"]
  /\ kind' = [kind EXCEPT ![c] = "unary"]
  /\ Goto(c, "idle")
  /\ UNCHANGED <<tokens, available, waiters, attempt, outcome>>

-----------------------------------------------------------------------------
(* The attempt loop: passthrough, chat and passthrough_stream *)

Finish(c, o) ==
  /\ outcome' = [outcome EXCEPT ![c] = o]
  /\ Goto(c, "finalize")
  /\ UNCHANGED <<breaker, tokens, available, waiters, admission, kind, attempt>>

\* The provider answers: success (for a stream, the handshake), or an error
\* that is not retried.
Answer(c) ==
  /\ pc[c] = "upstream"
  /\ \E o \in {"ok", "neutral", "fault"} : Finish(c, o)

\* Mutant of MayRetry: one attempt too many.
MayRetryOnceMore(c) == kind[c] = "unary" /\ attempt[c] <= MaxRetries

MayRetry(c) == kind[c] = "unary" /\ attempt[c] < MaxRetries

\* The provider reports UpstreamUnavailable, the only retryable error.
RetryLater(c) ==
  /\ pc[c] = "upstream"
  /\ MayRetry(c)
  /\ attempt' = [attempt EXCEPT ![c] = @ + 1]
  /\ Goto(c, "backoff")
  /\ UNCHANGED <<breaker, tokens, available, waiters, admission, kind, outcome>>

\* The backoff sleep ends: the next attempt goes out with no further gate.
BackoffElapsed(c) ==
  /\ pc[c] = "backoff"
  /\ Goto(c, "upstream")
  /\ UNCHANGED <<breaker, tokens, available, waiters, admission, kind, attempt, outcome>>

\* The future is dropped in the attempt loop: the guard has no action yet.
Cancel(c, why) ==
  /\ pc[c] \in {"upstream", "backoff"}
  /\ Finish(c, why)

\* BreakerGuard::drop records the one outcome of the call under its token.
\* The permit outlives the guard; for a stream it moves into the body.
Finalize(c) ==
  /\ pc[c] = "finalize"
  /\ breaker' = IF CountsAsFailure(outcome[c])
                THEN OnFailure(breaker, admission[c])
                ELSE OnSuccess(breaker, admission[c])
  /\ admission' = [admission EXCEPT ![c] = "none"]
  /\ Goto(c, IF kind[c] = "stream" /\ outcome[c] = "ok" THEN "streaming" ELSE "release")
  /\ kind' = [kind EXCEPT ![c] = "unary"]
  /\ attempt' = [attempt EXCEPT ![c] = 0]
  /\ outcome' = [outcome EXCEPT ![c] = "none"]
  /\ UNCHANGED <<tokens, available, waiters>>

\* Mutant of ReleasePermit: the body of a stream forgets its permit.
ReleaseUnlessStreaming(c) ==
  /\ pc[c] \in {"release", "streaming"}
  /\ available' = IF Capped /\ pc[c] = "release" THEN available + 1 ELSE available
  /\ Goto(c, "idle")
  /\ UNCHANGED <<breaker, tokens, waiters, admission, kind, attempt, outcome>>

\* The permit drops: with the handler's future, or with the body once it has
\* ended or the client has dropped it.
ReleasePermit(c) ==
  /\ pc[c] \in {"release", "streaming"}
  /\ available' = IF Capped THEN available + 1 ELSE available
  /\ Goto(c, "idle")
  /\ UNCHANGED <<breaker, tokens, waiters, admission, kind, attempt, outcome>>

-----------------------------------------------------------------------------
Refill ==
  /\ tokens < Burst
  /\ tokens' = tokens + 1
  /\ UNCHANGED <<breaker, available, waiters, callVars>>

Tick ==
  /\ breaker.state = "Open" /\ breaker.open_for < OpenMs
  /\ breaker' = Elapse(breaker)
  /\ UNCHANGED <<tokens, available, waiters, callVars>>

\* Mutants of Timeout: it covers the attempts but not the queue, or the queue
\* but not the attempts.
TimeoutAfterAdmission(c) == Cancel(c, "timeout")
TimeoutOfAdmission(c) == CancelWaiting(c)

\* app.rs wraps the whole call, admission included, in the request timeout,
\* and an arm of the orchestrator in its own; both end before a stream flows.
Timeout(c) == CancelWaiting(c) \/ Cancel(c, "timeout")

Disconnect(c) == CancelWaiting(c) \/ Cancel(c, "disconnect")

EndStream(c) == pc[c] = "streaming" /\ ReleasePermit(c)
DropPermit(c) == pc[c] = "release" /\ ReleasePermit(c)

Next ==
  \/ \E c \in Calls :
       \/ \E k \in Kinds : Admit(c, k)
       \/ TakeToken(c) \/ RateLimited(c)
       \/ Acquire(c) \/ Enqueue(c) \/ Granted(c)
       \/ Timeout(c) \/ Disconnect(c) \/ Unadmit(c)
       \/ Answer(c) \/ RetryLater(c) \/ BackoffElapsed(c)
       \/ Finalize(c) \/ DropPermit(c) \/ EndStream(c)
  \/ Refill
  \/ Tick

Spec == Init /\ [][Next]_vars

\* A future that can run is polled, and no call outlives its timeout.  Nothing
\* is assumed of the upstream, of the clients or of how long a stream lasts.
Fairness ==
  \A c \in Calls :
    /\ WF_vars(TakeToken(c) \/ RateLimited(c))
    /\ WF_vars(Acquire(c) \/ Enqueue(c))
    /\ WF_vars(Timeout(c))
    /\ WF_vars(Unadmit(c))
    /\ WF_vars(Finalize(c))
    /\ WF_vars(DropPermit(c))

FairSpec == Spec /\ Fairness

-----------------------------------------------------------------------------
(* Properties *)

TypeOK ==
  /\ breaker \in Breakers
  /\ tokens \in 0..Burst
  /\ available \in Nat
  /\ waiters \in Seq(Calls)
  /\ pc \in [Calls -> Places]
  /\ admission \in [Calls -> Admissions \cup {"none"}]
  /\ kind \in [Calls -> Kinds]
  /\ attempt \in [Calls -> 0..MaxRetries]
  /\ outcome \in [Calls -> Outcomes]

\* The calls that hold a probe token nobody has reported or released yet.
Probers == {c \in Calls : admission[c] = "Probe"}

\* The probe slot is reserved exactly while one call is responsible for it, and
\* only in HalfOpen: no interleaving of rejections, cancellations and late
\* completions leaks the slot (no probe would ever run again) or frees it under
\* a running probe (breaker.rs check_at, governed.rs ProbeReleaseGuard and
\* BreakerGuard).
ProbeSlotOwned ==
  /\ breaker.probe_in_flight <=> Probers # {}
  /\ \A c, d \in Probers : c = d
  /\ Probers # {} => breaker.state = "HalfOpen"

\* Every permit is either free or held by one call that is on the upstream, in
\* backoff, or streaming: the cap counts calls in flight and no permit is lost
\* on any path out of a call (limit.rs Concurrency, governed.rs attach_permit).
PermitsConserved ==
  Capped => available + Cardinality(Holders) = MaxConcurrent

\* The governed calls implement the contract of the breaker's documentation.
Contract == INSTANCE BreakerContract WITH
  Clients <- Calls, NeededSuccesses <- HalfOpenSuccesses,
  phase <- breaker.state, probers <- Probers,
  confirmed <- breaker.consecutive_successes

ImplementsContract == Contract!ContractSpec

\* Whatever the upstream does, hang included, and though streams exhaust the
\* semaphore or the client leaves: a call leaves the gateway or starts streaming,
\* and is then no longer responsible for the probe slot of the breaker, so that
\* other callers are not failed fast for ever (governed.rs, both guards).
CallsFinish ==
  \A c \in Calls :
    pc[c] \notin {"idle", "streaming"}
      ~> pc[c] \in {"idle", "streaming"} /\ admission[c] = "none"
=============================================================================
