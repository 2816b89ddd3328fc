------------------------ MODULE ProviderCall_proofs ------------------------
(***************************************************************************)
(* The call to an upstream, for any prices, usages, streams and number of  *)
(* retries: how often its prompt is sent, whom its breaker blames, what is *)
(* booked, and what the client of a stream is given of it.                 *)
(***************************************************************************)
EXTENDS ProviderCall, DataLemmas

-----------------------------------------------------------------------------
(* What a call costs *)

\* Rounding a quotient moves it by half a divisor at most.
LEMMA RoundDivIsNear ==
  ASSUME NEW tokens \in Nat, NEW price \in Nat
  PROVE  /\ RoundDiv(tokens, price) \in Nat
         /\ 2 * (RoundDiv(tokens, price) * Mtok) <= 2 * (tokens * price) + Mtok
         /\ 2 * (tokens * price) <= 2 * (RoundDiv(tokens, price) * Mtok) + Mtok
<1> DEFINE x == tokens * price
           h == Mtok \div 2
           d == (x + h) \div Mtok
<1>1. x \in Nat /\ Mtok \in Nat \ {0}
  BY AccountingAssumption
<1>2. h \in Nat /\ 2 * h <= Mtok /\ Mtok <= 2 * h + 1
  BY <1>1
<1> HIDE DEF x, h
<1>3. d \in Nat /\ d * Mtok <= x + h /\ x + h < d * Mtok + Mtok
  BY <1>1, <1>2
<1> HIDE DEF d
<1>4. d * Mtok \in Nat
  BY <1>1, <1>3
<1>5. 2 * (d * Mtok) <= 2 * x + Mtok /\ 2 * x <= 2 * (d * Mtok) + Mtok
  BY <1>1, <1>2, <1>3, <1>4
<1> QED BY <1>3, <1>5 DEF RoundDiv, x, h, d

\* The cost of a priced call is within a nano-dollar of what it should be, or
\* the largest amount there is (usage.rs compute_cost).
THEOREM CostIsAccurate ==
  ASSUME NEW tokens, tokens \in [prompt : Nat, completion : Nat],
         NEW price, price \in [prompt : Nat, completion : Nat]
  PROVE  /\ ComputeCost(tokens, price) \in 0..MaxI64
         /\ Accurate(ComputeCost(tokens, price),
                     tokens.prompt * price.prompt + tokens.completion * price.completion)
<1> DEFINE a == RoundDiv(tokens.prompt, price.prompt)
           b == RoundDiv(tokens.completion, price.completion)
           x == tokens.prompt * price.prompt
           y == tokens.completion * price.completion
           cost == ComputeCost(tokens, price)
<1>1. x \in Nat /\ y \in Nat /\ Mtok \in Nat \ {0} /\ MaxI64 \in Nat /\ Null \notin Int
  BY AccountingAssumption
<1>2. /\ a \in Nat /\ 2 * (a * Mtok) <= 2 * x + Mtok /\ 2 * x <= 2 * (a * Mtok) + Mtok
      /\ b \in Nat /\ 2 * (b * Mtok) <= 2 * y + Mtok /\ 2 * y <= 2 * (b * Mtok) + Mtok
  BY RoundDivIsNear
<1>3. cost = Clamped(a + b)
  BY <1>1 DEF ComputeCost, Measured, Priced
<1> HIDE DEF a, b, x, y, cost
<1>4. cost = IF a + b > MaxI64 THEN MaxI64 ELSE a + b
  BY <1>1, <1>2, <1>3 DEF Clamped
<1>5. /\ (a + b) * Mtok = a * Mtok + b * Mtok
      /\ a * Mtok \in Nat /\ b * Mtok \in Nat
  BY <1>1, <1>2
<1>6. CASE a + b <= MaxI64
  <2>1. cost * Mtok \in (x + y - Mtok)..(x + y + Mtok)
    BY <1>1, <1>2, <1>4, <1>5, <1>6
  <2> QED BY <1>1, <1>2, <1>4, <1>6, <2>1 DEF Accurate, cost, x, y
<1>7. CASE a + b > MaxI64
  <2>1. (a + b) * Mtok >= MaxI64 * Mtok
    BY <1>1, <1>2, <1>7
  <2>2. MaxI64 * Mtok \in Nat
    BY <1>1
  <2>3. x + y + Mtok >= MaxI64 * Mtok
    BY <1>1, <1>2, <1>5, <2>1, <2>2
  <2> QED BY <1>1, <1>4, <1>7, <2>3 DEF Accurate, cost, x, y
<1> QED BY <1>1, <1>2, <1>6, <1>7

-----------------------------------------------------------------------------
(* The invariant *)

Failed(e) == e \notin {"none", "ok"}

\* Nothing has been returned, reported or booked.
Pending == result = "none" /\ verdict = "none" /\ rows = <<>>

IInv ==
  /\ call \in Calls
  /\ phase \in {"translate", "send", "body", "backoff", "streaming", "done"}
  /\ phase \in {"translate", "send", "body", "backoff"} => Pending
  /\ phase \in {"streaming", "done"} => verdict # "none"
  /\ generated \in {0, 1}
  /\ phase \in {"translate", "send", "backoff"} => generated = 0
  /\ phase = "body" => /\ Unary
                       /\ upstream = Answered(upstream.status, "none", NoUsage)
                       /\ upstream.status \in 200..299
  /\ phase = "translate" /\ call.request # "text" /\ call.provider = "anthropic"
       => upstream = Did("nothing")
  /\ phase # "translate" /\ call.request # "text" /\ call.provider = "anthropic"
       => phase = "done"
  /\ BlameIsJust
  /\ BookedAsMeasured

\* Nothing has been decided: nothing can be wrong yet.
LEMMA PendingIsRight ==
  ASSUME Pending
  PROVE  BlameIsJust /\ BookedAsMeasured
BY DEF Pending, BlameIsJust, BookedAsMeasured

\* A call starts with nothing sent and nothing booked.
LEMMA InitIsRight == Init => IInv
<1> SUFFICES ASSUME Init
             PROVE  IInv
  OBVIOUS
<1>1. Pending
  BY DEF Init, Pending
<1> QED BY <1>1, PendingIsRight DEF Init, IInv

\* What Fail and Return leave behind.
LEMMA ReturnFacts ==
  ASSUME NEW r, Return(r)
  PROVE  /\ result' = r
         /\ verdict' \in {"failure", "success"}
         /\ verdict' = "failure" <=> CountsAgainstBreaker(r)
         /\ phase' \in {"streaming", "done"}
         /\ r # "ok" => phase' = "done"
BY DEF Return

\* An error before the upstream was reached is retried; any other ends the call.
LEMMA FailFacts ==
  ASSUME NEW e, Fail(e)
  PROVE  \/ /\ e = "UpstreamUnavailable" /\ phase' = "backoff"
            /\ UNCHANGED <<result, verdict>>
         \/ Return(e)
BY DEF Fail, IsRetryable

\* A call that failed, whose upstream is at fault exactly if its error counts.
LEMMA FailureIsRight ==
  ASSUME IInv, rows' = <<>>, UNCHANGED call, NEW e, Failed(e), Return(e),
         CountsAgainstBreaker(e) <=> UpstreamAtFault' \/ e \in {"UpstreamTimeout", "disconnected"},
         generated' \in {0, 1}
  PROVE  IInv'
<1>1. /\ result' = e /\ e # "ok" /\ phase' = "done" /\ verdict' # "none"
      /\ verdict' = "failure" <=> CountsAgainstBreaker(e)
  BY ReturnFacts DEF Failed
<1>2. BlameIsJust'
  BY <1>1 DEF BlameIsJust, Dropped
<1>3. BookedAsMeasured'
  BY <1>1 DEF BookedAsMeasured
<1> QED BY <1>1, <1>2, <1>3 DEF IInv, Unary, Calls

\* A call that waits for its next attempt.
LEMMA RetryIsRight ==
  ASSUME IInv, Pending, UNCHANGED <<call, result, verdict, rows>>,
         phase' = "backoff", generated' = 0,
         ~(call.request # "text" /\ call.provider = "anthropic")
  PROVE  IInv'
<1>1. Pending'
  BY DEF Pending
<1>2. BlameIsJust' /\ BookedAsMeasured'
  BY <1>1 DEF Pending, BlameIsJust, BookedAsMeasured
<1> QED BY <1>1, <1>2 DEF IInv

\* A request that cannot be translated is its caller's fault.
LEMMA TranslatedIsRight == IInv /\ Translated => IInv'
<1> SUFFICES ASSUME IInv, Translated
             PROVE  IInv'
  OBVIOUS
<1>1. /\ phase = "translate" /\ Pending /\ generated = 0
      /\ UNCHANGED <<call, attempt, generated, upstream, rows>>
  BY DEF IInv, Translated
<1>2. CASE call.provider = "anthropic" /\ call.request # "text"
  <2>1. ~UpstreamAtFault'
    <3>1. upstream' = Did("nothing")
      BY <1>1, <1>2 DEF IInv
    <3> QED BY <3>1 DEF Did, UpstreamAtFault
  <2>2. PICK e \in {"BadRequest", "Unsupported"} : Return(e)
    BY <1>2 DEF Translated
  <2> QED BY <1>1, <2>1, <2>2, FailureIsRight DEF Failed, CountsAgainstBreaker, Pending
<1>3. CASE ~(call.provider = "anthropic" /\ call.request # "text")
  <2>1. phase' = "send" /\ UNCHANGED <<result, verdict>>
    BY <1>3 DEF Translated
  <2>2. Pending'
    BY <1>1, <2>1 DEF Pending
  <2>3. BlameIsJust' /\ BookedAsMeasured'
    BY <2>2 DEF Pending, BlameIsJust, BookedAsMeasured
  <2> QED BY <1>1, <1>3, <2>1, <2>2, <2>3 DEF IInv
<1> QED BY <1>2, <1>3

\* An attempt that fails before an answer generates nothing unless it was sent.
LEMMA SendFailsIsRight == \A f \in Failures : IInv /\ SendFails(f) => IInv'
<1> SUFFICES ASSUME NEW f \in Failures, IInv, SendFails(f)
             PROVE  IInv'
  OBVIOUS
<1> DEFINE e == MapReqwestError(f)
<1>1. /\ phase = "send" /\ Pending /\ generated = 0 /\ UNCHANGED <<call, rows>>
      /\ generated' \in {0, 1} /\ (f.connect => generated' = 0)
      /\ ~(call.request # "text" /\ call.provider = "anthropic")
      /\ Fail(e)
  <2>1. phase = "send" /\ UNCHANGED <<call, rows>> /\ Fail(e)
    BY DEF SendFails
  <2>2. /\ Pending /\ generated = 0
        /\ ~(call.request # "text" /\ call.provider = "anthropic")
    BY <2>1 DEF IInv
  <2>3. generated' \in {0, 1} /\ (f.connect => generated' = 0)
    <3>1. generated' = IF f.connect THEN generated ELSE generated + 1
      BY DEF SendFails
    <3>2. generated = 0
      BY <2>2
    <3> QED BY ONLY <3>1, <3>2
  <2> QED BY <2>1, <2>2, <2>3
<1>2. UpstreamAtFault'
  BY DEF SendFails, UpstreamAtFault, Did
<1>3. /\ e \in {"UpstreamTimeout", "UpstreamUnavailable", "UpstreamError"}
      /\ e = "UpstreamUnavailable" => f.connect
  BY DEF MapReqwestError
<1> HIDE DEF e
<1>4. CASE Return(e)
  BY <1>1, <1>2, <1>3, <1>4, FailureIsRight DEF Failed, CountsAgainstBreaker, Pending
<1>5. CASE e = "UpstreamUnavailable" /\ phase' = "backoff" /\ UNCHANGED <<result, verdict>>
  BY <1>1, <1>3, <1>5, RetryIsRight
<1> QED BY <1>1, <1>4, <1>5, FailFacts

\* A status is blamed on the upstream, or on the caller, as its class says.
LEMMA RespondIsRight == \A status \in Statuses : IInv /\ Respond(status) => IInv'
<1> SUFFICES ASSUME NEW status \in Statuses, IInv, Respond(status)
             PROVE  IInv'
  OBVIOUS
<1> DEFINE e == MapUpstreamStatus(status)
<1>1. /\ phase = "send" /\ Pending /\ generated = 0 /\ UNCHANGED <<call, rows>>
      /\ generated' = 1 /\ upstream' = Answered(status, "none", NoUsage)
      /\ ~(call.request # "text" /\ call.provider = "anthropic")
  BY DEF IInv, Respond
<1>2. /\ e \in {"ok", "UpstreamRateLimited", "UpstreamError", "UpstreamClientError"}
      /\ e = "ok" <=> status = 200
      /\ e = "UpstreamError" <=> status >= 500
      /\ status \in Int
  BY DEF MapUpstreamStatus, Statuses
<1>3. /\ upstream'.status = status /\ upstream'.did = "answered" /\ upstream'.body = "none"
      /\ UpstreamAtFault' <=> status >= 500
  BY <1>1 DEF Answered, UpstreamAtFault
<1> HIDE DEF e
<1>4. CASE e # "ok"
  <2>1. Return(e)
    BY <1>2, <1>4, FailFacts DEF Respond, e
  <2> QED BY <1>1, <1>2, <1>3, <1>4, <2>1, FailureIsRight
          DEF Failed, CountsAgainstBreaker, Pending
<1>5. CASE e = "ok" /\ Unary
  <2>1. phase' = "body" /\ UNCHANGED <<attempt, result, verdict>>
    BY <1>5 DEF Respond, e
  <2>2. Pending' /\ Unary'
    BY <1>1, <1>5, <2>1 DEF Pending, Unary
  <2>3. BlameIsJust' /\ BookedAsMeasured'
    BY <2>2 DEF Pending, BlameIsJust, BookedAsMeasured
  <2> QED BY <1>1, <1>2, <1>3, <1>5, <2>1, <2>2, <2>3 DEF IInv
<1>6. CASE e = "ok" /\ ~Unary
  <2>1. /\ result' = "ok" /\ verdict' = "success" /\ phase' \in {"streaming", "done"}
        /\ rows' = <<>>
    BY <1>1, <1>6 DEF Respond, Return, CountsAgainstBreaker, Pending, e
  <2>2. ~UpstreamAtFault' /\ ~Dropped'
    BY <1>2, <1>3, <1>6, <2>1 DEF Dropped
  <2>3. BlameIsJust'
    BY <2>1, <2>2 DEF BlameIsJust
  <2>4. ~Unary'
    BY <1>1, <1>6 DEF Unary
  <2>5. BookedAsMeasured'
    BY <2>1, <2>4 DEF BookedAsMeasured
  <2> QED BY <1>1, <2>1, <2>3, <2>5 DEF IInv
<1> QED BY <1>4, <1>5, <1>6

\* A body that breaks, or does not come in time, is an error of the upstream.
LEMMA BodyBreaksIsRight == \A timeout \in BOOLEAN : IInv /\ BodyBreaks(timeout) => IInv'
<1> SUFFICES ASSUME NEW timeout \in BOOLEAN, IInv, BodyBreaks(timeout)
             PROVE  IInv'
  OBVIOUS
<1>1. phase = "body" /\ Pending /\ UNCHANGED <<call, generated, rows>>
  BY DEF IInv, BodyBreaks
<1>2. UpstreamAtFault'
  BY DEF BodyBreaks, UpstreamAtFault, Did
<1>3. PICK e \in {"UpstreamTimeout", "UpstreamError"} : Fail(e)
  BY DEF BodyBreaks, MapReqwestError
<1>4. Return(e)
  BY <1>3, FailFacts
<1> QED BY <1>1, <1>2, <1>4, FailureIsRight DEF Failed, CountsAgainstBreaker, Pending, IInv

-----------------------------------------------------------------------------
(* What is booked *)

\* An unmeasured usage is booked without tokens and without a cost.
LEMMA UnmeasuredIsNull ==
  ASSUME NEW price
  PROVE  RowOf(Tap(NoUsage), price) = UnmeasuredRow
<1>1. Tap(NoUsage) = Unmeasured
  <2>1. ParseUsageTokens(NoUsage) = Unmeasured /\ ExtractTokens(NoUsage) = Unmeasured
    BY DEF ParseUsageTokens, ExtractTokens, IsObject
  <2>2. UsageTokens(NoUsage) = Unmeasured
    BY ProviderAssumption DEF UsageTokens
  <2> QED BY <2>1, <2>2 DEF Tap
<1>2. Unmeasured.prompt = Null /\ Unmeasured.completion = Null
  BY DEF Unmeasured, Pair
<1>3. ~Measured(Unmeasured)
  BY <1>2 DEF Measured
<1> QED BY <1>1, <1>2, <1>3 DEF RowOf, UnmeasuredRow, UsageStatus, ComputeCost

\* All three taps agree on a full usage object.
LEMMA MeasuredIsKept ==
  ASSUME NEW usage \in [prompt : Nat, completion : Nat]
  PROVE  Tap(usage) = usage
<1>1. usage \in Amounts /\ usage # NoUsage /\ usage # NullUsage
  BY ProviderAssumption DEF Amounts
<1>2. /\ usage = [prompt |-> usage.prompt, completion |-> usage.completion]
      /\ usage.prompt \in Nat /\ usage.completion \in Nat
      /\ usage.prompt # Null
  BY AccountingAssumption
<1>3. usage # Unmeasured
  BY <1>2 DEF Unmeasured, Pair
<1>4. Pair(OrZero(usage.prompt), OrZero(usage.completion)) = usage
  BY <1>2, AccountingAssumption DEF Pair, OrZero
<1>5. IsObject(usage)
  BY <1>1 DEF IsObject
<1> QED BY <1>1, <1>3, <1>4, <1>5 DEF Tap, ParseUsageTokens, UsageTokens, ExtractTokens

\* A measured usage is booked with its tokens and their cost.
LEMMA MeasuredIsBooked ==
  ASSUME NEW usage \in [prompt : Nat, completion : Nat], NEW price \in Amounts
  PROVE  MeasuredRow(RowOf(Tap(usage), price), usage, price)
<1> DEFINE row == RowOf(usage, price)
<1>1. /\ usage.prompt \in Nat /\ usage.completion \in Nat
      /\ usage.prompt # Null /\ usage.completion # Null
  BY AccountingAssumption
<1>2. Measured(usage)
  BY <1>1 DEF Measured
<1>3. /\ row.prompt = usage.prompt /\ row.completion = usage.completion
      /\ row.status = UsageStatus(usage, price) /\ row.cost = ComputeCost(usage, price)
  BY DEF RowOf
<1> HIDE DEF row
<1>4. CASE Priced(price)
  <2>1. price \in [prompt : Nat, completion : Nat]
    BY <1>4 DEF Priced, Amounts
  <2>2. Accurate(row.cost, usage.prompt * price.prompt + usage.completion * price.completion)
    BY <1>3, <2>1, CostIsAccurate
  <2>3. MeasuredRow(row, usage, price)
    BY <1>2, <1>3, <1>4, <2>2 DEF MeasuredRow, UsageStatus
  <2> QED BY <2>3, MeasuredIsKept DEF row
<1>5. CASE ~Priced(price)
  <2>1. MeasuredRow(row, usage, price)
    BY <1>2, <1>3, <1>5 DEF MeasuredRow, UsageStatus, ComputeCost
  <2> QED BY <2>1, MeasuredIsKept DEF row
<1> QED BY <1>4, <1>5

\* A body that arrives is booked as it was measured.
LEMMA BodyIsRight ==
  \A body \in Bodies, usage \in Usages : IInv /\ Body(body, usage) => IInv'
<1> SUFFICES ASSUME NEW body \in Bodies, NEW usage \in Usages, IInv, Body(body, usage)
             PROVE  IInv'
  OBVIOUS
<1> DEFINE reported == Reported(body, usage)
           e == BodyError(body)
<1>1. /\ phase = "body" /\ Pending /\ Unary /\ upstream.status \in 200..299
      /\ UNCHANGED <<call, generated>> /\ call \in Calls
      /\ upstream' = Answered(upstream.status, body, reported)
      /\ rows' = Booked(body, usage)
  BY DEF IInv, Body
<1>2. /\ upstream'.did = "answered" /\ upstream'.status = upstream.status
      /\ upstream'.body = body /\ upstream'.usage = reported
  BY <1>1 DEF Answered
<1>3. /\ e \in {"ok", "UpstreamError", "Unsupported"}
      /\ e = "UpstreamError" <=> UpstreamAtFault'
  <2>1. ~(upstream.status >= 500)
    BY <1>1
  <2>2. UpstreamAtFault' <=>
          \/ body = "junk" /\ (call.provider = "anthropic" \/ call.path = "chat")
          \/ body = "misshapen" /\ call.provider = "openai" /\ call.path = "chat"
    BY <1>1, <1>2, <2>1 DEF UpstreamAtFault
  <2> QED BY <1>1, <2>2 DEF BodyError, Calls, Bodies
<1>4. CASE e # "ok"
  <2>1. Return(e)
    BY <1>3, <1>4, FailFacts DEF Body
  <2>2. rows' = <<>>
    BY <1>1, <1>4 DEF Booked
  <2> QED BY <1>1, <1>3, <1>4, <2>1, <2>2, FailureIsRight
          DEF Failed, CountsAgainstBreaker, IInv
<1>5. CASE e = "ok"
  <2> DEFINE row == RowOf(Tap(reported), call.price)
  <2>1. /\ result' = "ok" /\ verdict' = "success" /\ phase' = "done" /\ rows' = <<row>>
    BY <1>1, <1>5 DEF Body, Return, CountsAgainstBreaker, Unary, Booked
  <2>2. BlameIsJust'
    BY <1>3, <1>5, <2>1 DEF BlameIsJust, Dropped
  <2>3. reported = NoUsage => row = UnmeasuredRow
    BY UnmeasuredIsNull
  <2>4. reported \in [prompt : Nat, completion : Nat] => MeasuredRow(row, reported, call.price)
    <3>1. call.price \in Amounts
      BY <1>1, ProviderAssumption DEF Calls
    <3> QED BY <3>1, MeasuredIsBooked
  <2> HIDE DEF row, reported
  <2>5. DOMAIN rows' = {1} /\ Len(rows') = 1 /\ rows'[1] = row
    BY <2>1
  <2>6. BookedAsMeasured'
    BY <1>1, <1>2, <2>1, <2>3, <2>4, <2>5 DEF BookedAsMeasured, MeasuredUsage, Unary
  <2> QED BY <1>1, <2>1, <2>2, <2>6 DEF IInv
<1> QED BY <1>4, <1>5

\* A call that is dropped blames the upstream, answered or not.
LEMMA DropIsRight ==
  \A why \in {"UpstreamTimeout", "disconnected"} : IInv /\ Drop(why) => IInv'
<1> SUFFICES ASSUME NEW why \in {"UpstreamTimeout", "disconnected"}, IInv, Drop(why)
             PROVE  IInv'
  OBVIOUS
<1>1. /\ phase \in {"send", "backoff", "body"} /\ phase' = "done" /\ result' = why
      /\ verdict' = "failure" /\ UNCHANGED <<call, rows>>
  BY DEF Drop
<1>2. Pending /\ generated \in {0, 1} /\ (phase = "send" => generated = 0)
  BY <1>1 DEF IInv
<1>3. generated' \in {0, 1}
  <2>1. PICK reached \in IF phase = "send" THEN {0, 1} ELSE {0} : generated' = generated + reached
    BY DEF Drop
  <2> QED BY <1>2, <2>1
<1>4. BlameIsJust'
  BY <1>1 DEF BlameIsJust, Dropped
<1>5. BookedAsMeasured'
  BY <1>1, <1>2 DEF BookedAsMeasured, Pending
<1> QED BY <1>1, <1>3, <1>4, <1>5 DEF IInv

\* Every step keeps the invariant.
LEMMA NextIsRight == IInv /\ [Next]_vars => IInv'
<1> SUFFICES ASSUME IInv, [Next]_vars
             PROVE  IInv'
  OBVIOUS
<1>1. CASE BackoffElapsed
  <2>1. /\ Pending /\ generated = 0 /\ ~(call.request # "text" /\ call.provider = "anthropic")
        /\ phase = "backoff" /\ phase' = "translate"
        /\ UNCHANGED <<call, generated, upstream, result, verdict, rows>>
    BY <1>1 DEF IInv, BackoffElapsed
  <2>2. Pending' /\ BlameIsJust' /\ BookedAsMeasured'
    BY <2>1 DEF Pending, BlameIsJust, BookedAsMeasured
  <2> QED BY <2>1, <2>2 DEF IInv
<1>2. CASE \/ \E n \in 1..MaxChunk : Chunk(n)
           \/ \E timeout \in BOOLEAN : Break(timeout)
           \/ End
           \/ UNCHANGED vars
  <2>1. UNCHANGED <<call, phase, generated, upstream, result, verdict, rows>>
    BY <1>2 DEF Chunk, Break, End, vars
  <2>2. (BlameIsJust' <=> BlameIsJust) /\ (BookedAsMeasured' <=> BookedAsMeasured)
    BY <2>1 DEF BlameIsJust, Dropped, UpstreamAtFault, BookedAsMeasured, MeasuredUsage, Unary
  <2> QED BY <2>1, <2>2 DEF IInv, Pending, Unary
<1> QED BY <1>1, <1>2, TranslatedIsRight, SendFailsIsRight, RespondIsRight, BodyBreaksIsRight,
           BodyIsRight, DropIsRight DEF Next

\* The invariant holds in every reachable state.
LEMMA Invariance == Spec => []IInv
<1> QED BY InitIsRight, NextIsRight, PTL DEF Spec

\* A prompt is generated from at most once, however many retries are allowed
\* (error.rs is_retryable, governed.rs passthrough and chat).
THEOREM GeneratedOnce == Spec => []AtMostOneGeneration
<1>1. IInv => AtMostOneGeneration
  BY DEF IInv, AtMostOneGeneration
<1> QED BY Invariance, <1>1, PTL

\* The breaker blames the upstream for its own faults and for calls that were
\* not answered in time, and for nothing else (governed.rs BreakerGuard,
\* error.rs counts_against_breaker, common.rs).
THEOREM BlameIsDeserved == Spec => []BlameIsJust
<1>1. IInv => BlameIsJust
  BY DEF IInv
<1> QED BY Invariance, <1>1, PTL

\* An answered unary call books one row, with the tokens that were measured and
\* what they cost (app.rs passthrough, usage.rs).
THEOREM BookingIsRight == Spec => []BookedAsMeasured
<1>1. IInv => BookedAsMeasured
  BY DEF IInv
<1> QED BY Invariance, <1>1, PTL

-----------------------------------------------------------------------------
(* The lines of a stream, one by one *)

\* A blank line ends the event, any other belongs to it.
LEMMA OpenStep ==
  ASSUME NEW m, NEW n \in Nat
  PROVE  /\ Open(m, n) \in SUBSET (1..n)
         /\ m[n + 1].field = "blank" => Open(m, n + 1) = {}
         /\ m[n + 1].field # "blank" => Open(m, n + 1) = Open(m, n) \cup {n + 1}
<1>1. Open(m, n) \in SUBSET (1..n)
  BY DEF Open
<1>2. ASSUME NEW k \in 1..(n + 1)
      PROVE  /\ k..(n + 1) = (k..n) \cup {n + 1}
             /\ k = n + 1 => k..n = {}
             /\ k # n + 1 => k \in 1..n
  OBVIOUS
<1>3. ASSUME m[n + 1].field = "blank", NEW k \in Open(m, n + 1)
      PROVE  FALSE
  <2>1. k \in 1..(n + 1) /\ \A j \in k..(n + 1) : m[j].field # "blank"
    BY <1>3 DEF Open
  <2> QED BY <1>2, <1>3, <2>1
<1>4. ASSUME m[n + 1].field # "blank", NEW k
      PROVE  k \in Open(m, n + 1) <=> k \in Open(m, n) \cup {n + 1}
  <2>1. CASE k \in 1..(n + 1)
    <3>1. k \in Open(m, n + 1) <=> \A j \in (k..n) \cup {n + 1} : m[j].field # "blank"
      BY <1>2, <2>1 DEF Open
    <3>2. CASE k = n + 1
      BY <1>2, <1>4, <2>1, <3>1, <3>2
    <3>3. CASE k # n + 1
      <4>1. k \in Open(m, n) <=> \A j \in k..n : m[j].field # "blank"
        BY <1>2, <2>1, <3>3 DEF Open
      <4> QED BY <1>4, <3>1, <3>3, <4>1
    <3> QED BY <3>2, <3>3
  <2>2. CASE k \notin 1..(n + 1)
    <3>1. k \notin 1..n /\ k # n + 1
      BY <2>2
    <3> QED BY <2>2, <3>1 DEF Open
  <2> QED BY <2>1, <2>2
<1> QED BY <1>1, <1>3, <1>4

\* An event starts empty.
LEMMA EventStart ==
  ASSUME NEW m, NEW n, Open(m, n) = {}
  PROVE  EventName(m, n) = None /\ EventData(m, n) = <<>>
<1>1. EventName(m, n) = None
  BY DEF EventName
<1>2. {k \in Open(m, n) : m[k].field = "data"} = {}
  OBVIOUS
<1>3. EventData(m, n) = [i \in DOMAIN <<>> |-> m[(<<>>)[i]].value]
  BY <1>2, InOrderEmpty DEF EventData
<1> QED BY <1>1, <1>3

\* What one more line does to the event.
LEMMA EventStep ==
  ASSUME NEW m, NEW n \in Nat
  PROVE  /\ m[n + 1].field = "blank" => EventName(m, n + 1) = None /\ EventData(m, n + 1) = <<>>
         /\ m[n + 1].field = "event" => /\ EventName(m, n + 1) = m[n + 1].name
                                        /\ EventData(m, n + 1) = EventData(m, n)
         /\ m[n + 1].field = "data" =>
              /\ EventName(m, n + 1) = EventName(m, n)
              /\ EventData(m, n + 1) = Append(EventData(m, n), m[n + 1].value)
         /\ m[n + 1].field \notin {"blank", "event", "data"} =>
              EventName(m, n + 1) = EventName(m, n) /\ EventData(m, n + 1) = EventData(m, n)
<1> DEFINE Names(i) == {k \in Open(m, i) : m[k].field = "event"}
           Places(i) == {k \in Open(m, i) : m[k].field = "data"}
<1>1. /\ Names(n) \in SUBSET (1..n) /\ Places(n) \in SUBSET (1..n)
      /\ n + 1 \in Nat /\ n < n + 1
  BY OpenStep
<1>2. \A i : /\ EventName(m, i) = IF Names(i) = {} THEN None ELSE m[Max(Names(i))].name
             /\ EventData(m, i) = [j \in DOMAIN InOrder(Places(i)) |-> m[InOrder(Places(i))[j]].value]
  BY DEF EventName, EventData
<1>3. CASE m[n + 1].field = "blank"
  BY <1>3, OpenStep, EventStart
<1>4. CASE m[n + 1].field = "event"
  <2>1. Names(n + 1) = Names(n) \cup {n + 1} /\ Places(n + 1) = Places(n)
    BY <1>4, OpenStep
  <2> HIDE DEF Names, Places
  <2>2. Max(Names(n + 1)) = n + 1
    BY <1>1, <2>1, MaxAdd
  <2> QED BY <1>2, <1>4, <2>1, <2>2
<1>5. CASE m[n + 1].field = "data"
  <2>1. Names(n + 1) = Names(n) /\ Places(n + 1) = Places(n) \cup {n + 1}
    BY <1>5, OpenStep
  <2> DEFINE s == InOrder(Places(n))
             f == [k \in Nat |-> m[k].value]
  <2> HIDE DEF Names, Places
  <2>2. InOrder(Places(n + 1)) = Append(s, n + 1)
    BY <1>1, <2>1, InOrderAdd
  <2>3. s \in Seq(Nat)
    BY <1>1, InOrderType
  <2>4. EventData(m, n) = Listing(f, s)
    <3> HIDE DEF s
    <3>1. \A j \in DOMAIN s : s[j] \in Nat
      BY <2>3
    <3> QED BY <1>2, <3>1 DEF Listing, s
  <2>5. EventData(m, n + 1) = Listing(f, Append(s, n + 1))
    <3> DEFINE t == Append(s, n + 1)
    <3>1. t \in Seq(Nat)
      BY <1>1, <2>3
    <3>2. EventData(m, n + 1) = [j \in DOMAIN t |-> m[t[j]].value]
      BY <1>2, <2>2
    <3> HIDE DEF t
    <3>3. \A j \in DOMAIN t : t[j] \in Nat
      BY <3>1
    <3> QED BY <3>2, <3>3 DEF Listing, t
  <2>6. f[n + 1] = m[n + 1].value
    BY <1>1
  <2> HIDE DEF s, f
  <2>7. Listing(f, Append(s, n + 1)) = Append(Listing(f, s), f[n + 1])
    BY <1>1, <2>3, ListingAppend
  <2>8. EventData(m, n + 1) = Append(EventData(m, n), m[n + 1].value)
    BY <2>4, <2>5, <2>6, <2>7
  <2> QED BY <1>2, <1>5, <2>1, <2>8
<1>6. CASE m[n + 1].field \notin {"blank", "event", "data"}
  <2>1. Names(n + 1) = Names(n) /\ Places(n + 1) = Places(n)
    BY <1>6, OpenStep
  <2> HIDE DEF Names, Places
  <2> QED BY <1>2, <1>6, <2>1
<1> QED BY <1>3, <1>4, <1>5, <1>6

\* What a line gives replaces what was given before.
LEMMA GivenStep ==
  ASSUME NEW m, NEW n \in Nat, NEW type, NEW otherwise
  PROVE  /\ LastGiven(m, 0, type, otherwise) = otherwise
         /\ LastGiven(m, n + 1, type, otherwise) =
              IF Gives(m, n + 1, type) THEN Payload(m, n + 1).value
              ELSE LastGiven(m, n, type, otherwise)
<1> DEFINE Given(i) == {k \in 1..i : Gives(m, k, type)}
<1>1. \A i : LastGiven(m, i, type, otherwise)
               = IF Given(i) = {} THEN otherwise ELSE Payload(m, Max(Given(i))).value
  BY DEF LastGiven
<1>2. Given(0) = {}
  OBVIOUS
<1>3. Given(n) \in SUBSET (1..n) /\ n + 1 \in Nat /\ n < n + 1
  OBVIOUS
<1>4. 1..(n + 1) = (1..n) \cup {n + 1}
  OBVIOUS
<1>5. CASE Gives(m, n + 1, type)
  <2>1. Given(n + 1) = Given(n) \cup {n + 1}
    BY <1>4, <1>5
  <2> HIDE DEF Given
  <2>2. Max(Given(n + 1)) = n + 1
    BY <1>3, <2>1, MaxAdd
  <2> QED BY <1>1, <1>2, <1>5, <2>1, <2>2
<1>6. CASE ~Gives(m, n + 1, type)
  <2>1. Given(n + 1) = Given(n)
    BY <1>4, <1>6
  <2> HIDE DEF Given
  <2> QED BY <1>1, <1>2, <1>6, <2>1
<1> QED BY <1>5, <1>6

\* The frames of the first n lines.
FrameSet(m) == {Frame(m, q) : q \in Nat}

\* What a line adds to the frames.
LEMMA FramesStep ==
  ASSUME NEW m, NEW n \in Nat
  PROVE  /\ Frames(m, 0) = <<>>
         /\ Frames(m, n) \in Seq(FrameSet(m))
         /\ SaysText(m, n + 1) =>
              Frames(m, n + 1) = Append(Frames(m, n), Frame(m, 2 * n + 1))
         /\ SaysStop(m, n + 1) =>
              Frames(m, n + 1) =
                Append(Append(Frames(m, n), Frame(m, 2 * n + 1)), Frame(m, 2 * n + 2))
         /\ ~SaysText(m, n + 1) /\ ~SaysStop(m, n + 1) => Frames(m, n + 1) = Frames(m, n)
<1> DEFINE Line(q) == (q + 1) \div 2
           Given(i) == {q \in 1..2 * i : \/ SaysStop(m, Line(q))
                                         \/ SaysText(m, Line(q)) /\ q % 2 = 1}
           f == [q \in Nat |-> Frame(m, q)]
           a == 2 * n + 1
           b == 2 * n + 2
           S == Given(n)
           s == InOrder(S)
<1>1. \A i \in Nat : Frames(m, i) = Listing(f, InOrder(Given(i)))
  <2> SUFFICES ASSUME NEW i \in Nat
               PROVE  Frames(m, i) = Listing(f, InOrder(Given(i)))
    OBVIOUS
  <2> DEFINE t == InOrder(Given(i))
  <2>1. Frames(m, i) = [j \in DOMAIN t |-> Frame(m, t[j])]
    BY DEF Frames
  <2>2. Given(i) \in SUBSET (1..2 * i) /\ 2 * i \in Nat
    OBVIOUS
  <2>3. t \in Seq(Nat)
    <3> HIDE DEF Given
    <3> QED BY <2>2, InOrderType
  <2> HIDE DEF t
  <2>4. \A j \in DOMAIN t : t[j] \in Nat
    BY <2>3
  <2> QED BY <2>1, <2>4 DEF Listing, t
<1>2. S \in SUBSET (1..2 * n) /\ S \cup {a} \in SUBSET (1..a) /\ 2 * n \in Nat
  OBVIOUS
<1>3. /\ a \in Nat /\ b \in Nat /\ 2 * n < a /\ a < b
      /\ 1..2 * (n + 1) = (1..2 * n) \cup {a, b}
      /\ Line(a) = n + 1 /\ Line(b) = n + 1 /\ a % 2 = 1 /\ b % 2 # 1
  OBVIOUS
<1>4. Given(0) = {}
  OBVIOUS
<1>5. ~(SaysText(m, n + 1) /\ SaysStop(m, n + 1))
  BY DEF SaysText, SaysStop, Gives, Says
<1>6. SaysText(m, n + 1) => Given(n + 1) = S \cup {a}
  BY <1>3, <1>5
<1>7. SaysStop(m, n + 1) => Given(n + 1) = (S \cup {a}) \cup {b}
  BY <1>3
<1>8. ~SaysText(m, n + 1) /\ ~SaysStop(m, n + 1) => Given(n + 1) = S
  BY <1>3
<1>9. f[a] = Frame(m, a) /\ f[b] = Frame(m, b) /\ {f[q] : q \in Nat} = FrameSet(m)
  BY <1>3 DEF FrameSet
<1>10. Frames(m, 0) = Listing(f, InOrder({}))
  BY <1>1, <1>4
<1>11. Frames(m, 0) = <<>>
  BY <1>10, InOrderEmpty DEF Listing
<1>12. Frames(m, n) = Listing(f, s) /\ Frames(m, n + 1) = Listing(f, InOrder(Given(n + 1)))
  BY <1>1
<1> HIDE DEF Line, Given, f, a, b, S
<1>13. s \in Seq(Nat) /\ InOrder(S \cup {a}) = Append(s, a)
  BY <1>2, <1>3, InOrderAdd, InOrderType
<1>14. InOrder((S \cup {a}) \cup {b}) = Append(Append(s, a), b)
  BY <1>2, <1>3, <1>13, InOrderAdd
<1> HIDE DEF s
<1>15. Append(s, a) \in Seq(Nat)
  BY <1>3, <1>13
<1>16. /\ Listing(f, s) \in Seq({f[q] : q \in Nat})
       /\ Listing(f, Append(s, a)) = Append(Listing(f, s), f[a])
  BY <1>3, <1>13, ListingAppend
<1>17. Listing(f, Append(Append(s, a), b)) = Append(Listing(f, Append(s, a)), f[b])
  BY <1>3, <1>15, ListingAppend
<1> QED BY <1>6, <1>7, <1>8, <1>9, <1>11, <1>12, <1>13, <1>14, <1>16, <1>17 DEF a, b, s

\* What a frame is.
LEMMA FrameFacts ==
  ASSUME NEW m, NEW n \in Nat
  PROVE  /\ SaysText(m, n + 1) =>
              Frame(m, 2 * n + 1) = Delta(Id(m, n + 1), Payload(m, n + 1).value)
         /\ SaysStop(m, n + 1) =>
              /\ Frame(m, 2 * n + 1) = FinishFrame(Id(m, n + 1), Finish(m, n + 1))
              /\ Frame(m, 2 * n + 2) = Done
         /\ \A q : Frame(m, q).frame # "error"
<1>1. /\ ((2 * n + 1) + 1) \div 2 = n + 1 /\ ((2 * n + 2) + 1) \div 2 = n + 1
      /\ (2 * n + 1) % 2 = 1 /\ (2 * n + 2) % 2 # 1
  OBVIOUS
<1>2. ~(SaysText(m, n + 1) /\ SaysStop(m, n + 1))
  BY DEF SaysText, SaysStop, Gives, Says
<1>3. \A q : Frame(m, q).frame # "error"
  BY DEF Frame, Delta, FinishFrame, Done
<1> QED BY <1>1, <1>2, <1>3 DEF Frame

\* Frames are only added.
LEMMA FramesGrow ==
  ASSUME NEW m
  PROVE  \A n \in Nat : \A k \in 0..n : IsPrefix(Frames(m, k), Frames(m, n))
<1> DEFINE T == {n \in Nat : \A k \in 0..n : IsPrefix(Frames(m, k), Frames(m, n))}
<1>1. \A n \in Nat : Frames(m, n) \in Seq(FrameSet(m))
  BY FramesStep
<1>2. \A n \in Nat : IsPrefix(Frames(m, n), Frames(m, n))
  <2> SUFFICES ASSUME NEW n \in Nat
               PROVE  IsPrefix(Frames(m, n), Frames(m, n))
    OBVIOUS
  <2>1. Len(Frames(m, n)) \in Nat
    BY <1>1
  <2> QED BY <2>1 DEF IsPrefix
<1>3. \A n \in Nat : Frame(m, 2 * n + 1) \in FrameSet(m) /\ Frame(m, 2 * n + 2) \in FrameSet(m)
  BY DEF FrameSet
<1>4. 0 \in T
  BY <1>2
<1>5. ASSUME NEW n \in Nat, n \in T
      PROVE  n + 1 \in T
  <2>1. ASSUME NEW k \in 0..n
        PROVE  IsPrefix(Frames(m, k), Frames(m, n + 1))
    <3> DEFINE F == FrameSet(m)
               s == Frames(m, k)
               t == Frames(m, n)
               x == Frame(m, 2 * n + 1)
               y == Frame(m, 2 * n + 2)
    <3>1. s \in Seq(F) /\ t \in Seq(F) /\ IsPrefix(s, t) /\ x \in F /\ y \in F
      BY <1>1, <1>3, <1>5
    <3>2. Frames(m, n + 1) \in {t, Append(t, x), Append(Append(t, x), y)}
      BY FramesStep
    <3> HIDE DEF F, s, t, x, y
    <3>3. Append(t, x) \in Seq(F) /\ IsPrefix(s, Append(t, x))
      BY <3>1, PrefixAppend
    <3>4. IsPrefix(s, Append(Append(t, x), y))
      BY <3>1, <3>3, PrefixAppend
    <3> QED BY <3>1, <3>2, <3>3, <3>4 DEF s
  <2>2. n + 1 \in Nat /\ 0..(n + 1) = (0..n) \cup {n + 1}
    OBVIOUS
  <2> QED BY <1>2, <2>1, <2>2
<1>6. Nat \subseteq T
  <2> HIDE DEF T
  <2> QED BY <1>4, <1>5, NatInduct
<1> QED BY <1>6

-----------------------------------------------------------------------------
(* The translation, event by event *)

Fields == {"buf", "event", "data", "id", "finish", "done_sent", "out", "returned"}

\* Nothing up to line n is beyond v1.
Translatable(m, n) == \A k \in 1..n : ~Untranslatable(m, k)

\* A translator that has done what the lines up to n ask for.
UpToDate(t, m, n) ==
  /\ DOMAIN t = Fields
  /\ t.returned = FALSE
  /\ t.id = Id(m, n)
  /\ LET reason == LastGiven(m, n, "message_delta", None)
     IN  t.finish = IF reason = None THEN None ELSE MapStopReason(reason)
  /\ t.done_sent = IF Stopped(m, n) THEN TRUE ELSE FALSE
  /\ t.out = Frames(m, n)
  /\ Translatable(m, n)

\* One that an error has cut at some line up to n.
CutShort(t, m, n) ==
  /\ DOMAIN t = Fields
  /\ t.returned = TRUE
  /\ \E k \in 0..n, e \in {"Unsupported", "UpstreamError", "UpstreamTimeout"} :
       t.out = Append(Frames(m, k), Fault(e))

\* The event that is open after line n.
EventAt(m, n) == [event |-> EventName(m, n), data |-> EventData(m, n)]
Events(m) == {EventAt(m, n) : n \in Nat}

\* What a translator must do at line n + 1 to be up to date with it.
LEMMA UpToDateStep ==
  ASSUME NEW m, NEW n \in Nat, NEW t, UpToDate(t, m, n), ~Untranslatable(m, n + 1),
         NEW u, DOMAIN u = Fields, u.returned = FALSE,
         u.id = IF Gives(m, n + 1, "message_start") THEN Payload(m, n + 1).value ELSE t.id,
         u.finish = IF Gives(m, n + 1, "message_delta")
                    THEN MapStopReason(Payload(m, n + 1).value) ELSE t.finish,
         u.done_sent = IF SaysStop(m, n + 1) THEN TRUE ELSE t.done_sent,
         u.out = IF SaysText(m, n + 1)
                 THEN Append(t.out, Delta(t.id, Payload(m, n + 1).value))
                 ELSE IF SaysStop(m, n + 1)
                 THEN Append(Append(t.out, FinishFrame(t.id, IF t.finish = None THEN "stop"
                                                             ELSE t.finish)), Done)
                 ELSE t.out
  PROVE  UpToDate(u, m, n + 1)
<1>1. 1..(n + 1) = (1..n) \cup {n + 1}
  OBVIOUS
<1>2. Translatable(m, n + 1)
  BY <1>1 DEF UpToDate, Translatable
<1>3. Stopped(m, n + 1) <=> Stopped(m, n) \/ SaysStop(m, n + 1)
  BY <1>1 DEF Stopped
<1>4. u.id = Id(m, n + 1)
  BY GivenStep DEF UpToDate, Id
<1> DEFINE r == LastGiven(m, n, "message_delta", None)
           s == LastGiven(m, n + 1, "message_delta", None)
<1>5. s = IF Gives(m, n + 1, "message_delta") THEN Payload(m, n + 1).value ELSE r
  BY GivenStep
<1>6. Gives(m, n + 1, "message_delta") => Payload(m, n + 1).value # None
  BY DEF Gives
<1>7. t.finish = IF r = None THEN None ELSE MapStopReason(r)
  BY DEF UpToDate
<1>8. \A x : MapStopReason(x) # None
  BY StreamAssumption DEF MapStopReason
<1>9. Finish(m, n) = IF t.finish = None THEN "stop" ELSE t.finish
  BY <1>7, <1>8 DEF Finish
<1>10. Finish(m, n + 1) = IF s = None THEN "stop" ELSE MapStopReason(s)
  BY DEF Finish
<1> HIDE DEF r, s
<1>11. u.finish = IF s = None THEN None ELSE MapStopReason(s)
  BY <1>5, <1>6, <1>7
<1>12. SaysStop(m, n + 1) => ~Gives(m, n + 1, "message_start") /\ ~Gives(m, n + 1, "message_delta")
  BY DEF SaysStop, Gives, Says
<1>13. SaysText(m, n + 1) => ~Gives(m, n + 1, "message_start") /\ ~SaysStop(m, n + 1)
  BY DEF SaysText, SaysStop, Gives, Says
<1>14. u.out = Frames(m, n + 1)
  <2>1. t.out = Frames(m, n) /\ t.id = Id(m, n)
    BY DEF UpToDate
  <2>2. CASE SaysText(m, n + 1)
    <3>1. u.id = t.id
      BY <1>13, <2>2
    <3>2. Frame(m, 2 * n + 1) = Delta(t.id, Payload(m, n + 1).value)
      BY <1>4, <2>2, <3>1, FrameFacts
    <3> QED BY <2>1, <2>2, <3>2, FramesStep
  <2>3. CASE SaysStop(m, n + 1)
    <3>1. u.id = t.id /\ s = r
      BY <1>5, <1>12, <2>3
    <3>2. Finish(m, n + 1) = Finish(m, n)
      BY <1>9, <1>10, <1>7, <1>8, <3>1
    <3>3. /\ Frame(m, 2 * n + 1) = FinishFrame(t.id, Finish(m, n))
          /\ Frame(m, 2 * n + 2) = Done
      BY <1>4, <2>3, <3>1, <3>2, FrameFacts
    <3>4. Frames(m, n + 1) = Append(Append(t.out, FinishFrame(t.id, Finish(m, n))), Done)
      BY <2>1, <2>3, <3>3, FramesStep
    <3>5. u.out = Append(Append(t.out, FinishFrame(t.id, Finish(m, n))), Done)
      BY <1>9, <1>13, <2>3
    <3> QED BY <3>4, <3>5
  <2>4. CASE ~SaysText(m, n + 1) /\ ~SaysStop(m, n + 1)
    BY <2>1, <2>4, FramesStep
  <2> QED BY <2>2, <2>3, <2>4
<1>15. u.done_sent = IF Stopped(m, n + 1) THEN TRUE ELSE FALSE
  BY <1>3 DEF UpToDate
<1> QED BY <1>2, <1>4, <1>11, <1>14, <1>15 DEF UpToDate, s

\* A line that ends no event changes nothing.
LEMMA QuietStep ==
  ASSUME NEW m, NEW n \in Nat, NEW t, UpToDate(t, m, n), m[n + 1].field # "bad",
         m[n + 1].field = "blank" => EventData(m, n) = <<>>
  PROVE  UpToDate(t, m, n + 1)
<1>1. (n + 1) - 1 = n
  OBVIOUS
<1>2. \A type : ~Says(m, n + 1, type)
  BY <1>1 DEF Says
<1>3. /\ ~Untranslatable(m, n + 1) /\ ~SaysText(m, n + 1) /\ ~SaysStop(m, n + 1)
      /\ \A type : ~Gives(m, n + 1, type)
  BY <1>2 DEF Untranslatable, SaysText, SaysStop, Gives
<1>4. DOMAIN t = Fields /\ t.returned = FALSE
  BY DEF UpToDate
<1> QED BY <1>3, <1>4, UpToDateStep

\* What was cut stays cut.
LEMMA CutStep ==
  ASSUME NEW m, NEW n \in Nat, NEW t, CutShort(t, m, n)
  PROVE  CutShort(t, m, n + 1) /\ \A ev : Translate(t, ev) = t
<1>1. 0..n \subseteq 0..(n + 1)
  OBVIOUS
<1>2. CutShort(t, m, n + 1)
  BY <1>1 DEF CutShort
<1>3. t.returned
  BY DEF CutShort
<1>4. \A ev : Translate(t, ev) = t
  BY <1>3 DEF Translate
<1> QED BY <1>2, <1>4

\* An event that ends is translated as its lines ask for.
LEMMA TranslateStep ==
  ASSUME NEW m, NEW n \in Nat, NEW t, UpToDate(t, m, n), m[n + 1].field = "blank"
  PROVE  \/ UpToDate(Translate(t, EventAt(m, n)), m, n + 1)
         \/ CutShort(Translate(t, EventAt(m, n)), m, n + 1)
<1> DEFINE ev == EventAt(m, n)
           v == Parsed(ev)
           type == IF v = NotJson THEN None ELSE IF ev.event # None THEN ev.event ELSE v.type
           u == Translate(t, ev)
           Says1(ty) == Says(m, n + 1, ty)
<1>1. DOMAIN t = Fields /\ t.returned = FALSE /\ t.out = Frames(m, n)
  BY DEF UpToDate
<1>2. ev.event = EventName(m, n) /\ ev.data = EventData(m, n)
  BY DEF EventAt
<1>3. (n + 1) - 1 = n
  OBVIOUS
<1>4. Payload(m, n + 1) = EventData(m, n)[1]
  BY <1>3 DEF Payload
<1>5. \A ty : Says1(ty) <=> /\ Len(EventData(m, n)) = 1 /\ EventData(m, n)[1] # NotJson
                            /\ ty = IF EventName(m, n) # None THEN EventName(m, n)
                                    ELSE EventData(m, n)[1].type
  BY <1>3, <1>4 DEF Says
<1>6. v = IF Len(EventData(m, n)) = 1 THEN EventData(m, n)[1] ELSE NotJson
  BY <1>2 DEF Parsed
<1>7. \A ty : ty # None => (Says1(ty) <=> type = ty)
  BY <1>2, <1>5, <1>6
<1>8. type # None => v = Payload(m, n + 1)
  BY <1>4, <1>6
<1>9. u = IF t.returned \/ type = None THEN t
          ELSE CASE type = "message_start" /\ v.value # None -> [t EXCEPT !.id = v.value]
                 [] type = "content_block_start" /\ v.kind # "text" -> YieldError(t, "Unsupported")
                 [] type = "content_block_delta" /\ v.kind # "text_delta" -> YieldError(t, "Unsupported")
                 [] type = "content_block_delta" /\ v.kind = "text_delta" /\ v.value # None ->
                      Yield(t, Delta(t.id, v.value))
                 [] type = "message_delta" /\ v.value # None ->
                      [t EXCEPT !.finish = MapStopReason(v.value)]
                 [] type = "message_stop" -> [Terminate(t) EXCEPT !.done_sent = TRUE]
                 [] OTHER -> t
  BY DEF Translate
<1>10. \A ty \in {"message_start", "content_block_start", "content_block_delta",
                  "message_delta", "message_stop"} : ty # None
  BY StreamAssumption
<1> DEFINE x == Payload(m, n + 1)
<1> HIDE DEF ev, v, type, u, Says1, x
<1>11. /\ Gives(m, n + 1, "message_start") <=> type = "message_start" /\ x.value # None
       /\ Gives(m, n + 1, "message_delta") <=> type = "message_delta" /\ x.value # None
       /\ SaysText(m, n + 1) <=> /\ type = "content_block_delta" /\ x.value # None
                                 /\ x.kind = "text_delta"
       /\ SaysStop(m, n + 1) <=> type = "message_stop"
       /\ Untranslatable(m, n + 1) <=>
            \/ type = "content_block_start" /\ x.kind # "text"
            \/ type = "content_block_delta" /\ x.kind # "text_delta"
  BY <1>7, <1>10 DEF Gives, SaysText, SaysStop, Untranslatable, Says1, x
<1>12. type # None => v = x
  BY <1>8 DEF x
<1> DEFINE Asked ==
             /\ DOMAIN u = Fields /\ u.returned = FALSE
             /\ u.id = IF Gives(m, n + 1, "message_start") THEN x.value ELSE t.id
             /\ u.finish = IF Gives(m, n + 1, "message_delta") THEN MapStopReason(x.value)
                           ELSE t.finish
             /\ u.done_sent = IF SaysStop(m, n + 1) THEN TRUE ELSE t.done_sent
             /\ u.out = IF SaysText(m, n + 1) THEN Append(t.out, Delta(t.id, x.value))
                        ELSE IF SaysStop(m, n + 1)
                        THEN Append(Append(t.out, FinishFrame(t.id, IF t.finish = None THEN "stop"
                                                                    ELSE t.finish)), Done)
                        ELSE t.out
<1>13. ~Untranslatable(m, n + 1) /\ Asked => UpToDate(u, m, n + 1)
  BY UpToDateStep DEF x
<1>14. CASE Untranslatable(m, n + 1)
  <2>1. u = YieldError(t, "Unsupported")
    BY <1>1, <1>9, <1>10, <1>11, <1>12, <1>14
  <2>2. DOMAIN u = Fields /\ u.returned = TRUE /\ u.out = Append(Frames(m, n), Fault("Unsupported"))
    BY <1>1, <2>1 DEF YieldError, Yield, Fields
  <2>3. n \in 0..(n + 1)
    OBVIOUS
  <2>4. CutShort(u, m, n + 1)
    BY <2>2, <2>3 DEF CutShort
  <2> QED BY <2>4 DEF u, ev
<1>15. CASE type = "message_start" /\ x.value # None
  <2>1. u = [t EXCEPT !.id = x.value]
    BY <1>1, <1>9, <1>10, <1>12, <1>15
  <2>2. Asked /\ ~Untranslatable(m, n + 1)
    BY <1>1, <1>11, <1>15, <2>1 DEF Fields
  <2> QED BY <1>13, <2>2 DEF u, ev
<1>16. CASE SaysText(m, n + 1)
  <2>1. u = Yield(t, Delta(t.id, x.value))
    BY <1>1, <1>9, <1>10, <1>11, <1>12, <1>16
  <2>2. Asked /\ ~Untranslatable(m, n + 1)
    BY <1>1, <1>11, <1>16, <2>1 DEF Fields, Yield
  <2> QED BY <1>13, <2>2 DEF u, ev
<1>17. CASE type = "message_delta" /\ x.value # None
  <2>1. u = [t EXCEPT !.finish = MapStopReason(x.value)]
    BY <1>1, <1>9, <1>10, <1>12, <1>17
  <2>2. Asked /\ ~Untranslatable(m, n + 1)
    BY <1>1, <1>11, <1>17, <2>1 DEF Fields
  <2> QED BY <1>13, <2>2 DEF u, ev
<1>18. CASE type = "message_stop"
  <2>1. u = [Terminate(t) EXCEPT !.done_sent = TRUE]
    BY <1>1, <1>9, <1>10, <1>12, <1>18
  <2>2. Asked /\ ~Untranslatable(m, n + 1)
    BY <1>1, <1>11, <1>18, <2>1 DEF Fields, Terminate, Yield
  <2> QED BY <1>13, <2>2 DEF u, ev
<1>19. CASE /\ ~Untranslatable(m, n + 1) /\ ~SaysText(m, n + 1) /\ type # "message_stop"
            /\ ~(type = "message_start" /\ x.value # None)
            /\ ~(type = "message_delta" /\ x.value # None)
  <2>1. u = t
    BY <1>1, <1>9, <1>10, <1>11, <1>12, <1>19
  <2>2. Asked
    BY <1>1, <1>11, <1>19, <2>1
  <2> QED BY <1>13, <1>19, <2>2 DEF u, ev
<1> QED BY <1>14, <1>15, <1>16, <1>17, <1>18, <1>19

\* Events are translated one after the other.
LEMMA TranslateAllStep ==
  ASSUME NEW t, NEW E, NEW evs \in Seq(E), NEW ev \in E
  PROVE  /\ TranslateAll(t, <<>>) = t
         /\ TranslateAll(t, Append(evs, ev)) = Translate(TranslateAll(t, evs), ev)
<1> DEFINE Iterate(f, x, i) == IF i = 0 THEN t ELSE Translate(f[i - 1], x[i])
           Runs(f, x, k) == f = [i \in 0..k |-> Iterate(f, x, i)]
           Run(x) == CHOOSE f : Runs(f, x, Len(x))
<1>1. \A x : TranslateAll(t, x) = Run(x)[Len(x)]
  BY DEF TranslateAll
<1>2. ASSUME NEW x
      PROVE  \A k \in Nat : \E f : Runs(f, x, k)
  <2> DEFINE T == {k \in Nat : \E f : Runs(f, x, k)}
  <2>1. 0 \in T
    <3>1. Runs([i \in 0..0 |-> t], x, 0)
      OBVIOUS
    <3> QED BY <3>1
  <2>2. ASSUME NEW k \in Nat, k \in T
        PROVE  k + 1 \in T
    <3>1. PICK f : Runs(f, x, k)
      BY <2>2
    <3> DEFINE g == [i \in 0..(k + 1) |-> Iterate(f, x, i)]
    <3>2. \A i \in 0..k : g[i] = f[i]
      <4>1. \A i \in 0..k : f[i] = Iterate(f, x, i)
        BY <3>1, Zenon
      <4>2. \A i \in 0..k : i \in 0..(k + 1)
        OBVIOUS
      <4> HIDE DEF Iterate
      <4> QED BY <4>1, <4>2
    <3>3. \A i \in 0..(k + 1) : i # 0 => i - 1 \in 0..k
      OBVIOUS
    <3> HIDE DEF g
    <3>4. \A i \in 0..(k + 1) : Iterate(g, x, i) = Iterate(f, x, i)
      BY <3>2, <3>3
    <3>5. Runs(g, x, k + 1)
      <4> HIDE DEF Iterate
      <4> QED BY <3>4 DEF g
    <3>6. k + 1 \in Nat
      OBVIOUS
    <3> HIDE DEF Runs
    <3> QED BY <3>5, <3>6
  <2>3. Nat \subseteq T
    <3> HIDE DEF T
    <3> QED BY <2>1, <2>2, NatInduct
  <2> QED BY <2>3
<1>3. ASSUME NEW x \in Seq(E)
      PROVE  /\ Len(x) \in Nat
             /\ \A i \in 0..Len(x) : Run(x)[i] = Iterate(Run(x), x, i)
  <2>1. Len(x) \in Nat
    OBVIOUS
  <2>2. Runs(Run(x), x, Len(x))
    <3> HIDE DEF Runs
    <3> QED BY <1>2, <2>1
  <2> HIDE DEF Run, Iterate
  <2> QED BY <2>1, <2>2
<1>4. TranslateAll(t, <<>>) = t
  <2>1. <<>> \in Seq(E) /\ Len(<<>>) = 0 /\ 0 \in 0..0
    OBVIOUS
  <2> HIDE DEF Run
  <2>2. Iterate(Run(<<>>), <<>>, 0) = t
    OBVIOUS
  <2>3. \A i \in 0..Len(<<>>) : Run(<<>>)[i] = Iterate(Run(<<>>), <<>>, i)
    <3> HIDE DEF Iterate
    <3> QED BY <1>3, <2>1
  <2>4. Run(<<>>)[0] = t
    <3> HIDE DEF Iterate
    <3> QED BY <2>1, <2>2, <2>3
  <2> QED BY <1>1, <2>1, <2>4
<1> DEFINE all == Append(evs, ev)
           n == Len(evs)
<1>5. /\ all \in Seq(E) /\ n \in Nat /\ Len(all) = n + 1 /\ all[n + 1] = ev
      /\ \A i \in 1..n : all[i] = evs[i]
  BY AppendProperties
<1> HIDE DEF all
<1> DEFINE f == Run(evs)
           g == Run(all)
<1>6. /\ \A i \in 0..n : f[i] = Iterate(f, evs, i)
      /\ \A i \in 0..(n + 1) : g[i] = Iterate(g, all, i)
  <2> HIDE DEF Run, Iterate
  <2> QED BY <1>3, <1>5
<1> HIDE DEF f, g, n
<1>7. \A i \in 0..n : g[i] = f[i]
  <2> DEFINE T == {i \in Nat : i <= n => g[i] = f[i]}
  <2>1. 0 \in T
    BY <1>5, <1>6
  <2>2. ASSUME NEW i \in Nat, i \in T
        PROVE  i + 1 \in T
    <3> SUFFICES ASSUME i + 1 <= n
                 PROVE  g[i + 1] = f[i + 1]
      OBVIOUS
    <3>1. /\ i + 1 \in 0..n /\ i + 1 \in 0..(n + 1) /\ i + 1 \in 1..n /\ i + 1 # 0
          /\ (i + 1) - 1 = i /\ i <= n
      BY <1>5
    <3>2. f[i + 1] = Translate(f[i], evs[i + 1]) /\ g[i + 1] = Translate(g[i], all[i + 1])
      BY <1>6, <3>1
    <3> QED BY <1>5, <2>2, <3>1, <3>2
  <2>3. Nat \subseteq T
    <3> HIDE DEF T
    <3> QED BY <2>1, <2>2, NatInduct
  <2> QED BY <1>5, <2>3
<1>8. g[n + 1] = Translate(g[n], ev)
  <2>1. n + 1 \in 0..(n + 1) /\ n + 1 # 0 /\ (n + 1) - 1 = n
    BY <1>5
  <2> QED BY <1>5, <1>6, <2>1
<1>9. g[n] = f[n]
  BY <1>5, <1>7
<1> HIDE DEF Run
<1>10. TranslateAll(t, all) = g[n + 1] /\ TranslateAll(t, evs) = f[n]
  BY <1>1, <1>5 DEF f, g, n
<1> QED BY <1>4, <1>8, <1>9, <1>10 DEF all

\* What a parser is after each piece of a chunk.
Parses(after, t, chunk) ==
  /\ after[0] = Parser(t, t.buf)
  /\ \A i \in 1..Len(chunk) : after[i] = TakeBytes(after[i - 1], chunk[i])
  /\ Push(t, chunk) = after[Len(chunk)]

\* A chunk is parsed piece by piece.
LEMMA PushSteps ==
  ASSUME NEW t, NEW chunk, Len(chunk) \in Nat
  PROVE  \E after : Parses(after, t, chunk)
<1> DEFINE Iterate(f, i) == IF i = 0 THEN Parser(t, t.buf) ELSE TakeBytes(f[i - 1], chunk[i])
           Runs(f, k) == f = [i \in 0..k |-> Iterate(f, i)]
           Run == CHOOSE f : Runs(f, Len(chunk))
           T == {k \in Nat : \E f : Runs(f, k)}
<1>1. Push(t, chunk) = Run[Len(chunk)]
  BY DEF Push
<1>2. 0 \in T
  <2>1. Runs([i \in 0..0 |-> Parser(t, t.buf)], 0)
    OBVIOUS
  <2> QED BY <2>1
<1>3. ASSUME NEW k \in Nat, k \in T
      PROVE  k + 1 \in T
  <2>1. PICK f : Runs(f, k)
    BY <1>3
  <2> DEFINE g == [i \in 0..(k + 1) |-> Iterate(f, i)]
  <2>2. \A i \in 0..k : g[i] = f[i]
    <3>1. \A i \in 0..k : f[i] = Iterate(f, i)
      BY <2>1, Zenon
    <3>2. \A i \in 0..k : i \in 0..(k + 1)
      OBVIOUS
    <3> HIDE DEF Iterate
    <3> QED BY <3>1, <3>2
  <2>3. \A i \in 0..(k + 1) : i # 0 => i - 1 \in 0..k
    OBVIOUS
  <2> HIDE DEF g
  <2>4. \A i \in 0..(k + 1) : Iterate(g, i) = Iterate(f, i)
    BY <2>2, <2>3
  <2>5. Runs(g, k + 1)
    <3> HIDE DEF Iterate
    <3> QED BY <2>4 DEF g
  <2>6. k + 1 \in Nat
    OBVIOUS
  <2> HIDE DEF Runs
  <2> QED BY <2>5, <2>6
<1>4. Nat \subseteq T
  <2> HIDE DEF T
  <2> QED BY <1>2, <1>3, NatInduct
<1>5. Runs(Run, Len(chunk))
  <2>1. \E f : Runs(f, Len(chunk))
    BY <1>4
  <2> HIDE DEF Runs
  <2> QED BY <2>1
<1> HIDE DEF Run
<1>6. \A i \in 0..Len(chunk) : Run[i] = Iterate(Run, i)
  <2> HIDE DEF Iterate
  <2> QED BY <1>5
<1>7. Run[0] = Parser(t, t.buf)
  BY <1>6
<1>8. \A i \in 1..Len(chunk) : i \in 0..Len(chunk) /\ i # 0
  OBVIOUS
<1>9. \A i \in 1..Len(chunk) : Run[i] = TakeBytes(Run[i - 1], chunk[i])
  BY <1>6, <1>8
<1> QED BY <1>1, <1>7, <1>9 DEF Parses

-----------------------------------------------------------------------------
(* The parser, half line by half line *)

\* Half a line that is not complete.
Held(m, q) == IF q % 2 = 1 THEN <<Pieces(m)[q]>> ELSE <<>>

\* A parser that began with translator t and has read the first q half lines:
\* translated, its events would bring t up to date, or cut it.
ParsedTo(p, t, m, q) ==
  /\ DOMAIN p = {"buf", "event", "data", "events", "bad"}
  /\ p.bad \in BOOLEAN
  /\ p.bad = FALSE =>
       /\ p.buf = Held(m, q)
       /\ p.event = EventName(m, q \div 2)
       /\ p.data = EventData(m, q \div 2)
       /\ p.events \in Seq(Events(m))
       /\ \/ UpToDate(TranslateAll(t, p.events), m, q \div 2)
          \/ CutShort(TranslateAll(t, p.events), m, q \div 2)

\* One more half line, of a message that has it.
LEMMA TakeBytesStep ==
  ASSUME NEW m, Len(m) \in Nat, NEW q \in Nat, q + 1 <= 2 * Len(m),
         NEW t, NEW p, ParsedTo(p, t, m, q)
  PROVE  ParsedTo(TakeBytes(p, Pieces(m)[q + 1]), t, m, q + 1)
<1> DEFINE n == q \div 2
           piece == Pieces(m)[q + 1]
           bytes == Append(p.buf, piece)
           r == TakeBytes(p, piece)
           u == TranslateAll(t, p.events)
           Good(w, k) == UpToDate(w, m, k) \/ CutShort(w, m, k)
<1>1. n \in Nat
  OBVIOUS
<1>2. /\ q + 1 \in 1..2 * Len(m)
      /\ Pieces(m) = [i \in 1..2 * Len(m) |-> [line |-> m[(i + 1) \div 2], ends |-> i % 2 = 0]]
  BY DEF Pieces
<1>3. piece.ends <=> (q + 1) % 2 = 0
  <2>1. piece = [line |-> m[((q + 1) + 1) \div 2], ends |-> (q + 1) % 2 = 0]
    BY <1>2, Zenon
  <2> HIDE DEF piece
  <2> QED BY <2>1
<1>4. CASE p.bad = TRUE
  <2>1. r = p
    BY <1>4 DEF TakeBytes
  <2> QED BY <1>4, <2>1 DEF ParsedTo
<1>5. CASE p.bad = FALSE /\ q % 2 = 0
  <2>1. (q + 1) % 2 = 1 /\ (q + 1) \div 2 = n
    BY <1>5
  <2>2. p.buf = <<>>
    BY <1>5 DEF ParsedTo, Held
  <2>3. bytes = <<piece>>
    BY <2>2
  <2>4. ~piece.ends
    BY <1>3, <2>1
  <2> HIDE DEF piece
  <2>5. r = [p EXCEPT !.buf = <<piece>>]
    BY <1>5, <2>3, <2>4 DEF TakeBytes
  <2>6. Held(m, q + 1) = <<piece>>
    BY <2>1 DEF Held, piece
  <2>7. /\ DOMAIN r = DOMAIN p /\ r.buf = <<piece>> /\ r.bad = p.bad
        /\ r.event = p.event /\ r.data = p.data /\ r.events = p.events
    BY <2>5 DEF ParsedTo
  <2> HIDE DEF r
  <2>8. ParsedTo(r, t, m, q + 1)
    BY <1>5, <2>1, <2>6, <2>7 DEF ParsedTo
  <2> QED BY <2>8 DEF r, piece
<1>6. CASE p.bad = FALSE /\ q % 2 = 1
  <2> DEFINE line == m[n + 1]
             o == [p EXCEPT !.buf = <<>>]
  <2>1. (q + 1) % 2 = 0 /\ (q + 1) \div 2 = n + 1 /\ q \in 1..2 * Len(m)
    BY <1>6
  <2>2. p.buf = <<Pieces(m)[q]>> /\ Pieces(m)[q].line = line
    BY <1>2, <1>6, <2>1 DEF ParsedTo, Held
  <2>3. LineOf(bytes) = line
    <3> HIDE DEF piece, line
    <3>1. Len(bytes) = 2 /\ bytes[1] = Pieces(m)[q]
      BY <2>2
    <3> QED BY <2>2, <3>1 DEF LineOf
  <2>4. piece.ends
    BY <1>3, <2>1
  <2> HIDE DEF piece, line, bytes
  <2>5. r = TakeLine(o, line)
    BY <1>6, <2>3, <2>4 DEF TakeBytes, bytes
  <2>6. /\ DOMAIN o = {"buf", "event", "data", "events", "bad"}
        /\ o.buf = <<>> /\ o.bad = FALSE /\ o.event = p.event /\ o.data = p.data
        /\ o.events = p.events
    BY <1>6 DEF ParsedTo
  <2>7. Held(m, q + 1) = <<>>
    BY <2>1 DEF Held
  <2>8. p.event = EventName(m, n) /\ p.data = EventData(m, n) /\ p.events \in Seq(Events(m)) /\ Good(u, n)
    BY <1>6 DEF ParsedTo
  <2> HIDE DEF o, r, n, u
  <2> SUFFICES /\ DOMAIN r = {"buf", "event", "data", "events", "bad"}
               /\ \/ r.bad = TRUE
                  \/ /\ r.bad = FALSE
                     /\ r.buf = <<>>
                     /\ r.event = EventName(m, n + 1)
                     /\ r.data = EventData(m, n + 1)
                     /\ r.events \in Seq(Events(m))
                     /\ Good(TranslateAll(t, r.events), n + 1)
    BY <2>1, <2>7 DEF ParsedTo, r, piece
  <2>9. line.field # "bad" /\ (line.field = "blank" => EventData(m, n) = <<>>) => Good(u, n + 1)
    BY <1>1, <2>8, QuietStep, CutStep DEF line
  <2>10. CASE line.field = "bad"
    <3>1. r = [o EXCEPT !.bad = TRUE]
      BY <2>5, <2>10 DEF TakeLine
    <3> QED BY <2>6, <3>1
  <2>11. CASE line.field = "event"
    <3>1. r = [o EXCEPT !.event = line.name]
      BY <2>5, <2>11 DEF TakeLine
    <3>2. EventName(m, n + 1) = line.name /\ EventData(m, n + 1) = EventData(m, n)
      BY <1>1, <2>11, EventStep DEF line
    <3>3. Good(u, n + 1)
      BY <2>9, <2>11
    <3>4. /\ DOMAIN r = {"buf", "event", "data", "events", "bad"}
          /\ r.bad = FALSE /\ r.buf = <<>> /\ r.event = line.name /\ r.data = p.data
          /\ r.events = p.events
      BY <2>6, <3>1
    <3> QED BY <2>8, <3>2, <3>3, <3>4 DEF u
  <2>12. CASE line.field = "data"
    <3>1. r = [o EXCEPT !.data = Append(@, line.value)]
      BY <2>5, <2>12 DEF TakeLine
    <3>2. /\ EventName(m, n + 1) = EventName(m, n)
          /\ EventData(m, n + 1) = Append(EventData(m, n), line.value)
      BY <1>1, <2>12, EventStep DEF line
    <3>3. Good(u, n + 1)
      BY <2>9, <2>12
    <3>4. /\ DOMAIN r = {"buf", "event", "data", "events", "bad"}
          /\ r.bad = FALSE /\ r.buf = <<>> /\ r.event = p.event
          /\ r.data = Append(p.data, line.value) /\ r.events = p.events
      BY <2>6, <3>1
    <3> QED BY <2>8, <3>2, <3>3, <3>4 DEF u
  <2>13. CASE line.field = "blank" /\ (p.event # None \/ p.data # <<>>)
    <3> DEFINE ev == EventAt(m, n)
    <3>1. r = [o EXCEPT !.events = Append(@, [event |-> o.event, data |-> o.data]),
                        !.event = None, !.data = <<>>]
      BY <2>5, <2>6, <2>13 DEF TakeLine
    <3>2. EventName(m, n + 1) = None /\ EventData(m, n + 1) = <<>>
      BY <1>1, <2>13, EventStep DEF line
    <3>3. ev = [event |-> o.event, data |-> o.data] /\ ev \in Events(m)
      BY <1>1, <2>6, <2>8 DEF EventAt, Events
    <3>4. TranslateAll(t, Append(p.events, ev)) = Translate(u, ev)
      BY <2>8, <3>3, TranslateAllStep DEF u
    <3>5. Good(Translate(u, ev), n + 1)
      <4>1. CASE UpToDate(u, m, n)
        BY <1>1, <2>13, <4>1, TranslateStep DEF line
      <4>2. CASE CutShort(u, m, n)
        BY <1>1, <4>2, CutStep
      <4> QED BY <2>8, <4>1, <4>2
    <3> HIDE DEF ev
    <3>6. /\ DOMAIN r = {"buf", "event", "data", "events", "bad"}
          /\ r.bad = FALSE /\ r.buf = <<>> /\ r.event = None /\ r.data = <<>>
          /\ r.events = Append(p.events, ev)
      BY <2>6, <3>1, <3>3
    <3>7. r.events \in Seq(Events(m))
      BY <2>8, <3>3, <3>6
    <3> QED BY <3>2, <3>4, <3>5, <3>6, <3>7
  <2>14. CASE line.field = "blank" /\ p.event = None /\ p.data = <<>>
    <3>1. r = o
      BY <2>5, <2>6, <2>14 DEF TakeLine
    <3>2. EventName(m, n + 1) = None /\ EventData(m, n + 1) = <<>>
      BY <1>1, <2>14, EventStep DEF line
    <3>3. Good(u, n + 1)
      BY <2>8, <2>9, <2>14
    <3> QED BY <2>6, <2>8, <2>14, <3>1, <3>2, <3>3 DEF u
  <2>15. CASE line.field \notin {"bad", "event", "data", "blank"}
    <3>1. r = o
      BY <2>5, <2>15 DEF TakeLine
    <3>2. EventName(m, n + 1) = EventName(m, n) /\ EventData(m, n + 1) = EventData(m, n)
      BY <1>1, <2>15, EventStep DEF line
    <3>3. Good(u, n + 1)
      BY <2>9, <2>15
    <3> QED BY <2>6, <2>8, <3>1, <3>2, <3>3 DEF u
  <2> QED BY <2>10, <2>11, <2>12, <2>13, <2>14, <2>15
<1>7. p.bad = TRUE \/ p.bad = FALSE
  BY Zenon DEF ParsedTo
<1>8. q % 2 = 0 \/ q % 2 = 1
  OBVIOUS
<1> QED BY <1>4, <1>5, <1>6, <1>7, <1>8

-----------------------------------------------------------------------------
(* What the client of a stream has got *)

\* After q half lines: all that they ask for, with the rest at hand.
Live(t, m, q) ==
  /\ UpToDate(t, m, q \div 2)
  /\ t.buf = Held(m, q)
  /\ t.event = EventName(m, q \div 2)
  /\ t.data = EventData(m, q \div 2)

\* The stream was closed after line n.
Closed(t, m, n) ==
  /\ t.returned = TRUE
  /\ t.out = IF Stopped(m, n) THEN Frames(m, n)
             ELSE Append(Append(Frames(m, n), FinishFrame(Id(m, n), Finish(m, n))), Done)
  /\ Translatable(m, n)

\* A new translator has been told nothing.
LEMMA NewIsLive ==
  ASSUME NEW m
  PROVE  Live(NewTranslator, m, 0)
<1>1. 0 \div 2 = 0 /\ 0 % 2 # 1 /\ 0 \in Nat
  OBVIOUS
<1>2. Open(m, 0) = {}
  BY DEF Open
<1>3. EventName(m, 0) = None /\ EventData(m, 0) = <<>>
  BY <1>2, EventStart
<1>4. LastGiven(m, 0, "message_delta", None) = None
  BY <1>1, GivenStep
<1>5. LastGiven(m, 0, "message_start", "chatcmpl-anthropic") = "chatcmpl-anthropic"
  BY <1>1, GivenStep
<1>6. Frames(m, 0) = <<>>
  BY <1>1, FramesStep
<1>7. ~Stopped(m, 0) /\ Translatable(m, 0)
  BY DEF Stopped, Translatable
<1> QED BY <1>1, <1>3, <1>4, <1>5, <1>6, <1>7 DEF Live, UpToDate, Held, NewTranslator, Fields, Id

\* A chunk, wherever it begins and ends.
LEMMA ReadChunkStep ==
  ASSUME NEW m, Len(m) \in Nat, NEW q \in Nat, NEW n \in Nat, q + n <= 2 * Len(m),
         NEW t, Live(t, m, q)
  PROVE  LET u == ReadChunk(t, SubSeq(Pieces(m), q + 1, q + n))
         IN  Live(u, m, q + n) \/ CutShort(u, m, (q + n) \div 2)
<1> DEFINE chunk == SubSeq(Pieces(m), q + 1, q + n)
           u == ReadChunk(t, chunk)
           p == Push(t, chunk)
<1>1. chunk = [i \in 1..n |-> Pieces(m)[q + i]]
  <2> DEFINE w == Pieces(m)
  <2> HIDE DEF w
  <2>1. SubSeq(w, q + 1, q + n) = [i \in 1..n |-> w[q + i]]
    OBVIOUS
  <2> QED BY <2>1 DEF w
<1> HIDE DEF chunk
<1>2. Len(chunk) = n /\ \A i \in 1..n : chunk[i] = Pieces(m)[q + i]
  BY <1>1
<1> HIDE DEF p
<1>3. Len(chunk) \in Nat
  BY <1>2
<1>4. PICK after : Parses(after, t, chunk)
  BY <1>3, PushSteps
<1>5. /\ after[0] = Parser(t, t.buf)
      /\ \A i \in 1..n : after[i] = TakeBytes(after[i - 1], chunk[i])
      /\ p = after[n]
  BY <1>2, <1>4 DEF Parses, p
<1>6. ParsedTo(after[0], t, m, q)
  <2>1. <<>> \in Seq(Events(m)) /\ EventAt(m, 0) \in Events(m)
    BY DEF Events
  <2>2. TranslateAll(t, <<>>) = t
    BY <2>1, TranslateAllStep
  <2> QED BY <1>5, <2>1, <2>2 DEF ParsedTo, Live, Parser
<1>7. ParsedTo(p, t, m, q + n)
  <2> DEFINE T == {i \in Nat : i <= n => ParsedTo(after[i], t, m, q + i)}
  <2>1. 0 \in T
    BY <1>6
  <2>2. ASSUME NEW i \in Nat, i \in T
        PROVE  i + 1 \in T
    <3> SUFFICES ASSUME i + 1 <= n
                 PROVE  ParsedTo(after[i + 1], t, m, q + (i + 1))
      OBVIOUS
    <3>1. /\ i + 1 \in 1..n /\ (i + 1) - 1 = i /\ i <= n /\ q + i \in Nat
          /\ (q + i) + 1 <= 2 * Len(m) /\ q + (i + 1) = (q + i) + 1
      OBVIOUS
    <3>2. after[i + 1] = TakeBytes(after[i], Pieces(m)[(q + i) + 1])
      BY <1>2, <1>5, <3>1
    <3>3. ParsedTo(after[i], t, m, q + i)
      BY <2>2, <3>1
    <3> QED BY <3>1, <3>2, <3>3, TakeBytesStep
  <2>3. Nat \subseteq T
    <3> HIDE DEF T
    <3> QED BY <2>1, <2>2, NatInduct
  <2> QED BY <1>5, <2>3
<1>8. u = IF p.bad THEN YieldError(t, "UpstreamError")
          ELSE [TranslateAll(t, p.events) EXCEPT !.buf = p.buf, !.event = p.event, !.data = p.data]
  BY DEF ReadChunk, p
<1> DEFINE l == (q + n) \div 2
           w == TranslateAll(t, p.events)
<1> HIDE DEF u
<1>9. CASE p.bad = TRUE
  <2>1. UpToDate(t, m, q \div 2)
    BY DEF Live
  <2>2. DOMAIN t = Fields /\ t.out = Frames(m, q \div 2)
    BY <2>1 DEF UpToDate
  <2>3. u = YieldError(t, "UpstreamError")
    BY <1>8, <1>9
  <2>4. /\ DOMAIN u = Fields /\ u.returned = TRUE
        /\ u.out = Append(Frames(m, q \div 2), Fault("UpstreamError"))
    BY <2>2, <2>3 DEF YieldError, Yield, Fields
  <2>5. q \div 2 \in 0..l
    OBVIOUS
  <2>6. CutShort(u, m, l)
    BY <2>4, <2>5 DEF CutShort
  <2> QED BY <2>6 DEF u, chunk
<1>10. CASE p.bad = FALSE
  <2> HIDE DEF l, w
  <2>1. u = [w EXCEPT !.buf = p.buf, !.event = p.event, !.data = p.data]
    BY <1>8, <1>10 DEF w
  <2>2. /\ p.buf = Held(m, q + n) /\ p.event = EventName(m, l) /\ p.data = EventData(m, l)
        /\ UpToDate(w, m, l) \/ CutShort(w, m, l)
    BY <1>7, <1>10 DEF ParsedTo, l, w
  <2>3. DOMAIN w = Fields
    BY <2>2 DEF UpToDate, CutShort
  <2>4. /\ DOMAIN u = Fields /\ u.buf = p.buf /\ u.event = p.event /\ u.data = p.data
        /\ u.id = w.id /\ u.finish = w.finish /\ u.done_sent = w.done_sent
        /\ u.out = w.out /\ u.returned = w.returned
    BY <2>1, <2>3 DEF Fields
  <2>5. CASE UpToDate(w, m, l)
    <3>1. UpToDate(u, m, l)
      BY <2>4, <2>5 DEF UpToDate
    <3>2. Live(u, m, q + n)
      BY <2>2, <2>4, <3>1 DEF Live, l
    <3> QED BY <3>2 DEF u, chunk
  <2>6. CASE CutShort(w, m, l)
    <3>1. CutShort(u, m, l)
      BY <2>4, <2>6 DEF CutShort
    <3> QED BY <3>1 DEF u, chunk, l
  <2> QED BY <2>2, <2>5, <2>6
<1>11. p.bad = TRUE \/ p.bad = FALSE
  BY <1>7, Zenon DEF ParsedTo
<1> QED BY <1>9, <1>10, <1>11

\* Outside of a stream nothing of one is there; inside, the half lines that have
\* arrived are those of a message, and the translation of them is right.
StreamInv ==
  /\ phase # "streaming" => translator = NewTranslator /\ sent = 0
  /\ phase = "streaming" => message \in Messages /\ sent \in 0..2 * Len(message)
  /\ phase = "streaming" /\ call.provider = "anthropic" =>
       \/ Live(translator, message, sent)
       \/ CutShort(translator, message, sent \div 2)
       \/ Closed(translator, message, sent \div 2)

\* A message has as many lines as it has.
LEMMA MessageLength == \A m \in Messages : Len(m) \in Nat /\ Len(Wire[m]) = 2 * Len(m)
<1> SUFFICES ASSUME NEW m \in Messages
             PROVE  Len(m) \in Nat /\ Len(Wire[m]) = 2 * Len(m)
  OBVIOUS
<1>1. m \in Seq(ToSet(m))
  BY StreamAssumption
<1> DEFINE S == ToSet(m)
           l == Len(m)
<1> HIDE DEF S
<1>2. l \in Nat
  BY <1>1 DEF S
<1> HIDE DEF l
<1>3. 2 * l \in Nat /\ Wire[m] = [i \in 1..2 * l |-> Pieces(m)[i]]
  BY <1>2 DEF Wire, Pieces, l
<1> QED BY <1>2, <1>3 DEF l

\* Whatever goes on before a stream begins, or instead of one, leaves it alone.
LEMMA BeforeStream ==
  IInv /\ StreamInv
    /\ (\/ Translated \/ BackoffElapsed
        \/ \E f \in Failures : SendFails(f)
        \/ \E timeout \in BOOLEAN : BodyBreaks(timeout)
        \/ \E body \in Bodies, usage \in Usages : Body(body, usage)
        \/ \E why \in {"UpstreamTimeout", "disconnected"} : Drop(why))
    => StreamInv'
<1> SUFFICES ASSUME IInv, StreamInv,
                    \/ Translated \/ BackoffElapsed
                    \/ \E f \in Failures : SendFails(f)
                    \/ \E timeout \in BOOLEAN : BodyBreaks(timeout)
                    \/ \E body \in Bodies, usage \in Usages : Body(body, usage)
                    \/ \E why \in {"UpstreamTimeout", "disconnected"} : Drop(why)
             PROVE  StreamInv'
  OBVIOUS
<1>1. \A e : e # "ok" /\ Fail(e) => phase' # "streaming"
  BY DEF Fail, Return
<1>2. phase # "streaming" /\ phase' # "streaming" /\ UNCHANGED <<sent, translator>>
  <2>1. CASE Translated
    BY <2>1 DEF Translated, Return, streamVars
  <2>2. CASE BackoffElapsed
    BY <2>2 DEF BackoffElapsed, streamVars
  <2>3. CASE \E f \in Failures : SendFails(f)
    <3>1. PICK f \in Failures : SendFails(f)
      BY <2>3
    <3>2. MapReqwestError(f) # "ok"
      BY DEF MapReqwestError
    <3> QED BY <1>1, <3>1, <3>2 DEF SendFails, streamVars
  <2>4. CASE \E timeout \in BOOLEAN : BodyBreaks(timeout)
    <3>1. PICK timeout \in BOOLEAN : BodyBreaks(timeout)
      BY <2>4
    <3>2. \A f : MapReqwestError(f) # "ok"
      BY DEF MapReqwestError
    <3> QED BY <1>1, <3>1, <3>2 DEF BodyBreaks, streamVars
  <2>5. CASE \E body \in Bodies, usage \in Usages : Body(body, usage)
    <3>1. PICK body \in Bodies, usage \in Usages : Body(body, usage)
      BY <2>5
    <3>2. phase = "body" /\ UNCHANGED streamVars
      BY <3>1 DEF Body
    <3>3. CASE BodyError(body) = "ok"
      <4>1. Return("ok")
        BY <3>1, <3>3 DEF Body
      <4>2. call.path # "stream"
        BY <3>2 DEF IInv, Unary
      <4> QED BY <3>2, <4>1, <4>2 DEF Return, streamVars
    <3>4. CASE BodyError(body) # "ok"
      <4>1. Fail(BodyError(body))
        BY <3>1, <3>4 DEF Body
      <4> QED BY <1>1, <3>2, <3>4, <4>1 DEF streamVars
    <3> QED BY <3>3, <3>4
  <2>6. CASE \E why \in {"UpstreamTimeout", "disconnected"} : Drop(why)
    BY <2>6 DEF Drop, streamVars
  <2> QED BY <2>1, <2>2, <2>3, <2>4, <2>5, <2>6
<1> QED BY <1>2 DEF StreamInv

\* A stream begins with nothing.
LEMMA RespondStarts == \A status \in Statuses : StreamInv /\ Respond(status) => StreamInv'
<1> SUFFICES ASSUME NEW status \in Statuses, StreamInv, Respond(status)
             PROVE  StreamInv'
  OBVIOUS
<1>1. phase = "send" /\ UNCHANGED <<call, sent, translator>>
  BY DEF Respond
<1>2. translator' = NewTranslator /\ sent' = 0
  BY <1>1 DEF StreamInv
<1>3. phase' = "streaming" => message' \in Messages
  <2>1. \A e : e # "ok" /\ Fail(e) => phase' # "streaming"
    BY DEF Fail, Return
  <2> QED BY <2>1 DEF Respond
<1>4. phase' = "streaming" => sent' \in 0..2 * Len(message')
  BY <1>2, <1>3, MessageLength
<1>5. Live(translator', message', sent')
  BY <1>2, NewIsLive
<1> QED BY <1>2, <1>3, <1>4, <1>5 DEF StreamInv

\* The three things that can come from an upstream while it streams.
LEMMA StreamSteps ==
  StreamInv /\ (\/ \E n \in 1..MaxChunk : Chunk(n)
                \/ \E timeout \in BOOLEAN : Break(timeout)
                \/ End)
    => StreamInv'
<1> SUFFICES ASSUME StreamInv,
                    \/ \E n \in 1..MaxChunk : Chunk(n)
                    \/ \E timeout \in BOOLEAN : Break(timeout)
                    \/ End
             PROVE  StreamInv'
  OBVIOUS
<1> DEFINE m == message
           q == sent
           t == translator
           anthropic == call.provider = "anthropic"
<1>1. /\ phase = "streaming" /\ ~t.returned /\ UNCHANGED <<call, phase, message>>
  BY DEF Chunk, Break, End, Streaming
<1>2. m \in Messages /\ q \in 0..2 * Len(m) /\ Len(m) \in Nat /\ Len(Wire[m]) = 2 * Len(m)
      /\ Wire[m] = Pieces(m) /\ q \in Nat
  BY <1>1, MessageLength DEF StreamInv, Wire
<1>3. anthropic => Live(t, m, q)
  BY <1>1 DEF StreamInv, CutShort, Closed
<1>4. CASE \E n \in 1..MaxChunk : Chunk(n)
  <2>1. PICK n \in 1..MaxChunk : Chunk(n)
    BY <1>4
  <2>2. n \in Nat /\ q + n <= 2 * Len(m) /\ sent' = q + n
    BY <1>2, <2>1 DEF Chunk
  <2>3. sent' \in 0..2 * Len(m)
    BY <1>2, <2>2
  <2>4. ASSUME anthropic
        PROVE  Live(translator', m, sent') \/ CutShort(translator', m, sent' \div 2)
    <3>1. translator' = ReadChunk(t, SubSeq(Pieces(m), q + 1, q + n))
      BY <1>2, <2>1, <2>4 DEF Chunk
    <3> QED BY <1>2, <1>3, <2>2, <2>4, <3>1, ReadChunkStep
  <2> QED BY <1>1, <1>2, <2>3, <2>4 DEF StreamInv
<1> DEFINE k == q \div 2
<1>5. anthropic => UpToDate(t, m, k)
  BY <1>3 DEF Live
<1>6. k \in 0..k
  BY <1>2
<1> HIDE DEF k
<1>7. CASE \E timeout \in BOOLEAN : Break(timeout)
  <2>1. PICK e \in {"UpstreamTimeout", "UpstreamError"} : translator' = ReadError(t, e)
    BY <1>7 DEF Break
  <2>2. sent' = q
    BY <1>7 DEF Break
  <2>3. ASSUME anthropic
        PROVE  CutShort(translator', m, k)
    <3>1. DOMAIN t = Fields /\ t.out = Frames(m, k)
      BY <1>5, <2>3 DEF UpToDate
    <3>2. /\ DOMAIN translator' = Fields /\ translator'.returned = TRUE
          /\ translator'.out = Append(Frames(m, k), Fault(e))
      BY <2>1, <3>1 DEF ReadError, YieldError, Yield, Fields
    <3> QED BY <1>6, <3>2 DEF CutShort
  <2> QED BY <1>1, <1>2, <2>2, <2>3 DEF StreamInv, k
<1>8. CASE End
  <2>1. sent' = q
    BY <1>8 DEF End
  <2>2. ASSUME anthropic
        PROVE  Closed(translator', m, k)
    <3>1. translator' = ReadEnd(t)
      BY <1>8, <2>2 DEF End
    <3>2. UpToDate(t, m, k)
      BY <1>5, <2>2
    <3>3. Finish(m, k) = IF t.finish = None THEN "stop" ELSE t.finish
      <4>1. \A x : MapStopReason(x) # None
        BY StreamAssumption DEF MapStopReason
      <4> QED BY <3>2, <4>1 DEF UpToDate, Finish
    <3> DEFINE r == IF t.done_sent THEN t ELSE Terminate(t)
    <3>4. translator' = [r EXCEPT !.returned = TRUE]
      BY <3>1 DEF ReadEnd
    <3>5. DOMAIN t = Fields /\ t.out = Frames(m, k) /\ t.id = Id(m, k) /\ Translatable(m, k)
          /\ (t.done_sent <=> Stopped(m, k))
      BY <3>2 DEF UpToDate
    <3>6. /\ DOMAIN r = Fields
          /\ r.out = IF Stopped(m, k) THEN Frames(m, k)
                     ELSE Append(Append(Frames(m, k), FinishFrame(Id(m, k), Finish(m, k))), Done)
      BY <3>3, <3>5 DEF Terminate, Yield, Fields
    <3> HIDE DEF r
    <3>7. translator'.returned = TRUE /\ translator'.out = r.out
      BY <3>4, <3>6 DEF Fields
    <3> QED BY <3>5, <3>6, <3>7 DEF Closed
  <2> QED BY <1>1, <1>2, <2>1, <2>2 DEF StreamInv, k
<1> QED BY <1>4, <1>7, <1>8

\* Every step keeps the stream right.
LEMMA StreamNext == IInv /\ StreamInv /\ [Next]_vars => StreamInv'
<1>1. StreamInv /\ UNCHANGED vars => StreamInv'
  BY DEF StreamInv, vars
<1> QED BY <1>1, BeforeStream, RespondStarts, StreamSteps DEF Next

\* It is right in every reachable state.
LEMMA StreamInvariance == Spec => []StreamInv
<1>1. Init => StreamInv
  BY DEF Init, StreamInv
<1> QED BY <1>1, StreamNext, Invariance, PTL DEF Spec

\* The last item of what grew, and the rest.
LEMMA LastAppend ==
  ASSUME NEW S, NEW s \in Seq(S), NEW x
  PROVE  Append(s, x) # <<>> /\ Last(Append(s, x)) = x /\ Front(Append(s, x)) = s
<1> DEFINE T == S \cup {x}
           t == Append(s, x)
<1>1. s \in Seq(T)
  <2>1. S \subseteq T
    OBVIOUS
  <2> QED BY <2>1, SeqWider
<1>2. x \in T
  OBVIOUS
<1> HIDE DEF T
<1>3. /\ t \in Seq(T) /\ t # <<>> /\ Len(s) \in Nat /\ Len(t) = Len(s) + 1
      /\ \A i \in 1..Len(s) : t[i] = s[i]
      /\ t[Len(s) + 1] = x
  BY <1>1, <1>2, AppendProperties
<1> HIDE DEF t
<1>4. Last(t) = x
  BY <1>3 DEF Last
<1>5. Front(t) = s
  <2>1. Len(t) - 1 = Len(s)
    BY <1>3
  <2>2. Front(t) = SubSeq(t, 1, Len(s))
    BY <2>1 DEF Front
  <2>3. SubSeq(t, 1, Len(s)) = [i \in 1..Len(s) |-> t[i]]
    BY <1>3
  <2>4. s = [i \in 1..Len(s) |-> s[i]]
    BY <1>1
  <2> QED BY <1>3, <2>2, <2>3, <2>4
<1> QED BY <1>3, <1>4, <1>5 DEF t

\* No frame of a message is an error.
LEMMA FramesAreNoErrors ==
  ASSUME NEW m, NEW n \in Nat, Frames(m, n) # <<>>
  PROVE  Last(Frames(m, n)).frame # "error"
<1> DEFINE s == Frames(m, n)
           F == FrameSet(m)
<1>1. s \in Seq(F)
  BY FramesStep
<1>2. \A x \in F : x.frame # "error"
  BY FrameFacts DEF FrameSet
<1> HIDE DEF s, F
<1>3. s # <<>>
  BY DEF s
<1>4. Last(s) \in F
  BY <1>1, <1>3 DEF Last
<1> QED BY <1>2, <1>4 DEF s

\* The client of an Anthropic stream gets what the lines that have arrived mean,
\* however they are cut into chunks and wherever the stream ends or breaks
\* (anthropic_sse.rs SseParser::push and translate).
THEOREM StreamIsTranslated == Spec => []StreamIsTranslation
<1>1. StreamInv => StreamIsTranslation
  <2> SUFFICES ASSUME StreamInv, phase = "streaming", call.provider = "anthropic"
               PROVE  StreamIsTranslation
    BY DEF StreamIsTranslation
  <2> DEFINE n == sent \div 2
             m == message
             out == translator.out
             all == Frames(m, n)
             finish == FinishFrame(Id(m, n), Finish(m, n))
             tail == <<finish, Done>>
             broken == \E k \in 1..n : Untranslatable(m, k)
             failed == out # <<>> /\ Last(out).frame = "error"
  <2>1. n \in Nat
    <3>1. sent \in Nat
      BY MessageLength DEF StreamInv
    <3> QED BY <3>1
  <2>2. \A k \in Nat : Frames(m, k) \in Seq(FrameSet(m))
    BY FramesStep
  <2>3. Live(translator, m, sent) \/ CutShort(translator, m, n) \/ Closed(translator, m, n)
    BY DEF StreamInv
  <2> HIDE DEF n, m
  <2>4. Translatable(m, n) <=> ~broken
    BY DEF Translatable
  <2>5. all \o tail = Append(Append(all, finish), Done)
    <3> DEFINE S == FrameSet(m) \cup {finish, Done}
    <3>1. all \in Seq(S)
      <4>1. FrameSet(m) \subseteq S /\ all \in Seq(FrameSet(m))
        BY <2>1, <2>2
      <4> HIDE DEF S, all
      <4> QED BY <4>1, SeqWider
    <3>2. finish \in S /\ Done \in S
      OBVIOUS
    <3> HIDE DEF S, all, finish
    <3> QED BY <3>1, <3>2
  <2>6. StreamIsTranslation <=>
          CASE failed -> IsPrefix(Front(out), all)
            [] ~failed /\ ~translator.returned -> out = all /\ ~broken
            [] OTHER -> out = (IF Stopped(m, n) THEN all ELSE all \o tail) /\ ~broken
    BY DEF StreamIsTranslation, n, m
  <2>7. CASE Live(translator, m, sent)
    <3>1. translator.returned = FALSE /\ out = all /\ ~broken
      BY <2>4, <2>7 DEF Live, UpToDate, n
    <3>2. ~failed
      BY <2>1, <3>1, FramesAreNoErrors
    <3> HIDE DEF failed, out, all, broken, tail
    <3> QED BY <2>6, <3>1, <3>2
  <2>8. CASE CutShort(translator, m, n)
    <3>1. PICK k \in 0..n, e \in {"Unsupported", "UpstreamError", "UpstreamTimeout"} :
            out = Append(Frames(m, k), Fault(e))
      BY <2>8 DEF CutShort
    <3>2. k \in Nat
      BY <2>1
    <3>3. out # <<>> /\ Last(out) = Fault(e) /\ Front(out) = Frames(m, k)
      BY <2>2, <3>1, <3>2, LastAppend
    <3>4. failed
      BY <3>3 DEF Fault
    <3>5. IsPrefix(Front(out), all)
      BY <2>1, <3>3, FramesGrow
    <3> HIDE DEF failed, out, all, broken, tail
    <3> QED BY <2>6, <3>4, <3>5
  <2>9. CASE Closed(translator, m, n)
    <3>1. /\ translator.returned = TRUE
          /\ out = IF Stopped(m, n) THEN all ELSE all \o tail
          /\ ~broken
      BY <2>4, <2>5, <2>9 DEF Closed
    <3>2. ~failed
      <4>1. CASE Stopped(m, n)
        BY <2>1, <3>1, <4>1, FramesAreNoErrors
      <4>2. CASE ~Stopped(m, n)
        <5>1. out = Append(Append(all, finish), Done)
          BY <2>5, <3>1, <4>2
        <5>2. Append(all, finish) \in Seq(FrameSet(m) \cup {finish})
          <6> DEFINE S == FrameSet(m) \cup {finish}
          <6>1. FrameSet(m) \subseteq S /\ all \in Seq(FrameSet(m)) /\ finish \in S
            BY <2>1, <2>2
          <6> HIDE DEF S, all, finish
          <6>2. all \in Seq(S)
            BY <6>1, SeqWider
          <6>3. Append(all, finish) \in Seq(S)
            BY <6>1, <6>2
          <6> QED BY <6>3 DEF S
        <5>3. Last(out) = Done
          <6> HIDE DEF all, finish, out
          <6> QED BY <5>1, <5>2, LastAppend
        <5> QED BY <5>3 DEF Done
      <4> QED BY <4>1, <4>2
    <3> HIDE DEF failed, out, all, broken, tail
    <3> QED BY <2>6, <3>1, <3>2
  <2> QED BY <2>3, <2>7, <2>8, <2>9
<1> QED BY <1>1, StreamInvariance, PTL
=============================================================================
