---------------------------- MODULE ProviderCall ----------------------------
(***************************************************************************)
(* One call to one upstream, admitted already: the attempt loop of         *)
(* governed.rs around a provider of crates/moaray-providers (openai.rs or  *)
(* anthropic.rs over common.rs and client.rs), down to what the network    *)
(* does, and up to the verdict for the breaker, the result for the handler *)
(* and the usage row.  The handler's future is dropped when its timeout    *)
(* fires or the client leaves, at any await.                               *)
(***************************************************************************)
EXTENDS AnthropicStream, UsageAccounting, SequencesExt, Ordering

CONSTANTS
  MaxRetries,  \* max_retries(): 0 when retry is disabled
  Usages,      \* what an upstream may report as usage
  Prices,      \* the price of the model, in nano-USD per Mtok
  Messages,    \* the streams an Anthropic upstream may send: sequences of lines
  MaxChunk     \* bound: a chunk has at most so many half lines

\* Prices are not negative, thanks to validate.rs; counts are taken not to be, as
\* compute_cost takes them, though nothing checks what an upstream reports.
ASSUME ProviderAssumption ==
  /\ MaxRetries \in Nat
  /\ NoUsage # NullUsage /\ NoUsage \notin Amounts /\ NullUsage \notin Amounts
  /\ Usages \subseteq {NoUsage, NullUsage} \cup Amounts
  /\ Prices \subseteq Amounts

\* A stream has finitely many lines, whatever they say; None is none of the words
\* of the protocol.
ASSUME StreamAssumption ==
  /\ \A m \in Messages : m \in Seq(ToSet(m))
  /\ None \notin {"message_start", "content_block_start", "content_block_delta",
                  "message_delta", "message_stop", "stop", "length"}

VARIABLES
  call,        \* [provider, path, request, price]: fixed when the call starts
  phase,       \* where the call is
  attempt,     \* retries made
  generated,   \* requests that reached the upstream (a fact, not program state)
  upstream,    \* what the upstream did last: [did, status, body, usage] (likewise)
  result,      \* what the governed call returned: "none", "ok" or an error
  verdict,     \* what its BreakerGuard reported
  rows,        \* the usage rows the call has booked
  message,     \* the stream the upstream is sending
  sent,        \* half lines of it that have arrived
  translator   \* the body of a stream: a Translator, or the relayed bytes in out

vars == <<call, phase, attempt, generated, upstream, result, verdict, rows,
          message, sent, translator>>
streamVars == <<message, sent, translator>>

\* passthrough and chat answer with a body; an arm of a MoA run uses chat.
Unary == call.path \in {"passthrough", "chat"}

\* What a response body may be: not JSON, of the wrong shape for a typed
\* response, with a block that is not text, or a text answer.
Bodies == {"junk", "misshapen", "tool_use", "text"}

\* The types of request the two providers tell apart: "unsupported" has tools, a
\* response format, a role or a content part that v1 cannot translate,
\* "malformed" a content that is neither text nor parts.
Requests == {"text", "unsupported", "malformed"}

Statuses == {200, 308, 401, 429, 500}

Calls == [provider : {"openai", "anthropic"}, path : {"passthrough", "stream", "chat"},
          request : Requests, price : Prices]

Answered(status, body, usage) ==
  [did |-> "answered", status |-> status, body |-> body, usage |-> usage]
Did(what) == [did |-> what, status |-> 0, body |-> "none", usage |-> NoUsage]

Init ==
  /\ call \in Calls
  /\ phase = "translate"
  /\ attempt = 0
  /\ generated = 0
  /\ upstream = Did("nothing")
  /\ result = "none"
  /\ verdict = "none"
  /\ rows = <<>>
  /\ message = <<>>
  /\ sent = 0
  /\ translator = NewTranslator

-----------------------------------------------------------------------------
(* Errors *)

CountsAgainstBreaker(e) == e \in {"UpstreamError", "UpstreamTimeout", "UpstreamUnavailable"}

\* Mutant of IsRetryable: whatever the upstream did not answer.
IsRetryableUnanswered(e) == e \in {"UpstreamUnavailable", "UpstreamError"}

IsRetryable(e) == e = "UpstreamUnavailable"

\* Mutant of MapUpstreamStatus: the fault of a request counts as the upstream's.
MapUpstreamStatusAsFault(status) ==
  CASE status \in 200..299 -> "ok"
    [] status = 429 -> "UpstreamRateLimited"
    [] OTHER -> "UpstreamError"

MapUpstreamStatus(status) ==
  CASE status \in 200..299 -> "ok"
    [] status = 429 -> "UpstreamRateLimited"
    [] status >= 500 -> "UpstreamError"
    [] OTHER -> "UpstreamClientError"

\* A transport error of reqwest: [timeout, connect].  Whether it was a timeout
\* is asked first.
Failures == [timeout : BOOLEAN, connect : BOOLEAN]
MapReqwestError(f) ==
  IF f.timeout THEN "UpstreamTimeout"
  ELSE IF f.connect THEN "UpstreamUnavailable" ELSE "UpstreamError"

-----------------------------------------------------------------------------
(* The guard, the handler and the row *)

\* The guard drops with the future and reports once; an error is counted or not.
Return(r) ==
  /\ result' = r
  /\ verdict' = IF CountsAgainstBreaker(r) THEN "failure" ELSE "success"
  /\ phase' = IF call.path = "stream" /\ r = "ok" THEN "streaming" ELSE "done"

\* A provider returned error e: retried, or the end of the call.
Fail(e) ==
  IF Unary /\ attempt < MaxRetries /\ IsRetryable(e)
  THEN /\ attempt' = attempt + 1
       /\ phase' = "backoff"
       /\ UNCHANGED <<result, verdict>>
  ELSE Return(e) /\ UNCHANGED attempt

\* The usage tap of the path and provider of the call.  Anthropic's chat()
\* keeps the zeros of its own translation for a key that is there.
Tap(usage) ==
  CASE call.provider = "anthropic" -> UsageTokens(usage)
    [] call.provider = "openai" /\ call.path = "chat" -> ExtractTokens(usage)
    [] OTHER -> ParseUsageTokens(usage)

-----------------------------------------------------------------------------
(* The provider *)

\* openai_to_anthropic rejects what it cannot translate before anything is
\* sent; the bytes of an OpenAI request are not looked at.
Translated ==
  /\ phase = "translate"
  /\ IF call.provider = "anthropic" /\ call.request # "text"
     THEN Return(IF call.request = "malformed" THEN "BadRequest" ELSE "Unsupported")
     ELSE phase' = "send" /\ UNCHANGED <<result, verdict>>
  /\ UNCHANGED <<call, attempt, generated, upstream, rows, streamVars>>

\* send() fails: the request has left the gateway unless the connection failed.
SendFails(f) ==
  /\ phase = "send"
  /\ upstream' = Did(IF f.connect THEN "refused" ELSE "broke off")
  /\ generated' = IF f.connect THEN generated ELSE generated + 1
  /\ Fail(MapReqwestError(f))
  /\ UNCHANGED <<call, rows, streamVars>>

\* The head of a response.  Redirects are not followed.
Respond(status) ==
  /\ phase = "send"
  /\ upstream' = Answered(status, "none", NoUsage)
  /\ generated' = generated + 1
  /\ IF MapUpstreamStatus(status) # "ok"
     THEN Fail(MapUpstreamStatus(status)) /\ UNCHANGED message
     ELSE IF Unary
     THEN phase' = "body" /\ UNCHANGED <<attempt, result, verdict, message>>
     ELSE Return("ok") /\ message' \in Messages /\ UNCHANGED attempt
  /\ UNCHANGED <<call, rows, sent, translator>>

\* The body of a unary response breaks off.
BodyBreaks(timeout) ==
  /\ phase = "body"
  /\ upstream' = Did("broke off")
  /\ Fail(MapReqwestError([timeout |-> timeout, connect |-> FALSE]))
  /\ UNCHANGED <<call, generated, rows, streamVars>>

\* A body that the path can use: passthrough of OpenAI takes any.
BodyError(body) ==
  CASE call.provider = "anthropic" /\ body = "junk" -> "UpstreamError"
    [] call.provider = "anthropic" /\ body = "tool_use" -> "Unsupported"
    [] call.provider = "openai" /\ call.path = "chat" /\ body \in {"junk", "misshapen"}
         -> "UpstreamError"
    [] OTHER -> "ok"

\* What is not a JSON object has no usage key.
Reported(body, usage) == IF body = "junk" THEN NoUsage ELSE usage

\* The row of the call; none for a passthrough that failed.
Booked(body, usage) ==
  IF BodyError(body) # "ok" THEN <<>>
  ELSE <<RowOf(Tap(Reported(body, usage)), call.price)>>

\* The body of a unary response is complete.
Body(body, usage) ==
  /\ phase = "body"
  /\ upstream' = Answered(upstream.status, body, Reported(body, usage))
  /\ IF BodyError(body) = "ok" THEN Return("ok") /\ UNCHANGED attempt
                               ELSE Fail(BodyError(body))
  /\ rows' = Booked(body, usage)
  /\ UNCHANGED <<call, generated, streamVars>>

BackoffElapsed ==
  /\ phase = "backoff"
  /\ phase' = "translate"
  /\ UNCHANGED <<call, attempt, generated, upstream, result, verdict, rows, streamVars>>

\* The handler's future is dropped at an await: the request may be on its way.
Drop(why) ==
  /\ phase \in {"send", "backoff", "body"}
  /\ phase' = "done"
  /\ result' = why
  /\ verdict' = "failure"
  /\ \E reached \in IF phase = "send" THEN {0, 1} ELSE {0} : generated' = generated + reached
  /\ UNCHANGED <<call, attempt, upstream, rows, streamVars>>

-----------------------------------------------------------------------------
(* The body of a stream *)

\* The bytes of a stream: each line in two halves.
Pieces(lines) ==
  [i \in 1..2 * Len(lines) |-> [line |-> lines[(i + 1) \div 2], ends |-> i % 2 = 0]]

Wire == [m \in Messages |-> Pieces(m)]

Streaming == phase = "streaming" /\ ~translator.returned

\* A chunk of n half lines.  An OpenAI stream is relayed as it is.
Chunk(n) ==
  /\ Streaming
  /\ sent + n <= Len(Wire[message])
  /\ sent' = sent + n
  /\ LET chunk == SubSeq(Wire[message], sent + 1, sent + n) IN
     translator' = IF call.provider = "anthropic" THEN ReadChunk(translator, chunk)
                   ELSE [translator EXCEPT !.out = @ \o chunk]
  /\ UNCHANGED <<call, phase, attempt, generated, upstream, result, verdict, rows, message>>

\* The stream breaks off.
Break(timeout) ==
  /\ Streaming
  /\ translator' = ReadError(translator, IF timeout THEN "UpstreamTimeout" ELSE "UpstreamError")
  /\ UNCHANGED <<call, phase, attempt, generated, upstream, result, verdict, rows, message, sent>>

\* The stream ends, wherever it is.
End ==
  /\ Streaming
  /\ translator' = IF call.provider = "anthropic" THEN ReadEnd(translator)
                   ELSE [translator EXCEPT !.returned = TRUE]
  /\ UNCHANGED <<call, phase, attempt, generated, upstream, result, verdict, rows, message, sent>>

Next ==
  \/ Translated \/ BackoffElapsed
  \/ \E f \in Failures : SendFails(f)
  \/ \E status \in Statuses : Respond(status)
  \/ \E timeout \in BOOLEAN : BodyBreaks(timeout) \/ Break(timeout)
  \/ \E body \in Bodies, usage \in Usages : Body(body, usage)
  \/ \E why \in {"UpstreamTimeout", "disconnected"} : Drop(why)
  \/ \E n \in 1..MaxChunk : Chunk(n)
  \/ End

Spec == Init /\ [][Next]_vars

-----------------------------------------------------------------------------
(* Properties *)

\* However often a call is retried, its prompt reaches the upstream at most
\* once: a generation is never charged twice (error.rs is_retryable, governed.rs
\* passthrough and chat; a stream is never retried).
AtMostOneGeneration == generated <= 1

Dropped == result \in {"UpstreamTimeout", "disconnected"}

\* The upstream itself failed: it could not be reached, fell silent, broke off,
\* answered 5xx or, where the gateway reads the answer, nothing it could read.
UpstreamAtFault ==
  \/ upstream.did \in {"refused", "broke off"}
  \/ upstream.status >= 500
  \/ upstream.body = "junk" /\ (call.provider = "anthropic" \/ call.path = "chat")
  \/ upstream.body = "misshapen" /\ call.provider = "openai" /\ call.path = "chat"

\* The breaker, which all callers of the upstream share, hears of a failure
\* exactly if the upstream failed or did not answer in time for this call:
\* neither a caller's request that cannot be translated, nor a 4xx, a 429 or a
\* block v1 has no translation for, counts, whatever retries went before.
BlameIsJust ==
  verdict # "none" => (verdict = "failure" <=> UpstreamAtFault \/ Dropped)

\* What was measured: a full usage object.
MeasuredUsage == upstream.usage \in [prompt : Nat, completion : Nat]

\* A unary call that is answered books one row, a passthrough that fails none;
\* measured tokens are booked as they are, and cost what they cost; a response
\* without usage is booked as unmeasured, not as free, whichever provider and
\* path it took.
BookedAsMeasured ==
  /\ Len(rows) = IF Unary /\ result = "ok" THEN 1 ELSE 0
  /\ \A i \in DOMAIN rows :
       /\ upstream.usage = NoUsage => rows[i] = UnmeasuredRow
       /\ MeasuredUsage => MeasuredRow(rows[i], upstream.usage, call.price)

-----------------------------------------------------------------------------
(* What the lines of a stream mean, however they are cut into chunks: an event *)
(* is what stands between two blank lines.                                     *)

\* The lines up to n of the event that is not yet over.
Open(m, n) == {k \in 1..n : \A j \in k..n : m[j].field # "blank"}

\* Its name, and the payloads in it.
EventName(m, n) ==
  LET names == {k \in Open(m, n) : m[k].field = "event"}
  IN  IF names = {} THEN None ELSE m[Max(names)].name
EventData(m, n) ==
  LET places == InOrder({k \in Open(m, n) : m[k].field = "data"})
  IN  [i \in DOMAIN places |-> m[places[i]].value]

\* Line n ends an event of this type.  An event with no payload, more than one or
\* one that is not JSON says nothing.
Payload(m, n) == EventData(m, n - 1)[1]
Says(m, n, type) ==
  /\ m[n].field = "blank"
  /\ Len(EventData(m, n - 1)) = 1 /\ Payload(m, n) # NotJson
  /\ type = IF EventName(m, n - 1) # None THEN EventName(m, n - 1) ELSE Payload(m, n).type
Gives(m, n, type) == Says(m, n, type) /\ Payload(m, n).value # None

SaysText(m, n) == Gives(m, n, "content_block_delta") /\ Payload(m, n).kind = "text_delta"
SaysStop(m, n) == Says(m, n, "message_stop")

\* v1 has no translation for line n or the event it ends.
Untranslatable(m, n) ==
  \/ m[n].field = "bad"
  \/ Says(m, n, "content_block_start") /\ Payload(m, n).kind # "text"
  \/ Says(m, n, "content_block_delta") /\ Payload(m, n).kind # "text_delta"

\* What the last event up to line n that gives this says; otherwise, or.
LastGiven(m, n, type, otherwise) ==
  LET given == {k \in 1..n : Gives(m, k, type)}
  IN  IF given = {} THEN otherwise ELSE Payload(m, Max(given)).value

Id(m, n) == LastGiven(m, n, "message_start", "chatcmpl-anthropic")
Finish(m, n) ==
  LET reason == LastGiven(m, n, "message_delta", None)
  IN  IF reason = None THEN "stop" ELSE MapStopReason(reason)

\* A line of text is one frame for the client, a stop two: frames 2k - 1 and 2k
\* are those of line k.
Frame(m, q) ==
  LET k == (q + 1) \div 2 IN
  CASE SaysText(m, k) -> Delta(Id(m, k), Payload(m, k).value)
    [] SaysStop(m, k) /\ q % 2 = 1 -> FinishFrame(Id(m, k), Finish(m, k))
    [] OTHER -> Done
Frames(m, n) ==
  LET given == InOrder({q \in 1..2 * n : LET k == (q + 1) \div 2 IN
                                         SaysStop(m, k) \/ (SaysText(m, k) /\ q % 2 = 1)})
  IN  [i \in DOMAIN given |-> Frame(m, given[i])]

Stopped(m, n) == \E k \in 1..n : SaysStop(m, k)

\* However the bytes are cut into chunks, and wherever the upstream stops, the
\* client of an Anthropic stream has got, frame for frame and at once, what the
\* lines that arrived in full mean; a stream that ends without a stop is given
\* one; one that is cut by an error has got a part of it and no more.
StreamIsTranslation ==
  phase = "streaming" /\ call.provider = "anthropic" =>
    LET n == sent \div 2
        all == Frames(message, n)
        tail == <<FinishFrame(Id(message, n), Finish(message, n)), Done>>
        broken == \E k \in 1..n : Untranslatable(message, k)
        out == translator.out
        failed == out # <<>> /\ Last(out).frame = "error"
    IN CASE failed -> IsPrefix(Front(out), all)
         [] ~failed /\ ~translator.returned -> out = all /\ ~broken
         [] OTHER -> out = (IF Stopped(message, n) THEN all ELSE all \o tail) /\ ~broken

-----------------------------------------------------------------------------
(* What the documentation says and the code does not do *)

\* moaray-core/src/usage.rs: unmeasured is never recorded as zero.
UnmeasuredIsNotZero ==
  \A i \in DOMAIN rows :
    /\ rows[i].prompt # Null => IsObject(upstream.usage) /\ upstream.usage.prompt # Null
    /\ rows[i].completion # Null => IsObject(upstream.usage) /\ upstream.usage.completion # Null
=============================================================================
