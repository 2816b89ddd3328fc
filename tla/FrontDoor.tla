------------------------------ MODULE FrontDoor ------------------------------
(***************************************************************************)
(* The HTTP side of the gateway: app.rs with auth.rs, router.rs and        *)
(* observe.rs, from an incoming request to its reply, its metrics and its  *)
(* usage rows, while SIGHUP swaps the configuration (main.rs, reload.rs)   *)
(* and SIGTERM drains the process (main.rs).                               *)
(*                                                                         *)
(* What happens behind a provider is GovernedUpstream's, inside a MoA run  *)
(* MoaRun's, between the steps of a reload HotReload's, and after the      *)
(* flush has started UsageStore's subject; each is one step here.          *)
(***************************************************************************)
EXTENDS ConfigValidation

CONSTANTS
  Docs,       \* the documents an operator may write, faulty ones included
  Requests,   \* connections; one that is closed is reused
  Tokens,     \* bearer tokens a caller may present; Absent: no usable header
  Hash,       \* the digest of each token
  Bodies,     \* request bodies: [size, shape, model, stream]
  MoaTarget   \* the recipe a model name asks for, or Absent if it is plain

ASSUME FrontDoorAssumption ==
  /\ \A doc \in Docs : WellTyped(doc)
  /\ \E doc \in Docs : Accepts(doc)
  /\ Absent \notin Bodies
  /\ \A b \in Bodies : b.shape \in {"garbled", "no_model", "untyped", "chat"}

VARIABLES
  phase,    \* of the process: "serving", "draining", "flushing", "down"
  live,     \* the configuration of the Runtime in the ArcSwap
  request   \* what the handler of each connection holds

vars == <<phase, live, request>>

NoRequest ==
  [pc |-> "idle", runtime |-> Absent, key |-> Absent, cap |-> 0, body |-> Absent,
   called |-> {}, reply |-> 0, counted |-> <<>>, rows |-> <<>>]

Init ==
  /\ phase = "serving"
  /\ live \in {RuntimeConfig(doc) : doc \in {d \in Docs : Accepts(d)}}
  /\ request = [r \in Requests |-> NoRequest]

-----------------------------------------------------------------------------
(* Errors and metrics *)

\* Error::envelope: the status of each error.
Envelope ==
  [InvalidApiKey |-> 401, ModelNotAllowed |-> 403, ModelNotFound |-> 404,
   PayloadTooLarge |-> 413, BadRequest |-> 400, UpstreamTimeout |-> 504,
   UpstreamError |-> 502, UpstreamClientError |-> 502, UpstreamRateLimited |-> 429,
   UpstreamUnavailable |-> 502, RateLimited |-> 429, CircuitOpen |-> 503,
   Unsupported |-> 400, MoaStreamingUnsupported |-> 400, MoaQuorumFailed |-> 503,
   Internal |-> 500]

\* What a provider call may fail with: the adapters' and the governance's errors.
CallErrors ==
  {"UpstreamTimeout", "UpstreamError", "UpstreamClientError", "UpstreamRateLimited",
   "UpstreamUnavailable", "RateLimited", "CircuitOpen", "BadRequest", "Unsupported"}

\* The fields of connection r as the handler leaves them.
Becomes(r, q) == request' = [request EXCEPT ![r] = q]
Goto(q, place) == [q EXCEPT !.pc = place]

\* Mutant of Counted: a layer of the router counts the reply as well.
CountedByLayer(q, path, status) ==
  [q EXCEPT !.counted = @ \o <<<<path, status>>, <<"layer", status>>>>]

\* record_request and record_rejection.
Counted(q, path, status) == [q EXCEPT !.counted = Append(@, <<path, status>>)]
Replied(q, status) == [Goto(q, "answered") EXCEPT !.reply = status]

\* A gate of pre_route refuses; chat_completions counts the refusal.
Rejected(q, error) ==
  Replied(Counted(q, "pre_routing", Envelope[error]), Envelope[error])

Finished(q, path, status) == Replied(Counted(q, path, status), status)

-----------------------------------------------------------------------------
(* pre_route: authentication and the limit of the key *)

Matches(secret, token) ==
  IF secret.kind = "plain" THEN secret.of # "" /\ secret.of = token
                           ELSE secret.of = Hash[token]

\* The entries of keys a token matches; authenticate takes the first.
Matching(cfg, token) ==
  {i \in DOMAIN cfg.keys : token # Absent /\ Matches(cfg.keys[i].secret, token)}

First(S) == CHOOSE i \in S : \A j \in S : i <= j

\* The handler starts: it pins the Runtime and authenticates against it.
Authenticate(r, token) ==
  /\ phase = "serving" /\ request[r].pc = "idle"
  /\ LET matching == Matching(live, token) IN
     Becomes(r, IF matching = {}
                THEN Rejected(NoRequest, "InvalidApiKey")
                ELSE [NoRequest EXCEPT !.pc = "limit", !.runtime = live,
                        !.key = live.keys[First(matching)]])
  /\ UNCHANGED <<phase, live>>

\* A key has a bucket if the live configuration limits its id.
Limited(id) == \E i \in DOMAIN live.keys : live.keys[i].id = id /\ live.keys[i].rate_limit # Absent

KeyPasses(r) ==
  /\ request[r].pc = "limit"
  /\ Becomes(r, Goto(request[r], "open"))
  /\ UNCHANGED <<phase, live>>

KeyRefused(r) ==
  /\ request[r].pc = "limit" /\ Limited(request[r].key.id)
  /\ Becomes(r, Rejected(request[r], "RateLimited"))
  /\ UNCHANGED <<phase, live>>

\* The cap of the body is the live one, not the pinned one.
OpenBody(r) ==
  /\ request[r].pc = "open"
  /\ Becomes(r, [Goto(request[r], "body") EXCEPT !.cap = live.server.max_body_bytes])
  /\ UNCHANGED <<phase, live>>

-----------------------------------------------------------------------------
(* pre_route: from the body to the route *)

\* route(): a model with a MoA name is a recipe, whatever models are configured.
Route(cfg, model) ==
  IF MoaTarget[model] # Absent THEN "moa"
  ELSE IF model \in DOMAIN cfg.models THEN "passthrough" ELSE "unknown"

\* The error of the first gate that refuses body b, in the order of the code.
GateError(q, b) ==
  CASE b.size > q.cap -> "PayloadTooLarge"
    [] b.shape \in {"garbled", "no_model"} -> "BadRequest"
    [] b.model \notin q.key.allow_models -> "ModelNotAllowed"
    [] Route(q.runtime, b.model) = "moa" /\ b.stream -> "MoaStreamingUnsupported"
    [] Route(q.runtime, b.model) = "unknown" -> "ModelNotFound"
    [] OTHER -> "none"

Arms(recipe) == Append(recipe.proposers, recipe.aggregator)

Upstreams(cfg, models) ==
  {[model |-> m, state_key |-> cfg.models[m].state_key] : m \in models}

\* run_moa and Orchestrator::run before the fan-out: a body that is no chat
\* request is answered without being counted; an unknown recipe is counted.
StartMoa(q) ==
  LET cfg == q.runtime
      recipe == MoaTarget[q.body.model] IN
  IF q.body.shape = "untyped" THEN Replied(q, Envelope["BadRequest"])
  ELSE IF recipe \notin DOMAIN cfg.recipes
       THEN Finished(q, "moa", Envelope["ModelNotFound"])
       ELSE LET arms == Arms(cfg.recipes[recipe]) IN
            [Goto(q, "moa") EXCEPT
               !.called = Upstreams(cfg, {arms[i] : i \in DOMAIN arms})]

StartPassthrough(q) ==
  [Goto(q, "calling") EXCEPT !.called = Upstreams(q.runtime, {q.body.model})]

\* The whole body has come: every gate that is left, and the start of the call,
\* without an await between them.
BodyArrives(r, b) ==
  /\ request[r].pc = "body"
  /\ LET q == [request[r] EXCEPT !.body = b]
         error == GateError(q, b) IN
     Becomes(r, IF error # "none" THEN Rejected(q, error)
                ELSE IF Route(q.runtime, b.model) = "moa" THEN StartMoa(q)
                ELSE StartPassthrough(q))
  /\ UNCHANGED <<phase, live>>

\* The body breaks off: to_bytes fails, which is reported as a body too large.
BodyFails(r) ==
  /\ request[r].pc = "body"
  /\ Becomes(r, Rejected(request[r], "PayloadTooLarge"))
  /\ UNCHANGED <<phase, live>>

-----------------------------------------------------------------------------
(* passthrough and run_moa: the outcome, its metrics and its rows *)

\* Mutant of PriceOf: the price in force when the answer comes.
LivePriceOf(q, m) ==
  IF m \in DOMAIN live.models THEN live.models[m].price ELSE <<Absent, Absent>>

\* model_prices, on the Runtime the request was routed by.
PriceOf(q, m) ==
  IF m \in DOMAIN q.runtime.models THEN q.runtime.models[m].price ELSE <<Absent, Absent>>

Row(q, m) == [model |-> m, key |-> q.key.id, price |-> PriceOf(q, m)]

\* An upstream answers a passthrough call.  A stream is counted but not booked.
CallAnswered(r) ==
  /\ request[r].pc = "calling"
  /\ LET q == request[r] IN
     Becomes(r, IF q.body.stream
                THEN Goto(Finished(q, "passthrough", 200), "streaming")
                ELSE [Finished(q, "passthrough", 200) EXCEPT !.rows = <<Row(q, q.body.model)>>])
  /\ UNCHANGED <<phase, live>>

\* Mutants of CallFailed: an error is answered without being counted, and the
\* call has no timeout.
CallFailedUncounted(r, error) ==
  /\ request[r].pc = "calling"
  /\ Becomes(r, Replied(request[r], Envelope[error]))
  /\ UNCHANGED <<phase, live>>

CallFailedByUpstream(r, error) ==
  /\ request[r].pc = "calling" /\ error # "UpstreamTimeout"
  /\ Becomes(r, Finished(request[r], "passthrough", Envelope[error]))
  /\ UNCHANGED <<phase, live>>

\* It fails, or the request timeout fires first: counted, and no row.
CallFailed(r, error) ==
  /\ request[r].pc = "calling"
  /\ Becomes(r, Finished(request[r], "passthrough", Envelope[error]))
  /\ UNCHANGED <<phase, live>>

\* run() returns: every arm that was called is booked, whatever the outcome.
MoaEnds(r, error) ==
  /\ request[r].pc = "moa"
  /\ LET q == request[r]
         recipe == q.runtime.recipes[MoaTarget[q.body.model]]
         arms == IF error = "MoaQuorumFailed" THEN recipe.proposers ELSE Arms(recipe) IN
     Becomes(r, [Finished(q, "moa", IF error = "none" THEN 200 ELSE Envelope[error])
                   EXCEPT !.rows = [i \in DOMAIN arms |-> Row(q, arms[i])]])
  /\ UNCHANGED <<phase, live>>

MoaErrors == {"none", "MoaQuorumFailed", "UpstreamError", "UpstreamTimeout"}

\* The body of a stream ends, or an answer has been sent: the connection closes.
StreamEnds(r) ==
  /\ request[r].pc = "streaming"
  /\ Becomes(r, NoRequest)
  /\ UNCHANGED <<phase, live>>

Sent(r) ==
  /\ request[r].pc = "answered"
  /\ Becomes(r, NoRequest)
  /\ UNCHANGED <<phase, live>>

\* The client leaves at an await: the handler's future or the body is dropped.
Disconnect(r) ==
  /\ request[r].pc \in {"body", "calling", "moa", "streaming"}
  /\ Becomes(r, NoRequest)
  /\ UNCHANGED <<phase, live>>

-----------------------------------------------------------------------------
(* SIGHUP, SIGTERM and the end of main() *)

\* What a reload publishes: the old configuration if the document is refused,
\* else the new one with the frozen usage_store of the running process.
Published(doc) ==
  IF Accepts(doc)
  THEN [RuntimeConfig(doc) EXCEPT !.server.usage_store = live.server.usage_store]
  ELSE live

Reload(doc) ==
  /\ phase # "down"
  /\ live' = Published(doc)
  /\ UNCHANGED <<phase, request>>

\* SIGTERM or SIGINT: axum stops accepting.
Signal ==
  /\ phase = "serving"
  /\ phase' = "draining"
  /\ UNCHANGED <<live, request>>

\* Mutant of Idle: the drain window ends, whoever is still being served.
IdleOrGraceOver == TRUE

Idle == \A r \in Requests : request[r].pc = "idle"

\* axum::serve returns when the last connection is closed; then the flush, if
\* there is a store, and the end of the process.
Drained ==
  /\ phase = "draining" /\ Idle
  /\ phase' = IF live.server.usage_store = Absent THEN "down" ELSE "flushing"
  /\ UNCHANGED <<live, request>>

Flushed ==
  /\ phase = "flushing"
  /\ phase' = "down"
  /\ UNCHANGED <<live, request>>

Next ==
  \/ \E r \in Requests :
       \/ \E token \in Tokens : Authenticate(r, token)
       \/ KeyPasses(r) \/ KeyRefused(r) \/ OpenBody(r)
       \/ (\E b \in Bodies : BodyArrives(r, b)) \/ BodyFails(r)
       \/ CallAnswered(r) \/ (\E e \in CallErrors : CallFailed(r, e))
       \/ \E e \in MoaErrors : MoaEnds(r, e)
       \/ StreamEnds(r) \/ Sent(r) \/ Disconnect(r)
  \/ \E doc \in Docs : Reload(doc)
  \/ Signal \/ Drained \/ Flushed

Spec == Init /\ [][Next]_vars

\* The executor polls, an answer is sent, and no call outlives its timeout
\* (CallsFinish of GovernedUpstream, RunSettles of MoaUpstream).  Nothing is
\* assumed of how long a client takes to send its body or an upstream to end its
\* stream.
GatewayRuns ==
  /\ \A r \in Requests :
       /\ WF_vars(KeyPasses(r) \/ KeyRefused(r))
       /\ WF_vars(OpenBody(r))
       /\ WF_vars(CallFailed(r, "UpstreamTimeout"))
       /\ WF_vars(\E e \in MoaErrors : MoaEnds(r, e))
       /\ WF_vars(Sent(r))
  /\ WF_vars(Drained) /\ WF_vars(Flushed)

FairSpec == Spec /\ GatewayRuns
-----------------------------------------------------------------------------
(* Properties *)

Configs == {[RuntimeConfig(doc) EXCEPT !.server.usage_store = u] :
              doc \in {d \in Docs : Accepts(d)},
              u \in {ServerOf(d).usage_store : d \in Docs}}

TypeOK ==
  /\ phase \in {"serving", "draining", "flushing", "down"}
  /\ live \in Configs
  /\ \A r \in Requests :
       /\ request[r].pc \in {"idle", "limit", "open", "body", "calling", "moa",
                             "streaming", "answered"}
       /\ request[r].runtime \in Configs \cup {Absent}
       /\ request[r].body \in Bodies \cup {Absent}
       /\ request[r].reply \in {0, 200} \cup {Envelope[e] : e \in DOMAIN Envelope}
       /\ Len(request[r].counted) <= 1

\* Whatever documents are put in place, and however often, the gateway runs only
\* on configurations whose invariants the rest of the code relies on
\* (validate.rs: "trust a RuntimeConfig unconditionally").
ConfigTrusted ==
  /\ Trusted(live)
  /\ \A r \in Requests : request[r].runtime # Absent => Trusted(request[r].runtime)

\* A request is served by one configuration from end to end: the caller's key
\* and its allowlist, the upstreams that are called, the arms that run and the
\* prices on the rows are all those of the Runtime that authenticated the
\* caller, whatever reloads come in between (app.rs Routed).
ServedBy(q) ==
  q.called # {} =>
    /\ \E i \in DOMAIN q.runtime.keys : q.runtime.keys[i] = q.key
    /\ q.body.model \in q.key.allow_models
    /\ \A c \in q.called :
         /\ c.model \in DOMAIN q.runtime.models
         /\ c.state_key = q.runtime.models[c.model].state_key
    /\ \A i \in DOMAIN q.rows :
         /\ q.rows[i].model \in {c.model : c \in q.called}
         /\ q.rows[i].price = q.runtime.models[q.rows[i].model].price

ServedAsAuthorised == \A r \in Requests : ServedBy(request[r])

\* Every reply is counted once, with its own status, under the path that
\* answered: no protective refusal, timeout or stream escapes the metrics and
\* none is counted on two paths (observe.rs).  The one exception of the code is
\* a body that pre_route accepts and run_moa cannot parse.
Unparsed(q) ==
  /\ q.body # Absent /\ q.reply = 400
  /\ q.body.shape = "untyped" /\ ~q.body.stream /\ MoaTarget[q.body.model] # Absent

CountedAs(q) ==
  q.pc \in {"answered", "streaming"} /\ ~Unparsed(q) =>
    /\ Len(q.counted) = 1
    /\ q.counted[1][2] = q.reply
    /\ q.called # {} => q.counted[1][1] = Route(q.runtime, q.body.model)

CountedOnce == \A r \in Requests : CountedAs(request[r])

\* The rows of the requests being answered.
Booked == {b \in Requests \X (1..4) : b[2] \in DOMAIN request[b[1]].rows}

Ending == phase \in {"flushing", "down"}

\* No row is booked once the store is being flushed, so that none is left behind
\* by a shutdown (main.rs: flush after the drain).
RowsBeforeFlush ==
  [][Ending => Booked' \subseteq Booked]_vars

\* Clients send their bodies, or give up, and streams end.
ClientsFinish ==
  \A r \in Requests :
    /\ WF_vars((\E b \in Bodies : BodyArrives(r, b)) \/ BodyFails(r))
    /\ WF_vars(StreamEnds(r))

\* A process that is told to stop comes to its end, flush included, if clients
\* and streams do.
DrainEnds == ClientsFinish => (phase = "draining" ~> phase = "down")

-----------------------------------------------------------------------------
(* What the documentation says and the code does not do *)

\* docs/DEPLOY.md:87: in-flight requests are drained for a bounded window, after
\* which those still pending are cancelled.
DrainBounded == phase = "draining" ~> phase \in {"flushing", "down"}
=============================================================================
