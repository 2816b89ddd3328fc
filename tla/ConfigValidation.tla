-------------------------- MODULE ConfigValidation --------------------------
(***************************************************************************)
(* crates/moaray-config: from a parsed YAML document (schema.rs) to the    *)
(* validated RuntimeConfig (runtime.rs) that every other part trusts       *)
(* without a check of its own.  Validation is a total function without     *)
(* state; it stops at the first fault, so that a document is accepted if   *)
(* and only if it has none: the order of the checks decides which error is *)
(* reported, never whether one is.                                         *)
(*                                                                         *)
(* Names are natural numbers, because the maps of the code are ordered by  *)
(* name.  A price is in nano-USD per million tokens: what the document's   *)
(* float is after scaling and rounding.                                    *)
(***************************************************************************)
EXTENDS Integers, Sequences, FiniteSets

CONSTANTS
  Absent,   \* an optional field that is not set
  NaN,      \* a price that is not a finite number
  MaxI64,   \* i64::MAX
  Env       \* the environment: the value of each variable, or Absent

ASSUME ValidationAssumption ==
  /\ MaxI64 \in Nat
  /\ Absent \notin Int /\ NaN \notin Int /\ Absent # NaN

-----------------------------------------------------------------------------
(* The documents: ConfigDoc and its parts, as far as serde types them.  A     *)
(* knob of the server that is not set is not in the domain of doc.server.     *)
(* The slash of a base_url says whether it ends with any; a key_sha256 is     *)
(* taken up to the case of its letters, which is what to_lowercase() does.    *)

Option(S) == {Absent} \cup S

RateLimitDocs == Option([rps : Nat, burst : Option(Nat)])
UrlDocs == [scheme : STRING, host : STRING, slash : BOOLEAN]
PriceDocs == {Absent, NaN} \cup Int

KeyDocs ==
  [id : STRING, key_env : Option(DOMAIN Env), key_sha256 : Option(STRING),
   allow_models : SUBSET Nat, rate_limit : RateLimitDocs]

ModelDocs ==
  [name : Nat, provider_type : {"openai-compat", "anthropic"}, base_url : UrlDocs,
   api_key_env : STRING, rate_limit : RateLimitDocs, max_concurrency : Option(Nat),
   price_prompt : PriceDocs, price_completion : PriceDocs]

RecipeDocs ==
  [proposers : Seq(Nat), aggregator : Nat, arm_timeout_ms : Nat, quorum : Nat]

\* serde's default of a knob that the document does not set.
ServerDefaults ==
  [request_timeout_ms |-> 120000, max_body_bytes |-> 1048576,
   shutdown_grace_ms |-> 15000, moa_expose_metadata |-> FALSE,
   failure_threshold |-> 5, open_ms |-> 30000, half_open_successes |-> 1,
   retry_enabled |-> FALSE, max_retries |-> 2, usage_store |-> Absent]

ServerOf(doc) ==
  [knob \in DOMAIN ServerDefaults |->
     IF knob \in DOMAIN doc.server THEN doc.server[knob] ELSE ServerDefaults[knob]]

\* A document that serde accepts: unknown fields are refused.
WellTyped(doc) ==
  /\ DOMAIN doc.server \subseteq DOMAIN ServerDefaults
  /\ doc.keys \in Seq(KeyDocs)
  /\ doc.models \in Seq(ModelDocs)
  /\ \A r \in DOMAIN doc.recipes : doc.recipes[r] \in RecipeDocs

Larger(a, b) == IF a >= b THEN a ELSE b

\* valid_base_url: any number of final slashes is dropped.
TrimmedUrl(url) == [scheme |-> url.scheme, host |-> url.host]
ValidBaseUrl(url) == url.scheme \in {"http", "https"}

\* derive_state_key: the identity of an upstream, whatever its models' names.
StateKey(m) == <<m.provider_type, TrimmedUrl(m.base_url), m.api_key_env>>

\* valid_rate_limit: burst defaults to rps and is never below it.
ValidRateLimit(rl) == rl = Absent \/ rl.rps >= 1
RateLimit(rl) ==
  IF rl = Absent THEN Absent
  ELSE [rps |-> rl.rps, burst |-> IF rl.burst = Absent THEN rl.rps ELSE Larger(rl.burst, rl.rps)]

\* valid_price compares with i64::MAX as a float, which is i64::MAX + 1, and the
\* cast to i64 saturates.
ValidPrice(p) == p = Absent \/ (p # NaN /\ p >= 0 /\ p <= MaxI64 + 1)
Price(p) == IF p = Absent \/ p <= MaxI64 THEN p ELSE MaxI64

-----------------------------------------------------------------------------
(* The checks of validate() *)

ModelNames(doc) == {doc.models[i].name : i \in 1..Len(doc.models)}

ModelsValid(doc) ==
  /\ doc.models # <<>>
  /\ \A i, j \in 1..Len(doc.models) : doc.models[i].name = doc.models[j].name => i = j
  /\ \A i \in 1..Len(doc.models) :
       /\ ValidBaseUrl(doc.models[i].base_url)
       /\ ValidRateLimit(doc.models[i].rate_limit)
       /\ ValidPrice(doc.models[i].price_prompt)
       /\ ValidPrice(doc.models[i].price_completion)

\* The model that stands for an upstream identity: the first by name, as the
\* map of models is iterated in name order.
FirstOf(doc, key) ==
  CHOOSE i \in 1..Len(doc.models) :
    /\ StateKey(doc.models[i]) = key
    /\ \A j \in 1..Len(doc.models) :
         StateKey(doc.models[j]) = key => doc.models[i].name <= doc.models[j].name

\* Mutant of GovernanceConsistent: only the rate limits are compared.
RateLimitsConsistent(doc) ==
  \A i \in 1..Len(doc.models) :
    LET m == doc.models[i]
        first == doc.models[FirstOf(doc, StateKey(m))] IN
    RateLimit(first.rate_limit) = RateLimit(m.rate_limit)

\* Each model is compared with the first one of its identity, and with no other.
GovernanceConsistent(doc) ==
  \A i \in 1..Len(doc.models) :
    LET m == doc.models[i]
        first == doc.models[FirstOf(doc, StateKey(m))] IN
    /\ RateLimit(first.rate_limit) = RateLimit(m.rate_limit)
    /\ first.max_concurrency = m.max_concurrency

\* Exactly one shape of secret.  Ids may repeat, and an allowlist may name
\* models that are not configured.
KeysValid(doc) ==
  \A i \in 1..Len(doc.keys) :
    LET k == doc.keys[i] IN
    /\ (k.key_env = Absent) # (k.key_sha256 = Absent)
    /\ k.allow_models # {}
    /\ ValidRateLimit(k.rate_limit)

RecipesValid(doc) ==
  \A r \in DOMAIN doc.recipes :
    LET recipe == doc.recipes[r] IN
    /\ recipe.proposers # <<>>
    /\ \A i \in 1..Len(recipe.proposers) : recipe.proposers[i] \in ModelNames(doc)
    /\ recipe.aggregator \in ModelNames(doc)
    /\ recipe.quorum \in 1..Len(recipe.proposers)

Accepts(doc) ==
  ModelsValid(doc) /\ GovernanceConsistent(doc) /\ KeysValid(doc) /\ RecipesValid(doc)

-----------------------------------------------------------------------------
(* The RuntimeConfig of an accepted document *)

ModelConfig(m) ==
  [state_key |-> StateKey(m),
   rate_limit |-> RateLimit(m.rate_limit), max_concurrency |-> m.max_concurrency,
   price |-> <<Price(m.price_prompt), Price(m.price_completion)>>]

\* A secret is kept as what a token must be, or hash to, in order to match it.
\* A variable that is not set leaves an empty plaintext.  The case of a digest
\* is not in its domain.
Secret(k) ==
  IF k.key_env = Absent THEN [kind |-> "sha256", of |-> k.key_sha256]
  ELSE [kind |-> "plain", of |-> IF Env[k.key_env] = Absent THEN "" ELSE Env[k.key_env]]

KeyConfig(k) ==
  [id |-> k.id, secret |-> Secret(k), allow_models |-> k.allow_models,
   rate_limit |-> RateLimit(k.rate_limit)]

ModelNamed(doc, n) ==
  doc.models[CHOOSE i \in 1..Len(doc.models) : doc.models[i].name = n]

RuntimeConfig(doc) ==
  [server  |-> ServerOf(doc),
   keys    |-> [i \in 1..Len(doc.keys) |-> KeyConfig(doc.keys[i])],
   models  |-> [n \in ModelNames(doc) |-> ModelConfig(ModelNamed(doc, n))],
   recipes |-> doc.recipes]

-----------------------------------------------------------------------------
(* What the rest of the gateway takes for granted *)

\* Aliases of one upstream agree on its limits, so that none of them can weaken
\* what another configured (HotReload keeps one governance per identity).
AliasesAgree(cfg) ==
  \A m, n \in DOMAIN cfg.models :
    cfg.models[m].state_key = cfg.models[n].state_key
      => /\ cfg.models[m].rate_limit = cfg.models[n].rate_limit
         /\ cfg.models[m].max_concurrency = cfg.models[n].max_concurrency

\* Every arm of a recipe resolves, and its quorum can be reached (MoaRun's
\* RecipeAssumption).
RecipesRunnable(cfg) ==
  \A r \in DOMAIN cfg.recipes :
    LET recipe == cfg.recipes[r] IN
    /\ \A i \in 1..Len(recipe.proposers) : recipe.proposers[i] \in DOMAIN cfg.models
    /\ recipe.aggregator \in DOMAIN cfg.models
    /\ recipe.quorum \in 1..Len(recipe.proposers)

Sound(rl) == rl # Absent => 1 <= rl.rps /\ rl.rps <= rl.burst

\* No limit refuses every request, and prices are amounts an i64 holds.
AmountsSound(cfg) ==
  /\ \A m \in DOMAIN cfg.models :
       /\ Sound(cfg.models[m].rate_limit)
       /\ \A i \in 1..2 : cfg.models[m].price[i] \in {Absent} \cup 0..MaxI64
  /\ \A i \in DOMAIN cfg.keys : Sound(cfg.keys[i].rate_limit)

Trusted(cfg) == AliasesAgree(cfg) /\ RecipesRunnable(cfg) /\ AmountsSound(cfg)
=============================================================================
