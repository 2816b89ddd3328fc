---------------------------- MODULE MCFrontDoor -----------------------------
(* Documents, tokens and bodies for TLC.  Names 1 and 2 are plain models,    *)
(* name 3 is moa/<recipe 1> and name 4 moa/<recipe 2>.                       *)
EXTENDS FrontDoor, TLC

CONSTANTS r1, r2

MCEnv == [KEY |-> "t1", UNSET |-> Absent]
MCHash == [t \in {"t1", "t2", "t3"} |-> IF t = "t2" THEN "h2" ELSE "other"]
MCMoaTarget == <<Absent, Absent, 1, 2>>

Rate(rps, burst) == [rps |-> rps, burst |-> burst]

Model(name, type, host, slash, cap, price) ==
  [name |-> name, provider_type |-> type, api_key_env |-> "UP",
   base_url |-> [scheme |-> "https", host |-> host, slash |-> slash],
   rate_limit |-> Rate(2, IF slash THEN Absent ELSE 1), max_concurrency |-> cap,
   price_prompt |-> price, price_completion |-> 1]

EnvKey(var, models, limit) ==
  [id |-> "team", key_env |-> var, key_sha256 |-> Absent, allow_models |-> models,
   rate_limit |-> limit]
ShaKey(digest, models) ==
  [id |-> "ci", key_env |-> Absent, key_sha256 |-> digest, allow_models |-> models,
   rate_limit |-> Absent]

Recipe(proposers, quorum) ==
  [proposers |-> proposers, aggregator |-> 2, arm_timeout_ms |-> 60000, quorum |-> quorum]

Base ==
  [server |-> [max_body_bytes |-> 1, usage_store |-> "db"],
   keys |-> <<EnvKey("KEY", {1, 3, 4}, Absent), ShaKey("h2", {2})>>,
   models |-> <<Model(2, "openai-compat", "a", TRUE, 4, 3), Model(1, "openai-compat", "a", FALSE, 4, 3)>>,
   recipes |-> [r \in {1} |-> Recipe(<<1, 2>>, 1)]]

\* Another upstream and another price for model 1, a limit for its caller, a
\* larger body, another store; recipe 1 is gone and the other key without secret.
Moved ==
  [Base EXCEPT
     !.server = [max_body_bytes |-> 2, usage_store |-> Absent],
     !.keys = <<EnvKey("KEY", {1, 4}, Rate(1, Absent)), EnvKey("UNSET", {1, 2}, Absent)>>,
     !.models[2] = Model(1, "anthropic", "b", FALSE, Absent, 8),
     !.recipes = [r \in {2} |-> Recipe(<<1, 2, 1>>, 3)]]

\* Documents that validation refuses, each for one reason.
Faulty ==
  {[Base EXCEPT !.models = <<>>],
   [Base EXCEPT !.models[2].name = 2],
   [Base EXCEPT !.models[1].base_url.scheme = "ftp"],
   [Base EXCEPT !.models[1].rate_limit = Rate(0, Absent)],
   [Base EXCEPT !.models[1].price_prompt = NaN],
   [Base EXCEPT !.models[2].price_prompt = MaxI64 + 2],
   [Base EXCEPT !.models[2].max_concurrency = 5],
   [Base EXCEPT !.models[2].rate_limit = Rate(2, 3)],
   [Base EXCEPT !.keys[1].key_sha256 = "h2"],
   [Base EXCEPT !.keys[2].allow_models = {}],
   [Base EXCEPT !.keys[1].rate_limit = Rate(0, 1)],
   [Base EXCEPT !.recipes[1].proposers = <<>>],
   [Base EXCEPT !.recipes[1].proposers = <<1, 3>>],
   [Base EXCEPT !.recipes[1].aggregator = 3],
   [Base EXCEPT !.recipes[1].quorum = 0],
   [Base EXCEPT !.recipes[1].quorum = 3]}

ASSUME SoundAreAccepted == Accepts(Base) /\ Accepts(Moved)

MCDocs == Faulty \cup {Base, Moved}

Body(size, shape, model, stream) ==
  [size |-> size, shape |-> shape, model |-> model, stream |-> stream]

MCBodies ==
  {Body(1, "chat", 1, FALSE), Body(1, "chat", 1, TRUE), Body(2, "chat", 1, FALSE),
   Body(1, "chat", 2, FALSE), Body(1, "chat", 3, FALSE), Body(1, "chat", 3, TRUE),
   Body(1, "untyped", 3, FALSE), Body(1, "chat", 4, FALSE), Body(1, "garbled", 1, FALSE)}
=============================================================================
