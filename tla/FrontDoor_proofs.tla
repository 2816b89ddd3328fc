-------------------------- MODULE FrontDoor_proofs --------------------------
(***************************************************************************)
(* The front door, for any documents, callers, bodies and number of        *)
(* connections, and the validation that its configurations have passed.    *)
(* The invariant is about each connection by itself, and says nothing of   *)
(* live: this is why no reload can disturb a request.                      *)
(***************************************************************************)
EXTENDS FrontDoor, WellFoundedInduction, TLAPS

-----------------------------------------------------------------------------
(* Validation is sound: whatever document it accepts, the RuntimeConfig it *)
(* returns has the properties that the rest of the gateway relies on.      *)

\* A name of the map of models stands for a model of the document.
LEMMA NamedModel ==
  ASSUME NEW doc, NEW n \in ModelNames(doc)
  PROVE  \E i \in 1..Len(doc.models) : ModelNamed(doc, n) = doc.models[i]
BY DEF ModelNames, ModelNamed

\* valid_rate_limit: a limit that is accepted lets at least one request through.
LEMMA RateLimitSound ==
  ASSUME NEW rl \in RateLimitDocs, ValidRateLimit(rl)
  PROVE  Sound(RateLimit(rl))
<1>1. CASE rl = Absent
  BY <1>1 DEF Sound, RateLimit
<1>2. CASE rl # Absent
  <2>1. rl \in [rps : Nat, burst : Option(Nat)] /\ rl.rps >= 1
    BY <1>2 DEF RateLimitDocs, Option, ValidRateLimit
  <2>2. rl.rps \in Nat /\ (rl.burst = Absent \/ rl.burst \in Nat)
    BY <2>1 DEF Option
  <2> QED BY <1>2, <2>1, <2>2 DEF Sound, RateLimit, Larger
<1> QED BY <1>1, <1>2

\* valid_price: an accepted price is an amount of an i64, at the boundary too.
LEMMA PriceSound ==
  ASSUME NEW p \in PriceDocs, ValidPrice(p)
  PROVE  Price(p) \in {Absent} \cup 0..MaxI64
BY ValidationAssumption DEF PriceDocs, ValidPrice, Price

\* Two models of one identity are compared with the same first model.
LEMMA SameIdentitySameLimits ==
  ASSUME NEW doc, GovernanceConsistent(doc),
         NEW i \in 1..Len(doc.models), NEW j \in 1..Len(doc.models),
         StateKey(doc.models[i]) = StateKey(doc.models[j])
  PROVE  /\ RateLimit(doc.models[i].rate_limit) = RateLimit(doc.models[j].rate_limit)
         /\ doc.models[i].max_concurrency = doc.models[j].max_concurrency
BY DEF GovernanceConsistent

\* Every document that validation accepts yields a configuration in which
\* aliases of an upstream agree on its limits, every recipe can run, no limit
\* refuses everything and every price is an amount (validate.rs: "trust a
\* RuntimeConfig unconditionally").
THEOREM ValidationSound ==
  ASSUME NEW doc, WellTyped(doc), Accepts(doc)
  PROVE  Trusted(RuntimeConfig(doc))
<1> DEFINE cfg == RuntimeConfig(doc)
<1>1. /\ DOMAIN cfg.models = ModelNames(doc)
      /\ \A n \in ModelNames(doc) : cfg.models[n] = ModelConfig(ModelNamed(doc, n))
      /\ cfg.recipes = doc.recipes
      /\ DOMAIN cfg.keys = 1..Len(doc.keys)
      /\ \A i \in 1..Len(doc.keys) : cfg.keys[i] = KeyConfig(doc.keys[i])
  BY DEF RuntimeConfig
<1>2. \A n \in ModelNames(doc) : \E i \in 1..Len(doc.models) : ModelNamed(doc, n) = doc.models[i]
  BY NamedModel
<1>3. AliasesAgree(cfg)
  <2>1. ASSUME NEW m \in ModelNames(doc), NEW n \in ModelNames(doc),
               StateKey(ModelNamed(doc, m)) = StateKey(ModelNamed(doc, n))
        PROVE  /\ RateLimit(ModelNamed(doc, m).rate_limit) = RateLimit(ModelNamed(doc, n).rate_limit)
               /\ ModelNamed(doc, m).max_concurrency = ModelNamed(doc, n).max_concurrency
    <3>1. PICK i \in 1..Len(doc.models) : ModelNamed(doc, m) = doc.models[i]
      BY <1>2
    <3>2. PICK j \in 1..Len(doc.models) : ModelNamed(doc, n) = doc.models[j]
      BY <1>2
    <3> QED BY <2>1, <3>1, <3>2, SameIdentitySameLimits DEF Accepts
  <2>2. ASSUME NEW n \in DOMAIN cfg.models
        PROVE  /\ n \in ModelNames(doc)
               /\ cfg.models[n].state_key = StateKey(ModelNamed(doc, n))
               /\ cfg.models[n].rate_limit = RateLimit(ModelNamed(doc, n).rate_limit)
               /\ cfg.models[n].max_concurrency = ModelNamed(doc, n).max_concurrency
    <3>1. n \in ModelNames(doc) /\ cfg.models[n] = ModelConfig(ModelNamed(doc, n))
      BY <1>1
    <3> HIDE DEF cfg
    <3> QED BY <3>1 DEF ModelConfig
  <2> HIDE DEF cfg
  <2> QED BY <2>1, <2>2 DEF AliasesAgree
<1>4. RecipesRunnable(cfg)
  BY <1>1 DEF RecipesRunnable, Accepts, RecipesValid
<1>5. AmountsSound(cfg)
  <2>1. ASSUME NEW n \in ModelNames(doc)
        PROVE  /\ Sound(cfg.models[n].rate_limit)
               /\ \A k \in 1..2 : cfg.models[n].price[k] \in {Absent} \cup 0..MaxI64
    <3>1. PICK i \in 1..Len(doc.models) : ModelNamed(doc, n) = doc.models[i]
      BY <1>2
    <3>2. doc.models[i] \in ModelDocs
      BY DEF WellTyped
    <3>3. /\ ValidRateLimit(doc.models[i].rate_limit)
          /\ ValidPrice(doc.models[i].price_prompt)
          /\ ValidPrice(doc.models[i].price_completion)
      BY DEF Accepts, ModelsValid
    <3>4. cfg.models[n] = ModelConfig(doc.models[i])
      BY <1>1, <3>1
    <3>5. Sound(RateLimit(doc.models[i].rate_limit))
      BY <3>2, <3>3, RateLimitSound DEF ModelDocs
    <3>6. /\ Price(doc.models[i].price_prompt) \in {Absent} \cup 0..MaxI64
          /\ Price(doc.models[i].price_completion) \in {Absent} \cup 0..MaxI64
      BY <3>2, <3>3, PriceSound DEF ModelDocs
    <3> HIDE DEF cfg
    <3> QED BY <3>4, <3>5, <3>6 DEF ModelConfig
  <2>2. ASSUME NEW i \in 1..Len(doc.keys)
        PROVE  Sound(cfg.keys[i].rate_limit)
    <3>1. doc.keys[i] \in KeyDocs /\ ValidRateLimit(doc.keys[i].rate_limit)
      BY DEF WellTyped, Accepts, KeysValid
    <3>2. Sound(RateLimit(doc.keys[i].rate_limit))
      BY <3>1, RateLimitSound DEF KeyDocs
    <3>3. cfg.keys[i] = KeyConfig(doc.keys[i])
      BY <1>1
    <3> HIDE DEF cfg
    <3> QED BY <3>2, <3>3 DEF KeyConfig
  <2> QED BY <1>1, <2>1, <2>2 DEF AmountsSound
<1> QED BY <1>3, <1>4, <1>5 DEF Trusted

-----------------------------------------------------------------------------
(* The invariant of a connection *)

Keyed     == {"limit", "open", "body", "calling", "moa", "streaming"}
Unrouted  == {"limit", "open", "body"}
Unanswered == Unrouted \cup {"calling", "moa"}

\* A record with the fields of a connection.
Connection(q) ==
  q = [pc |-> q.pc, runtime |-> q.runtime, key |-> q.key, cap |-> q.cap, body |-> q.body,
       called |-> q.called, reply |-> q.reply, counted |-> q.counted, rows |-> q.rows]

\* A configuration the gateway may run on.
Usable(cfg) ==
  /\ Trusted(cfg)
  /\ DOMAIN cfg.keys \subseteq Nat
  /\ \A n \in DOMAIN cfg.recipes : cfg.recipes[n].proposers \in Seq(Nat)

ArmsOf(q) ==
  LET arms == Arms(q.runtime.recipes[MoaTarget[q.body.model]]) IN {arms[i] : i \in DOMAIN arms}

\* A call that is under way: authorised, routed, and not answered yet.
Routed(q) ==
  /\ q.body.model \in q.key.allow_models
  /\ q.pc = "calling" =>
       /\ Route(q.runtime, q.body.model) = "passthrough"
       /\ q.called = Upstreams(q.runtime, {q.body.model})
  /\ q.pc = "moa" =>
       /\ Route(q.runtime, q.body.model) = "moa"
       /\ MoaTarget[q.body.model] \in DOMAIN q.runtime.recipes
       /\ q.called = Upstreams(q.runtime, ArmsOf(q))

Good(q) ==
  /\ Connection(q)
  /\ q.runtime # Absent => Usable(q.runtime)
  /\ q.pc = "idle" => q = NoRequest
  /\ q.pc \in Keyed =>
       Usable(q.runtime) /\ \E i \in DOMAIN q.runtime.keys : q.runtime.keys[i] = q.key
  /\ q.pc \in Unanswered => q.counted = <<>> /\ q.rows = <<>>
  /\ q.pc \in Unrouted => q.called = {}
  /\ q.pc \in {"calling", "moa"} => Routed(q)
  /\ ServedBy(q)
  /\ CountedAs(q)

IInv ==
  /\ Usable(live)
  /\ DOMAIN request = Requests /\ request = [r \in Requests |-> request[r]]
  /\ \A r \in Requests : Good(request[r])
  /\ Ending => Idle

-----------------------------------------------------------------------------
\* What validation accepts can be run on, with any usage store.
LEMMA AcceptedIsUsable ==
  ASSUME NEW doc \in Docs, Accepts(doc)
  PROVE  /\ Usable(RuntimeConfig(doc))
         /\ \A u : Usable([RuntimeConfig(doc) EXCEPT !.server.usage_store = u])
<1> DEFINE cfg == RuntimeConfig(doc)
<1>1. WellTyped(doc)
  BY FrontDoorAssumption
<1>2. Trusted(cfg)
  BY <1>1, ValidationSound
<1>3. cfg = [server |-> cfg.server, keys |-> cfg.keys, models |-> cfg.models,
             recipes |-> cfg.recipes]
  BY DEF RuntimeConfig
<1>4. cfg.recipes = doc.recipes
  BY DEF RuntimeConfig
<1>5. \A n \in DOMAIN doc.recipes : doc.recipes[n].proposers \in Seq(Nat)
  BY <1>1 DEF WellTyped, RecipeDocs
<1>6. DOMAIN cfg.keys \subseteq Nat
  BY <1>1 DEF RuntimeConfig, WellTyped
<1> HIDE DEF cfg
<1>7. ASSUME NEW u
      PROVE  LET c == [cfg EXCEPT !.server.usage_store = u] IN
             c.keys = cfg.keys /\ c.models = cfg.models /\ c.recipes = cfg.recipes
  BY <1>3
<1>8. ASSUME NEW u
      PROVE  Usable([cfg EXCEPT !.server.usage_store = u])
  <2> DEFINE c == [cfg EXCEPT !.server.usage_store = u]
  <2>1. c.keys = cfg.keys /\ c.models = cfg.models /\ c.recipes = cfg.recipes
    BY <1>7
  <2> HIDE DEF c
  <2>2. Trusted(c)
    BY <1>2, <2>1 DEF Trusted, AliasesAgree, RecipesRunnable, AmountsSound
  <2>3. Usable(c)
    BY <1>4, <1>5, <1>6, <2>1, <2>2 DEF Usable
  <2> QED BY <2>3 DEF c
<1>9. Usable(cfg)
  BY <1>2, <1>4, <1>5, <1>6 DEF Usable
<1> QED BY <1>8, <1>9 DEF cfg

\* The arms of a recipe of a usable configuration are models of it.
LEMMA ArmsAreModels ==
  ASSUME NEW cfg, Usable(cfg), NEW n \in DOMAIN cfg.recipes
  PROVE  LET proposers == cfg.recipes[n].proposers
             arms == Arms(cfg.recipes[n]) IN
         /\ \A i \in DOMAIN arms : arms[i] \in DOMAIN cfg.models
         /\ \A i \in DOMAIN proposers :
              \E j \in DOMAIN arms : proposers[i] = arms[j]
<1> DEFINE proposers == cfg.recipes[n].proposers
           arms == Arms(cfg.recipes[n])
           aggregator == cfg.recipes[n].aggregator
<1>1. proposers \in Seq(Nat)
  BY DEF Usable
<1>2. /\ \A i \in 1..Len(proposers) : proposers[i] \in DOMAIN cfg.models
      /\ aggregator \in DOMAIN cfg.models
  BY DEF Usable, Trusted, RecipesRunnable
<1>3. arms = Append(proposers, aggregator)
  BY DEF Arms
<1> HIDE DEF proposers, arms, aggregator
<1>4. /\ DOMAIN proposers = 1..Len(proposers) /\ Len(proposers) \in Nat
      /\ DOMAIN arms = 1..(Len(proposers) + 1)
      /\ \A i \in 1..Len(proposers) : arms[i] = proposers[i]
      /\ arms[Len(proposers) + 1] = aggregator
  BY <1>1, <1>3
<1>5. \A i \in DOMAIN arms : arms[i] \in DOMAIN cfg.models
  BY <1>2, <1>4
<1>6. \A i \in DOMAIN proposers : \E j \in DOMAIN arms : proposers[i] = arms[j]
  <2> SUFFICES ASSUME NEW i \in DOMAIN proposers
               PROVE  i \in DOMAIN arms /\ proposers[i] = arms[i]
    OBVIOUS
  <2> QED BY <1>4
<1> QED BY <1>5, <1>6 DEF proposers, arms

-----------------------------------------------------------------------------
(* What the handlers make of a connection *)

\* A connection as the record of its fields.
Fields(pc, runtime, key, cap, body, called, reply, counted, rows) ==
  [pc |-> pc, runtime |-> runtime, key |-> key, cap |-> cap, body |-> body,
   called |-> called, reply |-> reply, counted |-> counted, rows |-> rows]

\* What an update of one field makes of a connection.
LEMMA Updates ==
  ASSUME NEW q, Connection(q), NEW x
  PROVE  /\ Goto(q, x) =
              Fields(x, q.runtime, q.key, q.cap, q.body, q.called, q.reply, q.counted, q.rows)
         /\ [q EXCEPT !.runtime = x] =
              Fields(q.pc, x, q.key, q.cap, q.body, q.called, q.reply, q.counted, q.rows)
         /\ [q EXCEPT !.key = x] =
              Fields(q.pc, q.runtime, x, q.cap, q.body, q.called, q.reply, q.counted, q.rows)
         /\ [q EXCEPT !.cap = x] =
              Fields(q.pc, q.runtime, q.key, x, q.body, q.called, q.reply, q.counted, q.rows)
         /\ [q EXCEPT !.body = x] =
              Fields(q.pc, q.runtime, q.key, q.cap, x, q.called, q.reply, q.counted, q.rows)
         /\ [q EXCEPT !.called = x] =
              Fields(q.pc, q.runtime, q.key, q.cap, q.body, x, q.reply, q.counted, q.rows)
         /\ [q EXCEPT !.reply = x] =
              Fields(q.pc, q.runtime, q.key, q.cap, q.body, q.called, x, q.counted, q.rows)
         /\ [q EXCEPT !.counted = x] =
              Fields(q.pc, q.runtime, q.key, q.cap, q.body, q.called, q.reply, x, q.rows)
         /\ [q EXCEPT !.rows = x] =
              Fields(q.pc, q.runtime, q.key, q.cap, q.body, q.called, q.reply, q.counted, x)
<1> DEFINE pc == q.pc  runtime == q.runtime  key == q.key  cap == q.cap  body == q.body
           called == q.called  reply == q.reply  counted == q.counted  rows == q.rows
<1>1. q = [pc |-> pc, runtime |-> runtime, key |-> key, cap |-> cap, body |-> body,
            called |-> called, reply |-> reply, counted |-> counted, rows |-> rows]
  BY DEF Connection
<1> HIDE DEF pc, runtime, key, cap, body, called, reply, counted, rows
<1>2. Goto(q, x) = Fields(x, runtime, key, cap, body, called, reply, counted, rows)
  BY <1>1, SMT DEF Fields, Goto
<1>3. [q EXCEPT !.runtime = x] = Fields(pc, x, key, cap, body, called, reply, counted, rows)
  BY <1>1, SMT DEF Fields, Goto
<1>4. [q EXCEPT !.key = x] = Fields(pc, runtime, x, cap, body, called, reply, counted, rows)
  BY <1>1, SMT DEF Fields, Goto
<1>5. [q EXCEPT !.cap = x] = Fields(pc, runtime, key, x, body, called, reply, counted, rows)
  BY <1>1, SMT DEF Fields, Goto
<1>6. [q EXCEPT !.body = x] = Fields(pc, runtime, key, cap, x, called, reply, counted, rows)
  BY <1>1, SMT DEF Fields, Goto
<1>7. [q EXCEPT !.called = x] = Fields(pc, runtime, key, cap, body, x, reply, counted, rows)
  BY <1>1, SMT DEF Fields, Goto
<1>8. [q EXCEPT !.reply = x] = Fields(pc, runtime, key, cap, body, called, x, counted, rows)
  BY <1>1, SMT DEF Fields, Goto
<1>9. [q EXCEPT !.counted = x] = Fields(pc, runtime, key, cap, body, called, reply, x, rows)
  BY <1>1, SMT DEF Fields, Goto
<1>10. [q EXCEPT !.rows = x] = Fields(pc, runtime, key, cap, body, called, reply, counted, x)
  BY <1>1, SMT DEF Fields, Goto
<1> QED BY <1>2, <1>3, <1>4, <1>5, <1>6, <1>7, <1>8, <1>9, <1>10
       DEF pc, runtime, key, cap, body, called, reply, counted, rows

\* An answer has every field of its request, its status, one entry in the
\* metrics and the rows it books.
LEMMA AnswerFields ==
  ASSUME NEW q, Connection(q), q.counted = <<>>, NEW path, NEW status
  PROVE  /\ Finished(q, path, status) =
              Fields("answered", q.runtime, q.key, q.cap, q.body, q.called, status,
                     <<<<path, status>>>>, q.rows)
         /\ Replied(q, status) =
              Fields("answered", q.runtime, q.key, q.cap, q.body, q.called, status,
                     <<>>, q.rows)
<1>1. Append(q.counted, <<path, status>>) = <<<<path, status>>>>
  OBVIOUS
<1> DEFINE c == Counted(q, path, status)
<1>2. c = Fields(q.pc, q.runtime, q.key, q.cap, q.body, q.called, q.reply,
                 <<<<path, status>>>>, q.rows)
  <2>1. \A x : [q EXCEPT !.counted = x] =
                 Fields(q.pc, q.runtime, q.key, q.cap, q.body, q.called, q.reply, x, q.rows)
    BY Updates, Zenon
  <2> QED BY <1>1, <2>1, Zenon DEF Counted
<1> HIDE DEF c
<1>3. ASSUME NEW p, Connection(p)
      PROVE  Replied(p, status) =
               Fields("answered", p.runtime, p.key, p.cap, p.body, p.called, status,
                      p.counted, p.rows)
  <2> DEFINE g == Goto(p, "answered")
  <2>1. g = Fields("answered", p.runtime, p.key, p.cap, p.body, p.called, p.reply,
                   p.counted, p.rows)
    BY <1>3, Updates, Zenon
  <2> HIDE DEF g
  <2>2. /\ Connection(g) /\ g.pc = "answered" /\ g.runtime = p.runtime /\ g.key = p.key
        /\ g.cap = p.cap /\ g.body = p.body /\ g.called = p.called /\ g.rows = p.rows
        /\ g.counted = p.counted
    BY <2>1 DEF Fields, Connection
  <2>3. [g EXCEPT !.reply = status] =
          Fields(g.pc, g.runtime, g.key, g.cap, g.body, g.called, status, g.counted, g.rows)
    BY <2>2, Updates
  <2> QED BY <2>2, <2>3 DEF Replied, g
<1>4. /\ Connection(c) /\ c.runtime = q.runtime /\ c.key = q.key
      /\ c.cap = q.cap /\ c.body = q.body /\ c.called = q.called /\ c.rows = q.rows
      /\ c.counted = <<<<path, status>>>>
  BY <1>2 DEF Fields, Connection
<1>5. Replied(c, status) =
        Fields("answered", q.runtime, q.key, q.cap, q.body, q.called, status,
               <<<<path, status>>>>, q.rows)
  BY <1>3, <1>4, Zenon
<1> QED BY <1>3, <1>5 DEF Finished, c

\* What ServedBy depends on.
LEMMA ServedBySame ==
  ASSUME NEW p, NEW q, ServedBy(q), p.runtime = q.runtime, p.key = q.key,
         p.body = q.body, p.called = q.called, p.rows = q.rows
  PROVE  ServedBy(p)
BY DEF ServedBy

\* What makes an answered connection good.
LEMMA RejectedIsGood ==
  ASSUME NEW q, Connection(q), q.runtime # Absent => Usable(q.runtime),
         q.called = {}, q.counted = <<>>, NEW e
  PROVE  Good(Rejected(q, e))
<1> DEFINE s == Envelope[e]
           p == Finished(q, "pre_routing", s)
<1> HIDE DEF s
<1>1. /\ Connection(p) /\ p.pc = "answered" /\ p.runtime = q.runtime /\ p.called = {}
      /\ p.reply = s /\ p.counted = <<<<"pre_routing", s>>>>
  <2>1. p = Fields("answered", q.runtime, q.key, q.cap, q.body, q.called, s,
                   <<<<"pre_routing", s>>>>, q.rows)
    BY AnswerFields, Zenon
  <2> HIDE DEF p
  <2> QED BY <2>1 DEF Fields, Connection
<1>2. Rejected(q, e) = p
  BY DEF Rejected, Finished, s
<1> HIDE DEF p
<1>3. ServedBy(p) /\ CountedAs(p)
  BY <1>1 DEF ServedBy, CountedAs
<1>4. Good(p)
  BY <1>1, <1>3 DEF Good, Keyed, Unrouted, Unanswered
<1> QED BY <1>2, <1>4

\* A call that ends leaves a good connection: its reply is counted, its rows are
\* booked by the configuration that served it.
LEMMA FinishedIsGood ==
  ASSUME NEW q, Connection(q), q.runtime # Absent => Usable(q.runtime), q.counted = <<>>,
         NEW path, NEW status, NEW rows,
         q.called # {} => path = Route(q.runtime, q.body.model),
         ServedBy(Fields(q.pc, q.runtime, q.key, q.cap, q.body, q.called, q.reply, q.counted, rows))
  PROVE  Good([Finished(q, path, status) EXCEPT !.rows = rows])
<1> DEFINE a == Finished(q, path, status)
           p == [a EXCEPT !.rows = rows]
           o == Fields(q.pc, q.runtime, q.key, q.cap, q.body, q.called, q.reply, q.counted, rows)
<1>1. a = Fields("answered", q.runtime, q.key, q.cap, q.body, q.called, status,
                 <<<<path, status>>>>, q.rows)
  BY AnswerFields, Zenon
<1> HIDE DEF a
<1>2. Connection(a) /\ a.pc = "answered" /\ a.runtime = q.runtime /\ a.key = q.key
      /\ a.cap = q.cap /\ a.body = q.body /\ a.called = q.called /\ a.reply = status
      /\ a.counted = <<<<path, status>>>>
  BY <1>1 DEF Fields, Connection
<1>3. p = Fields(a.pc, a.runtime, a.key, a.cap, a.body, a.called, a.reply, a.counted, rows)
  <2>1. Connection(a)
    BY <1>2
  <2> QED BY ONLY <2>1, Updates, ZenonT(30)
<1>4. o.called = q.called /\ o.runtime = q.runtime /\ o.key = q.key /\ o.body = q.body
      /\ o.rows = rows
  BY DEF Fields
<1> HIDE DEF p, o
<1>5. Connection(p) /\ p.pc = "answered" /\ p.runtime = q.runtime /\ p.key = q.key
      /\ p.body = q.body /\ p.called = q.called /\ p.reply = status
      /\ p.counted = <<<<path, status>>>> /\ p.rows = rows
  BY <1>2, <1>3 DEF Fields, Connection
<1>6. ServedBy(p)
  <2>1. ServedBy(o)
    BY DEF o
  <2> QED BY <1>4, <1>5, <2>1, ServedBySame
<1>7. CountedAs(p)
  BY <1>5 DEF CountedAs
<1>8. Good(p)
  BY <1>5, <1>6, <1>7 DEF Good, Keyed, Unrouted, Unanswered
<1> QED BY <1>8 DEF p, a

-----------------------------------------------------------------------------
(* The handlers, one by one *)

\* Calls and rows of models of the pinned configuration, for a model the key allows.
LEMMA ServedByCalls ==
  ASSUME NEW q, NEW M, M \subseteq DOMAIN q.runtime.models,
         q.called = Upstreams(q.runtime, M), q.body.model \in q.key.allow_models,
         \E i \in DOMAIN q.runtime.keys : q.runtime.keys[i] = q.key,
         \A i \in DOMAIN q.rows : \E m \in M : q.rows[i] = Row(q, m)
  PROVE  ServedBy(q)
<1>1. \A c \in q.called : /\ c.model \in DOMAIN q.runtime.models
                          /\ c.state_key = q.runtime.models[c.model].state_key
  BY DEF Upstreams
<1>2. \A m \in M : \E c \in q.called : c.model = m
  <2> SUFFICES ASSUME NEW m \in M
               PROVE  \E c \in q.called : c.model = m
    OBVIOUS
  <2>1. [model |-> m, state_key |-> q.runtime.models[m].state_key] \in q.called
    BY DEF Upstreams
  <2> QED BY <2>1
<1>3. ASSUME NEW i \in DOMAIN q.rows
      PROVE  /\ q.rows[i].model \in {c.model : c \in q.called}
             /\ q.rows[i].price = q.runtime.models[q.rows[i].model].price
  <2>1. PICK m \in M : q.rows[i] = Row(q, m)
    BY <1>3
  <2>2. q.rows[i].model = m /\ q.rows[i].price = q.runtime.models[m].price
    BY <2>1 DEF Row, PriceOf
  <2> QED BY <2>2, <1>2
<1> QED BY <1>1, <1>3 DEF ServedBy

\* The first of a set of entries.
LEMMA FirstIsOne ==
  ASSUME NEW S, S \subseteq Nat, S # {}
  PROVE  First(S) \in S
<1>1. PICK i \in S : \A j \in S : ~(<<j, i>> \in OpToRel(<, Nat))
  BY NatLessThanWellFounded, WFMin
<1>2. ASSUME NEW j \in S
      PROVE  i <= j
  <2>1. i \in Nat /\ j \in Nat /\ ~(<<j, i>> \in {ss \in Nat \X Nat : ss[1] < ss[2]})
    BY <1>1, Zenon DEF OpToRel
  <2>2. ~(j < i)
    BY <2>1
  <2> QED BY <2>1, <2>2
<1> QED BY <1>2 DEF First

\* A caller is let in with a key of the configuration that authenticated it.
LEMMA AuthenticateIsGood ==
  ASSUME Usable(live), NEW token
  PROVE  LET matching == Matching(live, token) IN
         /\ Good(Rejected(NoRequest, "InvalidApiKey"))
         /\ matching # {} =>
              Good([NoRequest EXCEPT !.pc = "limit", !.runtime = live,
                      !.key = live.keys[First(matching)]])
<1> DEFINE matching == Matching(live, token)
<1>1. /\ Connection(NoRequest) /\ NoRequest.runtime = Absent /\ NoRequest.called = {}
      /\ NoRequest.counted = <<>>
  BY DEF NoRequest, Connection
<1>2. Good(Rejected(NoRequest, "InvalidApiKey"))
  BY <1>1, RejectedIsGood
<1>3. ASSUME matching # {}
      PROVE  Good([NoRequest EXCEPT !.pc = "limit", !.runtime = live,
                     !.key = live.keys[First(matching)]])
  <2> DEFINE key == live.keys[First(matching)]
             p == [NoRequest EXCEPT !.pc = "limit", !.runtime = live, !.key = key]
  <2>1. matching \subseteq DOMAIN live.keys /\ matching \subseteq Nat
    BY DEF Matching, Usable
  <2>2. \E i \in DOMAIN live.keys : live.keys[i] = key
    BY <1>3, <2>1, FirstIsOne
  <2> HIDE DEF key
  <2> DEFINE a == Goto(NoRequest, "limit")
             b == [a EXCEPT !.runtime = live]
  <2>3. p = [b EXCEPT !.key = key]
    BY DEF Goto
  <2>4. a = Fields("limit", Absent, Absent, 0, Absent, {}, 0, <<>>, <<>>)
    <3>1. a = Fields("limit", NoRequest.runtime, NoRequest.key, NoRequest.cap, NoRequest.body,
                     NoRequest.called, NoRequest.reply, NoRequest.counted, NoRequest.rows)
      BY <1>1, Updates, Zenon
    <3> QED BY <3>1 DEF NoRequest
  <2> HIDE DEF a
  <2>5. Connection(a) /\ a.pc = "limit" /\ a.key = Absent /\ a.cap = 0 /\ a.body = Absent
        /\ a.called = {} /\ a.reply = 0 /\ a.counted = <<>> /\ a.rows = <<>>
    BY <2>4 DEF Fields, Connection
  <2>6. b = Fields("limit", live, Absent, 0, Absent, {}, 0, <<>>, <<>>)
    <3>1. b = Fields(a.pc, live, a.key, a.cap, a.body, a.called, a.reply, a.counted, a.rows)
      BY ONLY <2>5, Updates, Zenon
    <3> QED BY <2>5, <3>1
  <2> HIDE DEF b
  <2>7. Connection(b) /\ b.pc = "limit" /\ b.runtime = live /\ b.cap = 0 /\ b.body = Absent
        /\ b.called = {} /\ b.reply = 0 /\ b.counted = <<>> /\ b.rows = <<>>
    BY <2>6 DEF Fields, Connection
  <2>8. p = Fields("limit", live, key, 0, Absent, {}, 0, <<>>, <<>>)
    <3>1. [b EXCEPT !.key = key] =
            Fields(b.pc, b.runtime, key, b.cap, b.body, b.called, b.reply, b.counted, b.rows)
      BY ONLY <2>7, Updates, Zenon
    <3> QED BY <2>3, <2>7, <3>1
  <2> HIDE DEF p
  <2>9. ServedBy(p) /\ CountedAs(p) /\ Connection(p)
    BY <2>8 DEF ServedBy, CountedAs, Connection, Fields
  <2>10. Good(p)
    BY <2>2, <2>8, <2>9 DEF Good, Keyed, Unrouted, Unanswered, Fields
  <2> QED BY <2>10 DEF p, key
<1> QED BY <1>2, <1>3

\* On the way through the gates nothing is called, counted or booked.
LEMMA UnroutedIsGood ==
  ASSUME NEW p, Connection(p), p.pc \in Unrouted, Usable(p.runtime),
         \E i \in DOMAIN p.runtime.keys : p.runtime.keys[i] = p.key,
         p.called = {}, p.counted = <<>>, p.rows = <<>>
  PROVE  Good(p)
<1>1. ServedBy(p) /\ CountedAs(p)
  BY DEF ServedBy, CountedAs, Unrouted
<1> QED BY <1>1 DEF Good, Keyed, Unrouted, Unanswered

\* A gate leaves a connection open, lets it on to its body, or answers it.
LEMMA GatesAreGood ==
  ASSUME NEW q, Good(q), q.pc \in Unrouted, NEW cap
  PROVE  /\ Good(Goto(q, "open"))
         /\ Good([Goto(q, "body") EXCEPT !.cap = cap])
         /\ \A e : Good(Rejected(q, e))
<1>1. /\ Connection(q) /\ Usable(q.runtime) /\ q.called = {} /\ q.counted = <<>> /\ q.rows = <<>>
      /\ \E i \in DOMAIN q.runtime.keys : q.runtime.keys[i] = q.key
  BY DEF Good, Keyed, Unrouted, Unanswered
<1>2. ASSUME NEW place \in Unrouted
      PROVE  LET p == Goto(q, place) IN
             /\ Good(p) /\ Connection(p) /\ p.pc = place /\ p.runtime = q.runtime
             /\ p.key = q.key /\ p.called = {} /\ p.counted = <<>> /\ p.rows = <<>>
  <2> DEFINE p == Goto(q, place)
  <2>1. p = Fields(place, q.runtime, q.key, q.cap, q.body, q.called, q.reply, q.counted, q.rows)
    BY <1>1, Updates, Zenon
  <2> HIDE DEF p
  <2>2. /\ Connection(p) /\ p.pc = place /\ p.runtime = q.runtime
        /\ p.key = q.key /\ p.called = {} /\ p.counted = <<>> /\ p.rows = <<>>
    BY <1>1, <2>1 DEF Fields, Connection
  <2>3. Good(p)
    BY <1>1, <2>2, UnroutedIsGood
  <2> QED BY <2>2, <2>3 DEF p
<1>3. "open" \in Unrouted /\ "body" \in Unrouted
  BY DEF Unrouted
<1>4. Good([Goto(q, "body") EXCEPT !.cap = cap])
  <2> DEFINE a == Goto(q, "body")
             p == [a EXCEPT !.cap = cap]
  <2>1. /\ Connection(a) /\ a.pc = "body" /\ a.runtime = q.runtime
        /\ a.key = q.key /\ a.called = {} /\ a.counted = <<>> /\ a.rows = <<>>
    BY <1>2, <1>3
  <2> HIDE DEF a
  <2>2. p = Fields(a.pc, a.runtime, a.key, cap, a.body, a.called, a.reply, a.counted, a.rows)
    BY ONLY <2>1, Updates, Zenon
  <2> HIDE DEF p
  <2>3. /\ Connection(p) /\ p.pc = "body" /\ p.runtime = q.runtime
        /\ p.key = q.key /\ p.called = {} /\ p.counted = <<>> /\ p.rows = <<>>
    BY <2>1, <2>2 DEF Fields, Connection
  <2>4. Good(p)
    BY <1>1, <1>3, <2>3, UnroutedIsGood
  <2> QED BY <2>4 DEF p, a
<1> QED BY <1>1, <1>2, <1>3, <1>4, RejectedIsGood

\* An idle connection holds nothing.
LEMMA IdleIsGood == Good(NoRequest)
<1>1. ServedBy(NoRequest) /\ CountedAs(NoRequest) /\ Connection(NoRequest)
  BY DEF NoRequest, ServedBy, CountedAs, Connection
<1> QED BY <1>1 DEF Good, NoRequest, Keyed, Unrouted, Unanswered

\* A call starts with the caller's key and what the route names.
LEMMA RoutedIsGood ==
  ASSUME NEW p, Connection(p), p.pc \in {"calling", "moa"}, Usable(p.runtime),
         \E i \in DOMAIN p.runtime.keys : p.runtime.keys[i] = p.key,
         p.counted = <<>>, p.rows = <<>>, Routed(p)
  PROVE  Good(p)
<1> DEFINE M == IF p.pc = "calling" THEN {p.body.model} ELSE ArmsOf(p)
<1>1. p.called = Upstreams(p.runtime, M) /\ p.body.model \in p.key.allow_models
  BY DEF Routed
<1>2. \A i \in DOMAIN p.rows : \E m \in M : p.rows[i] = Row(p, m)
  BY DEF Row
<1>3. CASE p.pc = "calling"
  <2>1. {p.body.model} \subseteq DOMAIN p.runtime.models
    BY <1>3 DEF Routed, Route
  <2>2. ServedBy(p)
    BY <1>1, <1>2, <1>3, <2>1, ServedByCalls
  <2> QED BY <1>3, <2>2 DEF Good, Keyed, Unrouted, Unanswered, CountedAs
<1>4. CASE p.pc = "moa"
  <2>1. ArmsOf(p) \subseteq DOMAIN p.runtime.models
    BY <1>4, ArmsAreModels, Zenon DEF Routed, ArmsOf
  <2>2. ServedBy(p)
    BY <1>1, <1>2, <1>4, <2>1, ServedByCalls
  <2> QED BY <1>4, <2>2 DEF Good, Keyed, Unrouted, Unanswered, CountedAs
<1> QED BY <1>3, <1>4

\* A body is refused and counted, answered as unparsed, or starts a call that
\* the caller's key allows and the pinned configuration routes.
LEMMA BodyIsGood ==
  ASSUME NEW r, Good(request[r]), request[r].pc = "body", NEW b \in Bodies,
         NEW q, q = [request[r] EXCEPT !.body = b]
  PROVE  /\ \A e : Good(Rejected(q, e))
         /\ GateError(q, b) = "none" =>
              /\ Route(q.runtime, b.model) = "moa" => Good(StartMoa(q))
              /\ Route(q.runtime, b.model) # "moa" => Good(StartPassthrough(q))
<1> DEFINE o == request[r]
<1>1. /\ Connection(o) /\ o.pc = "body" /\ Usable(o.runtime) /\ o.called = {}
      /\ o.counted = <<>> /\ o.rows = <<>>
      /\ \E i \in DOMAIN o.runtime.keys : o.runtime.keys[i] = o.key
  BY DEF Good, Keyed, Unrouted, Unanswered
<1>2. q = Fields(o.pc, o.runtime, o.key, o.cap, b, o.called, o.reply, o.counted, o.rows)
  BY <1>1, Updates, Zenon
<1>3. /\ Connection(q) /\ Usable(q.runtime) /\ q.called = {} /\ q.body = b
      /\ q.counted = <<>> /\ q.rows = <<>>
      /\ \E i \in DOMAIN q.runtime.keys : q.runtime.keys[i] = q.key
  BY <1>1, <1>2 DEF Fields, Connection
<1>4. \A e : Good(Rejected(q, e))
  BY <1>3, RejectedIsGood
<1>5. ASSUME GateError(q, b) = "none"
      PROVE  /\ b.model \in q.key.allow_models
             /\ Route(q.runtime, b.model) # "unknown"
             /\ Route(q.runtime, b.model) = "moa" => ~b.stream
  BY <1>5 DEF GateError
<1> DEFINE Started(place, called) == [Goto(q, place) EXCEPT !.called = called]
<1>6. ASSUME NEW place, NEW called
      PROVE  LET p == Started(place, called) IN
             /\ Connection(p) /\ p.pc = place /\ p.runtime = q.runtime /\ p.key = q.key
             /\ p.body = b /\ p.called = called /\ p.counted = <<>> /\ p.rows = <<>>
  <2> DEFINE a == Goto(q, place)
             p == [a EXCEPT !.called = called]
  <2>1. a = Fields(place, q.runtime, q.key, q.cap, q.body, q.called, q.reply, q.counted, q.rows)
    BY ONLY <1>3, Updates, Zenon
  <2> HIDE DEF a
  <2>2. Connection(a) /\ a.pc = place /\ a.runtime = q.runtime /\ a.key = q.key /\ a.body = b
        /\ a.counted = <<>> /\ a.rows = <<>>
    BY <1>3, <2>1 DEF Fields, Connection
  <2>3. p = Fields(a.pc, a.runtime, a.key, a.cap, a.body, called, a.reply, a.counted, a.rows)
    BY ONLY <2>2, Updates, Zenon
  <2> HIDE DEF p
  <2>4. /\ Connection(p) /\ p.pc = place /\ p.runtime = q.runtime /\ p.key = q.key
        /\ p.body = b /\ p.called = called /\ p.counted = <<>> /\ p.rows = <<>>
    BY <2>2, <2>3 DEF Fields, Connection
  <2> QED BY <2>4 DEF p, a
<1> HIDE DEF Started
<1>7. ASSUME GateError(q, b) = "none", Route(q.runtime, b.model) # "moa"
      PROVE  Good(StartPassthrough(q))
  <2> DEFINE called == Upstreams(q.runtime, {b.model})
             p == Started("calling", called)
  <2> HIDE DEF called
  <2>1. /\ Connection(p) /\ p.pc = "calling" /\ p.runtime = q.runtime /\ p.key = q.key
        /\ p.body = b /\ p.called = called /\ p.counted = <<>> /\ p.rows = <<>>
    BY <1>6
  <2> HIDE DEF p
  <2>2. Route(q.runtime, b.model) = "passthrough" /\ b.model \in q.key.allow_models
    BY <1>5, <1>7 DEF Route
  <2>3. Routed(p)
    BY <2>1, <2>2 DEF Routed, called
  <2>4. Good(p)
    BY <1>3, <2>1, <2>3, RoutedIsGood
  <2> QED BY <1>3, <2>4 DEF StartPassthrough, p, called, Started
<1>8. ASSUME GateError(q, b) = "none", Route(q.runtime, b.model) = "moa"
      PROVE  Good(StartMoa(q))
  <2>1. /\ b.model \in q.key.allow_models /\ ~b.stream /\ MoaTarget[b.model] # Absent
        /\ b # Absent
    BY <1>5, <1>8, FrontDoorAssumption DEF Route
  <2>2. CASE b.shape = "untyped"
    <3> DEFINE p == Replied(q, 400)
    <3>1. p = Fields("answered", q.runtime, q.key, q.cap, q.body, q.called, 400, <<>>, q.rows)
      BY ONLY <1>3, AnswerFields, Zenon
    <3> HIDE DEF p
    <3>2. /\ Connection(p) /\ p.pc = "answered" /\ p.runtime = q.runtime /\ p.called = {}
          /\ p.body = b /\ p.reply = 400
      BY <1>3, <3>1 DEF Fields, Connection
    <3>3. ServedBy(p) /\ CountedAs(p)
      BY <2>1, <2>2, <3>2 DEF ServedBy, CountedAs, Unparsed
    <3>4. Good(p)
      BY <1>3, <3>2, <3>3 DEF Good, Keyed, Unrouted, Unanswered
    <3>5. StartMoa(q) = p
      BY <1>3, <2>2 DEF StartMoa, Envelope, p
    <3> QED BY <3>4, <3>5
  <2>3. CASE b.shape # "untyped" /\ MoaTarget[b.model] \notin DOMAIN q.runtime.recipes
    <3> DEFINE p == Finished(q, "moa", 404)
    <3>1. p = Fields("answered", q.runtime, q.key, q.cap, q.body, q.called, 404,
                     <<<<"moa", 404>>>>, q.rows)
      <4>1. ASSUME NEW path, NEW status
            PROVE  Finished(q, path, status) =
                     Fields("answered", q.runtime, q.key, q.cap, q.body, q.called, status,
                            <<<<path, status>>>>, q.rows)
        BY ONLY <1>3, AnswerFields, Zenon
      <4> QED BY <4>1
    <3> HIDE DEF p
    <3>2. /\ Connection(p) /\ p.pc = "answered" /\ p.runtime = q.runtime /\ p.called = {}
          /\ p.reply = 404 /\ p.counted = <<<<"moa", 404>>>>
      BY <1>3, <3>1 DEF Fields, Connection
    <3>3. ServedBy(p) /\ CountedAs(p)
      BY <3>2 DEF ServedBy, CountedAs
    <3>4. Good(p)
      BY <1>3, <3>2, <3>3 DEF Good, Keyed, Unrouted, Unanswered
    <3>5. StartMoa(q) = p
      BY <1>3, <2>3 DEF StartMoa, Envelope, p
    <3> QED BY <3>4, <3>5
  <2>4. CASE b.shape # "untyped" /\ MoaTarget[b.model] \in DOMAIN q.runtime.recipes
    <3> DEFINE arms == Arms(q.runtime.recipes[MoaTarget[b.model]])
               called == Upstreams(q.runtime, {arms[i] : i \in DOMAIN arms})
               p == Started("moa", called)
    <3> HIDE DEF called
    <3>1. /\ Connection(p) /\ p.pc = "moa" /\ p.runtime = q.runtime /\ p.key = q.key
          /\ p.body = b /\ p.called = called /\ p.counted = <<>> /\ p.rows = <<>>
      BY <1>6
    <3>2. StartMoa(q) = p
      BY <1>3, <2>4, Zenon DEF StartMoa, called, Started
    <3> HIDE DEF p
    <3>3. p.called = Upstreams(p.runtime, ArmsOf(p))
      BY <3>1 DEF ArmsOf, called
    <3>4. Routed(p)
      BY <1>8, <2>1, <2>4, <3>1, <3>3 DEF Routed
    <3>5. Good(p)
      BY <1>3, <3>1, <3>4, RoutedIsGood
    <3> QED BY <3>2, <3>5
  <2> QED BY <2>2, <2>3, <2>4
<1> QED BY <1>4, <1>7, <1>8

\* The facts about a call that is under way.
LEMMA CallFacts ==
  ASSUME NEW q, Good(q), q.pc \in {"calling", "moa"}
  PROVE  /\ Connection(q) /\ Usable(q.runtime) /\ q.counted = <<>> /\ q.rows = <<>>
         /\ \E i \in DOMAIN q.runtime.keys : q.runtime.keys[i] = q.key
         /\ Routed(q) /\ ServedBy(q)
BY DEF Good, Keyed, Unrouted, Unanswered

\* A passthrough call ends: booked, failed, or handed over to a stream.
LEMMA CallIsGood ==
  ASSUME NEW q, Good(q), q.pc = "calling", NEW status
  PROVE  /\ Good(Finished(q, "passthrough", status))
         /\ Good(Goto(Finished(q, "passthrough", status), "streaming"))
         /\ Good([Finished(q, "passthrough", status) EXCEPT !.rows = <<Row(q, q.body.model)>>])
<1>1. /\ Connection(q) /\ Usable(q.runtime) /\ q.counted = <<>> /\ q.rows = <<>>
      /\ \E i \in DOMAIN q.runtime.keys : q.runtime.keys[i] = q.key
      /\ Routed(q) /\ ServedBy(q)
  BY CallFacts
<1>2. /\ Route(q.runtime, q.body.model) = "passthrough"
      /\ q.called = Upstreams(q.runtime, {q.body.model})
      /\ q.body.model \in q.key.allow_models
  BY <1>1 DEF Routed
<1> DEFINE a == Finished(q, "passthrough", status)
<1>3. a = Fields("answered", q.runtime, q.key, q.cap, q.body, q.called, status,
                 <<<<"passthrough", status>>>>, q.rows)
  <2>1. ASSUME NEW path
        PROVE  Finished(q, path, status) =
                 Fields("answered", q.runtime, q.key, q.cap, q.body, q.called, status,
                        <<<<path, status>>>>, q.rows)
    BY ONLY <1>1, AnswerFields, Zenon
  <2> QED BY <2>1
<1> HIDE DEF a
<1>4. /\ Connection(a) /\ a.pc = "answered" /\ a.runtime = q.runtime /\ a.key = q.key
      /\ a.body = q.body /\ a.called = q.called /\ a.reply = status
      /\ a.counted = <<<<"passthrough", status>>>> /\ a.rows = <<>>
  BY <1>1, <1>3 DEF Fields, Connection
<1>5. ServedBy(a) /\ CountedAs(a)
  <2>1. ServedBy(a)
    BY <1>1, <1>4, ServedBySame
  <2>2. CountedAs(a)
    BY <1>2, <1>4 DEF CountedAs
  <2> QED BY <2>1, <2>2
<1>6. Good(a)
  BY <1>1, <1>4, <1>5 DEF Good, Keyed, Unrouted, Unanswered
<1>7. Good(Goto(a, "streaming"))
  <2> DEFINE p == Goto(a, "streaming")
  <2>1. p = Fields("streaming", a.runtime, a.key, a.cap, a.body, a.called, a.reply,
                   a.counted, a.rows)
    BY ONLY <1>4, Updates, Zenon
  <2> HIDE DEF p
  <2>2. /\ Connection(p) /\ p.pc = "streaming" /\ p.runtime = q.runtime /\ p.key = q.key
        /\ p.body = q.body /\ p.called = q.called /\ p.reply = status
        /\ p.counted = <<<<"passthrough", status>>>> /\ p.rows = <<>>
    BY <1>4, <2>1 DEF Fields, Connection
  <2>3. ServedBy(p) /\ CountedAs(p)
    <3>1. ServedBy(p)
      BY <1>1, <2>2, ServedBySame
    <3>2. CountedAs(p)
      BY <1>2, <2>2 DEF CountedAs
    <3> QED BY <3>1, <3>2
  <2>4. Good(p)
    BY <1>1, <2>2, <2>3 DEF Good, Keyed, Unrouted, Unanswered
  <2> QED BY <2>4 DEF p
<1>8. Good([a EXCEPT !.rows = <<Row(q, q.body.model)>>])
  <2> DEFINE rows == <<Row(q, q.body.model)>>
             p == [a EXCEPT !.rows = rows]
  <2>1. DOMAIN rows = {1} /\ rows[1] = Row(q, q.body.model)
    OBVIOUS
  <2> HIDE DEF rows
  <2>2. p = Fields(a.pc, a.runtime, a.key, a.cap, a.body, a.called, a.reply, a.counted, rows)
    <3>1. Connection(a)
      BY <1>4
    <3> QED BY ONLY <3>1, Updates, ZenonT(30)
  <2> HIDE DEF p
  <2>3. /\ Connection(p) /\ p.pc = "answered" /\ p.runtime = q.runtime /\ p.key = q.key
        /\ p.body = q.body /\ p.called = q.called /\ p.reply = status
        /\ p.counted = <<<<"passthrough", status>>>> /\ p.rows = rows
    BY <1>4, <2>2 DEF Fields, Connection
  <2>4. {q.body.model} \subseteq DOMAIN p.runtime.models
    BY <1>2, <2>3 DEF Route
  <2>5. \A i \in DOMAIN p.rows : \E m \in {q.body.model} : p.rows[i] = Row(p, m)
    BY <2>1, <2>3 DEF Row, PriceOf
  <2>6. ServedBy(p)
    BY <1>1, <1>2, <2>3, <2>4, <2>5, ServedByCalls
  <2>7. Good(p)
    BY <1>1, <1>2, <2>3, <2>6 DEF Good, Keyed, Unrouted, Unanswered, CountedAs
  <2> QED BY <2>7 DEF p, rows
<1> QED BY <1>6, <1>7, <1>8 DEF a

\* A MoA run ends: a row for every arm that was called.
LEMMA MoaIsGood ==
  ASSUME NEW q, Good(q), q.pc = "moa", NEW status, NEW error
  PROVE  LET recipe == q.runtime.recipes[MoaTarget[q.body.model]]
             arms == IF error = "MoaQuorumFailed" THEN recipe.proposers ELSE Arms(recipe) IN
         Good([Finished(q, "moa", status) EXCEPT !.rows = [i \in DOMAIN arms |-> Row(q, arms[i])]])
<1>1. /\ Connection(q) /\ Usable(q.runtime) /\ q.counted = <<>>
      /\ \E i \in DOMAIN q.runtime.keys : q.runtime.keys[i] = q.key
      /\ Routed(q)
  BY CallFacts
<1> DEFINE n == MoaTarget[q.body.model]
           recipe == q.runtime.recipes[n]
           arms == IF error = "MoaQuorumFailed" THEN recipe.proposers ELSE Arms(recipe)
           rows == [i \in DOMAIN arms |-> Row(q, arms[i])]
           o == Fields(q.pc, q.runtime, q.key, q.cap, q.body, q.called, q.reply, q.counted, rows)
<1>2. /\ Route(q.runtime, q.body.model) = "moa"
      /\ MoaTarget[q.body.model] \in DOMAIN q.runtime.recipes
      /\ q.called = Upstreams(q.runtime, ArmsOf(q))
      /\ q.body.model \in q.key.allow_models
  BY <1>1 DEF Routed
<1>3. /\ ArmsOf(q) \subseteq DOMAIN q.runtime.models
      /\ \A i \in DOMAIN arms : arms[i] \in ArmsOf(q)
  <2> DEFINE all == Arms(recipe)
  <2>1. /\ \A i \in DOMAIN all : all[i] \in DOMAIN q.runtime.models
        /\ \A i \in DOMAIN recipe.proposers :
             \E j \in DOMAIN all : recipe.proposers[i] = all[j]
    <3>1. n \in DOMAIN q.runtime.recipes
      BY <1>2
    <3>2. Usable(q.runtime)
      BY <1>1
    <3> HIDE DEF n
    <3>3. \A i \in DOMAIN all : all[i] \in DOMAIN q.runtime.models
      BY ONLY <3>1, <3>2, ArmsAreModels, Zenon
    <3>4. \A i \in DOMAIN recipe.proposers :
             \E j \in DOMAIN all : recipe.proposers[i] = all[j]
      <4> SUFFICES ASSUME NEW i \in DOMAIN recipe.proposers
                   PROVE  \E j \in DOMAIN all : recipe.proposers[i] = all[j]
        OBVIOUS
      <4> QED BY ONLY <3>1, <3>2, ArmsAreModels, SMT
    <3> QED BY <3>3, <3>4
  <2>2. ArmsOf(q) = {all[j] : j \in DOMAIN all}
    BY DEF ArmsOf
  <2> HIDE DEF recipe, all
  <2>3. CASE error = "MoaQuorumFailed"
    BY <2>1, <2>2, <2>3
  <2>4. CASE error # "MoaQuorumFailed"
    BY <2>1, <2>2, <2>4 DEF all
  <2> QED BY <2>3, <2>4
<1> HIDE DEF arms
<1>4. \A i \in DOMAIN rows : \E m \in ArmsOf(q) : rows[i] = Row(q, m)
  BY <1>3
<1> HIDE DEF rows
<1>5. ServedBy(o)
  <2>1. /\ o.runtime = q.runtime /\ o.key = q.key /\ o.body = q.body /\ o.called = q.called
        /\ o.rows = rows
    BY DEF Fields
  <2> HIDE DEF o
  <2>2. \A i \in DOMAIN o.rows : \E m \in ArmsOf(q) : o.rows[i] = Row(o, m)
    BY <1>4, <2>1 DEF Row, PriceOf
  <2> QED BY <1>1, <1>2, <1>3, <2>1, <2>2, ServedByCalls
<1>6. Good([Finished(q, "moa", status) EXCEPT !.rows = rows])
  BY <1>1, <1>2, <1>5, FinishedIsGood
<1> QED BY <1>6 DEF rows, arms

-----------------------------------------------------------------------------
(* The invariant *)

\* No connection is open at the start, and nothing has been loaded.
LEMMA InitIsGood == Init => IInv
<1> SUFFICES ASSUME Init
             PROVE  IInv
  OBVIOUS
<1>1. Usable(live)
  BY AcceptedIsUsable DEF Init
<1>2. DOMAIN request = Requests /\ request = [r \in Requests |-> request[r]]
  BY DEF Init
<1>3. \A r \in Requests : request[r] = NoRequest /\ Good(request[r])
  BY IdleIsGood DEF Init
<1>4. ~Ending
  BY DEF Init, Ending
<1> QED BY <1>1, <1>2, <1>3, <1>4 DEF IInv

\* A step of a connection that leaves it good leaves the others as they are.  No
\* connection opens or moves once the drain has ended.
LEMMA StepOfConnection ==
  ASSUME IInv, NEW r \in Requests, NEW q, Good(q), Becomes(r, q),
         UNCHANGED <<phase, live>>,
         phase = "serving" \/ request[r].pc # "idle"
  PROVE  IInv'
<1>1. DOMAIN request' = Requests /\ request' = [s \in Requests |-> request'[s]]
  BY DEF IInv, Becomes
<1>2. \A s \in Requests : request'[s] = IF s = r THEN q ELSE request[s]
  BY DEF IInv, Becomes
<1>3. \A s \in Requests : Good(request'[s])
  BY <1>2 DEF IInv
<1>4. ~Ending
  BY DEF IInv, Idle, Ending
<1> QED BY <1>1, <1>3, <1>4 DEF IInv, Ending

\* Every step, of a connection, a reload or the shutdown, keeps the invariant.
LEMMA NextKeepsGood == IInv /\ [Next]_vars => IInv'
<1> SUFFICES ASSUME IInv, [Next]_vars
             PROVE  IInv'
  OBVIOUS
<1>1. \A r \in Requests : Good(request[r])
  BY DEF IInv
<1>2. ASSUME NEW r \in Requests, NEW token \in Tokens, Authenticate(r, token)
      PROVE  IInv'
  <2> DEFINE q == IF Matching(live, token) = {} THEN Rejected(NoRequest, "InvalidApiKey")
                  ELSE [NoRequest EXCEPT !.pc = "limit", !.runtime = live,
                          !.key = live.keys[First(Matching(live, token))]]
  <2>1. Usable(live)
    BY DEF IInv
  <2>2. Good(q)
    BY <2>1, AuthenticateIsGood
  <2>3. Becomes(r, q) /\ UNCHANGED <<phase, live>> /\ phase = "serving"
    BY <1>2 DEF Authenticate
  <2> HIDE DEF q
  <2> QED BY <2>2, <2>3, StepOfConnection
<1>3. ASSUME NEW r \in Requests, KeyPasses(r)
      PROVE  IInv'
  <2>1. Good(Goto(request[r], "open"))
    BY <1>1, <1>3, GatesAreGood DEF KeyPasses, Unrouted
  <2> QED BY <1>3, <2>1, StepOfConnection DEF KeyPasses
<1>4. ASSUME NEW r \in Requests, KeyRefused(r)
      PROVE  IInv'
  <2>1. Good(Rejected(request[r], "RateLimited"))
    BY <1>1, <1>4, GatesAreGood DEF KeyRefused, Unrouted
  <2> QED BY <1>4, <2>1, StepOfConnection DEF KeyRefused
<1>5. ASSUME NEW r \in Requests, OpenBody(r)
      PROVE  IInv'
  <2>1. Good([Goto(request[r], "body") EXCEPT !.cap = live.server.max_body_bytes])
    BY <1>1, <1>5, GatesAreGood DEF OpenBody, Unrouted
  <2> QED BY <1>5, <2>1, StepOfConnection DEF OpenBody
<1>6. ASSUME NEW r \in Requests, NEW b \in Bodies, BodyArrives(r, b)
      PROVE  IInv'
  <2> DEFINE q == [request[r] EXCEPT !.body = b]
             error == GateError(q, b)
             p == IF error # "none" THEN Rejected(q, error)
                  ELSE IF Route(q.runtime, b.model) = "moa" THEN StartMoa(q)
                  ELSE StartPassthrough(q)
  <2>1. Good(p)
    <3> HIDE DEF q
    <3>1. /\ \A e : Good(Rejected(q, e))
          /\ GateError(q, b) = "none" =>
               /\ Route(q.runtime, b.model) = "moa" => Good(StartMoa(q))
               /\ Route(q.runtime, b.model) # "moa" => Good(StartPassthrough(q))
      BY <1>1, <1>6, BodyIsGood DEF BodyArrives, q
    <3> QED BY <3>1
  <2>2. Becomes(r, p) /\ UNCHANGED <<phase, live>> /\ request[r].pc # "idle"
    BY <1>6 DEF BodyArrives
  <2> HIDE DEF p
  <2> QED BY <2>1, <2>2, StepOfConnection
<1>7. ASSUME NEW r \in Requests, BodyFails(r)
      PROVE  IInv'
  <2>1. Good(Rejected(request[r], "PayloadTooLarge"))
    BY <1>1, <1>7, GatesAreGood DEF BodyFails, Unrouted
  <2> QED BY <1>7, <2>1, StepOfConnection DEF BodyFails
<1>8. ASSUME NEW r \in Requests, CallAnswered(r)
      PROVE  IInv'
  <2> DEFINE q == request[r]
             p == IF q.body.stream THEN Goto(Finished(q, "passthrough", 200), "streaming")
                  ELSE [Finished(q, "passthrough", 200) EXCEPT !.rows = <<Row(q, q.body.model)>>]
  <2>1. Good(p)
    BY <1>1, <1>8, CallIsGood DEF CallAnswered
  <2>2. Becomes(r, p) /\ UNCHANGED <<phase, live>> /\ request[r].pc # "idle"
    BY <1>8 DEF CallAnswered
  <2> HIDE DEF p
  <2> QED BY <2>1, <2>2, StepOfConnection
<1>9. ASSUME NEW r \in Requests, NEW e \in CallErrors, CallFailed(r, e)
      PROVE  IInv'
  <2>1. Good(Finished(request[r], "passthrough", Envelope[e]))
    BY <1>1, <1>9, CallIsGood DEF CallFailed
  <2> QED BY <1>9, <2>1, StepOfConnection DEF CallFailed
<1>10. ASSUME NEW r \in Requests, NEW e \in MoaErrors, MoaEnds(r, e)
       PROVE  IInv'
  <2> DEFINE q == request[r]
             recipe == q.runtime.recipes[MoaTarget[q.body.model]]
             arms == IF e = "MoaQuorumFailed" THEN recipe.proposers ELSE Arms(recipe)
             status == IF e = "none" THEN 200 ELSE Envelope[e]
             p == [Finished(q, "moa", status) EXCEPT
                     !.rows = [i \in DOMAIN arms |-> Row(q, arms[i])]]
  <2>1. Good(q) /\ q.pc = "moa"
    BY <1>1, <1>10 DEF MoaEnds
  <2>2. Good(p)
    <3> HIDE DEF q, status
    <3> QED BY ONLY <2>1, MoaIsGood, Zenon
  <2>3. Becomes(r, p) /\ UNCHANGED <<phase, live>> /\ request[r].pc # "idle"
    BY <1>10 DEF MoaEnds
  <2> HIDE DEF p
  <2> QED BY <2>2, <2>3, StepOfConnection
<1>11. ASSUME NEW r \in Requests, StreamEnds(r) \/ Sent(r) \/ Disconnect(r)
       PROVE  IInv'
  BY <1>11, IdleIsGood, StepOfConnection DEF StreamEnds, Sent, Disconnect
<1>12. ASSUME NEW doc \in Docs, Reload(doc)
       PROVE  IInv'
  <2>1. Usable(live')
    BY <1>12, AcceptedIsUsable DEF Reload, Published, IInv
  <2>2. UNCHANGED <<phase, request>>
    BY <1>12 DEF Reload
  <2> QED BY <2>1, <2>2 DEF IInv, Ending, Idle
<1>13. CASE Signal \/ Drained \/ Flushed
  <2>1. UNCHANGED <<live, request>> /\ (Ending' => Idle)
    BY <1>13 DEF Signal, Drained, Flushed, IInv, Ending
  <2> QED BY <2>1 DEF IInv, Idle
<1>14. CASE UNCHANGED vars
  BY <1>14 DEF IInv, vars, Ending, Idle
<1> QED BY <1>2, <1>3, <1>4, <1>5, <1>6, <1>7, <1>8, <1>9, <1>10, <1>11, <1>12, <1>13, <1>14
       DEF Next

\* The invariant holds in every reachable state.
LEMMA Invariance == Spec => []IInv
<1> QED BY InitIsGood, NextKeepsGood, PTL DEF Spec

-----------------------------------------------------------------------------
\* The gateway runs only on configurations it may trust, whatever documents are
\* put in place and however often it is told to reload (main.rs, validate.rs).
THEOREM ConfigIsTrusted == Spec => []ConfigTrusted
<1>1. IInv => ConfigTrusted
  BY DEF IInv, Good, Usable, ConfigTrusted
<1> QED BY Invariance, <1>1, PTL

\* A request is served from end to end by the configuration that authenticated
\* its caller, whatever reloads come in between (app.rs Routed).
THEOREM RequestsServedAsAuthorised == Spec => []ServedAsAuthorised
<1>1. IInv => ServedAsAuthorised
  BY DEF IInv, Good, ServedAsAuthorised
<1> QED BY Invariance, <1>1, PTL

\* Every reply is counted once, with its own status, under the path that gave
\* it, but for the body run_moa cannot parse (observe.rs).
THEOREM RepliesCountedOnce == Spec => []CountedOnce
<1>1. IInv => CountedOnce
  BY DEF IInv, Good, CountedOnce
<1> QED BY Invariance, <1>1, PTL

\* Once the drain has ended no request opens or moves, so that no row is booked
\* behind the flush of the store (main.rs).
THEOREM NoRowBehindTheFlush == Spec => RowsBeforeFlush
<1>1. IInv /\ [Next]_vars => [Ending => Booked' \subseteq Booked]_vars
  <2> SUFFICES ASSUME IInv, Next, Ending
               PROVE  request' = request
    BY DEF Booked, vars
  <2>1. \A r \in Requests : request[r].pc = "idle" /\ phase # "serving"
    BY DEF IInv, Idle, Ending
  <2> QED BY <2>1 DEF Next, Authenticate, KeyPasses, KeyRefused, OpenBody, BodyArrives,
                      BodyFails, CallAnswered, CallFailed, MoaEnds, StreamEnds, Sent,
                      Disconnect, Reload, Signal, Drained, Flushed
<1> QED BY Invariance, <1>1, PTL DEF Spec, RowsBeforeFlush

-----------------------------------------------------------------------------
(* Types *)

Places ==
  {"idle", "limit", "open", "body", "calling", "moa", "streaming", "answered"}

Statuses == {0, 200} \cup {Envelope[e] : e \in DOMAIN Envelope}

Typed(q) ==
  /\ q.pc \in Places
  /\ q.runtime \in Configs \cup {Absent}
  /\ q.body \in Bodies \cup {Absent}
  /\ q.reply \in Statuses
  /\ Len(q.counted) <= 1

TypeInv ==
  /\ phase \in {"serving", "draining", "flushing", "down"}
  /\ live \in Configs
  /\ \A r \in Requests : Typed(request[r])

\* A configuration with the store of one document and the rest of another.
LEMMA ConfigsAre ==
  ASSUME NEW doc \in Docs, Accepts(doc)
  PROVE  /\ RuntimeConfig(doc) \in Configs
         /\ \A cfg \in Configs :
              [RuntimeConfig(doc) EXCEPT !.server.usage_store = cfg.server.usage_store] \in Configs
<1>1. ASSUME NEW d
      PROVE  /\ "usage_store" \in DOMAIN ServerOf(d)
             /\ ServerOf(d) = [knob \in DOMAIN ServerOf(d) |-> ServerOf(d)[knob]]
             /\ RuntimeConfig(d) = [server |-> ServerOf(d), keys |-> RuntimeConfig(d).keys,
                   models |-> RuntimeConfig(d).models, recipes |-> RuntimeConfig(d).recipes]
  BY DEF RuntimeConfig, ServerOf, ServerDefaults
<1>2. RuntimeConfig(doc) =
        [RuntimeConfig(doc) EXCEPT !.server.usage_store = ServerOf(doc).usage_store]
  <2> DEFINE c == RuntimeConfig(doc)  s == ServerOf(doc)
  <2>1. /\ "usage_store" \in DOMAIN s /\ s = [knob \in DOMAIN s |-> s[knob]]
        /\ c = [server |-> s, keys |-> c.keys, models |-> c.models, recipes |-> c.recipes]
    BY <1>1
  <2> HIDE DEF c, s
  <2>2. [s EXCEPT !.usage_store = s.usage_store] = s
    BY <2>1
  <2>3. c.server = s
    BY <2>1
  <2>4. c = [c EXCEPT !.server = s]
    BY <2>1
  <2> QED BY <2>2, <2>3, <2>4 DEF c, s
<1>3. RuntimeConfig(doc) \in Configs
  BY <1>2 DEF Configs
<1>4. ASSUME NEW cfg \in Configs
      PROVE  [RuntimeConfig(doc) EXCEPT !.server.usage_store = cfg.server.usage_store] \in Configs
  <2>1. PICK e \in Docs, d \in Docs :
          cfg = [RuntimeConfig(e) EXCEPT !.server.usage_store = ServerOf(d).usage_store]
    BY DEF Configs
  <2> DEFINE c == RuntimeConfig(e)  s == ServerOf(e)  u == ServerOf(d).usage_store
  <2>2. /\ "usage_store" \in DOMAIN s
        /\ c = [server |-> s, keys |-> c.keys, models |-> c.models, recipes |-> c.recipes]
    BY <1>1
  <2>3. cfg = [c EXCEPT !.server.usage_store = u]
    BY <2>1
  <2> HIDE DEF c, s, u
  <2>4. cfg.server.usage_store = u
    BY <2>2, <2>3
  <2>5. cfg.server.usage_store = ServerOf(d).usage_store
    BY <2>4 DEF u
  <2> HIDE DEF c, s, u
  <2> QED BY <2>5 DEF Configs
<1> QED BY <1>3, <1>4

\* What keeps the type of a connection through the operators the handlers use.
LEMMA TypedFields ==
  ASSUME NEW q, Connection(q), Typed(q)
  PROVE  /\ \A place \in Places :
              /\ Typed(Goto(q, place))
              /\ \A cap : Typed([Goto(q, place) EXCEPT !.cap = cap])
              /\ \A called : Typed([Goto(q, place) EXCEPT !.called = called])
         /\ q.counted = <<>> => \A status \in Statuses :
              /\ Typed(Replied(q, status))
              /\ \A path :
                   /\ Typed(Finished(q, path, status))
                   /\ \A place \in Places : Typed(Goto(Finished(q, path, status), place))
                   /\ \A rows : Typed([Finished(q, path, status) EXCEPT !.rows = rows])
         /\ \A b \in Bodies : Typed([q EXCEPT !.body = b])
<1> DEFINE Like(p) == Connection(p) /\ Typed(p)
<1>1. ASSUME NEW p, Like(p), NEW place \in Places, NEW cap, NEW called, NEW rows
      PROVE  /\ Like(Goto(p, place))
             /\ Typed([p EXCEPT !.cap = cap])
             /\ Typed([p EXCEPT !.called = called])
             /\ Typed([p EXCEPT !.rows = rows])
             /\ \A b \in Bodies : Typed([p EXCEPT !.body = b])
  <2>1. Connection(p) /\ Typed(p)
    BY <1>1
  <2>2. Like(Goto(p, place))
    <3> DEFINE g == Goto(p, place)
    <3>1. g = Fields(place, p.runtime, p.key, p.cap, p.body, p.called, p.reply, p.counted, p.rows)
      BY ONLY <2>1, Updates, Zenon
    <3> HIDE DEF g
    <3>2. Like(g)
      BY <2>1, <3>1 DEF Fields, Connection, Typed
    <3> QED BY <3>2 DEF g
  <2>3. Typed([p EXCEPT !.cap = cap])
    <3> DEFINE g == [p EXCEPT !.cap = cap]
    <3>1. g = Fields(p.pc, p.runtime, p.key, cap, p.body, p.called, p.reply, p.counted, p.rows)
      BY ONLY <2>1, Updates, Zenon
    <3> HIDE DEF g
    <3>2. Typed(g)
      BY <2>1, <3>1 DEF Fields, Typed
    <3> QED BY <3>2 DEF g
  <2>4. Typed([p EXCEPT !.called = called])
    <3> DEFINE g == [p EXCEPT !.called = called]
    <3>1. g = Fields(p.pc, p.runtime, p.key, p.cap, p.body, called, p.reply, p.counted, p.rows)
      BY ONLY <2>1, Updates, Zenon
    <3> HIDE DEF g
    <3>2. Typed(g)
      BY <2>1, <3>1 DEF Fields, Typed
    <3> QED BY <3>2 DEF g
  <2>5. Typed([p EXCEPT !.rows = rows])
    <3> DEFINE g == [p EXCEPT !.rows = rows]
    <3>1. g = Fields(p.pc, p.runtime, p.key, p.cap, p.body, p.called, p.reply, p.counted, rows)
      BY ONLY <2>1, Updates, ZenonT(30)
    <3> HIDE DEF g
    <3>2. Typed(g)
      BY <2>1, <3>1 DEF Fields, Typed
    <3> QED BY <3>2 DEF g
  <2>6. ASSUME NEW b \in Bodies
        PROVE  Typed([p EXCEPT !.body = b])
    <3> DEFINE g == [p EXCEPT !.body = b]
    <3>1. g = Fields(p.pc, p.runtime, p.key, p.cap, b, p.called, p.reply, p.counted, p.rows)
      BY ONLY <2>1, Updates, Zenon
    <3> HIDE DEF g
    <3>2. Typed(g)
      BY <2>1, <3>1 DEF Fields, Typed
    <3> QED BY <3>2 DEF g
  <2> QED BY <2>2, <2>3, <2>4, <2>5, <2>6
<1>2. ASSUME q.counted = <<>>, NEW status \in Statuses, NEW path
      PROVE  Like(Replied(q, status)) /\ Like(Finished(q, path, status))
  <2> DEFINE a == Replied(q, status)
             f == Finished(q, path, status)
  <2>1. /\ f = Fields("answered", q.runtime, q.key, q.cap, q.body, q.called, status,
                      <<<<path, status>>>>, q.rows)
        /\ a = Fields("answered", q.runtime, q.key, q.cap, q.body, q.called, status, <<>>, q.rows)
    BY ONLY <1>2, Connection(q), AnswerFields, Zenon
  <2>2. Len(<<<<path, status>>>>) = 1 /\ Len(<<>>) = 0 /\ "answered" \in Places
    BY DEF Places
  <2> HIDE DEF a, f
  <2>3. Like(a) /\ Like(f)
    BY <2>1, <2>2 DEF Fields, Connection, Typed
  <2> QED BY <2>3 DEF a, f
<1>3. Like(q) /\ "idle" \in Places
  BY DEF Places
<1> HIDE DEF Like
<1>4. \A p : Like(p) => Typed(p)
  BY DEF Like
<1>5. ASSUME NEW place \in Places
      PROVE  /\ Typed(Goto(q, place))
             /\ \A cap : Typed([Goto(q, place) EXCEPT !.cap = cap])
             /\ \A called : Typed([Goto(q, place) EXCEPT !.called = called])
  <2>1. Like(Goto(q, place))
    BY <1>1, <1>3
  <2> QED BY <1>1, <1>3, <1>4, <2>1
<1>6. ASSUME q.counted = <<>>, NEW status \in Statuses, NEW path
      PROVE  /\ Typed(Replied(q, status)) /\ Typed(Finished(q, path, status))
             /\ \A place \in Places : Typed(Goto(Finished(q, path, status), place))
             /\ \A rows : Typed([Finished(q, path, status) EXCEPT !.rows = rows])
  <2>1. Like(Replied(q, status)) /\ Like(Finished(q, path, status))
    BY <1>2, <1>6
  <2> QED BY <1>1, <1>3, <1>4, <2>1
<1>7. \A b \in Bodies : Typed([q EXCEPT !.body = b])
  BY <1>1, <1>3
<1> QED BY <1>5, <1>6, <1>7

\* A step of one connection.
LEMMA StepIsTyped ==
  ASSUME IInv, TypeInv, NEW r \in Requests, NEW q, Typed(q), Becomes(r, q),
         UNCHANGED <<phase, live>>
  PROVE  TypeInv'
<1>1. \A s \in Requests : request'[s] = IF s = r THEN q ELSE request[s]
  BY DEF IInv, Becomes
<1>2. \A s \in Requests : Typed(request'[s])
  BY <1>1 DEF TypeInv
<1> QED BY <1>2 DEF TypeInv

\* A refusal before the call has the status of its error.
LEMMA RefusedIsTyped ==
  ASSUME NEW q, Good(q), Typed(q), q.counted = <<>>, NEW e \in DOMAIN Envelope
  PROVE  Typed(Rejected(q, e))
<1>1. Connection(q)
  BY DEF Good
<1>2. Envelope[e] \in Statuses /\ "answered" \in Places
  BY DEF Statuses, Places
<1> DEFINE s == Envelope[e]
<1> HIDE DEF s
<1>3. Typed(Finished(q, "pre_routing", s))
  BY <1>1, <1>2, TypedFields DEF s
<1> QED BY <1>3 DEF Rejected, Finished, s

\* Every step keeps the types; that a request is counted at most once is the
\* part that needs the invariant.
LEMMA NextKeepsTypes == IInv /\ TypeInv /\ [Next]_vars => TypeInv'
<1> SUFFICES ASSUME IInv, TypeInv, [Next]_vars
             PROVE  TypeInv'
  OBVIOUS
<1>1. ASSUME NEW r \in Requests
      PROVE  /\ Good(request[r]) /\ Connection(request[r]) /\ Typed(request[r])
             /\ request[r].pc \in Unanswered => request[r].counted = <<>>
  BY DEF IInv, TypeInv, Good
<1>2. \A s : s \in {200, 400, 401, 403, 404, 413, 429, 502, 503, 504} => s \in Statuses
  <2>1. \A e \in DOMAIN Envelope : Envelope[e] \in Statuses
    BY DEF Statuses
  <2>2. /\ Envelope["BadRequest"] = 400 /\ Envelope["InvalidApiKey"] = 401
        /\ Envelope["ModelNotAllowed"] = 403 /\ Envelope["ModelNotFound"] = 404
        /\ Envelope["PayloadTooLarge"] = 413 /\ Envelope["RateLimited"] = 429
        /\ Envelope["UpstreamError"] = 502 /\ Envelope["CircuitOpen"] = 503
        /\ Envelope["UpstreamTimeout"] = 504
        /\ {"BadRequest", "InvalidApiKey", "ModelNotAllowed", "ModelNotFound", "PayloadTooLarge",
            "RateLimited", "UpstreamError", "CircuitOpen", "UpstreamTimeout"} \subseteq DOMAIN Envelope
    BY DEF Envelope
  <2> QED BY <2>1, <2>2 DEF Statuses
<1>3. ASSUME NEW e \in CallErrors \cup (MoaErrors \ {"none"})
      PROVE  Envelope[e] \in Statuses
  BY DEF CallErrors, MoaErrors, Envelope, Statuses
<1>4. \A x : x \in {"open", "body", "calling", "moa", "streaming", "answered"} => x \in Places
  BY DEF Places
<1>5. ASSUME NEW r \in Requests, NEW token \in Tokens, Authenticate(r, token)
      PROVE  TypeInv'
  <2> DEFINE key == live.keys[First(Matching(live, token))]
             p == [NoRequest EXCEPT !.pc = "limit", !.runtime = live, !.key = key]
             q == IF Matching(live, token) = {} THEN Rejected(NoRequest, "InvalidApiKey") ELSE p
  <2>1. Typed(NoRequest) /\ NoRequest.counted = <<>>
    BY DEF Typed, NoRequest, Places, Statuses
  <2>2. Typed(p)
    <3> HIDE DEF key
    <3> QED BY DEF Typed, NoRequest, Places, Statuses, TypeInv
  <2>3. Typed(Rejected(NoRequest, "InvalidApiKey"))
    BY <2>1, IdleIsGood, RefusedIsTyped DEF Envelope
  <2>4. Typed(q)
    BY <2>2, <2>3
  <2>5. Becomes(r, q) /\ UNCHANGED <<phase, live>>
    BY <1>5 DEF Authenticate
  <2> HIDE DEF q
  <2> QED BY <2>4, <2>5, StepIsTyped
<1>6. ASSUME NEW r \in Requests, KeyPasses(r) \/ KeyRefused(r)
      PROVE  TypeInv'
  <2>1. Typed(Goto(request[r], "open"))
    BY <1>1, <1>2, <1>4, TypedFields
  <2>2. request[r].pc \in Unanswered
    BY <1>6 DEF KeyPasses, KeyRefused, Unanswered, Unrouted
  <2>3. Typed(Rejected(request[r], "RateLimited"))
    BY <1>1, <2>2, RefusedIsTyped DEF Envelope
  <2> QED BY <1>6, <2>1, <2>3, StepIsTyped DEF KeyPasses, KeyRefused
<1>7. ASSUME NEW r \in Requests, OpenBody(r)
      PROVE  TypeInv'
  <2>1. Typed([Goto(request[r], "body") EXCEPT !.cap = live.server.max_body_bytes])
    BY <1>1, <1>2, <1>4, TypedFields
  <2> QED BY <1>7, <2>1, StepIsTyped DEF OpenBody
<1>8. ASSUME NEW r \in Requests, NEW b \in Bodies, BodyArrives(r, b)
      PROVE  TypeInv'
  <2> DEFINE o == request[r]
             q == [o EXCEPT !.body = b]
             error == GateError(q, b)
             p == IF error # "none" THEN Rejected(q, error)
                  ELSE IF Route(q.runtime, b.model) = "moa" THEN StartMoa(q)
                  ELSE StartPassthrough(q)
  <2>1. o.pc = "body" /\ Good(o) /\ Connection(o) /\ Typed(o) /\ o.counted = <<>>
    BY <1>1, <1>8 DEF BodyArrives, Unanswered, Unrouted
  <2>2. Typed(q)
    BY ONLY <1>2, <1>4, <2>1, TypedFields, b \in Bodies, SMT
  <2>3. q = Fields(o.pc, o.runtime, o.key, o.cap, b, o.called, o.reply, o.counted, o.rows)
    BY ONLY <2>1, Updates, Zenon
  <2> HIDE DEF q
  <2>4. Connection(q) /\ q.counted = <<>> /\ q.body = b
    BY <2>1, <2>3 DEF Fields, Connection
  <2>5. ASSUME NEW e \in DOMAIN Envelope
        PROVE  Typed(Rejected(q, e))
    <3> DEFINE s == Envelope[e]
    <3>1. s \in Statuses
      BY DEF Statuses
    <3> HIDE DEF s
    <3>2. Typed(Finished(q, "pre_routing", s))
      BY <1>4, <2>2, <2>4, <3>1, TypedFields
    <3> QED BY <3>2 DEF Rejected, Finished, s
  <2>6. error # "none" => error \in DOMAIN Envelope
    BY DEF GateError, Envelope
  <2>7. Typed(StartPassthrough(q))
    BY <1>2, <1>4, <2>2, <2>4, TypedFields DEF StartPassthrough
  <2>8. Typed(StartMoa(q))
    <3> DEFINE arms == Arms(q.runtime.recipes[MoaTarget[q.body.model]])
               called == Upstreams(q.runtime, {arms[i] : i \in DOMAIN arms})
    <3> HIDE DEF called
    <3>1. Typed([Goto(q, "moa") EXCEPT !.called = called])
      BY <1>2, <1>4, <2>2, <2>4, TypedFields
    <3>2. Typed(Replied(q, 400)) /\ Typed(Finished(q, "moa", 404))
      <4>1. 400 \in Statuses /\ 404 \in Statuses
        BY <1>2
      <4> QED BY ONLY <2>2, <2>4, <4>1, TypedFields
    <3>3. Envelope["BadRequest"] = 400 /\ Envelope["ModelNotFound"] = 404
      BY DEF Envelope
    <3> QED BY <3>1, <3>2, <3>3 DEF StartMoa, called
  <2>9. Typed(p)
    <3> HIDE DEF error
    <3> QED BY <2>5, <2>6, <2>7, <2>8
  <2>10. Becomes(r, p) /\ UNCHANGED <<phase, live>>
    BY <1>8 DEF BodyArrives, q
  <2> HIDE DEF p
  <2> QED BY <2>9, <2>10, StepIsTyped
<1>9. ASSUME NEW r \in Requests, BodyFails(r)
      PROVE  TypeInv'
  <2>1. Typed(Rejected(request[r], "PayloadTooLarge"))
    BY <1>1, <1>9, RefusedIsTyped DEF Envelope, BodyFails, Unanswered, Unrouted
  <2> QED BY <1>9, <2>1, StepIsTyped DEF BodyFails
<1>10. ASSUME NEW r \in Requests, CallAnswered(r)
       PROVE  TypeInv'
  <2> DEFINE q == request[r]
             row == <<Row(q, q.body.model)>>
             p == IF q.body.stream THEN Goto(Finished(q, "passthrough", 200), "streaming")
                  ELSE [Finished(q, "passthrough", 200) EXCEPT !.rows = row]
  <2>1. Connection(q) /\ Typed(q) /\ q.counted = <<>>
    BY <1>1, <1>10 DEF CallAnswered, Unanswered
  <2> HIDE DEF row
  <2>2. Typed(p)
    <3>1. 200 \in Statuses /\ "streaming" \in Places
      BY <1>2, <1>4
    <3>2. /\ Typed(Goto(Finished(q, "passthrough", 200), "streaming"))
          /\ Typed([Finished(q, "passthrough", 200) EXCEPT !.rows = row])
      <4> HIDE DEF q
      <4> QED BY ONLY <2>1, <3>1, TypedFields
    <3> QED BY <3>2
  <2>3. Becomes(r, p) /\ UNCHANGED <<phase, live>>
    BY <1>10 DEF CallAnswered, row
  <2> HIDE DEF p
  <2> QED BY <2>2, <2>3, StepIsTyped
<1>11. ASSUME NEW r \in Requests, NEW e \in CallErrors, CallFailed(r, e)
       PROVE  TypeInv'
  <2> DEFINE s == Envelope[e]
  <2>1. /\ Connection(request[r]) /\ Typed(request[r]) /\ request[r].counted = <<>>
        /\ s \in Statuses
    BY <1>1, <1>3, <1>11 DEF CallFailed, Unanswered
  <2> HIDE DEF s
  <2>2. Typed(Finished(request[r], "passthrough", s))
    BY <1>4, <2>1, TypedFields
  <2> QED BY <1>11, <2>2, StepIsTyped DEF CallFailed, s
<1>12. ASSUME NEW r \in Requests, NEW e \in MoaErrors, MoaEnds(r, e)
       PROVE  TypeInv'
  <2> DEFINE q == request[r]
             recipe == q.runtime.recipes[MoaTarget[q.body.model]]
             arms == IF e = "MoaQuorumFailed" THEN recipe.proposers ELSE Arms(recipe)
             status == IF e = "none" THEN 200 ELSE Envelope[e]
             rows == [i \in DOMAIN arms |-> Row(q, arms[i])]
             p == [Finished(q, "moa", status) EXCEPT !.rows = rows]
  <2>1. Connection(q) /\ Typed(q) /\ q.counted = <<>>
    BY <1>1, <1>12 DEF MoaEnds, Unanswered
  <2>2. status \in Statuses
    BY <1>2, <1>3
  <2>3. Becomes(r, p) /\ UNCHANGED <<phase, live>>
    BY <1>12 DEF MoaEnds
  <2> HIDE DEF rows, status
  <2>4. Typed(p)
    BY <1>4, <2>1, <2>2, TypedFields
  <2> HIDE DEF p
  <2> QED BY <2>3, <2>4, StepIsTyped
<1>13. ASSUME NEW r \in Requests, StreamEnds(r) \/ Sent(r) \/ Disconnect(r)
       PROVE  TypeInv'
  <2>1. Typed(NoRequest)
    BY DEF Typed, NoRequest, Places, Statuses
  <2> QED BY <1>13, <2>1, StepIsTyped DEF StreamEnds, Sent, Disconnect
<1>14. ASSUME NEW doc \in Docs, Reload(doc)
       PROVE  TypeInv'
  <2>1. live' \in Configs
    BY <1>14, ConfigsAre DEF Reload, Published, TypeInv
  <2> QED BY <1>14, <2>1 DEF TypeInv, Reload
<1>15. CASE Signal \/ Drained \/ Flushed \/ UNCHANGED vars
  BY <1>15 DEF TypeInv, Signal, Drained, Flushed, vars
<1> QED BY <1>5, <1>6, <1>7, <1>8, <1>9, <1>10, <1>11, <1>12, <1>13, <1>14, <1>15 DEF Next

\* The types hold in every reachable state: the gateway always runs on a
\* configuration some accepted document describes, but for the frozen store of
\* the first one, and a request has at most one entry in the metrics, whatever
\* its handler went through (app.rs, observe.rs).
THEOREM FrontDoorTyped == Spec => []TypeOK
<1>1. Init => TypeInv
  <2> SUFFICES ASSUME Init
               PROVE  TypeInv
    OBVIOUS
  <2>1. live \in Configs
    BY ConfigsAre DEF Init
  <2>2. \A r \in Requests : request[r] = NoRequest
    BY DEF Init
  <2>3. Typed(NoRequest)
    BY DEF Typed, NoRequest, Places, Statuses
  <2> QED BY <2>1, <2>2, <2>3 DEF TypeInv, Init
<1>2. TypeInv => TypeOK
  BY DEF TypeInv, TypeOK, Typed, Places, Statuses
<1> QED BY <1>1, <1>2, Invariance, NextKeepsTypes, PTL DEF Spec
=============================================================================
