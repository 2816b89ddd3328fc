------------------------------ MODULE HotReload ------------------------------
(***************************************************************************)
(* Config hot reload: crates/moaray/src/reload.rs with the state it        *)
(* publishes and preserves (runtime.rs) and the provider registry          *)
(* (registry.rs).  A reload runs under one lock, step by step, while       *)
(* requests keep reading the live Runtime and the per-key limiters;        *)
(* detached tasks collect the slots of removed upstreams after a delay.    *)
(***************************************************************************)
EXTENDS Naturals, FiniteSets

CONSTANTS
  Models,      \* model names
  Upstreams,   \* upstream identities: the state_key of a model
  CallerKeys,  \* inbound keys
  Configs,     \* the validated configurations a reload may bring
  NoEntry,     \* an absent map entry
  Requests,    \* request slots
  MaxReloads,  \* bound: reloads of a behaviour
  GcDelay      \* the drain window, in ticks

\* A validated configuration, as far as a reload is concerned:
\*   key[m]   the identity model m resolves to, NoEntry for an unknown model
\*   gov[u]   rate_limit, max_concurrency and breaker of identity u: validation
\*            rejects aliases that disagree on them, so it is per identity
\*   rest     what else a provider signature covers (secret, retry, max tokens)
\*   limit[k] the rate_limit of inbound key k, or NoEntry
ASSUME ReloadAssumption ==
  /\ MaxReloads \in Nat /\ GcDelay \in Nat
  /\ \A cfg \in Configs :
       /\ DOMAIN cfg = {"key", "gov", "rest", "limit"}
       /\ cfg.key \in [Models -> Upstreams \cup {NoEntry}]
       /\ DOMAIN cfg.gov = Upstreams
       /\ DOMAIN cfg.limit = CallerKeys
  /\ NoEntry \notin Upstreams

VARIABLES
  live,         \* the Runtime in the ArcSwap: its config and providers
  per_upstream, \* StatefulState.per_upstream: identity -> slot
  per_key,      \* StatefulState.per_key: inbound key -> limiter
  last_built,   \* the providers of the last build, kept for reuse
  reload,       \* the reload that holds the lock, if any: phase, config, built
  gc,           \* gc[d]: collector tasks that wake up in d ticks
  serial,       \* how many slots and limiters were created: their identity
  reloads,      \* reloads begun
  absent,       \* history: ticks since an identity left the live config
  request       \* each request: the Runtime it pinned and the slot it uses

vars == <<live, per_upstream, per_key, last_built, reload, gc, serial, reloads,
          absent, request>>

Routable(cfg)   == {m \in Models : cfg.key[m] # NoEntry}
Identities(cfg) == {cfg.key[m] : m \in Routable(cfg)}
Removed(old, new) == Identities(old) \ Identities(new)
LimitedKeys(cfg) == {k \in CallerKeys : cfg.limit[k] # NoEntry}

\* A slot is an Arc<UpstreamState>, identified by when it was created; a
\* provider is a GovernedProvider bound to one slot for its lifetime.
Slot(u, g, n)      == [upstream |-> u, governance |-> g, serial |-> n]
Limiter(l, n)      == [limit |-> l, serial |-> n]
\* Mutant of Signature: it does not cover the governance.
SignatureWithoutGovernance(cfg, m) == <<cfg.key[m], "any", cfg.rest>>

Signature(cfg, m)  == <<cfg.key[m], cfg.gov[cfg.key[m]], cfg.rest>>
Provider(slot, s)  == [slot |-> slot, signature |-> s]

\* Mutant of Keeps: every reload inserts afresh.
KeepsNothing(map, cfg, u) == FALSE

\* ensure_for_config: a slot is kept if its governance is the wanted one.
Keeps(map, cfg, u) == map[u] # NoEntry /\ map[u].governance = cfg.gov[u]

EnsureForConfig(map, cfg, n) ==
  [u \in Upstreams |->
     IF u \in Identities(cfg) /\ ~Keeps(map, cfg, u)
     THEN Slot(u, cfg.gov[u], n)
     ELSE map[u]]

\* build_providers_with: the previous provider of the same name is reused if
\* its signature is unchanged, else one is built around the slot in the map.
BuildProviders(map, cfg, prev) ==
  [m \in Models |->
     IF m \notin Routable(cfg) THEN NoEntry
     ELSE IF prev[m] # NoEntry /\ prev[m].signature = Signature(cfg, m) THEN prev[m]
     ELSE Provider(map[cfg.key[m]], Signature(cfg, m))]

\* It fails when a provider must be built and its identity has no slot.
MissesSlot(map, cfg, prev) ==
  \E m \in Routable(cfg) :
    /\ prev[m] # NoEntry => prev[m].signature # Signature(cfg, m)
    /\ map[cfg.key[m]] = NoEntry

NoProviders == [m \in Models |-> NoEntry]
NoReload == [phase |-> "idle", config |-> NoEntry, built |-> NoProviders, removed |-> FALSE]

Idle == [pc |-> "idle", runtime |-> NoEntry, slot |-> NoEntry]

\* main(): the stateful layer from the config, then the providers around it.
Init ==
  \E cfg \in Configs :
    LET map   == EnsureForConfig([u \in Upstreams |-> NoEntry], cfg, 0)
        built == BuildProviders(map, cfg, NoProviders)
    IN  /\ per_upstream = map
        /\ per_key = [k \in CallerKeys |->
                        IF k \in LimitedKeys(cfg) THEN Limiter(cfg.limit[k], 0) ELSE NoEntry]
        /\ live = [config |-> cfg, provider |-> built]
        /\ last_built = built
        /\ reload = NoReload
        /\ gc = [d \in 0..GcDelay |-> 0]
        /\ serial = 1
        /\ reloads = 0
        /\ absent = [u \in Upstreams |-> GcDelay]
        /\ request = [r \in Requests |-> Idle]

-----------------------------------------------------------------------------
(* The steps of ConfigReloader::apply, in publish order *)

\* The lock is free and the new file parses and validates.  A file that does
\* not leaves everything as it is.
Begin(cfg) ==
  /\ reload.phase = "idle"
  /\ reloads < MaxReloads
  /\ reloads' = reloads + 1
  /\ reload' = [phase |-> "ensure", config |-> cfg, built |-> NoProviders,
                 removed |-> Removed(live.config, cfg) # {}]
  /\ UNCHANGED <<live, per_upstream, per_key, last_built, gc, serial, absent, request>>

Ensure ==
  /\ reload.phase = "ensure"
  /\ per_upstream' = EnsureForConfig(per_upstream, reload.config, serial)
  /\ serial' = serial + 1
  /\ reload' = [reload EXCEPT !.phase = "build"]
  /\ UNCHANGED <<live, per_key, last_built, gc, reloads, absent, request>>

\* Fail-closed: without a slot the reload ends here and the old Runtime stays.
Build ==
  /\ reload.phase = "build"
  /\ reload' = IF MissesSlot(per_upstream, reload.config, last_built)
               THEN NoReload
               ELSE [reload EXCEPT !.phase = "install",
                       !.built = BuildProviders(per_upstream, reload.config, last_built)]
  /\ UNCHANGED <<live, per_upstream, per_key, last_built, gc, serial, reloads, absent, request>>

\* Mutant of NeedsInstall: keys without a rate_limit are not skipped.
NeedsInstallForEveryKey(k) ==
  IF per_key[k] = NoEntry THEN TRUE ELSE per_key[k].limit # reload.config.limit[k]

NeedsInstall(k) ==
  /\ k \in LimitedKeys(reload.config)
  /\ per_key[k] # NoEntry => per_key[k].limit # reload.config.limit[k]

\* install_key_limiters, one map entry at a time: requests read between them.
InstallKeyLimiter(k) ==
  /\ reload.phase = "install"
  /\ NeedsInstall(k)
  /\ per_key' = [per_key EXCEPT ![k] = Limiter(reload.config.limit[k], serial)]
  /\ serial' = serial + 1
  /\ UNCHANGED <<live, per_upstream, last_built, reload, gc, reloads, absent, request>>

\* Mutants of Publish: the swap comes before the limiters; and the build that
\* the next reload compares with is not remembered.
PublishFirst ==
  /\ reload.phase = "install"
  /\ live' = [config |-> reload.config, provider |-> reload.built]
  /\ last_built' = reload.built
  /\ absent' = [u \in Upstreams |->
                  IF u \in Removed(live.config, reload.config) THEN 0 ELSE absent[u]]
  /\ reload' = [reload EXCEPT !.phase = "retain"]
  /\ UNCHANGED <<per_upstream, per_key, gc, serial, reloads, request>>

PublishForgettingBuild ==
  /\ reload.phase = "install"
  /\ \A k \in CallerKeys : ~NeedsInstall(k)
  /\ live' = [config |-> reload.config, provider |-> reload.built]
  /\ absent' = [u \in Upstreams |->
                  IF u \in Removed(live.config, reload.config) THEN 0 ELSE absent[u]]
  /\ reload' = [reload EXCEPT !.phase = "retain"]
  /\ UNCHANGED <<per_upstream, per_key, last_built, gc, serial, reloads, request>>

\* The store into the ArcSwap, once every limiter is installed.
Publish ==
  /\ reload.phase = "install"
  /\ \A k \in CallerKeys : ~NeedsInstall(k)
  /\ live' = [config |-> reload.config, provider |-> reload.built]
  /\ last_built' = reload.built
  /\ absent' = [u \in Upstreams |->
                  IF u \in Removed(live.config, reload.config) THEN 0 ELSE absent[u]]
  /\ reload' = [reload EXCEPT !.phase = "retain"]
  /\ UNCHANGED <<per_upstream, per_key, gc, serial, reloads, request>>

\* Mutant of RetainKeyLimiter: it clears the limiters of limited keys too.
RetainNoLimiter(k) ==
  /\ reload.phase = "retain"
  /\ per_key[k] # NoEntry
  /\ per_key' = [per_key EXCEPT ![k] = NoEntry]
  /\ UNCHANGED <<live, per_upstream, last_built, reload, gc, serial, reloads, absent, request>>

\* retain_key_limiters, one entry at a time.
RetainKeyLimiter(k) ==
  /\ reload.phase = "retain"
  /\ per_key[k] # NoEntry /\ k \notin LimitedKeys(reload.config)
  /\ per_key' = [per_key EXCEPT ![k] = NoEntry]
  /\ UNCHANGED <<live, per_upstream, last_built, reload, gc, serial, reloads, absent, request>>

\* Mutant of End: no collector is spawned.
EndWithoutCollector ==
  /\ reload.phase = "retain"
  /\ \A k \in CallerKeys : per_key[k] # NoEntry => k \in LimitedKeys(reload.config)
  /\ reload' = NoReload
  /\ UNCHANGED <<live, per_upstream, per_key, last_built, gc, serial, reloads, absent, request>>

\* If identities were removed, a collector is spawned; the reload returns and
\* its lock is released.
End ==
  /\ reload.phase = "retain"
  /\ \A k \in CallerKeys : per_key[k] # NoEntry => k \in LimitedKeys(reload.config)
  /\ gc' = IF reload.removed THEN [gc EXCEPT ![GcDelay] = @ + 1] ELSE gc
  /\ reload' = NoReload
  /\ UNCHANGED <<live, per_upstream, per_key, last_built, serial, reloads, absent, request>>

-----------------------------------------------------------------------------
(* Delayed collection and time *)

\* Mutant of Collect: the collector does not take the reload lock.
CollectUnlocked ==
  /\ gc[0] > 0
  /\ gc' = [gc EXCEPT ![0] = @ - 1]
  /\ per_upstream' = [u \in Upstreams |->
                        IF u \in Identities(live.config) THEN per_upstream[u] ELSE NoEntry]
  /\ UNCHANGED <<live, per_key, last_built, reload, serial, reloads, absent, request>>

\* A collector wakes up, takes the reload lock and keeps what the Runtime that
\* is live now refers to.
Collect ==
  /\ gc[0] > 0
  /\ reload.phase = "idle"
  /\ gc' = [gc EXCEPT ![0] = @ - 1]
  /\ per_upstream' = [u \in Upstreams |->
                        IF u \in Identities(live.config) THEN per_upstream[u] ELSE NoEntry]
  /\ UNCHANGED <<live, per_key, last_built, reload, serial, reloads, absent, request>>

\* One tick for the sleeping collectors and for the history of absences.
Tick ==
  /\ \/ \E d \in 1..GcDelay : gc[d] > 0
     \/ \E u \in Upstreams : absent[u] < GcDelay
  /\ gc' = [d \in 0..GcDelay |->
              IF d = 0 THEN gc[0] + (IF GcDelay > 0 THEN gc[1] ELSE 0)
              ELSE IF d < GcDelay THEN gc[d + 1] ELSE 0]
  /\ absent' = [u \in Upstreams |-> IF absent[u] < GcDelay THEN absent[u] + 1 ELSE GcDelay]
  /\ UNCHANGED <<live, per_upstream, per_key, last_built, reload, serial, reloads, request>>

-----------------------------------------------------------------------------
(* Requests *)

\* pre_route pins one Runtime for authentication, allowlist and routing.
Pin(r) ==
  /\ request[r].pc = "idle"
  /\ request' = [request EXCEPT ![r] = [pc |-> "pinned", runtime |-> live, slot |-> NoEntry]]
  /\ UNCHANGED <<live, per_upstream, per_key, last_built, reload, gc, serial, reloads, absent>>

\* The request calls the provider its Runtime routes to, and with it the slot.
Call(r, m) ==
  /\ request[r].pc = "pinned"
  /\ m \in Routable(request[r].runtime.config)
  /\ request' = [request EXCEPT ![r].pc = "running",
                   ![r].slot = request[r].runtime.provider[m].slot]
  /\ UNCHANGED <<live, per_upstream, per_key, last_built, reload, gc, serial, reloads, absent>>

\* The request ends; it may also end before its call (429, 403, 413, ...).
Return(r) ==
  /\ request[r].pc # "idle"
  /\ request' = [request EXCEPT ![r] = Idle]
  /\ UNCHANGED <<live, per_upstream, per_key, last_built, reload, gc, serial, reloads, absent>>

ReloadStep ==
  \/ Ensure \/ Build \/ Publish \/ End
  \/ \E k \in CallerKeys : InstallKeyLimiter(k) \/ RetainKeyLimiter(k)

Next ==
  \/ \E cfg \in Configs : Begin(cfg)
  \/ ReloadStep
  \/ Collect
  \/ Tick
  \/ \E r \in Requests : Pin(r) \/ (\E m \in Models : Call(r, m)) \/ Return(r)

Spec == Init /\ [][Next]_vars

\* A reload has no await between taking the lock and returning; the lock is
\* fair (tokio's Mutex is a FIFO queue), and timers fire.
Fairness == WF_vars(ReloadStep) /\ SF_vars(Collect) /\ WF_vars(Tick)

FairSpec == Spec /\ Fairness

-----------------------------------------------------------------------------
(* Properties *)

Govs == UNION {{cfg.gov[u] : u \in Upstreams} : cfg \in Configs}
Rests == {cfg.rest : cfg \in Configs}
Limits == UNION {{cfg.limit[k] : k \in LimitedKeys(cfg)} : cfg \in Configs}
Slots == [upstream : Upstreams, governance : Govs, serial : Nat]
Limiters == [limit : Limits, serial : Nat]
Providers == [slot : Slots, signature : Upstreams \X Govs \X Rests]
ProviderMaps == [Models -> Providers \cup {NoEntry}]
Runtimes == [config : Configs, provider : ProviderMaps]

\* An absent entry is told from every entry.
ASSUME EntryAssumption ==
  NoEntry \notin Slots \cup Limiters \cup Providers \cup Configs

\* Types.
TypeOK ==
  /\ live \in Runtimes
  /\ per_upstream \in [Upstreams -> Slots \cup {NoEntry}]
  /\ per_key \in [CallerKeys -> Limiters \cup {NoEntry}]
  /\ last_built \in ProviderMaps
  /\ reload \in [phase   : {"idle", "ensure", "build", "install", "retain"},
                 config  : Configs \cup {NoEntry},
                 built   : ProviderMaps,
                 removed : BOOLEAN]
  /\ gc \in [0..GcDelay -> Nat]
  /\ serial \in Nat
  /\ reloads \in 0..MaxReloads
  /\ absent \in [Upstreams -> 0..GcDelay]
  /\ request \in [Requests -> [pc      : {"idle", "pinned", "running"},
                               runtime : Runtimes \cup {NoEntry},
                               slot    : Slots \cup {NoEntry}]]

\* A Runtime is governed as its own config says: every routable model has a
\* provider, bound to a slot of its identity with the governance of that config,
\* and aliases of one identity share one slot, so that neither a reused provider
\* nor an alias escapes the per-upstream cap (registry.rs provider_signature).
Governed(rt) ==
  /\ \A m \in Routable(rt.config) :
       /\ rt.provider[m] # NoEntry
       /\ rt.provider[m].slot.upstream = rt.config.key[m]
       /\ rt.provider[m].slot.governance = rt.config.gov[rt.config.key[m]]
  /\ \A m, n \in Routable(rt.config) :
       rt.config.key[m] = rt.config.key[n] => rt.provider[m].slot = rt.provider[n].slot

\* The live Runtime is governed, also in the middle of a reload, and so is the
\* older one that a request in flight has pinned.
RuntimesGoverned ==
  /\ Governed(live)
  /\ \A r \in Requests : request[r].pc # "idle" => Governed(request[r].runtime)

\* Unless a reload is about to replace them, the live providers use the very
\* slots of the map: otherwise the next reload would build providers around a
\* second breaker and bucket for an upstream that is being called through the
\* first (reload.rs ensure, build, swap, retain).
ProvidersUseMappedSlots ==
  reload.phase \in {"idle", "ensure", "retain"} =>
    \A m \in Routable(live.config) :
      live.provider[m].slot = per_upstream[live.config.key[m]]

\* The fail-closed branch of build_providers_with is never taken: a collector
\* cannot remove what a reload has just ensured, so a reload of a valid config
\* is never given up half-way.
BuildFindsItsSlots ==
  reload.phase = "build" => ~MissesSlot(per_upstream, reload.config, last_built)

\* An inbound key that the live config limits has a limiter, and the limit is
\* that of the live config or of the one about to replace it: no request sees a
\* Runtime whose limiters are not there yet (runtime.rs install_key_limiters).
LimitedKeysHaveLimiters ==
  \A k \in LimitedKeys(live.config) :
    /\ per_key[k] # NoEntry
    /\ \/ per_key[k].limit = live.config.limit[k]
       \/ reload.phase = "install" /\ per_key[k].limit = reload.config.limit[k]

SlotOf(rt, u) == rt.provider[CHOOSE m \in Routable(rt.config) : rt.config.key[m] = u].slot

Surviving == Identities(live.config) \cap Identities(live'.config)

\* A swap keeps breaker and bucket of every identity that survives it with the
\* same governance, under whatever model name (DEPLOY.md 4b).
StatePreserved ==
  [][\A u \in Surviving : live.config.gov[u] = live'.config.gov[u]
       => SlotOf(live', u) = SlotOf(live, u)]_vars

\* A limiter is replaced only by one with another limit, and dropped only when
\* the live config no longer limits the key: a caller cannot refill its bucket
\* by causing, or waiting for, a reload.
LimitersPreserved ==
  [][\A k \in CallerKeys : per_key[k] # NoEntry /\ per_key'[k] # per_key[k]
       => \/ per_key'[k] # NoEntry /\ per_key'[k].limit # per_key[k].limit
          \/ per_key'[k] = NoEntry /\ k \notin LimitedKeys(live.config)]_vars

\* The slot of a removed upstream is collected, unless it comes back.
OrphansCollected ==
  \A u \in Upstreams :
    (per_upstream[u] # NoEntry /\ u \notin Identities(live.config))
      ~> (per_upstream[u] = NoEntry \/ u \in Identities(live.config))

-----------------------------------------------------------------------------
(* What the documentation says and the code does not do *)

\* reload.rs:78: the state of a removed upstream is collected after the drain
\* window, which starts when the reload removes it.
DrainWindowRespected ==
  [][\A u \in Upstreams : per_upstream[u] # NoEntry /\ per_upstream'[u] = NoEntry
       => absent[u] >= GcDelay]_vars
=============================================================================
