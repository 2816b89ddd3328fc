--------------------------- MODULE HotReload_proofs ---------------------------
(***************************************************************************)
(* Proofs about HotReload, for any configurations, any number of reloads   *)
(* and any drain window: every Runtime a request can see is governed as    *)
(* its configuration says, through the slots of the map; a reload never    *)
(* fails half-way; and neither a breaker nor a bucket is reset by a reload *)
(* that does not change it.                                                *)
(***************************************************************************)
EXTENDS HotReload, TLAPS

-----------------------------------------------------------------------------
(* Maps and providers, by themselves *)

SlotMaps == [Upstreams -> Slots \cup {NoEntry}]

\* Every routable model has a provider, with the signature of the config.
Signed(cfg, prov) ==
  \A m \in Models :
    IF m \in Routable(cfg)
    THEN prov[m] # NoEntry /\ prov[m].signature = Signature(cfg, m)
    ELSE prov[m] = NoEntry

\* The providers use the slots of the map, which are as the config wants them.
UsesMap(cfg, prov, map) ==
  \A m \in Routable(cfg) :
    /\ map[cfg.key[m]] # NoEntry
    /\ map[cfg.key[m]].governance = cfg.gov[cfg.key[m]]
    /\ prov[m].slot = map[cfg.key[m]]

\* Every slot of the map is one of its identity.
Owned(map) == \A u \in Upstreams : map[u] # NoEntry => map[u].upstream = u

\* The map has a slot, as wanted, for every identity of the config.
Ensured(cfg, map) ==
  \A u \in Identities(cfg) : map[u] # NoEntry /\ map[u].governance = cfg.gov[u]

\* Providers of an old config use the slots of the map where the new config
\* wants them unchanged.
StillUsed(old, prov, new, map) ==
  \A m \in Routable(old) :
    old.key[m] \in Identities(new) /\ old.gov[old.key[m]] = new.gov[old.key[m]]
      => prov[m].slot = map[old.key[m]]

\* A provider that would be reused is bound to the slot of the map.
Reusable(cfg, prev, map) ==
  \A m \in Routable(cfg) :
    prev[m] # NoEntry /\ prev[m].signature = Signature(cfg, m)
      => prev[m].slot = map[cfg.key[m]]

\* What a configuration consists of.
LEMMA ConfigFacts ==
  ASSUME NEW cfg \in Configs
  PROVE  /\ \A m \in Routable(cfg) : m \in Models /\ cfg.key[m] \in Identities(cfg)
         /\ Identities(cfg) \subseteq Upstreams
         /\ \A u \in Upstreams : cfg.gov[u] \in Govs
         /\ \A u \in Identities(cfg) : \E m \in Routable(cfg) : cfg.key[m] = u
         /\ \A m \in Routable(cfg) :
              Signature(cfg, m) \in Upstreams \X Govs \X Rests
         /\ cfg # NoEntry
  <1>1. cfg.key \in [Models -> Upstreams \cup {NoEntry}]
    BY ReloadAssumption
  <1>2. \A m \in Routable(cfg) : m \in Models /\ cfg.key[m] \in Identities(cfg)
    BY DEF Routable, Identities
  <1>3. Identities(cfg) \subseteq Upstreams
    BY <1>1 DEF Routable, Identities
  <1>4. \A u \in Upstreams : cfg.gov[u] \in Govs
    BY DEF Govs
  <1>5. \A u \in Identities(cfg) : \E m \in Routable(cfg) : cfg.key[m] = u
    BY DEF Identities
  <1>6. cfg.rest \in Rests
    BY DEF Rests
  <1>7. \A m \in Routable(cfg) : Signature(cfg, m) \in Upstreams \X Govs \X Rests
    BY <1>2, <1>3, <1>4, <1>6 DEF Signature
  <1>8. cfg # NoEntry
    BY EntryAssumption
  <1>9. QED
    BY <1>2, <1>3, <1>4, <1>5, <1>7, <1>8

\* Slots and providers, once made, are entries.
LEMMA Entries ==
  /\ \A s \in Slots : s # NoEntry
  /\ \A p \in Providers : p # NoEntry
  /\ \A l \in Limiters : l # NoEntry
  /\ \A u \in Upstreams, g \in Govs, n \in Nat :
       /\ Slot(u, g, n) \in Slots
       /\ Slot(u, g, n).upstream = u /\ Slot(u, g, n).governance = g
  /\ \A s \in Slots, q \in Upstreams \X Govs \X Rests :
       /\ Provider(s, q) \in Providers
       /\ Provider(s, q).slot = s /\ Provider(s, q).signature = q
  <1>1. /\ \A s \in Slots : s # NoEntry
        /\ \A p \in Providers : p # NoEntry
        /\ \A l \in Limiters : l # NoEntry
    BY EntryAssumption
  <1>2. \A u \in Upstreams, g \in Govs, n \in Nat :
          /\ Slot(u, g, n) \in Slots
          /\ Slot(u, g, n).upstream = u /\ Slot(u, g, n).governance = g
    BY DEF Slot, Slots
  <1>3. \A s \in Slots, q \in Upstreams \X Govs \X Rests :
          /\ Provider(s, q) \in Providers
          /\ Provider(s, q).slot = s /\ Provider(s, q).signature = q
    BY DEF Provider, Providers
  <1>4. QED
    BY <1>1, <1>2, <1>3

\* ensure_for_config leaves a slot, as wanted, for every identity, and those
\* that were as wanted where they are.
LEMMA EnsureWorks ==
  ASSUME NEW cfg \in Configs, NEW map \in SlotMaps, NEW n \in Nat
  PROVE  LET new == EnsureForConfig(map, cfg, n) IN
         /\ new \in SlotMaps
         /\ Ensured(cfg, new)
         /\ Owned(map) => Owned(new)
         /\ \A u \in Upstreams : Keeps(map, cfg, u) => new[u] = map[u]
  <1> DEFINE new == EnsureForConfig(map, cfg, n)
  <1>1. /\ new = [u \in Upstreams |-> new[u]]
        /\ \A u \in Upstreams :
             new[u] = IF u \in Identities(cfg) /\ ~Keeps(map, cfg, u)
                      THEN Slot(u, cfg.gov[u], n) ELSE map[u]
    BY DEF EnsureForConfig
  <1>2. \A u \in Upstreams :
          /\ map[u] \in Slots \cup {NoEntry}
          /\ Slot(u, cfg.gov[u], n) \in Slots
          /\ Slot(u, cfg.gov[u], n) # NoEntry
          /\ Slot(u, cfg.gov[u], n).upstream = u
          /\ Slot(u, cfg.gov[u], n).governance = cfg.gov[u]
    <2> TAKE u \in Upstreams
    <2>1. map[u] \in Slots \cup {NoEntry}
      BY DEF SlotMaps
    <2>2. cfg.gov[u] \in Govs
      BY ConfigFacts
    <2>3. QED
      BY <2>1, <2>2, Entries
  <1> HIDE DEF new
  <1>3. \A u \in Upstreams : new[u] \in Slots \cup {NoEntry}
    BY <1>1, <1>2
  <1>4. new \in SlotMaps
    BY <1>1, <1>3 DEF SlotMaps
  <1>5. Ensured(cfg, new)
    <2> SUFFICES ASSUME NEW u \in Identities(cfg)
                 PROVE  new[u] # NoEntry /\ new[u].governance = cfg.gov[u]
      BY DEF Ensured
    <2>1. u \in Upstreams
      BY ConfigFacts
    <2>2. CASE Keeps(map, cfg, u)
      BY <1>1, <2>1, <2>2 DEF Keeps
    <2>3. CASE ~Keeps(map, cfg, u)
      BY <1>1, <1>2, <2>1, <2>3
    <2>4. QED
      BY <2>2, <2>3
  <1>6. Owned(map) => Owned(new)
    BY <1>1, <1>2 DEF Owned
  <1>7. \A u \in Upstreams : Keeps(map, cfg, u) => new[u] = map[u]
    BY <1>1
  <1>8. QED
    BY <1>4, <1>5, <1>6, <1>7 DEF new

\* So what the old providers use, and the new config wants unchanged, stays.
LEMMA EnsureKeeps ==
  ASSUME NEW old \in Configs, NEW cfg \in Configs, NEW map \in SlotMaps, NEW n \in Nat,
         NEW prov, UsesMap(old, prov, map)
  PROVE  StillUsed(old, prov, cfg, EnsureForConfig(map, cfg, n))
  <1> DEFINE new == EnsureForConfig(map, cfg, n)
  <1> SUFFICES ASSUME NEW m \in Routable(old),
                      old.gov[old.key[m]] = cfg.gov[old.key[m]]
               PROVE  prov[m].slot = new[old.key[m]]
    BY DEF StillUsed
  <1>1. /\ map[old.key[m]] # NoEntry
        /\ map[old.key[m]].governance = old.gov[old.key[m]]
        /\ prov[m].slot = map[old.key[m]]
    BY DEF UsesMap
  <1>2. Keeps(map, cfg, old.key[m])
    BY <1>1 DEF Keeps
  <1>3. old.key[m] \in Upstreams
    BY ConfigFacts
  <1>4. new[old.key[m]] = map[old.key[m]]
    BY <1>2, <1>3, EnsureWorks
  <1>5. QED
    BY <1>1, <1>4

\* A signature names the identity and its governance.
LEMMA ReuseIsSafe ==
  ASSUME NEW old \in Configs, NEW cfg \in Configs, NEW prev, NEW map,
         Signed(old, prev), StillUsed(old, prev, cfg, map)
  PROVE  Reusable(cfg, prev, map)
  <1> SUFFICES ASSUME NEW m \in Routable(cfg), prev[m] # NoEntry,
                      prev[m].signature = Signature(cfg, m)
               PROVE  prev[m].slot = map[cfg.key[m]]
    BY DEF Reusable
  <1>1. m \in Models /\ cfg.key[m] \in Identities(cfg)
    BY ConfigFacts
  <1>2. m \in Routable(old) /\ prev[m].signature = Signature(old, m)
    BY <1>1 DEF Signed
  <1>3. Signature(old, m) = Signature(cfg, m)
    BY <1>2
  <1>4. /\ old.key[m] = cfg.key[m]
        /\ old.gov[old.key[m]] = cfg.gov[cfg.key[m]]
    BY <1>3 DEF Signature
  <1>5. QED
    BY <1>1, <1>2, <1>4 DEF StillUsed

\* build_providers_with yields providers of the config, bound to the map, and
\* finds every slot it needs.
LEMMA BuildWorks ==
  ASSUME NEW cfg \in Configs, NEW map \in SlotMaps, NEW prev \in ProviderMaps,
         Ensured(cfg, map), Reusable(cfg, prev, map)
  PROVE  LET built == BuildProviders(map, cfg, prev) IN
         /\ built \in ProviderMaps
         /\ Signed(cfg, built)
         /\ UsesMap(cfg, built, map)
         /\ ~MissesSlot(map, cfg, prev)
  <1> DEFINE built == BuildProviders(map, cfg, prev)
             Reuses(m) == prev[m] # NoEntry /\ prev[m].signature = Signature(cfg, m)
  <1>1. /\ built = [m \in Models |-> built[m]]
        /\ \A m \in Models : m \notin Routable(cfg) => built[m] = NoEntry
        /\ \A m \in Models : m \in Routable(cfg) /\ Reuses(m) => built[m] = prev[m]
        /\ \A m \in Models : m \in Routable(cfg) /\ ~Reuses(m) =>
             built[m] = Provider(map[cfg.key[m]], Signature(cfg, m))
    BY DEF BuildProviders
  <1>2. \A m \in Routable(cfg) :
          /\ m \in Models /\ cfg.key[m] \in Identities(cfg)
          /\ map[cfg.key[m]] # NoEntry
          /\ map[cfg.key[m]].governance = cfg.gov[cfg.key[m]]
          /\ map[cfg.key[m]] \in Slots
          /\ Signature(cfg, m) \in Upstreams \X Govs \X Rests
    <2> TAKE m \in Routable(cfg)
    <2>1. /\ m \in Models /\ cfg.key[m] \in Identities(cfg) /\ cfg.key[m] \in Upstreams
          /\ Signature(cfg, m) \in Upstreams \X Govs \X Rests
      BY ConfigFacts
    <2>2. map[cfg.key[m]] # NoEntry /\ map[cfg.key[m]].governance = cfg.gov[cfg.key[m]]
      BY <2>1 DEF Ensured
    <2>3. map[cfg.key[m]] \in Slots \cup {NoEntry}
      BY <2>1 DEF SlotMaps
    <2>4. QED
      BY <2>1, <2>2, <2>3
  <1>3. \A m \in Models : prev[m] \in Providers \cup {NoEntry}
    BY DEF ProviderMaps
  <1> HIDE DEF built
  <1>4. \A m \in Routable(cfg) :
          /\ built[m] \in Providers /\ built[m] # NoEntry
          /\ built[m].signature = Signature(cfg, m)
          /\ built[m].slot = map[cfg.key[m]]
    <2> TAKE m \in Routable(cfg)
    <2>1. CASE Reuses(m)
      <3>1. built[m] = prev[m]
        BY <1>1, <1>2, <2>1
      <3>2. prev[m].slot = map[cfg.key[m]]
        BY <2>1 DEF Reusable
      <3>3. QED
        BY <1>2, <1>3, <2>1, <3>1, <3>2
    <2>2. CASE ~Reuses(m)
      <3>1. built[m] = Provider(map[cfg.key[m]], Signature(cfg, m))
        BY <1>1, <1>2, <2>2
      <3>2. QED
        BY <1>2, <3>1, Entries
    <2>3. QED
      BY <2>1, <2>2
  <1>5. built \in ProviderMaps
    <2>1. \A m \in Models : built[m] \in Providers \cup {NoEntry}
      BY <1>1, <1>4
    <2>2. QED
      BY <1>1, <2>1 DEF ProviderMaps
  <1>6. Signed(cfg, built)
    BY <1>1, <1>4 DEF Signed
  <1>7. UsesMap(cfg, built, map)
    BY <1>2, <1>4 DEF UsesMap
  <1>8. ~MissesSlot(map, cfg, prev)
    BY <1>2 DEF MissesSlot
  <1>9. QED
    BY <1>5, <1>6, <1>7, <1>8 DEF built

\* Providers that use an owned map make a governed Runtime.
LEMMA MapGoverns ==
  ASSUME NEW cfg \in Configs, NEW prov, NEW map,
         Signed(cfg, prov), UsesMap(cfg, prov, map), Owned(map)
  PROVE  Governed([config |-> cfg, provider |-> prov])
  <1> DEFINE rt == [config |-> cfg, provider |-> prov]
  <1>1. rt.config = cfg /\ rt.provider = prov
    OBVIOUS
  <1> HIDE DEF rt
  <1>2. \A m \in Routable(cfg) : cfg.key[m] \in Upstreams /\ m \in Models
    BY ConfigFacts
  <1>3. \A m \in Routable(cfg) :
          /\ prov[m] # NoEntry
          /\ prov[m].slot = map[cfg.key[m]]
          /\ prov[m].slot.upstream = cfg.key[m]
          /\ prov[m].slot.governance = cfg.gov[cfg.key[m]]
    BY <1>2 DEF Signed, UsesMap, Owned
  <1>4. \A m, n \in Routable(cfg) :
          cfg.key[m] = cfg.key[n] => prov[m].slot = prov[n].slot
    BY <1>3
  <1>5. Governed(rt)
    BY <1>1, <1>3, <1>4 DEF Governed
  <1>6. QED
    BY <1>5 DEF rt

-----------------------------------------------------------------------------
(* The invariant of a reload *)

\* What each phase of a reload knows of the Runtime, of the map of slots and of
\* the providers it has built.
ReloadInv ==
  /\ last_built = live.provider
  /\ Signed(live.config, live.provider)
  /\ Governed(live)
  /\ \A r \in Requests :
       request[r].pc # "idle" => request[r].runtime \in Runtimes /\ Governed(request[r].runtime)
  /\ Owned(per_upstream)
  /\ reload.phase # "idle" => reload.config \in Configs
  /\ reload.phase \in {"idle", "ensure", "retain"} =>
       UsesMap(live.config, live.provider, per_upstream)
  /\ reload.phase \in {"build", "install"} =>
       StillUsed(live.config, live.provider, reload.config, per_upstream)
  /\ reload.phase = "build" => Ensured(reload.config, per_upstream)
  /\ reload.phase = "install" =>
       /\ Signed(reload.config, reload.built)
       /\ UsesMap(reload.config, reload.built, per_upstream)
  /\ reload.phase = "retain" => reload.config = live.config

\* What the types say of the parts.
LEMMA PartTypes ==
  ASSUME TypeOK
  PROVE  /\ live.config \in Configs /\ live.provider \in ProviderMaps
         /\ live = [config |-> live.config, provider |-> live.provider]
         /\ per_upstream \in SlotMaps
         /\ last_built \in ProviderMaps
         /\ reload.built \in ProviderMaps /\ reload.removed \in BOOLEAN
         /\ reload.config \in Configs \cup {NoEntry}
         /\ reload.phase \in {"idle", "ensure", "build", "install", "retain"}
         /\ reload = [phase |-> reload.phase, config |-> reload.config,
                      built |-> reload.built, removed |-> reload.removed]
         /\ serial \in Nat
  BY DEF TypeOK, Runtimes, SlotMaps

\* No providers are providers of no config.
LEMMA NoProvidersType ==
  /\ NoProviders \in ProviderMaps
  /\ \A cfg, map : Reusable(cfg, NoProviders, map)
  <1>1. \A m \in Models : NoProviders[m] = NoEntry
    BY DEF NoProviders
  <1>2. NoProviders \in ProviderMaps
    BY DEF NoProviders, ProviderMaps
  <1>3. \A cfg, map : Reusable(cfg, NoProviders, map)
    BY <1>1 DEF Reusable, Routable
  <1>4. QED
    BY <1>2, <1>3

\* A finished or abandoned reload.
LEMMA NoReloadType ==
  /\ NoReload \in [phase   : {"idle", "ensure", "build", "install", "retain"},
                   config  : Configs \cup {NoEntry},
                   built   : ProviderMaps,
                   removed : BOOLEAN]
  /\ NoReload.phase = "idle"
  BY NoProvidersType DEF NoReload

\* main() wires what the first reload finds.
LEMMA ReloadInit == Init => TypeOK /\ ReloadInv
  <1> SUFFICES ASSUME Init PROVE TypeOK /\ ReloadInv
    OBVIOUS
  <1> DEFINE none == [u \in Upstreams |-> NoEntry]
  <1>1. PICK cfg \in Configs :
          LET map   == EnsureForConfig(none, cfg, 0)
              built == BuildProviders(map, cfg, NoProviders)
          IN  /\ per_upstream = map
              /\ per_key = [k \in CallerKeys |->
                              IF k \in LimitedKeys(cfg) THEN Limiter(cfg.limit[k], 0) ELSE NoEntry]
              /\ live = [config |-> cfg, provider |-> built]
              /\ last_built = built
              /\ reload = NoReload
              /\ gc = [d \in 0..GcDelay |-> 0]
              /\ serial = 1
              /\ reloads = 0
              /\ absent = [u \in Upstreams |-> GcDelay]
              /\ request = [r \in Requests |-> Idle]
    BY DEF Init
  <1> DEFINE map == EnsureForConfig(none, cfg, 0)
             built == BuildProviders(map, cfg, NoProviders)
  <1>2. none \in SlotMaps /\ Owned(none) /\ 0 \in Nat
    BY DEF SlotMaps, Owned
  <1>3. map \in SlotMaps /\ Ensured(cfg, map) /\ Owned(map)
    <2> HIDE DEF none
    <2> QED
      BY <1>2, EnsureWorks
  <1>4. built \in ProviderMaps /\ Signed(cfg, built) /\ UsesMap(cfg, built, map)
    <2> HIDE DEF map
    <2> QED
      BY <1>3, NoProvidersType, BuildWorks
  <1>5. /\ per_upstream = map /\ live = [config |-> cfg, provider |-> built]
        /\ last_built = built
    BY <1>1
  <1> HIDE DEF none, map, built
  <1>6. Governed(live)
    BY <1>3, <1>4, <1>5, MapGoverns
  <1>7. live.config = cfg /\ live.provider = built /\ live \in Runtimes
    BY <1>4, <1>5 DEF Runtimes
  <1>8. per_key \in [CallerKeys -> Limiters \cup {NoEntry}]
    <2>1. \A k \in LimitedKeys(cfg) : Limiter(cfg.limit[k], 0) \in Limiters
      <3> TAKE k \in LimitedKeys(cfg)
      <3>1. cfg.limit[k] \in Limits
        BY DEF Limits
      <3>2. QED
        BY <3>1 DEF Limiter, Limiters
    <2>2. QED
      BY <1>1, <2>1
  <1>9. /\ gc \in [0..GcDelay -> Nat] /\ serial \in Nat /\ reloads \in 0..MaxReloads
        /\ absent \in [Upstreams -> 0..GcDelay]
    BY <1>1, ReloadAssumption
  <1>10. request \in [Requests -> [pc      : {"idle", "pinned", "running"},
                                   runtime : Runtimes \cup {NoEntry},
                                   slot    : Slots \cup {NoEntry}]]
    BY <1>1 DEF Idle
  <1>11. TypeOK
    BY <1>1, <1>3, <1>4, <1>5, <1>7, <1>8, <1>9, <1>10, NoReloadType DEF TypeOK, SlotMaps
  <1>12. reload.phase = "idle" /\ \A r \in Requests : request[r].pc = "idle"
    BY <1>1, NoReloadType DEF Idle
  <1>13. ReloadInv
    BY <1>3, <1>4, <1>5, <1>6, <1>7, <1>12 DEF ReloadInv
  <1>14. QED
    BY <1>11, <1>13

\* A step that leaves the Runtime, the map of slots, the reload and the requests
\* alone keeps what is known of them.
LEMMA ReloadUntouched ==
  ASSUME ReloadInv, UNCHANGED <<live, per_upstream, last_built, reload, request>>
  PROVE  ReloadInv'
  BY DEF ReloadInv, Signed, Governed, Owned, UsesMap, StillUsed, Ensured,
         Routable, Identities, Signature

\* Steps that a reload takes one after the other.
LEMMA BeginStep ==
  ASSUME TypeOK, ReloadInv, NEW cfg \in Configs, Begin(cfg)
  PROVE  TypeOK' /\ ReloadInv'
  <1>1. /\ reload.phase = "idle" /\ reloads < MaxReloads /\ reloads' = reloads + 1
        /\ reload' = [phase |-> "ensure", config |-> cfg, built |-> NoProviders,
                      removed |-> Removed(live.config, cfg) # {}]
        /\ UNCHANGED <<live, per_upstream, per_key, last_built, gc, serial, absent, request>>
    BY DEF Begin
  <1>2. /\ reload' \in [phase   : {"idle", "ensure", "build", "install", "retain"},
                        config  : Configs \cup {NoEntry},
                        built   : ProviderMaps,
                        removed : BOOLEAN]
        /\ reload'.phase = "ensure" /\ reload'.config = cfg
    BY <1>1, NoProvidersType
  <1>3. reloads' \in 0..MaxReloads
    BY <1>1, ReloadAssumption DEF TypeOK
  <1>4. TypeOK'
    BY <1>1, <1>2, <1>3 DEF TypeOK
  <1>5. ReloadInv'
    BY <1>1, <1>2 DEF ReloadInv
  <1>6. QED
    BY <1>4, <1>5

\* ensure_for_config: the map is as the new config wants it; what the old
\* providers use and the new config wants unchanged has stayed.
LEMMA EnsureStep ==
  ASSUME TypeOK, ReloadInv, Ensure
  PROVE  TypeOK' /\ ReloadInv'
  <1> DEFINE new == EnsureForConfig(per_upstream, reload.config, serial)
  <1>1. /\ reload.phase = "ensure" /\ per_upstream' = new /\ serial' = serial + 1
        /\ reload' = [reload EXCEPT !.phase = "build"]
        /\ UNCHANGED <<live, per_key, last_built, gc, reloads, absent, request>>
    BY DEF Ensure
  <1>2. reload.config \in Configs
    BY <1>1 DEF ReloadInv
  <1>3. /\ reload'.phase = "build" /\ reload'.config = reload.config
        /\ reload'.built = reload.built /\ reload'.removed = reload.removed
        /\ reload' \in [phase   : {"idle", "ensure", "build", "install", "retain"},
                        config  : Configs \cup {NoEntry},
                        built   : ProviderMaps,
                        removed : BOOLEAN]
    BY <1>1 DEF TypeOK
  <1>4. new \in SlotMaps /\ Ensured(reload.config, new) /\ Owned(new)
    BY <1>2, PartTypes, EnsureWorks DEF ReloadInv
  <1>5. StillUsed(live.config, live.provider, reload.config, new)
    <2>1. UsesMap(live.config, live.provider, per_upstream)
      BY <1>1 DEF ReloadInv
    <2>2. QED
      BY <1>2, <2>1, PartTypes, EnsureKeeps
  <1> HIDE DEF new
  <1>6. serial' \in Nat
    BY <1>1 DEF TypeOK
  <1>7. TypeOK'
    BY <1>1, <1>3, <1>4, <1>6 DEF TypeOK, SlotMaps
  <1>8. ReloadInv'
    BY <1>1, <1>2, <1>3, <1>4, <1>5 DEF ReloadInv
  <1>9. QED
    BY <1>7, <1>8

\* build_providers_with: the new providers use the slots of the map.
LEMMA BuildStep ==
  ASSUME TypeOK, ReloadInv, Build
  PROVE  /\ TypeOK' /\ ReloadInv'
         /\ ~MissesSlot(per_upstream, reload.config, last_built)
  <1> DEFINE built == BuildProviders(per_upstream, reload.config, last_built)
  <1>1. /\ reload.phase = "build"
        /\ reload' = IF MissesSlot(per_upstream, reload.config, last_built)
                     THEN NoReload
                     ELSE [reload EXCEPT !.phase = "install", !.built = built]
        /\ UNCHANGED <<live, per_upstream, per_key, last_built, gc, serial, reloads, absent, request>>
    BY DEF Build
  <1>2. /\ reload.config \in Configs /\ Ensured(reload.config, per_upstream)
        /\ StillUsed(live.config, live.provider, reload.config, per_upstream)
        /\ Signed(live.config, live.provider) /\ last_built = live.provider
    BY <1>1 DEF ReloadInv
  <1>3. Reusable(reload.config, last_built, per_upstream)
    BY <1>2, PartTypes, ReuseIsSafe
  <1>4. /\ built \in ProviderMaps /\ Signed(reload.config, built)
        /\ UsesMap(reload.config, built, per_upstream)
        /\ ~MissesSlot(per_upstream, reload.config, last_built)
    BY <1>2, <1>3, PartTypes, BuildWorks
  <1> HIDE DEF built
  <1>5. /\ reload'.phase = "install" /\ reload'.config = reload.config
        /\ reload'.built = built
        /\ reload' \in [phase   : {"idle", "ensure", "build", "install", "retain"},
                        config  : Configs \cup {NoEntry},
                        built   : ProviderMaps,
                        removed : BOOLEAN]
    <2>1. reload' = [reload EXCEPT !.phase = "install", !.built = built]
      BY <1>1, <1>4
    <2> DEFINE half == [reload EXCEPT !.phase = "install"]
    <2>2. [reload EXCEPT !.phase = "install", !.built = built] = [half EXCEPT !.built = built]
      OBVIOUS
    <2>3. /\ half \in [phase   : {"idle", "ensure", "build", "install", "retain"},
                       config  : Configs \cup {NoEntry},
                       built   : ProviderMaps,
                       removed : BOOLEAN]
          /\ half.phase = "install" /\ half.config = reload.config
      BY DEF TypeOK
    <2> HIDE DEF half
    <2>4. QED
      BY <1>4, <2>1, <2>2, <2>3
  <1>6. TypeOK'
    BY <1>1, <1>5 DEF TypeOK
  <1>7. ReloadInv'
    BY <1>1, <1>2, <1>4, <1>5 DEF ReloadInv
  <1>8. QED
    BY <1>4, <1>6, <1>7

\* The swap: the new Runtime is governed, and it is the live one.
LEMMA PublishStep ==
  ASSUME TypeOK, ReloadInv, Publish
  PROVE  TypeOK' /\ ReloadInv'
  <1>1. /\ reload.phase = "install"
        /\ live' = [config |-> reload.config, provider |-> reload.built]
        /\ last_built' = reload.built
        /\ absent' = [u \in Upstreams |->
                        IF u \in Removed(live.config, reload.config) THEN 0 ELSE absent[u]]
        /\ reload' = [reload EXCEPT !.phase = "retain"]
        /\ UNCHANGED <<per_upstream, per_key, gc, serial, reloads, request>>
    BY DEF Publish
  <1>2. /\ reload.config \in Configs /\ Owned(per_upstream)
        /\ Signed(reload.config, reload.built)
        /\ UsesMap(reload.config, reload.built, per_upstream)
    BY <1>1 DEF ReloadInv
  <1>3. /\ reload'.phase = "retain" /\ reload'.config = reload.config
        /\ reload' \in [phase   : {"idle", "ensure", "build", "install", "retain"},
                        config  : Configs \cup {NoEntry},
                        built   : ProviderMaps,
                        removed : BOOLEAN]
    BY <1>1 DEF TypeOK
  <1>4. /\ live' \in Runtimes /\ last_built' \in ProviderMaps
        /\ live'.config = reload.config /\ live'.provider = reload.built
    BY <1>1, <1>2, PartTypes DEF Runtimes
  <1>5. Governed(live')
    BY <1>1, <1>2, MapGoverns
  <1>6. absent' \in [Upstreams -> 0..GcDelay]
    BY <1>1, ReloadAssumption DEF TypeOK
  <1>7. TypeOK'
    BY <1>1, <1>3, <1>4, <1>6 DEF TypeOK
  <1>8. ReloadInv'
    BY <1>1, <1>2, <1>3, <1>4, <1>5 DEF ReloadInv
  <1>9. QED
    BY <1>7, <1>8

\* The limiters of keys come and go beside all this.
LEMMA KeyLimiterStep ==
  ASSUME TypeOK, ReloadInv, NEW k \in CallerKeys, InstallKeyLimiter(k) \/ RetainKeyLimiter(k)
  PROVE  TypeOK' /\ ReloadInv'
  <1>1. UNCHANGED <<live, per_upstream, last_built, reload, gc, reloads, absent, request>>
    BY DEF InstallKeyLimiter, RetainKeyLimiter
  <1>2. per_key' \in [CallerKeys -> Limiters \cup {NoEntry}] /\ serial' \in Nat
    <2>1. CASE InstallKeyLimiter(k)
      <3>1. /\ reload.phase = "install" /\ k \in LimitedKeys(reload.config)
            /\ per_key' = [per_key EXCEPT ![k] = Limiter(reload.config.limit[k], serial)]
            /\ serial' = serial + 1
        BY <2>1 DEF InstallKeyLimiter, NeedsInstall
      <3>2. reload.config.limit[k] \in Limits
        <4>1. reload.config \in Configs
          BY <3>1 DEF ReloadInv
        <4>2. QED
          BY <3>1, <4>1 DEF Limits
      <3>3. Limiter(reload.config.limit[k], serial) \in Limiters
        BY <3>2 DEF Limiter, Limiters, TypeOK
      <3>4. QED
        BY <3>1, <3>3 DEF TypeOK
    <2>2. CASE RetainKeyLimiter(k)
      BY <2>2 DEF RetainKeyLimiter, TypeOK
    <2>3. QED
      BY <2>1, <2>2
  <1>3. TypeOK'
    BY <1>1, <1>2 DEF TypeOK
  <1>4. QED
    BY <1>1, <1>3, ReloadUntouched

\* The lock is given back, and a collector spawned if something was removed.
LEMMA EndStep ==
  ASSUME TypeOK, ReloadInv, End
  PROVE  TypeOK' /\ ReloadInv'
  <1>1. /\ reload.phase = "retain" /\ reload' = NoReload
        /\ gc' = IF reload.removed THEN [gc EXCEPT ![GcDelay] = @ + 1] ELSE gc
        /\ UNCHANGED <<live, per_upstream, per_key, last_built, serial, reloads, absent, request>>
    BY DEF End
  <1>2. gc' \in [0..GcDelay -> Nat]
    <2>1. gc \in [0..GcDelay -> Nat] /\ GcDelay \in 0..GcDelay
      BY ReloadAssumption DEF TypeOK
    <2>2. [gc EXCEPT ![GcDelay] = @ + 1] \in [0..GcDelay -> Nat]
      BY <2>1
    <2>3. QED
      BY <1>1, <2>1, <2>2
  <1>3. TypeOK'
    BY <1>1, <1>2, NoReloadType DEF TypeOK
  <1>4. ReloadInv'
    BY <1>1, NoReloadType DEF ReloadInv
  <1>5. QED
    BY <1>3, <1>4

\* A collector takes only what the live Runtime does not use, and it does not
\* run while a reload has the lock.
LEMMA CollectStep ==
  ASSUME TypeOK, ReloadInv, Collect
  PROVE  TypeOK' /\ ReloadInv'
  <1>1. /\ gc[0] > 0 /\ reload.phase = "idle"
        /\ gc' = [gc EXCEPT ![0] = @ - 1]
        /\ per_upstream' = [u \in Upstreams |->
                              IF u \in Identities(live.config) THEN per_upstream[u] ELSE NoEntry]
        /\ UNCHANGED <<live, per_key, last_built, reload, serial, reloads, absent, request>>
    BY DEF Collect
  <1>2. gc' \in [0..GcDelay -> Nat]
    <2>1. gc \in [0..GcDelay -> Nat] /\ 0 \in 0..GcDelay
      BY ReloadAssumption DEF TypeOK
    <2>2. gc[0] - 1 \in Nat
      BY <1>1, <2>1
    <2>3. QED
      BY <1>1, <2>1, <2>2
  <1>3. per_upstream' \in SlotMaps
    BY <1>1 DEF TypeOK, SlotMaps
  <1>4. TypeOK'
    BY <1>1, <1>2, <1>3 DEF TypeOK, SlotMaps
  <1>5. Owned(per_upstream')
    BY <1>1 DEF ReloadInv, Owned
  <1>6. UsesMap(live.config, live.provider, per_upstream')
    <2>1. \A m \in Routable(live.config) :
            live.config.key[m] \in Identities(live.config) /\ live.config.key[m] \in Upstreams
      BY PartTypes, ConfigFacts
    <2>2. \A m \in Routable(live.config) :
            per_upstream'[live.config.key[m]] = per_upstream[live.config.key[m]]
      BY <1>1, <2>1
    <2>3. UsesMap(live.config, live.provider, per_upstream)
      BY <1>1 DEF ReloadInv
    <2>4. QED
      BY <2>2, <2>3 DEF UsesMap
  <1>7. ReloadInv'
    BY <1>1, <1>5, <1>6 DEF ReloadInv
  <1>8. QED
    BY <1>4, <1>7

\* Collectors sleep, and nothing else happens.
LEMMA TickStep ==
  ASSUME TypeOK, ReloadInv, Tick
  PROVE  TypeOK' /\ ReloadInv'
  <1>1. /\ gc' = [d \in 0..GcDelay |->
                    IF d = 0 THEN gc[0] + (IF GcDelay > 0 THEN gc[1] ELSE 0)
                    ELSE IF d < GcDelay THEN gc[d + 1] ELSE 0]
        /\ absent' = [u \in Upstreams |-> IF absent[u] < GcDelay THEN absent[u] + 1 ELSE GcDelay]
        /\ UNCHANGED <<live, per_upstream, per_key, last_built, reload, serial, reloads, request>>
    BY DEF Tick
  <1>2. gc' \in [0..GcDelay -> Nat]
    <2>1. gc \in [0..GcDelay -> Nat] /\ 0 \in 0..GcDelay /\ (GcDelay > 0 => 1 \in 0..GcDelay)
      BY ReloadAssumption DEF TypeOK
    <2>2. \A d \in 0..GcDelay : d < GcDelay => d + 1 \in 0..GcDelay
      BY ReloadAssumption
    <2>3. QED
      BY <1>1, <2>1, <2>2
  <1>3. absent' \in [Upstreams -> 0..GcDelay]
    BY <1>1, ReloadAssumption DEF TypeOK
  <1>4. TypeOK'
    BY <1>1, <1>2, <1>3 DEF TypeOK
  <1>5. QED
    BY <1>1, <1>4, ReloadUntouched

\* A request holds the Runtime it has pinned.
LEMMA RequestStep ==
  ASSUME TypeOK, ReloadInv, NEW r \in Requests,
         Pin(r) \/ (\E m \in Models : Call(r, m)) \/ Return(r)
  PROVE  TypeOK' /\ ReloadInv'
  <1> DEFINE RequestStates == [pc      : {"idle", "pinned", "running"},
                               runtime : Runtimes \cup {NoEntry},
                               slot    : Slots \cup {NoEntry}]
  <1>0. request \in [Requests -> RequestStates]
    BY DEF TypeOK
  <1>1. UNCHANGED <<live, per_upstream, per_key, last_built, reload, gc, serial, reloads, absent>>
    BY DEF Pin, Call, Return
  <1>2. \E q \in RequestStates :
          /\ request' = [request EXCEPT ![r] = q]
          /\ q.pc # "idle" => q.runtime \in Runtimes /\ Governed(q.runtime)
    <2>1. CASE Pin(r)
      <3>1. live \in Runtimes /\ Governed(live)
        BY DEF TypeOK, ReloadInv
      <3> DEFINE q == [pc |-> "pinned", runtime |-> live, slot |-> NoEntry]
      <3>2. q \in RequestStates /\ q.runtime = live
        BY <3>1
      <3>3. request' = [request EXCEPT ![r] = q]
        BY <2>1 DEF Pin
      <3> HIDE DEF q
      <3>4. QED
        BY <3>1, <3>2, <3>3
    <2>2. ASSUME NEW m \in Models, Call(r, m)
          PROVE  \E q \in RequestStates :
                   /\ request' = [request EXCEPT ![r] = q]
                   /\ q.pc # "idle" => q.runtime \in Runtimes /\ Governed(q.runtime)
      <3>1. /\ request[r].pc = "pinned"
            /\ m \in Routable(request[r].runtime.config)
            /\ request' = [request EXCEPT ![r].pc = "running",
                             ![r].slot = request[r].runtime.provider[m].slot]
        BY <2>2 DEF Call
      <3>2. request[r].runtime \in Runtimes /\ Governed(request[r].runtime)
        BY <3>1 DEF ReloadInv
      <3>3. request[r].runtime.provider[m] \in Providers
        <4>1. request[r].runtime.provider[m] \in Providers \cup {NoEntry}
          BY <3>2 DEF Runtimes, ProviderMaps
        <4>2. request[r].runtime.provider[m] # NoEntry
          BY <3>1, <3>2 DEF Governed
        <4>3. QED
          BY <4>1, <4>2
      <3>4. request[r].runtime.provider[m].slot \in Slots
        BY <3>3 DEF Providers
      <3> DEFINE s == request[r].runtime.provider[m].slot
                 q == [pc |-> "running", runtime |-> request[r].runtime, slot |-> s]
      <3>5. q \in RequestStates /\ q.runtime = request[r].runtime
        BY <3>2, <3>4
      <3>6. request' = [request EXCEPT ![r] = q]
        <4> HIDE DEF s
        <4>1. request' = [request EXCEPT ![r].pc = "running", ![r].slot = s]
          BY <3>1 DEF s
        <4>2. request[r] \in RequestStates
          BY <1>0
        <4> DEFINE half == [request[r] EXCEPT !.pc = "running"]
        <4>3. half.runtime = request[r].runtime /\ half.pc = "running" /\ half \in RequestStates
          BY <4>2
        <4>4. [half EXCEPT !.slot = s] = q
          <5> HIDE DEF half
          <5> QED
            BY <4>3
        <4>5. request' = [request EXCEPT ![r] = [half EXCEPT !.slot = s]]
          BY <1>0, <4>1
        <4>6. QED
          BY <4>4, <4>5
      <3> HIDE DEF q
      <3>7. QED
        BY <3>2, <3>5, <3>6
    <2>3. CASE Return(r)
      <3>1. Idle \in RequestStates /\ Idle.pc = "idle"
        BY DEF Idle
      <3>2. QED
        BY <2>3, <3>1 DEF Return
    <2>4. QED
      BY <2>1, <2>2, <2>3
  <1>3. PICK q \in RequestStates :
          /\ request' = [request EXCEPT ![r] = q]
          /\ q.pc # "idle" => q.runtime \in Runtimes /\ Governed(q.runtime)
    BY <1>2
  <1>4. /\ request' \in [Requests -> RequestStates]
        /\ \A t \in Requests : request'[t] = IF t = r THEN q ELSE request[t]
    BY <1>0, <1>3
  <1>5. TypeOK'
    BY <1>1, <1>4 DEF TypeOK
  <1>6. \A t \in Requests :
          request'[t].pc # "idle" => request'[t].runtime \in Runtimes /\ Governed(request'[t].runtime)
    <2> TAKE t \in Requests
    <2>1. CASE t = r
      BY <1>3, <1>4, <2>1
    <2>2. CASE t # r
      BY <1>4, <2>2 DEF ReloadInv
    <2>3. QED
      BY <2>1, <2>2
  <1>7. ReloadInv'
    BY <1>1, <1>6 DEF ReloadInv
  <1>8. QED
    BY <1>5, <1>7

\* Every step keeps the invariant.
LEMMA ReloadKeeps == TypeOK /\ ReloadInv /\ [Next]_vars => TypeOK' /\ ReloadInv'
  <1> SUFFICES ASSUME TypeOK, ReloadInv, [Next]_vars PROVE TypeOK' /\ ReloadInv'
    OBVIOUS
  <1>1. CASE \E cfg \in Configs : Begin(cfg)
    BY <1>1, BeginStep
  <1>2. CASE ReloadStep
    BY <1>2, EnsureStep, BuildStep, PublishStep, EndStep, KeyLimiterStep DEF ReloadStep
  <1>3. CASE Collect
    BY <1>3, CollectStep
  <1>4. CASE Tick
    BY <1>4, TickStep
  <1>5. CASE \E r \in Requests : Pin(r) \/ (\E m \in Models : Call(r, m)) \/ Return(r)
    BY <1>5, RequestStep
  <1>6. CASE UNCHANGED vars
    <2>1. /\ UNCHANGED <<live, per_upstream, last_built, reload, request>>
          /\ UNCHANGED <<per_key, gc, serial, reloads, absent>>
      BY <1>6 DEF vars
    <2>2. TypeOK'
      BY <2>1 DEF TypeOK
    <2>3. QED
      BY <2>1, <2>2, ReloadUntouched
  <1>7. QED
    BY <1>1, <1>2, <1>3, <1>4, <1>5, <1>6 DEF Next

\* It holds in every reachable state.
LEMMA ReloadInvariant == Spec => [](TypeOK /\ ReloadInv)
  BY ReloadInit, ReloadKeeps, PTL DEF Spec

\* Types, for any number of reloads.
THEOREM ReloadTypeCorrect == Spec => []TypeOK
  BY ReloadInvariant, PTL

\* Neither a reload half-way, nor a collector, nor a reused provider lets a
\* request escape the governance of the configuration it was admitted under.
THEOREM GovernanceHolds == Spec => []RuntimesGoverned
  <1>1. ReloadInv => RuntimesGoverned
    BY DEF ReloadInv, RuntimesGoverned
  <1>2. QED
    BY ReloadInvariant, <1>1, PTL

\* The live providers and the map never part, except inside a reload.
THEOREM MapIsUsed == Spec => []ProvidersUseMappedSlots
  <1>1. ReloadInv => ProvidersUseMappedSlots
    BY DEF ReloadInv, ProvidersUseMappedSlots, UsesMap
  <1>2. QED
    BY ReloadInvariant, <1>1, PTL

\* A reload of a valid configuration is never abandoned.
THEOREM BuildNeverFails == Spec => []BuildFindsItsSlots
  <1>1. TypeOK /\ ReloadInv => BuildFindsItsSlots
    <2> SUFFICES ASSUME TypeOK, ReloadInv, reload.phase = "build"
                 PROVE  ~MissesSlot(per_upstream, reload.config, last_built)
      BY DEF BuildFindsItsSlots
    <2>1. /\ reload.config \in Configs /\ Ensured(reload.config, per_upstream)
          /\ StillUsed(live.config, live.provider, reload.config, per_upstream)
          /\ Signed(live.config, live.provider) /\ last_built = live.provider
      BY DEF ReloadInv
    <2>2. Reusable(reload.config, last_built, per_upstream)
      BY <2>1, PartTypes, ReuseIsSafe
    <2>3. QED
      BY <2>1, <2>2, PartTypes, BuildWorks
  <1>2. QED
    BY ReloadInvariant, <1>1, PTL

-----------------------------------------------------------------------------
(* What survives a reload *)

\* The slot of an identity is that of any of its models.
LEMMA SlotOfModel ==
  ASSUME NEW rt, Governed(rt), NEW m \in Routable(rt.config)
  PROVE  SlotOf(rt, rt.config.key[m]) = rt.provider[m].slot
  <1> DEFINE n == CHOOSE x \in Routable(rt.config) : rt.config.key[x] = rt.config.key[m]
  <1>1. n \in Routable(rt.config) /\ rt.config.key[n] = rt.config.key[m]
    OBVIOUS
  <1>2. SlotOf(rt, rt.config.key[m]) = rt.provider[n].slot
    BY DEF SlotOf
  <1> HIDE DEF n
  <1>3. QED
    BY <1>1, <1>2 DEF Governed

\* A swap of the Runtime leaves every upstream that survives it, governed as
\* before, with its breaker, its bucket and its permits.
THEOREM StateSurvives == Spec => StatePreserved
  <1> DEFINE Kept == \A u \in Surviving : live.config.gov[u] = live'.config.gov[u]
                       => SlotOf(live', u) = SlotOf(live, u)
  <1>1. TypeOK /\ ReloadInv /\ [Next]_vars => [Kept]_vars
    <2> SUFFICES ASSUME TypeOK, ReloadInv, [Next]_vars,
                        NEW u \in Surviving, live.config.gov[u] = live'.config.gov[u]
                 PROVE  SlotOf(live', u) = SlotOf(live, u)
      OBVIOUS
    <2>1. CASE live' = live
      BY <2>1 DEF SlotOf, Routable
    <2>2. CASE Publish
      <3>1. reload.phase = "install" /\ live' = [config |-> reload.config, provider |-> reload.built]
        BY <2>2 DEF Publish
      <3>2. /\ reload.config \in Configs
            /\ UsesMap(reload.config, reload.built, per_upstream)
            /\ StillUsed(live.config, live.provider, reload.config, per_upstream)
            /\ Governed(live)
        BY <3>1 DEF ReloadInv
      <3>3. Governed(live')
        <4>1. ReloadInv'
          BY <2>2, PublishStep
        <4>2. QED
          BY <4>1 DEF ReloadInv
      <3>4. /\ live'.config = reload.config /\ live'.provider = reload.built
            /\ u \in Identities(live.config) /\ u \in Identities(reload.config)
        BY <3>1 DEF Surviving
      <3>5. PICK m \in Routable(live.config) : live.config.key[m] = u
        BY <3>4 DEF Identities
      <3>6. PICK n \in Routable(reload.config) : reload.config.key[n] = u
        BY <3>4 DEF Identities
      <3>7. SlotOf(live, u) = per_upstream[u]
        <4>1. SlotOf(live, u) = live.provider[m].slot
          BY <3>2, <3>5, SlotOfModel
        <4>2. live.provider[m].slot = per_upstream[u]
          BY <3>2, <3>4, <3>5 DEF StillUsed
        <4>3. QED
          BY <4>1, <4>2
      <3>8. SlotOf(live', u) = per_upstream[u]
        <4>1. n \in Routable(live'.config) /\ live'.config.key[n] = u
          BY <3>4, <3>6
        <4>2. SlotOf(live', u) = live'.provider[n].slot
          BY <3>3, <4>1, SlotOfModel
        <4>3. reload.built[n].slot = per_upstream[u]
          BY <3>2, <3>6 DEF UsesMap
        <4>4. QED
          BY <3>4, <4>2, <4>3
      <3>9. QED
        BY <3>7, <3>8
    <2>3. live' = live \/ Publish
      BY DEF Next, ReloadStep, Begin, Ensure, Build, InstallKeyLimiter, RetainKeyLimiter,
             End, Collect, Tick, Pin, Call, Return, vars
    <2>4. QED
      BY <2>1, <2>2, <2>3
  <1>2. QED
    BY <1>1, ReloadInvariant, PTL DEF Spec, StatePreserved

\* The limiters a reload has left alone, installed, or not yet retained.
LimiterInv ==
  /\ reload.phase \in {"idle", "ensure", "build", "retain"} =>
       \A k \in LimitedKeys(live.config) :
         per_key[k] # NoEntry /\ per_key[k].limit = live.config.limit[k]
  /\ LimitedKeysHaveLimiters

\* Limiters, once made, are entries with their limit.
LEMMA LimiterEntry ==
  ASSUME NEW cfg \in Configs, NEW k \in LimitedKeys(cfg), NEW n \in Nat
  PROVE  Limiter(cfg.limit[k], n) # NoEntry /\ Limiter(cfg.limit[k], n).limit = cfg.limit[k]
  <1>1. cfg.limit[k] \in Limits
    BY DEF Limits
  <1>2. Limiter(cfg.limit[k], n) \in Limiters
    BY <1>1 DEF Limiter, Limiters
  <1>3. QED
    BY <1>2, Entries DEF Limiter

\* main() installs the limiters of its config.
LEMMA LimiterInit == Init => LimiterInv
  <1> SUFFICES ASSUME Init PROVE LimiterInv
    OBVIOUS
  <1>1. /\ live.config \in Configs
        /\ per_key = [k \in CallerKeys |->
                        IF k \in LimitedKeys(live.config) THEN Limiter(live.config.limit[k], 0) ELSE NoEntry]
    BY DEF Init
  <1>2. \A k \in LimitedKeys(live.config) :
          per_key[k] # NoEntry /\ per_key[k].limit = live.config.limit[k]
    <2> TAKE k \in LimitedKeys(live.config)
    <2>1. k \in CallerKeys
      BY DEF LimitedKeys
    <2>2. per_key[k] = Limiter(live.config.limit[k], 0)
      BY <1>1, <2>1
    <2>3. QED
      BY <1>1, <2>2, LimiterEntry
  <1>3. QED
    BY <1>2 DEF LimiterInv, LimitedKeysHaveLimiters

\* Installing comes before the swap, retaining after it.
LEMMA LimiterKeeps == TypeOK /\ ReloadInv /\ LimiterInv /\ [Next]_vars => LimiterInv'
  <1> SUFFICES ASSUME TypeOK, ReloadInv, LimiterInv, [Next]_vars PROVE LimiterInv'
    OBVIOUS
  <1>1. ASSUME NEW k \in CallerKeys, InstallKeyLimiter(k) PROVE LimiterInv'
    <2>1. /\ reload.phase = "install" /\ k \in LimitedKeys(reload.config)
          /\ per_key' = [per_key EXCEPT ![k] = Limiter(reload.config.limit[k], serial)]
          /\ reload' = reload /\ live' = live
      BY <1>1 DEF InstallKeyLimiter, NeedsInstall
    <2>2. reload.config \in Configs /\ serial \in Nat
      BY <2>1 DEF ReloadInv, TypeOK
    <2> DEFINE new == Limiter(reload.config.limit[k], serial)
    <2>3. new # NoEntry /\ new.limit = reload.config.limit[k]
      BY <2>1, <2>2, LimiterEntry
    <2> HIDE DEF new
    <2>4. \A j \in CallerKeys : per_key'[j] = IF j = k THEN new ELSE per_key[j]
      BY <2>1 DEF TypeOK, new
    <2>5. LimitedKeysHaveLimiters'
      <3> SUFFICES ASSUME NEW j \in LimitedKeys(live.config)
                   PROVE  /\ per_key'[j] # NoEntry
                          /\ \/ per_key'[j].limit = live.config.limit[j]
                             \/ per_key'[j].limit = reload.config.limit[j]
        BY <2>1 DEF LimitedKeysHaveLimiters
      <3>1. j \in CallerKeys
        BY DEF LimitedKeys
      <3>2. QED
        BY <2>3, <2>4, <3>1 DEF LimiterInv, LimitedKeysHaveLimiters
    <2>6. QED
      BY <2>1, <2>5 DEF LimiterInv
  <1>2. CASE Publish
    <2>1. /\ reload.phase = "install" /\ per_key' = per_key
          /\ live'.config = reload.config
          /\ \A k \in CallerKeys : ~NeedsInstall(k)
          /\ reload' = [reload EXCEPT !.phase = "retain"]
      BY <1>2 DEF Publish
    <2>2. reload'.phase = "retain"
      BY <2>1 DEF TypeOK
    <2>3. \A k \in LimitedKeys(live'.config) :
            per_key'[k] # NoEntry /\ per_key'[k].limit = live'.config.limit[k]
      BY <2>1 DEF NeedsInstall, LimitedKeys
    <2>4. QED
      BY <2>2, <2>3 DEF LimiterInv, LimitedKeysHaveLimiters
  <1>3. ASSUME NEW k \in CallerKeys, RetainKeyLimiter(k) PROVE LimiterInv'
    <2>1. /\ reload.phase = "retain" /\ k \notin LimitedKeys(reload.config)
          /\ per_key' = [per_key EXCEPT ![k] = NoEntry]
          /\ reload' = reload /\ live' = live
      BY <1>3 DEF RetainKeyLimiter
    <2>2. reload.config = live.config
      BY <2>1 DEF ReloadInv
    <2>3. \A j \in LimitedKeys(live.config) : j \in CallerKeys /\ per_key'[j] = per_key[j]
      BY <2>1, <2>2 DEF LimitedKeys, TypeOK
    <2>4. QED
      BY <2>1, <2>3 DEF LimiterInv, LimitedKeysHaveLimiters
  <1>4. CASE /\ live' = live /\ per_key' = per_key
             /\ \/ reload'.phase = reload.phase /\ reload'.config = reload.config
                \/ reload.phase \in {"idle", "ensure", "build", "retain"} /\ reload.phase # "install"
    BY <1>4 DEF LimiterInv, LimitedKeysHaveLimiters
  <1>5. \/ (\E cfg \in Configs : Begin(cfg)) \/ Ensure \/ Build \/ End
        \/ Collect \/ Tick
        \/ (\E r \in Requests : Pin(r) \/ (\E m \in Models : Call(r, m)) \/ Return(r))
        \/ UNCHANGED vars
        => LimiterInv'
    BY <1>4 DEF Begin, Ensure, Build, End, Collect, Tick, Pin, Call, Return, vars
  <1>6. QED
    BY <1>1, <1>2, <1>3, <1>5 DEF Next, ReloadStep

\* All of it holds in every reachable state.
LEMMA LimiterInvariant == Spec => [](TypeOK /\ ReloadInv /\ LimiterInv)
  BY ReloadInit, ReloadKeeps, LimiterInit, LimiterKeeps, PTL DEF Spec

\* No request ever sees a Runtime whose limiters are not in place.
THEOREM LimitersInPlace == Spec => []LimitedKeysHaveLimiters
  <1>1. LimiterInv => LimitedKeysHaveLimiters
    BY DEF LimiterInv
  <1>2. QED
    BY LimiterInvariant, <1>1, PTL

\* Only a changed limit gives a key a fresh bucket, and only a key without a
\* limit loses its own.
THEOREM LimitersSurvive == Spec => LimitersPreserved
  <1> DEFINE Kept == \A k \in CallerKeys : per_key[k] # NoEntry /\ per_key'[k] # per_key[k]
                       => \/ per_key'[k] # NoEntry /\ per_key'[k].limit # per_key[k].limit
                          \/ per_key'[k] = NoEntry /\ k \notin LimitedKeys(live.config)
  <1>1. TypeOK /\ ReloadInv /\ [Next]_vars => [Kept]_vars
    <2> SUFFICES ASSUME TypeOK, ReloadInv, [Next]_vars,
                        NEW k \in CallerKeys, per_key[k] # NoEntry, per_key'[k] # per_key[k]
                 PROVE  \/ per_key'[k] # NoEntry /\ per_key'[k].limit # per_key[k].limit
                        \/ per_key'[k] = NoEntry /\ k \notin LimitedKeys(live.config)
      OBVIOUS
    <2>1. ASSUME NEW j \in CallerKeys, InstallKeyLimiter(j)
          PROVE  per_key'[k] # NoEntry /\ per_key'[k].limit # per_key[k].limit
      <3>1. /\ reload.phase = "install" /\ j \in LimitedKeys(reload.config)
            /\ per_key[j] # NoEntry => per_key[j].limit # reload.config.limit[j]
            /\ per_key' = [per_key EXCEPT ![j] = Limiter(reload.config.limit[j], serial)]
        BY <2>1 DEF InstallKeyLimiter, NeedsInstall
      <3>2. reload.config \in Configs /\ serial \in Nat
        BY <3>1 DEF ReloadInv, TypeOK
      <3> DEFINE new == Limiter(reload.config.limit[j], serial)
      <3>3. new # NoEntry /\ new.limit = reload.config.limit[j]
        BY <3>1, <3>2, LimiterEntry
      <3> HIDE DEF new
      <3>4. j = k /\ per_key'[k] = new
        BY <3>1 DEF TypeOK, new
      <3>5. QED
        BY <3>1, <3>3, <3>4
    <2>2. ASSUME NEW j \in CallerKeys, RetainKeyLimiter(j)
          PROVE  per_key'[k] = NoEntry /\ k \notin LimitedKeys(live.config)
      <3>1. /\ reload.phase = "retain" /\ j \notin LimitedKeys(reload.config)
            /\ per_key' = [per_key EXCEPT ![j] = NoEntry]
        BY <2>2 DEF RetainKeyLimiter
      <3>2. j = k /\ per_key'[k] = NoEntry
        BY <3>1 DEF TypeOK
      <3>3. QED
        BY <3>1, <3>2 DEF ReloadInv
    <2>3. \/ per_key' = per_key
          \/ \E j \in CallerKeys : InstallKeyLimiter(j) \/ RetainKeyLimiter(j)
      BY DEF Next, ReloadStep, Begin, Ensure, Build, Publish, End, Collect, Tick,
             Pin, Call, Return, vars
    <2>4. QED
      BY <2>1, <2>2, <2>3
  <1>2. QED
    BY <1>1, ReloadInvariant, PTL DEF Spec, LimitersPreserved
=============================================================================
