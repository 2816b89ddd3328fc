----------------------------- MODULE MCHotReload -----------------------------
(* Configurations for TLC: two model names, two upstream identities, two     *)
(* governances, one inbound key.                                             *)
EXTENDS HotReload

CONSTANTS m1, m2, u1, u2, k1

\* key of m1, key of m2, governance of u1, rest, limit of k1
Cfg(a, b, g, rest, l) ==
  [key   |-> [m \in Models |-> IF m = m1 THEN a ELSE b],
   gov   |-> [u \in Upstreams |-> IF u = u1 THEN g ELSE "g1"],
   rest  |-> rest,
   limit |-> [k \in CallerKeys |-> l]]

Base       == Cfg(u1, NoEntry, "g1", "s1", "slow")
Added      == Cfg(u1, u2, "g1", "s1", "fast")
Renamed    == Cfg(NoEntry, u1, "g1", "s1", NoEntry)
Alias      == Cfg(u1, u1, "g1", "s1", "slow")
Moved      == Cfg(u2, NoEntry, "g1", "s1", "slow")
Tightened  == Cfg(u1, u2, "g2", "s1", "slow")
Rotated    == Cfg(u1, NoEntry, "g1", "s2", NoEntry)

MCConfigs == {Base, Added, Renamed, Alias, Moved, Tightened, Rotated}
=============================================================================
