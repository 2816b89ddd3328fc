--------------------------- MODULE BreakerContract ---------------------------
(***************************************************************************)
(* What the header of crates/moaray/src/breaker.rs promises of the breaker *)
(* of one upstream, whatever the calls do: it leaves Open only through a   *)
(* probe, at most one call probes at a time, and only NeededSuccesses      *)
(* consecutive probe successes close it.                                   *)
(***************************************************************************)
EXTENDS Naturals

CONSTANTS
  Clients,          \* the calls that may be elected to probe
  NeededSuccesses   \* half_open_successes

VARIABLES
  phase,      \* Closed, Open or HalfOpen, as callers see it
  probers,    \* the calls now testing the upstream: none or one
  confirmed   \* consecutive probe successes of this half-open period

contractVars == <<phase, probers, confirmed>>

ContractInit ==
  /\ phase = "Closed"
  /\ probers = {}
  /\ confirmed = 0

\* Enough calls failed in a row.
Trip ==
  /\ phase = "Closed"
  /\ phase' = "Open"
  /\ UNCHANGED <<probers, confirmed>>

\* A call is elected; a new half-open period starts from zero successes.
Elect(c) ==
  /\ phase \in {"Open", "HalfOpen"}
  /\ probers = {}
  /\ probers' = {c}
  /\ phase' = "HalfOpen"
  /\ confirmed' = IF phase = "Open" THEN 0 ELSE confirmed

\* The elected call ends without having tested the upstream.
Abandon ==
  /\ phase = "HalfOpen" /\ probers # {}
  /\ probers' = {}
  /\ UNCHANGED <<phase, confirmed>>

Confirm ==
  /\ phase = "HalfOpen" /\ probers # {}
  /\ confirmed + 1 < NeededSuccesses
  /\ probers' = {}
  /\ confirmed' = confirmed + 1
  /\ UNCHANGED phase

Recover ==
  /\ phase = "HalfOpen" /\ probers # {}
  /\ confirmed + 1 >= NeededSuccesses
  /\ phase' = "Closed"
  /\ probers' = {}
  /\ confirmed' = 0

Relapse ==
  /\ phase = "HalfOpen" /\ probers # {}
  /\ phase' = "Open"
  /\ probers' = {}
  /\ confirmed' = 0

ContractNext ==
  \/ Trip
  \/ \E c \in Clients : Elect(c)
  \/ Abandon \/ Confirm \/ Recover \/ Relapse

ContractSpec == ContractInit /\ [][ContractNext]_contractVars
=============================================================================
