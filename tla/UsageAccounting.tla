-------------------------- MODULE UsageAccounting --------------------------
(***************************************************************************)
(* From the usage an upstream reports to the tokens, status and cost of a  *)
(* row: parse_usage_tokens (common.rs), usage_tokens (anthropic_map.rs),   *)
(* extract_tokens (orchestrator.rs), usage_status (app.rs), compute_cost   *)
(* (moaray-core/src/usage.rs).  Pure functions of i64 values.              *)
(*                                                                         *)
(* A usage is NoUsage (no such key), NullUsage (the key holds null), or    *)
(* [prompt, completion], each of which may be Null: not reported.          *)
(***************************************************************************)
EXTENDS Integers

CONSTANTS
  Null,       \* SQL NULL, Option::None, a missing JSON field
  NoUsage,    \* the response has no usage key
  NullUsage,  \* the response says usage: null
  Mtok,       \* 1_000_000
  MaxI64      \* i64::MAX

ASSUME AccountingAssumption ==
  /\ Mtok \in Nat \ {0}
  /\ MaxI64 \in Nat
  /\ Null \notin Int

IsObject(usage) == usage \notin {NoUsage, NullUsage}

OrZero(tokens) == IF tokens = Null THEN 0 ELSE tokens
Pair(p, c) == [prompt |-> p, completion |-> c]
Unmeasured == Pair(Null, Null)

\* Tokens or prices of both sides.
Amounts == [prompt : Nat \cup {Null}, completion : Nat \cup {Null}]

\* parse_usage_tokens: a side that is missing is 0 if the other is there.
ParseUsageTokens(usage) ==
  IF ~IsObject(usage) \/ usage = Unmeasured THEN Unmeasured
  ELSE Pair(OrZero(usage.prompt), OrZero(usage.completion))

\* usage_tokens, under AnthropicProvider::passthrough: whatever the key holds
\* counts as present.  (u64 to i64: the counts are taken to fit.)
UsageTokens(usage) ==
  CASE usage = NoUsage -> Unmeasured
    [] usage = NullUsage -> Pair(0, 0)
    [] OTHER -> Pair(OrZero(usage.prompt), OrZero(usage.completion))

\* extract_tokens, for an arm of a MoA run: each side for itself.
ExtractTokens(usage) == IF IsObject(usage) THEN usage ELSE Unmeasured

Priced(price) == price.prompt # Null /\ price.completion # Null
Measured(tokens) == tokens.prompt # Null /\ tokens.completion # Null

UsageStatus(tokens, price) ==
  IF ~Measured(tokens) THEN "ok_no_usage" ELSE IF Priced(price) THEN "ok" ELSE "unpriced"

\* round_div: half up, for one side.  (i128: no overflow here.)
RoundDiv(tokens, price) == (tokens * price + Mtok \div 2) \div Mtok

Clamped(cost) == IF cost < 0 THEN 0 ELSE IF cost > MaxI64 THEN MaxI64 ELSE cost

\* Mutants of ComputeCost: rounded down; saturation forgotten.
TruncatedCost(tokens, price) ==
  IF ~Measured(tokens) \/ ~Priced(price) THEN Null
  ELSE Clamped((tokens.prompt * price.prompt) \div Mtok
                 + (tokens.completion * price.completion) \div Mtok)

ComputeCost(tokens, price) ==
  IF ~Measured(tokens) \/ ~Priced(price) THEN Null
  ELSE Clamped(RoundDiv(tokens.prompt, price.prompt)
                 + RoundDiv(tokens.completion, price.completion))

\* The row of a call that was answered.
RowOf(tokens, price) ==
  [prompt |-> tokens.prompt, completion |-> tokens.completion,
   status |-> UsageStatus(tokens, price), cost |-> ComputeCost(tokens, price)]

-----------------------------------------------------------------------------
(* What a row must say *)

\* Two roundings to the nearest nano-dollar, and saturation.
Accurate(cost, exact) ==
  \/ cost * Mtok \in (exact - Mtok)..(exact + Mtok)
  \/ cost = MaxI64 /\ exact + Mtok >= MaxI64 * Mtok

UnmeasuredRow == [prompt |-> Null, completion |-> Null, status |-> "ok_no_usage", cost |-> Null]

\* Tokens that were measured are on the row as they are, and cost what they cost.
MeasuredRow(row, usage, price) ==
  /\ row.prompt = usage.prompt /\ row.completion = usage.completion
  /\ IF Priced(price)
     THEN /\ row.status = "ok"
          /\ Accurate(row.cost, usage.prompt * price.prompt + usage.completion * price.completion)
     ELSE row.status = "unpriced" /\ row.cost = Null
=============================================================================
