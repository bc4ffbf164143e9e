--------------------------- MODULE ConfigResolver ---------------------------
(***************************************************************************)
(* Contract 3, resolve_config: the base preset, the configuration source   *)
(* and the overrides merged into one validated snapshot.                   *)
(*                                                                         *)
(* A layer is a function from the keys it mentions to JSON values, and a   *)
(* value is its JSON text (strings without their quotes).  The canonical   *)
(* text of a snapshot determines it, so its SHA-256 digest is identified   *)
(* with the snapshot.  What resolve_config raises is one refusal here,     *)
(* whether its own guardrail or Python raised it.                          *)
(***************************************************************************)
CONSTANTS
  Objects,       \* texts of JSON objects, the values csv_paths may have
  Frozen,        \* what freezing changes: integral floats, alone or in an object
  PositiveInts   \* isinstance(v, int) and v >= 1: true is an int, 1.0 is not

AllowedKeys ==
  {"execution_mode", "evaluation_start_timestamp", "evaluation_end_timestamp",
   "adapter_type", "csv_paths", "strategy_provider", "execution_policy_provider",
   "diagnostics_enabled", "diagnostic_sinks_enabled", "diagnostic_verbosity",
   "run_output_root", "run_output_naming_scheme", "max_open_positions"}

FiniteModes == {"backtest", "replay"}
Modes       == FiniteModes \cup {"demo"}
Booleans    == {"true", "false"}
Verbosities == {"low", "normal", "high"}
Falsy       == {"null", "false", "0", "0.0", "", "[]", "{}"}

ASSUME ResolverAssumption ==
  /\ {"1", "true"} \subseteq PositiveInts /\ PositiveInts \cap Falsy = {}
  /\ \A v \in DOMAIN Frozen : Frozen[v] \notin DOMAIN Frozen
  /\ \A v \in DOMAIN Frozen : v \in Falsy <=> Frozen[v] \in Falsy
  /\ \A v \in DOMAIN Frozen : v \in Objects <=> Frozen[v] \in Objects
  /\ DOMAIN Frozen \cap (Modes \cup Booleans \cup Verbosities \cup PositiveInts
                           \cup {"null", "CSV"}) = {}

Defaults ==
  [diagnostics_enabled       |-> "false",
   diagnostic_verbosity      |-> "normal",
   max_open_positions        |-> "1",
   strategy_provider         |-> "withheld",
   execution_policy_provider |-> "single_trade"]

---------------------------------------------------------------------------

\* A layer that is missing, no JSON, or no object is refused like one with an
\* unknown key.
Unreadable == [unreadable |-> "true"]

\* layer.get(key)
Get(layer, key) == IF key \in DOMAIN layer THEN layer[key] ELSE "null"

\* lower.update(upper)
Over(upper, lower) ==
  [k \in DOMAIN upper \cup DOMAIN lower |->
     IF k \in DOMAIN upper THEN upper[k] ELSE lower[k]]

Given(env) == Over(env.overrides, Over(env.source, env.base))

Layers(env) == {env.base, env.source, env.overrides}

\* _validate_keys, on all three layers; no forbidden key is an allowed one
KeysAllowed_sourceOnly(env) == DOMAIN env.source \subseteq AllowedKeys

KeysAllowed(env) == \A layer \in Layers(env) : DOMAIN layer \subseteq AllowedKeys

\* Overrides win over the source, the source over the base; a default applies
\* only to a key that no layer mentions.
Merged(env) == Over(Given(env), Defaults)

Valid_noBoundaries(m) ==
  /\ Get(m, "execution_mode") \in Modes
  /\ Get(m, "adapter_type") = "CSV"
  /\ Get(m, "csv_paths") \in Objects

Valid(m) ==
  /\ Get(m, "execution_mode") \in Modes
  /\ Get(m, "adapter_type") = "CSV"
  /\ Get(m, "csv_paths") \in Objects
  /\ m["diagnostics_enabled"] \in Booleans
  /\ m["diagnostic_verbosity"] \in Verbosities
  /\ m["max_open_positions"] \in PositiveInts
  /\ m["execution_mode"] \in FiniteModes =>
       /\ Get(m, "evaluation_start_timestamp") \notin Falsy
       /\ Get(m, "evaluation_end_timestamp") \notin Falsy

\* _freeze_for_json: bool is tested before float, and stays what it is
Freeze_boolAsInt(v) == CASE v = "true" -> "1" [] v = "false" -> "0" [] OTHER -> v

Freeze(v) == IF v \in DOMAIN Frozen THEN Frozen[v] ELSE v

Accepted(env) ==
  /\ KeysAllowed(env)
  /\ Valid(Merged(env))

Snapshot(env) == [k \in DOMAIN Merged(env) |-> Freeze(Merged(env)[k])]

=============================================================================
