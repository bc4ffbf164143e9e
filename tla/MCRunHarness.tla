---------------------------- MODULE MCRunHarness ----------------------------
(***************************************************************************)
(* The base preset of the repository with one example configuration and    *)
(* its plausible edits; the command line's requests, with and without      *)
(* --out_root, and the requests another caller of run() may make.          *)
(***************************************************************************)
EXTENDS RunConfigVerifier, TLC

MCObjects   == {"{M5,H1}", "{other}", "{no M5}", "{broken}", "{M5:1.0}", "{M5:1}"}
MCFrozen    == [v \in {"1.0", "0.0", "{M5:1.0}"} |->
                  CASE v = "1.0" -> "1" [] v = "0.0" -> "0" [] OTHER -> "{M5:1}"]
MCLoadable  == {"{M5,H1}", "{other}", "{no M5}"}
MCHasM5     == {"{M5,H1}", "{other}"}
MCTimestamps == {"09:00", "10:00", "17:00", FirstM5Close}
MCBaseNames == {"executed_trade_log.csv", "blocked_candidates_log.csv",
                "audit_header.json", "public_diagnostics.csv"}
MCSinkNames ==
  [v \in {"[public]", "[executed]", "[header]", "[twice]"} |->
     CASE v = "[public]"   -> <<"public_diagnostics.csv">>
       [] v = "[executed]" -> <<"public_diagnostics.csv", "executed_trade_log.csv">>
       [] v = "[header]"   -> <<"audit_header.json">>
       [] v = "[twice]"    -> <<"public_diagnostics.csv", "public_diagnostics.csv">>]

Base ==
  [execution_mode |-> "backtest", adapter_type |-> "CSV", csv_paths |-> "{M5,H1}",
   diagnostics_enabled |-> "false", run_output_root |-> "runs"]

Example ==
  [evaluation_start_timestamp |-> "09:00", evaluation_end_timestamp |-> "17:00",
   diagnostics_enabled |-> "true", diagnostic_sinks_enabled |-> "[public]"]

Edits ==
  {[run_output_root |-> "elsewhere"], [run_output_root |-> ""],
   [execution_mode |-> "demo"], [adapter_type |-> "BROKER"], [csv_paths |-> "{no M5}"],
   [csv_paths |-> "{broken}"], [evaluation_start_timestamp |-> "10:00"],
   [evaluation_start_timestamp |-> "1.0"], [evaluation_end_timestamp |-> "soon"],
   [diagnostic_sinks_enabled |-> "[executed]"], [diagnostic_sinks_enabled |-> "[header]"],
   [diagnostic_sinks_enabled |-> "[twice]"],
   [diagnostic_sinks_enabled |-> "public_diagnostics.csv"], [run_id |-> "mine"],
   [execution_mode |-> "live"], [execution_mode |-> "replay"],
   [evaluation_start_timestamp |-> "null"], [evaluation_end_timestamp |-> "0.0"],
   [csv_paths |-> "{M5:1.0}"], [csv_paths |-> "null"], [diagnostics_enabled |-> "null"],
   [diagnostic_verbosity |-> "loud"], [strategy_provider |-> "null"],
   [max_open_positions |-> "1.0"], [max_open_positions |-> "0"],
   [max_open_positions |-> "true"]}

MCSources ==
  {Example, Unreadable,
   [evaluation_end_timestamp |-> "17:00"], [execution_mode |-> "demo"]}
    \cup {e @@ Example : e \in Edits}

CommandLine ==
  [wellFormed |-> TRUE, mode |-> "backtest", adapterType |-> "CSV", params |-> <<>>,
   start |-> "null", end |-> "null", outRoot |-> "null", base |-> Base, overrides |-> <<>>]

MCRequests ==
  {CommandLine,
   [CommandLine EXCEPT !.outRoot = "out", !.overrides = [run_output_root |-> "out"]],
   [CommandLine EXCEPT !.outRoot = "", !.overrides = [run_output_root |-> ""]],
   [CommandLine EXCEPT !.wellFormed = FALSE],
   [CommandLine EXCEPT !.overrides = [max_open_positions |-> "2", strategy_provider |-> "1.0"]],
   [CommandLine EXCEPT !.base = [evaluation_start_timestamp |-> "0.0",
                                 max_open_positions |-> "1.0"] @@ Base],
   [CommandLine EXCEPT !.base = Unreadable],
   [CommandLine EXCEPT !.start = "10:00", !.end = "17:00"],
   [CommandLine EXCEPT !.start = "10:00", !.mode = "demo", !.params = [csv_paths |-> "{other}"]],
   [CommandLine EXCEPT !.mode = "demo"],
   [CommandLine EXCEPT !.mode = "live"],
   [CommandLine EXCEPT !.adapterType = "BROKER"],
   [CommandLine EXCEPT !.base = [run_id |-> "mine"] @@ Base],
   [CommandLine EXCEPT !.params = [adapter_type |-> "BROKER"]]}

\* The run's configuration is not the example file the verifier falls back on.
MCOtherFiles == [p \in {DefaultConfig} |-> Example]

MCCommandLines ==
  {<<>>, <<Option, "out">>, <<"run">>, <<"run", "mine.json">>,
   <<"run", Option, "out">>, <<"run", "mine.json", Option>>,
   <<"run", "mine.json", Option, "out">>, <<"run", "mine.json", Option, "runs">>,
   <<Option, "out", "run", "mine.json">>, <<"mine.json", "run">>}

=============================================================================
