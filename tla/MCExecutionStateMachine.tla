---------------------- MODULE MCExecutionStateMachine ----------------------
(***************************************************************************)
(* Two weeks of a two-tick day: Friday 22:00 falls on ticks 9 and 23.  The *)
(* candles offered close before, on and after both of them; a run feeds    *)
(* any of them in any order, so gaps of a week and refused candles occur.  *)
(***************************************************************************)
EXTENDS ExecutionStateMachine

MCOpens == {6, 7, 8, 9, 21, 22, 23}

MCConfigs ==
  {[provider |-> "single_trade", max |-> m] : m \in {1, 2}}
    \cup {[provider |-> "multi_trade", max |-> 1]}

=============================================================================
