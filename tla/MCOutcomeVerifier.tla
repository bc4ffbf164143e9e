------------------------- MODULE MCOutcomeVerifier -------------------------
(***************************************************************************)
(* Prices 1 to 3, with the stop at 1 and the target at 3; every shape of   *)
(* up to three candles after the entry, and logs of up to three trades of  *)
(* which two are checked.                                                  *)
(***************************************************************************)
EXTENDS OutcomeVerifier

Shapes == {[low |-> 1, high |-> 1], [low |-> 2, high |-> 2], [low |-> 3, high |-> 3],
           [low |-> 1, high |-> 3]}

MCFile(shapes) ==
  [i \in 1 .. Len(shapes) |-> [close |-> i, low |-> shapes[i].low, high |-> shapes[i].high]]

MCM5Files == {MCFile(s) : s \in UNION {[1 .. n -> Shapes] : n \in 1 .. 4}}

MCTrade(entry, exit, outcome) ==
  [entry |-> entry, exit |-> exit, sl |-> 1, tp1 |-> 3, outcome |-> outcome]

MCTrades ==
  {MCTrade(1, 2, "win"), MCTrade(1, 3, "win"), MCTrade(2, 4, "win"), MCTrade(1, 3, "loss"),
   MCTrade(2, 4, "open"), MCTrade(2, 2, "win"), MCTrade(NoTime, 3, "win"), MCTrade(1, NoTime, "loss")}

MCLogs == {<<t>> : t \in MCTrades}
            \cup {<<t, u>> : t \in MCTrades, u \in {MCTrade(1, 3, "win")}}
            \cup {<<t, t, t>> : t \in MCTrades}

=============================================================================
