----------------------------- MODULE MCReports -----------------------------
(***************************************************************************)
(* Logs of up to four rows: trades the engine may resolve, with every      *)
(* field that may be missing, and rows edited by hand.  An R has four      *)
(* units instead of 20000, and the tolerance is two roundings, not twenty, *)
(* so that a short log goes beyond it.                                     *)
(***************************************************************************)
EXTENDS Reports

Monday(h) == [day |-> 0, hour |-> h]

\* 2.25R, which the log rounds to 2.5R
Target ==
  [reason |-> "TP1_HIT", exit |-> 2, entry |-> Monday(9), rr |-> 9, risk |-> NoNumber,
   price |-> 10, stop |-> 14, points |-> 9]

Stop ==
  [reason |-> "SL_HIT", exit |-> 1, entry |-> [day |-> 4, hour |-> 9], rr |-> 8, risk |-> 2,
   price |-> 10, stop |-> 6, points |-> NoNumber]

Trade ==
  {Target, Stop,
   [Target EXCEPT !.risk = 2, !.exit = 1],
   [Target EXCEPT !.risk = 0, !.stop = 10, !.entry = [day |-> 6, hour |-> 23]],
   [Stop EXCEPT !.rr = NoNumber, !.exit = NoNumber],
   [Stop EXCEPT !.reason = "END_OF_DATA", !.risk = 1, !.exit = 3, !.entry = NoStamp]}

Edited ==
  {[RowOf(Target) EXCEPT !.outcome = "open"],
   [RowOf(Target) EXCEPT !.risk = NoNumber],
   [RowOf(Target) EXCEPT !.rr = NoNumber],
   [RowOf(Target) EXCEPT !.price = NoNumber, !.exit = 1]}

MCRows == {RowOf(t) : t \in Trade} \cup Edited

MCTables == UNION {[1 .. n -> MCRows] : n \in 0 .. 4}

MCLogs == UNION {[1 .. n -> {Columns(row) : row \in MCRows}] : n \in 0 .. 4}

=============================================================================
