------------------------------ MODULE TradeLog ------------------------------
(***************************************************************************)
(* Contract 15, log_executed_trade: the columns of a row that other        *)
(* programs read, as a function of the resolved trade.  How the row gets   *)
(* to the file is MandatorySink's subject.                                 *)
(*                                                                         *)
(* RR is counted in units, One of them to an R and Grid of them to the     *)
(* fourth decimal, which is the last one the row keeps; risk in whole R.   *)
(* Prices and points keep six decimals and are taken as exact.  A time of  *)
(* entry is the [day, hour] it falls in; of an exit, its rank.             *)
(***************************************************************************)
EXTENDS Integers

CONSTANTS
  NoNumber,   \* None in a trade; in a row, a field that float() refuses
  NoStamp,    \* no time of entry, or one that cannot be parsed
  One, Grid

ASSUME LogAssumption ==
  /\ NoNumber \notin Int
  /\ One \in Nat \ {0} /\ Grid \in Nat \ {0}

\* f"{x:.4f}", with ties upwards (in binary they fall either way).
FourDecimals(x) == Grid * ((x + Grid \div 2) \div Grid)

\* Blank exit time stamps sort before all others.
BlankExit == -1

\* Any end but a target hit is a loss; only a missing risk or result has a
\* default, a missing RR is left blank.
RowOf(trade) ==
  [exit    |-> IF trade.exit = NoNumber THEN BlankExit ELSE trade.exit,
   entry   |-> trade.entry,
   outcome |-> IF trade.reason = "TP1_HIT" THEN "win" ELSE "loss",
   rr      |-> IF trade.rr = NoNumber THEN NoNumber ELSE FourDecimals(trade.rr),
   risk    |-> IF trade.risk = NoNumber THEN 1 ELSE trade.risk,
   price   |-> trade.price,
   stop    |-> trade.stop,
   points  |-> IF trade.points = NoNumber THEN 0 ELSE trade.points]

=============================================================================
