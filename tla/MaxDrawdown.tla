---------------------------- MODULE MaxDrawdown ----------------------------
(***************************************************************************)
(* tools/max_drawdown_r.py: the rows of an executed-trade log, sorted by   *)
(* exit time stamp, and one pass that finds the deepest fall of cumulative *)
(* R below an earlier peak.                                                *)
(*                                                                         *)
(* R is counted in the units of TradeLog (the program adds floats).  A row *)
(* too short for the columns it needs is not in the log.  Time stamps of   *)
(* rows are kept as the rows' positions.                                   *)
(***************************************************************************)
EXTENDS TradeLog, Sequences, Functions

CONSTANT Logs    \* logs: sequences of the columns this program reads

LogRow == [exit : Int, outcome : STRING, rr : Int \cup {NoNumber},
           risk : Int \cup {NoNumber}]

ASSUME DrawdownAssumption == Logs \subseteq Seq(LogRow)

VARIABLES
  rows,
  sorted,     \* has rows.sort() been done?
  done,       \* rows accumulated so far
  cum, peak, maxDD,
  peakAt,     \* peak_ts, 0 for None
  ddPeakAt, ddPeak,    \* dd_peak_ts and dd_peak_cum
  troughAt, trough,    \* trough_ts and trough_cum
  equity      \* history: cumulative R after each row

best == <<maxDD, ddPeakAt, ddPeak, troughAt, trough>>
vars == <<rows, sorted, done, cum, peak, peakAt, best, equity>>

Init ==
  /\ rows \in Logs
  /\ sorted = FALSE
  /\ done = 0 /\ cum = 0 /\ peak = 0 /\ peakAt = 0
  /\ maxDD = 0 /\ ddPeakAt = 0 /\ ddPeak = 0 /\ troughAt = 0 /\ trough = 0
  /\ equity = <<>>

---------------------------------------------------------------------------

\* A missing RR counts for nothing, a missing or useless risk for one.
RR(row) == IF row.rr = NoNumber THEN 0 ELSE row.rr

Risk(row) == IF row.risk = NoNumber \/ (row.risk # NoNumber /\ row.risk <= 0) THEN 1
             ELSE row.risk

Realised(row) == IF row.outcome = "win" THEN RR(row) * Risk(row) ELSE -(One * Risk(row))

Before_unsorted(i, j) == i < j

\* The sort is stable.
Before(i, j) == rows[i].exit < rows[j].exit \/ (rows[i].exit = rows[j].exit /\ i < j)

Sort ==
  /\ ~sorted
  /\ \E p \in [1 .. Len(rows) -> 1 .. Len(rows)] :
       /\ \A a, b \in 1 .. Len(rows) : a < b => Before(p[a], p[b])
       /\ rows' = [r \in 1 .. Len(rows) |-> rows[p[r]]]
  /\ sorted' = TRUE
  /\ UNCHANGED <<done, cum, peak, peakAt, best, equity>>

RaisePeak_latest == peak' = cum' /\ peakAt' = done + 1

RaisePeak ==
  \/ cum' > peak /\ peak' = cum' /\ peakAt' = done + 1
  \/ cum' <= peak /\ UNCHANGED <<peak, peakAt>>

TakeDeepest_latestPeak ==
  /\ ddPeakAt' = peakAt' /\ ddPeak' = peak'
  /\ \/ /\ peak' - cum' > maxDD
        /\ maxDD' = peak' - cum'
        /\ troughAt' = done + 1 /\ trough' = cum'
     \/ /\ peak' - cum' <= maxDD
        /\ UNCHANGED <<maxDD, troughAt, trough>>

TakeDeepest ==
  \/ /\ peak' - cum' > maxDD
     /\ maxDD' = peak' - cum'
     /\ ddPeakAt' = peakAt' /\ ddPeak' = peak'
     /\ troughAt' = done + 1 /\ trough' = cum'
  \/ /\ peak' - cum' <= maxDD
     /\ UNCHANGED best

NextRow_fromTheEnd == rows[Len(rows) - done]

NextRow == rows[done + 1]

Accumulate ==
  /\ sorted /\ done < Len(rows)
  /\ cum' = cum + Realised(NextRow)
  /\ RaisePeak
  /\ TakeDeepest
  /\ done' = done + 1
  /\ equity' = Append(equity, cum')
  /\ UNCHANGED <<rows, sorted>>

Next == Sort \/ Accumulate

Spec == Init /\ [][Next]_vars

---------------------------------------------------------------------------
(* Properties.                                                             *)

\* Cumulative R after k rows; before the first row it is nothing.
Level(curve, k) == IF k = 0 THEN 0 ELSE curve[k]

Equity(k) == Level(equity, k)

\* Shape of the state; the equity curve is the running sum of the rows.
TypeOK ==
  /\ rows \in Seq(LogRow)
  /\ sorted \in BOOLEAN
  /\ done \in 0 .. Len(rows)
  /\ equity \in Seq(Int) /\ Len(equity) = done
  /\ cum = Equity(done)
  /\ \A k \in 1 .. done : Equity(k) = Equity(k - 1) + Realised(rows[k])

(* What is reported as the maximum drawdown is one: no fall of the equity   *)
(* curve from an earlier point to a later one is deeper, from the start of  *)
(* the log or from any row.                                                 *)
DrawdownIsDeepest ==
  \A a, b \in 0 .. done : a <= b => Equity(a) - Equity(b) <= maxDD

(* The reported peak and trough are points of the curve, in that order, and *)
(* their distance is the reported drawdown.                                 *)
ReportIsConsistent ==
  maxDD > 0 =>
    /\ ddPeakAt \in 0 .. done /\ troughAt \in 1 .. done /\ ddPeakAt < troughAt
    /\ ddPeak = Equity(ddPeakAt) /\ trough = Equity(troughAt)
    /\ maxDD = ddPeak - trough

(* What is printed beside a time stamp is what the log says of that time:   *)
(* when no other trade closed at the same moment, the reported peak (or     *)
(* trough) is the R of all trades of the log that had closed by then,       *)
(* wherever in the file they are.                                           *)
ClosedBy(t) == {i \in 1 .. Len(rows) : rows[i].exit <= t}

ClosesAlone(k) == \A i \in 1 .. Len(rows) : i # k => rows[i].exit # rows[k].exit

HasItsTime(k, amount) ==
  k > 0 /\ ClosesAlone(k) =>
    amount = SumFunction([i \in ClosedBy(rows[k].exit) |-> Realised(rows[i])])

ReportIsDated == HasItsTime(ddPeakAt, ddPeak) /\ HasItsTime(troughAt, trough)

=============================================================================
