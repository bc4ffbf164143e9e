------------------------------ MODULE Reports ------------------------------
(***************************************************************************)
(* The three programs that report on one executed-trade log: max_drawdown_r*)
(* (MaxDrawdown), verify_realised_r, and run_full_breakdown.  They are     *)
(* commands of their own that share nothing but the file, which none of    *)
(* them changes, so one order of running them stands for all.              *)
(*                                                                         *)
(* The log is a sequence of rows as in TradeLog; its columns are found by  *)
(* their names in the header, which is not modelled.  The R that points    *)
(* stand for is a whole number of units.                                   *)
(***************************************************************************)
EXTENDS MaxDrawdown, FiniteSets

CONSTANTS
  Tables,      \* executed-trade logs: sequences of rows
  Tolerance    \* the discrepancy that is reported as a match, 0.001R

Number == Int \cup {NoNumber}
Days   == 0 .. 6
Hours  == 0 .. 23

Row == [exit : Int, entry : [day : Days, hour : Hours] \cup {NoStamp}, outcome : STRING,
        rr : Number, risk : Number, price : Number, stop : Number, points : Number]

ASSUME ReportsAssumption == Tables \subseteq Seq(Row) /\ Tolerance \in Nat

VARIABLES
  table,
  phase,      \* of verify_realised_r: "reading", "done", or "crashed"
  read,       \* the rows it has read
  wins, losses, fromRR, fromPoints,
  tallied,    \* the rows run_full_breakdown has read
  byDay, byHour, summary

verifier  == <<phase, read, wins, losses, fromRR, fromPoints>>
breakdown == <<tallied, byDay, byHour, summary>>

\* The columns max_drawdown_r reads.
Columns(row) == [exit |-> row.exit, outcome |-> row.outcome, rr |-> row.rr, risk |-> row.risk]

NoTrades == [w |-> 0, l |-> 0, r |-> 0]

ReportsInit ==
  /\ table \in Tables
  /\ rows = [i \in 1 .. Len(table) |-> Columns(table[i])]
  /\ Init
  /\ phase = "reading" /\ read = 0
  /\ wins = 0 /\ losses = 0 /\ fromRR = 0 /\ fromPoints = 0
  /\ tallied = 0 /\ summary = NoTrades
  /\ byDay = [d \in Days |-> NoTrades] /\ byHour = [h \in Hours |-> NoTrades]

---------------------------------------------------------------------------
(* verify_realised_r: R from the columns, and again from the points.       *)

Readable(row) ==
  /\ row.outcome \in {"win", "loss"}
  /\ row.rr # NoNumber /\ row.risk # NoNumber

Stake(row) == IF row.risk <= 0 THEN 1 ELSE row.risk

\* Method A
FromRR(row) == IF row.outcome = "win" THEN row.rr * Stake(row) ELSE -(One * Stake(row))

Distance(row) ==
  IF row.price >= row.stop THEN row.price - row.stop ELSE row.stop - row.price

Priced(row) ==
  /\ row.price # NoNumber /\ row.stop # NoNumber /\ row.points # NoNumber
  /\ Distance(row) > 0

FromPoints_lossOfOne(row) ==
  IF row.outcome # "win" THEN -One
  ELSE IF Priced(row) THEN (One * row.points) \div Distance(row) ELSE FromRR(row)

\* Method B, which falls back on A for losses and rows without usable prices.
FromPoints(row) ==
  IF row.outcome = "win" /\ Priced(row) THEN (One * row.points) \div Distance(row)
  ELSE FromRR(row)

AtRow == phase = "reading" /\ read < Len(table) /\ read' = read + 1

Count(row) ==
  /\ fromRR' = fromRR + FromRR(row)
  /\ fromPoints' = fromPoints + FromPoints(row)

SkipRow ==
  /\ AtRow
  /\ ~Readable(table[read'])
  /\ UNCHANGED <<phase, wins, losses, fromRR, fromPoints>>

CountWin ==
  /\ AtRow
  /\ Readable(table[read']) /\ table[read'].outcome = "win"
  /\ wins' = wins + 1
  /\ Count(table[read'])
  /\ UNCHANGED <<phase, losses>>

CountLoss ==
  /\ AtRow
  /\ Readable(table[read']) /\ table[read'].outcome = "loss"
  /\ losses' = losses + 1
  /\ Count(table[read'])
  /\ UNCHANGED <<phase, wins>>

\* Without a win, the smallest RR is None and cannot be formatted.
PrintReport ==
  /\ phase = "reading" /\ read = Len(table)
  /\ phase' = IF wins = 0 THEN "crashed" ELSE "done"
  /\ UNCHANGED <<read, wins, losses, fromRR, fromPoints>>

Match == fromRR - fromPoints \in -Tolerance .. Tolerance

---------------------------------------------------------------------------
(* run_full_breakdown: the rows by day of the week and by hour of entry.   *)

Listed_likeVerifier(row) == Readable(row)

Listed(row) == row.outcome \in {"win", "loss"} /\ row.rr # NoNumber

RiskOf(row) == IF row.risk = NoNumber THEN 1 ELSE Stake(row)

RealisedOf(row) ==
  IF row.outcome = "win" THEN row.rr * RiskOf(row) ELSE -(One * RiskOf(row))

\* A time stamp that does not parse is counted on a Monday at 00:00.
EntryOf(row) == IF row.entry = NoStamp THEN [day |-> 0, hour |-> 0] ELSE row.entry

Plus(line, row) ==
  [w |-> IF row.outcome = "win" THEN line.w + 1 ELSE line.w,
   l |-> IF row.outcome = "win" THEN line.l ELSE line.l + 1,
   r |-> line.r + RealisedOf(row)]

Tally_hourOfLast(row) ==
  /\ byDay' = [byDay EXCEPT ![EntryOf(row).day] = Plus(@, row)]
  /\ byHour' = [byHour EXCEPT ![EntryOf(row).hour] = Plus(summary, row)]
  /\ summary' = Plus(summary, row)

Tally(row) ==
  /\ byDay' = [byDay EXCEPT ![EntryOf(row).day] = Plus(@, row)]
  /\ byHour' = [byHour EXCEPT ![EntryOf(row).hour] = Plus(@, row)]
  /\ summary' = Plus(summary, row)

TallyRow ==
  /\ tallied < Len(table) /\ tallied' = tallied + 1
  /\ IF Listed(table[tallied']) THEN Tally(table[tallied'])
     ELSE UNCHANGED <<byDay, byHour, summary>>

---------------------------------------------------------------------------

Verify == SkipRow \/ CountWin \/ CountLoss \/ PrintReport

ReportsNext ==
  \/ Next /\ UNCHANGED <<table, verifier, breakdown>>
  \/ sorted /\ done = Len(rows) /\ Verify /\ UNCHANGED <<table, vars, breakdown>>
  \/ phase # "reading" /\ TallyRow /\ UNCHANGED <<table, vars, verifier>>

reportsVars == <<table, vars, verifier, breakdown>>

ReportsSpec == ReportsInit /\ [][ReportsNext]_reportsVars

---------------------------------------------------------------------------
(* Properties.                                                             *)

AllRead == phase # "reading" /\ tallied = Len(table)

(* The three programs agree on the realised R of a log but for the rows     *)
(* they treat differently: what is no win costs its risk in the drawdown's  *)
(* total even when the others skip it, and a row without a risk counts as   *)
(* one R in the breakdown and not at all in the verification.               *)
ToolsAgree ==
  AllRead =>
    LET Skipped == {i \in 1 .. Len(table) : ~Listed(table[i]) /\ table[i].outcome # "win"}
        NoRisk  == {i \in 1 .. Len(table) : Listed(table[i]) /\ ~Readable(table[i])}
    IN  /\ summary.r - cum = One * SumFunction([i \in Skipped |-> RiskOf(table[i])])
        /\ summary.r - fromRR = SumFunction([i \in NoRisk |-> RealisedOf(table[i])])
        /\ summary.w + summary.l = wins + losses + Cardinality(NoRisk)

Counted == {i \in 1 .. tallied : Listed(table[i])}

Trades(line, In) ==
  /\ line.w = Cardinality({i \in In : table[i].outcome = "win"})
  /\ line.w + line.l = Cardinality(In)
  /\ line.r = SumFunction([i \in In |-> RealisedOf(table[i])])

EnteredOn(d)  == {i \in Counted : table[i].entry # NoStamp /\ table[i].entry.day = d}
EnteredAt(h)  == {i \in Counted : table[i].entry # NoStamp /\ table[i].entry.hour = h}

AddUp(lines) ==
  \A column \in DOMAIN summary :
    SumFunction([k \in DOMAIN lines |-> lines[k][column]]) = summary[column]

(* In a log whose times of entry can all be read, each line of the two      *)
(* breakdowns holds exactly the trades entered on its day or in its hour;   *)
(* in any log, both tables add up to the totals, which are those of the     *)
(* trades counted.                                                          *)
BreakdownsAddUp ==
  /\ (\A i \in Counted : table[i].entry # NoStamp) =>
       /\ \A d \in Days : Trades(byDay[d], EnteredOn(d))
       /\ \A h \in Hours : Trades(byHour[h], EnteredAt(h))
  /\ AddUp(byDay) /\ AddUp(byHour)
  /\ Trades(summary, Counted)

(* As the report's headings have it, a line is of the trades whose candle   *)
(* of entry is of that day or hour.                                         *)
LinesHoldTheirTrades ==
  /\ \A d \in Days : Trades(byDay[d], EnteredOn(d))
  /\ \A h \in Hours : Trades(byHour[h], EnteredAt(h))

(* Wins of one R at stake whose RR is, but for the rounding of its column,  *)
(* what their points say, are reported as a match as long as the roundings  *)
(* cannot add up to more than the tolerance: for twenty wins.  Risks of     *)
(* losses do not matter.                                                    *)
Faithful(row) ==
  Readable(row) /\ row.outcome = "win" =>
    /\ Stake(row) = 1
    /\ 2 * (row.rr - FromPoints(row)) \in -Grid .. Grid

MatchWithinRounding ==
  (\A i \in 1 .. read : Faithful(table[i])) /\ wins * Grid <= 2 * Tolerance => Match

=============================================================================
